\* Both ends have closed, a call is settled or the bounds are used up in the end: deadlock is not checked.
CONSTANTS
    SeqModulus = 16
    Ordered = FALSE
    Quiet = TRUE
    Retransmit = TRUE
    Rekeyers = {"initiator", "responder"}
    MaxData = 2
    MaxRekey = 4
    Kind = {"unary", "server-stream", "subscribe", "client-stream", "bidi",
            "command-channel", "bulk-transfer", "telemetry", "remote-shell",
            "agent-session", "http-bridge"}
    MaxIn = 2
    MaxOut = 2
SPECIFICATION MCSpec
INVARIANTS NoNonceReuse StreamKeysAgree CallFaithful
PROPERTIES ChannelSpec StreamProgress SettledOnce CallSettles
CHECK_DEADLOCK FALSE
