\* A call that is settled does nothing more: deadlock is not checked.
CONSTANTS
    Kind = {"unary", "server-stream", "subscribe", "client-stream", "bidi",
            "command-channel", "bulk-transfer", "telemetry", "remote-shell",
            "agent-session", "http-bridge"}
    MaxIn = 2
    MaxOut = 2
SPECIFICATION Spec
INVARIANT EveryValueReceived
CHECK_DEADLOCK FALSE
