\* Two ends on a stream, both of which rekey, and may stop in the end: deadlock is not checked.
CONSTANTS
    SeqModulus = 16
    Ordered = TRUE
    Quiet = TRUE
    Retransmit = FALSE
    Rekeyers = {"initiator", "responder"}
    MaxData = 1
    MaxRekey = 4
SPECIFICATION Spec
INVARIANT NoDecryptFailure
CHECK_DEADLOCK FALSE
