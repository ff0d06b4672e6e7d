\* Bounds run out, and a device may fall silent: deadlock is not checked.
CONSTANTS
    Issuers = {"i1", "i2"}
    Trusted = "i1"
    Contents = {"c1", "c2"}
    Readers = {"x", "y"}
    MaxNow = 2
    MaxAge = 1
    Skew = 0
    MaxGeneration = 2
    MaxPapers = 2
    Mtu = 3
    WindowSize = 2
    MaxHopCount = 1
    RateLimit = 1
    ValidUntil = 2
    MinuteTicks = 2
    MaxAir = 3
    MaxAccepted = 4
    MaxForwards = 2
    Window = 2
    CounterModulus = 3
    Payloads = {1}
    MaxSent = 4
    MaxRecorded = 4
    MaxBoots = 1
    MaxRadioNow = 1
    Initiators = {"i1", "i2", "i3", "i4"}
    Responders = {"r1", "r2", "r3"}
    MaxEph = 5
SPECIFICATION SignedSpec
INVARIANTS   LinkFaithful RelayObeys RadioFaithful HandshakeAgrees
PROPERTIES NoSessionRevived
CHECK_DEADLOCK FALSE
