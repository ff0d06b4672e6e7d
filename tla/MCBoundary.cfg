\* A quorum is complete, a decision is made, a connection is closed: deadlock is not checked.
CONSTANTS
    Actor = {"a", "b", "c", "x"}
    Of <- MCDistinct
    MinApprovers = 2
    MaxPattern = 4
    MaxText = 4
    MaxLinks = 3
    MaxEvents = 3
    MaxDay = 24854
    MaxRequests = 2
    Checks = {1, 2}
    Ids = {1, 2}
    Self = "a"
    MaxPending = 1
    Callers = {c1, c2}
    TTL = 2
    RequestLimit = 1
    Tolerance = 1
    MaxClock = 5
    MaxTokens = 1
    MaxVerdicts = 3
    MaxBody = 3
    MaxResponse = 14
    Window = 2
    EventKeys = {k1, k2, r1}
    Revocations = {r1}
    MaxLogged = 4
    MaxDepth = 2
SPECIFICATION BoundarySpec
INVARIANTS ApprovalJustified DenialJustified ExhaustionDecides AlgorithmsCorrect  AuthorityNarrows  BridgeEncodings     HttpWhole 
PROPERTIES CallersAnswered
CHECK_DEADLOCK FALSE
