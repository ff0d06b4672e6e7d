\* Every call has returned in the end: deadlock is not checked.
CONSTANTS
    Push = {1, 2, 3}
    Id = {1, 2}
    idOf <- MCIds
    MaxPending = 2
    Decision = {"approve"}
SPECIFICATION FairSpec
INVARIANTS PendingBounded NoOrphanedCaller AnswersJustified
PROPERTIES EveryPushAnswered
CHECK_DEADLOCK FALSE
