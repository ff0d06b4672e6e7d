\* A store whose log cannot be read stays closed: deadlock is not checked.
CONSTANTS
    Event = {e1}
    Target = {t1}
    Bundle = {b1}
    MaxTime = 1
    MaxContent = 2
    MaxFails = 0
    MaxCrashes = 1
    MaxLog = 3
SPECIFICATION Spec
INVARIANT EvidenceAtomic
CHECK_DEADLOCK FALSE
