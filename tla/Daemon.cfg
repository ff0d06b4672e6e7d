\* Requests, connections and events are bounded: deadlock is not checked.
CONSTANTS
    r1 = r1
    r2 = r2
    t1 = t1
    t2 = t2
    s1 = s1
    Request = {r1, r2}
    Target = {t1, t2}
    Session = {s1}
    MaxEvents = 3
    MaxRestarts = 1
SPECIFICATION FairSpec
INVARIANTS  RevocationReaches
PROPERTIES PostAnswered
CHECK_DEADLOCK FALSE
