\* A store whose log cannot be read stays closed, and bounds run out: deadlock is not checked.
CONSTANTS
    e1 = e1
    e2 = e2
    t1 = t1
    b1 = b1
    Event = {e1, e2}
    Target = {t1}
    Bundle = {b1}
    MaxTime = 2
    MaxContent = 2
    MaxFails = 2
    MaxCrashes = 2
    MaxLog = 6
    Clients = {c1, c2}
    Contents = {x1, x2}
    Spellings = {s1, s2}
    MaxCalls = 3
    Handles = {h1, h2}
    Passphrases = {p1, p2}
    Ids = {i1, i2}
    Purposes = {u1}
    MaxWrites = 2
SPECIFICATION StoresSpec
SYMMETRY EventSymmetry
INVARIANTS MysqlSchemaApplied
CHECK_DEADLOCK FALSE
