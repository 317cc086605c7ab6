SPECIFICATION Spec
CONSTANTS
    k1 = k1  k2 = k2  k3 = k3
    Keys = {k1, k2}
    Nil = Nil
    Entries = {e1, e2, e3}
    Objects = {o1, o2, o3}
    Tables = {t1}
    Dicts = {d1}
    Hash <- MCHash
    InitialSize = 2
    MaxSize = 2
    SweepMax = 2
    Mains = {TRUE}
    Delays = {1}
    MaxNow = 2
INVARIANTS AckedSetKept
CHECK_DEADLOCK FALSE
