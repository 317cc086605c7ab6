SPECIFICATION Spec
CONSTANTS
    k1 = k1  k2 = k2  k3 = k3
    Keys = {k1, k3}
    Nil = Nil
    Entries = {e1, e2}
    Objects = {o1, o2, o3}
    Tables = {t1, t2}
    Dicts = {d1}
    Hash <- MCHash
    InitialSize = 2
    MaxSize = 4
    SweepMax = 1
    Mains = {TRUE}
    Delays = {1}
    MaxNow = 2
INVARIANTS TypeOK
 
CHECK_DEADLOCK FALSE
