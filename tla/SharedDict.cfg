SPECIFICATION Spec
CONSTANTS
    k1 = k1  k2 = k2  k3 = k3
    Keys = {k1, k2, k3}
    Nil = Nil
    Entries = {e1, e2, e3}
    Objects = {o1, o2, o3}
    Tables = {t1, t2, t3}
    Dicts = {d1, d2}
    Hash <- MCHash
    InitialSize = 2
    MaxSize = 4
    SweepMax = 1
    Mains = {TRUE, FALSE}
    Delays = {0}
    MaxNow = 1
CONSTRAINT OneDeadline
INVARIANTS DamageStaysInBucket CountIsExact NoUseAfterFree
CHECK_DEADLOCK FALSE
