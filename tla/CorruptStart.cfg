SPECIFICATION Spec
CONSTANTS
    Keys = {k1, k2}
    Vals = {v1}
    Nil = Nil
    Children = {c1}
    Inodes = {i1, i2, i3}
    MaxFails = 1
    MaxSaves = 3
INVARIANTS CorruptRefused
