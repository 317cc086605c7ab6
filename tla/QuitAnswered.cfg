SPECIFICATION Spec
CONSTANTS
    c1 = c1  c2 = c2  c3 = c3
    Conns = {c1}
    FDs = {1}
    Nil = Nil
    RecvMax = 2
    Room = 1
    MaxSignals = 0
    Scenarios <- MCQuit
INVARIANTS QuitAnswered
CHECK_DEADLOCK FALSE
