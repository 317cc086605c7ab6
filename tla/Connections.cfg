SPECIFICATION Spec
CONSTANTS
    c1 = c1  c2 = c2  c3 = c3
    Conns = {c1, c2, c3}
    FDs = {1, 2}
    Nil = Nil
    RecvMax = 2
    Room = 1
    MaxSignals = 1
    Scenarios <- MCTalks
INVARIANTS TypeOK ExecutedInOrder RepliesInOrder ClientsAreOpen NothingForgotten
CHECK_DEADLOCK FALSE
PROPERTIES Answered Released
