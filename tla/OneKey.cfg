SPECIFICATION Spec
CONSTANTS
    e1 = e1  e2 = e2  f1 = f1  f2 = f2  m1 = m1  m2 = m2
    k1 = k1  k2 = k2
    Nil = Nil
    NotNum = NotNum
    LLMin <- MCLLMin
    LLMax = 7
    Elems = {e1, e2}
    Fields = {f1, f2}
    Members = {m1, m2}
    Scores <- MCScores
    StrcmpRank <- MCRank
    OutMax = 1
    Keys = {k1}
    StartMs = 3
    MaxMs = 6
    SecMs = 2
    Inputs <- MCInputs
    Deltas <- MCDeltas
    Secs <- MCSecs
    Indices <- MCIndices
    Patterns <- FewPatterns
    NameOf <- MCNameOf
    MaxLen = 2
    RangeMax = 1
INVARIANTS TypeOK NoEmptyList
PROPERTIES EagerExceptDepartures DeadlineIsKept ErrorsChangeNothing
