SPECIFICATION Spec
CONSTANTS
    e1 = e1  e2 = e2  f1 = f1  f2 = f2  m1 = m1  m2 = m2
    k1 = k1  k2 = k2
    Nil = Nil
    NotNum = NotNum
    LLMin <- TinyLLMin
    LLMax = 1
    Elems = {}
    Fields = {}
    Members = {}
    Scores <- MCScores
    StrcmpRank <- MCRank
    OutMax = 1
    Keys = {k1, k2}
    StartMs = 3
    MaxMs = 6
    SecMs = 2
    Inputs <- OneInput
    Deltas = {}
    Secs = {1}
    Indices = {}
    Patterns <- MCPatterns
    NameOf <- MCNameOf
    MaxLen = 1
    RangeMax = 1
PROPERTIES EagerExceptDepartures 
