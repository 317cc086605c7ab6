SPECIFICATION Spec
CONSTANTS
    f1 = f1  f2 = f2  f3 = f3  f4 = f4
    m1 = m1  m2 = m2  m3 = m3  twin = twin
    None = None
    HashOf <- MCHash
    InitialSize = 2
    NaN = 99
    StrRank <- MCStrRank
    MaxLevel = 2
    Elems = {e1, e2}
    Fields = {f1, f2, f3, f4}
    Members = {m1, m2, m3, twin}
    Scores <- MCScores
    OutMax = 3
    RangeMax = 2
    SaveMax = 2
    CStr <- MCCStr
    Indices <- MCIndices
    MaxLen = 3
    MaxOddLen = 2
INVARIANTS TypeOK ListIsLinked DictIsSound LevelsNest ListsAsObjects   SavedIsLoaded
