SPECIFICATION Spec
CONSTANTS
    m1 = m1
    m2 = m2
    NoText = NoText
    s1 = s1
    s2 = s2
    NoSource = NoSource
    Times <- MCTimes
    ZeroTime <- MCZeroTime
    MinNano <- MCMinNano
    MaxNano = 3
    CutOffs <- MCCutOffs
    Levels <- MCLevels
    Texts = {m1, m2}
    Sources = {s1, s2}
    maxEntries = 2
    MaxWrites = 3
INVARIANTS
    TypeOK
    ReadsAgree
    ListsNewestMatching
PROPERTIES
    StoresImplementLogStore
CHECK_DEADLOCK FALSE
