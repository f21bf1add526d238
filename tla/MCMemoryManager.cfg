SPECIFICATION FairSpec
CONSTANTS
    Slots = {o1, o2}
    Literals = {l1}
    Statics = {s1}
    Names = {n1}
    None = None
    Classes = {"plain", "dtor", "closure"}
    Size <- MCSize
    MaxMemory = 2
    MaxFields = 1
    MaxRoots = 1
    MaxPressure = 1
INVARIANTS
    NoZombies
    ExportedSurvives
    MemoryCounted
    TeardownFreesAll
PROPERTIES
    DestroyedBeforeFreed
    TeardownEnds
CHECK_DEADLOCK FALSE
