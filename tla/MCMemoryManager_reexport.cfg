SPECIFICATION ReexportSpec
CONSTANTS
    Slots = {o1, o2}
    Literals = {}
    Statics = {s1}
    Names = {n1}
    None = None
    Classes = {"plain"}
    Size <- MCSize
    MaxMemory = 9
    MaxFields = 0
    MaxRoots = 1
    MaxPressure = 0
INVARIANTS
    ExportedSurvives
CHECK_DEADLOCK FALSE
