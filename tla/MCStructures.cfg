SPECIFICATION MCSpec
CONSTANTS
    Values = {u, v}
    Junk = Junk
    InitCap = 1
    Limit = 4
    DeepObjects = {a, b, c}
    WideObjects = {d, e}
    None = None
    Blocks = {b1, b2}
    ObjectSizes = {1, 2, 3}
    Target = 6
    MinCount = 2
    MaxArenas = 2
    MessageSize = 5
    NameSize = 3
    MaxParams = 2
    NameLength <- NameLengths
SYMMETRY MCSymmetry
INVARIANTS
    MarksWhatIsReachable
    EachElementOnce
    MessagesArrive
PROPERTIES
    IsFifo
    IsHeap
CHECK_DEADLOCK FALSE
