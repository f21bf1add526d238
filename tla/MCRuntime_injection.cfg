SPECIFICATION InjectionSpec
CONSTANTS
    Methods = {use, debugged, inlineC, cctor, cdtor}
    Unsafe = {inlineC}
    Breaks = {debugged, inlineC}
    HasLocals = {use, debugged}
    Guarded = {use, cctor, cdtor}
    Cctor = cctor
    Cdtor = cdtor
    StackLimit = 4
    MaxFrames = 4
    None = None
    Features = {"virtual", "abstract", "ctor", "native", "dtor", "static V", "static any", "cctor", "cdtor", "field of V", "V has W", "proxyA", "proxyB", "box", "array", "closure", "compare", "call"}
    MaxFeatures = 3
    Users = {u1, u2}
    Runners = {r1, r2}
    NoHandle = NoHandle
    MaxHolds = 1
    MaxArguments = 2
    MaxRounds = 2
    Interfaces = {"j", "k", "l"}
    Classes = {"A", "B", "C", "D"}
    Implements <- Implementers
    Programs <- SmallPrograms
    MaxDependencies = 2
    Asked = {"j", "k", "A", "C"}
    MaxDepth = 4
    MaxObjects = 4
    NoObject = 0
    Letters <- UpperCase
    MemberNames <- SomeNames
    ClassNames <- SomeTypes
    ValueNames <- SomeValues
    MaxMembers = 4
    MaxHandlers = 3
    MaxFires = 3
    MaxPointers = 3
    Off = Off
INVARIANTS ArgumentsMatch
CHECK_DEADLOCK FALSE
