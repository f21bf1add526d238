SPECIFICATION MCSpec
CONSTANTS
    TypeNames = {"A", "B"}
    MemberNames = {"f"}
    MaxWords = 6
    HeapClasses = {A}
    Values = {Int}
    Others = {}
    X = X
    Aliases <- OneAlias
    MaxLevel = 2
    MaxGenerated = 3
    Implementers = {A, B}
    Interface = I
    HierClasses = {A, B, C}
    Proxy = P
    NoClass = NoClass
    HierNames = {f, g}
    Shapes = {"plain", "abstract", "private", "other"}
    MaxMethods = 3
    Closures = 3
    MaxConversions = 4
    HomeClasses = {A, B, C}
    HomeBase <- Bases
    HomeModule <- Sources
    MaxNesting = 2
    UpperClass = A
    LowerClass = B
    Classes = {A, B}
    Structs = {S}
    Proxies = {P}
    Prim = Prim
    Library = Library
    NoBase = NoBase
    MaxFields = 3
    None = None
    Off = Off
INVARIANTS
    DeclaredAsWritten
    TypesHaveOneClass
    CallsDispatch
    HierarchiesAreSound
    NamesAreReachable
    ConversionsAreSound
    CallsMayBeMade
    LayoutsAreSound
CHECK_DEADLOCK FALSE
