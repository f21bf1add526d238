SPECIFICATION Spec
CONSTANTS
    Classes = {A, B}
    Structs = {S}
    Proxies = {P}
    Prim = Prim
    Library = Library
    NoBase = NoBase
    MaxFields = 3
INVARIANTS
    LayoutsAgree
CHECK_DEADLOCK FALSE
