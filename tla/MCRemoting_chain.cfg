SPECIFICATION Spec
CONSTANTS
    b = b
    x = x
    y = y
    Domains <- ThreeDomains
    Base = b
    Creator <- Chain
    None = None
    Win32 = TRUE
    Rereads = FALSE
    Catchers <- Nobody
    Kinds <- ChainKinds
    MaxMsgs = 2
INVARIANTS NeverDangles ThreadKnowsItsDomain ReadinessIsVisible
CHECK_DEADLOCK FALSE
