SPECIFICATION Spec
CONSTANTS
    b = b
    x = x
    y = y
    Domains <- TwoDomains
    Base = b
    Creator <- OneChild
    None = None
    Win32 = TRUE
    Rereads = FALSE
    Catchers <- TwoDomains
    Kinds <- BlockingCalls
    MaxMsgs = 2
INVARIANTS BlocksUntilReturn
CHECK_DEADLOCK FALSE
