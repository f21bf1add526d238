SPECIFICATION FairSpec
CONSTANTS
    b = b
    x = x
    y = y
    Domains <- TwoDomains
    Base = b
    Creator <- OneChild
    None = None
    Win32 = FALSE
    Rereads = TRUE
    Catchers <- TwoDomains
    Kinds <- AllKinds
    MaxMsgs = 2
INVARIANTS MessagesInOrder ReturnsWhenExecuted
PROPERTIES OperationsEnd QueuedMessageIsTaken
CHECK_DEADLOCK FALSE
