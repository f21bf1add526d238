SPECIFICATION FairSpec
CONSTANTS
    Waiters = {w1, w2}
    Pulsers = {p1, p2}
    NoThread = NoThread
    AutoReset = TRUE
    MaxPulses = 3
INVARIANTS OneReleasePerPulse
PROPERTIES EveryWaitReturns ImplementsEvent
