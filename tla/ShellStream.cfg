CONSTANTS
    MaxTransports = 2
    MaxTyped = 2
    MaxPrinted = 3
    BufferSize = 2
    Loads <- TypingOrPrinting
    Endings <- AfterTwo
SPECIFICATION FairSpec
CHECK_DEADLOCK FALSE
INVARIANT NoMismatch
INVARIANT OutputIsKept
PROPERTY ImplementsTerminal
PROPERTY EverythingArrives
