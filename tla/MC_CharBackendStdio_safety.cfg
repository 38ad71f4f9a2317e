CONSTANTS
    a = a
    b = b
    ctrlc = ctrlc
    Chars <- MCChars
    CtrlC <- ctrlc
    MaxInput = 3
    MaxCtrlC = 1
SPECIFICATION FairSpec
INVARIANTS
    InputForwardedInOrder
PROPERTIES
    ShutdownAtEOF
