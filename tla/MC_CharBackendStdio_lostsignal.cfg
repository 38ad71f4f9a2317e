CONSTANTS
    a = a
    b = b
    ctrlc = ctrlc
    Chars <- MCChars
    CtrlC <- ctrlc
    MaxInput = 1
    MaxCtrlC = 0
SPECIFICATION FairSpec
PROPERTIES
    DestructorTerminates
