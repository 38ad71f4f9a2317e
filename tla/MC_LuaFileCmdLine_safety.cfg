CONSTANTS
    f1 = f1
    d1 = d1
    d2 = d2
    Files <- MCFiles
    Dirs <- MCDirs
    BUFFER_SIZE = 8
    MaxArgs = 3
    MaxLen = 2
    HAS_LUA = TRUE
SPECIFICATION Spec
INVARIANTS
    OverflowCheckExact
    ImagesDirBeforeConfig
