CONSTANTS
    c1 = c1
    c2 = c2
    Cpus <- MCCpus
    Mips = {0, 1}
    MaxInsts = 2
    MaxCap = 2
    ShiftText <- MCShiftText
    NDEBUG = TRUE
SPECIFICATION Spec
SYMMETRY MCSymmetry
INVARIANTS
    AgreedMode
    ArgsMatchMode
