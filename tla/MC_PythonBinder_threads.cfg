CONSTANTS
    t1 = t1
    Threads <- MCOneThread
    MaxYields = 3
    BfNums = {0, 1, 2}
SPECIFICATION Spec
INVARIANTS
    WaitsFollowYields
