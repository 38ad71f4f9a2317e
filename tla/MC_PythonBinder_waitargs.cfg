CONSTANTS
    t1 = t1
    Threads <- MCOneThread
    MaxYields = 0
    BfNums = {0, 1, 2}
SPECIFICATION Spec
INVARIANTS
    DispatchMatchesIntent
