CONSTANTS
    g = g
    t1 = t1
    G = g
    TableIds <- MCTableIds
    Heaps <- MCHeaps
    MAX_NAME_SIZE = 20
    W = 4
SPECIFICATION Spec
INVARIANTS
    WalkSetsFlattening
