CONSTANTS
    p1 = p1
    p2 = p2
    n1 = n1
    n2 = n2
    c1 = c1
    sleeper = sleeper
    Procs <- MCProcs
    Notifiers <- MCNotifiers
    Channels <- MCChannels
    Sleeper <- sleeper
    MaxDelay = 2
    MaxWakeups = 2
SPECIFICATION Spec
INVARIANTS
    PolicyArmed
