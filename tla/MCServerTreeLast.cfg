CONSTANTS
    master = master
    a = a
    b = b
    g = g
    NoKey = NoKey
    Keys <- MCProcs
    Parent <- MCParent
    Hash <- MCHashLast
    Size = 3
    Programs = {"quit", "crash"}
    MaxSends = 0
SPECIFICATION MCSpec
PROPERTY ChildrenToldToExit
CHECK_DEADLOCK FALSE
