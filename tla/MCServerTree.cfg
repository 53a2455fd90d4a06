CONSTANTS
    master = master
    a = a
    b = b
    g = g
    NoKey = NoKey
    Keys <- MCProcs
    Parent <- MCParent
    Hash <- MCHash
    Size = 3
    Programs = {"work", "exit", "quit", "crash"}
    MaxSends = 2
SPECIFICATION MCSpec
INVARIANTS
    TreeInv
    HandledInSendOrder
PROPERTIES
    InstructionsArrive
    ChildrenToldToExit
    NobodyIsLeftBehind
CHECK_DEADLOCK FALSE
