CONSTANTS
    master = master
    child = child
    n1 = n1
    n2 = n2
    NoName = NoName
    NoSeg = NoSeg
    Procs <- MCProcs
    Master = master
    Names <- MCNames
    SlotCount = 2
    Sizes = {1, 3}
    Requests = {1}
    MaxReserves = 2
    MaxCount = 2
    MaxMissed = 1
SPECIFICATION Spec
INVARIANT HandedOutOnce
CHECK_DEADLOCK FALSE
