CONSTANTS
    master = master
    child = child
    n1 = n1
    n2 = n2
    NoName = NoName
    NoSeg = NoSeg
    Procs <- MCProcs
    Master = master
    Names <- MCNames
    SlotCount = 2
    Sizes = {3}
    Requests = {1}
    MaxReserves = 2
    MaxCount = 2
    MaxMissed = 1
SPECIFICATION FairSpec
INVARIANTS
    DataTypeOK
    CounterCoversLinks
    EveryoneSharesOneSegment
    AllocationsDisjoint
PROPERTIES
    AccessGranted
CHECK_DEADLOCK FALSE
