CONSTANTS
    m1 = m1
    r1 = r1
    r2 = r2
    n1 = n1
    n2 = n2
    NoThread = NoThread
    NULL = NULL
    Mains <- MCMains
    Recievers <- MCRecievers
    Nodes <- MCNodes
    MaxAdds = 2
    HDR = 2
    BASE = 4
    BUF = 5
    Sizes = {3, 5}
    PING = 15
    Events = {"exit", "close", "truncate", "reset", "inactive"}
    MaxSent = 2
    MaxPings = 1
SPECIFICATION MCSpec
INVARIANTS
    QueueTypeOK
    OwnersMatchPlaces
    MutualExclusion
    ListWellFormed
    NoDanglingPointer
    EveryNodeHasOneOwner
    TypeOK
    StreamConserved
    NeverCrashes
    DamagedAtEndOnly
    AtMostOneMore
PROPERTIES
    ImplementsFifo
    EveryInstructionHandled
    NoOvertaking
    CallersGetIn
    DeliversInOrder
    NothingAfterExit
    EverythingArrives
    StopsWhenAbandoned
