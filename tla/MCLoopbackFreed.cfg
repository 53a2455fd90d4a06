CONSTANTS
    m1 = m1
    r1 = r1
    n1 = n1
    n2 = n2
    n3 = n3
    NoThread = NoThread
    NULL = NULL
    Mains <- MCMains
    Recievers <- MCRecievers
    Nodes <- MCNodes
    MaxAdds = 1
    MaxSends = 1
SPECIFICATION LoopbackSpec
INVARIANT QueuedInstructionsReadable
