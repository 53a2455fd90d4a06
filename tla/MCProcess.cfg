CONSTANTS
    p = p
    k = k
    f = f
    NOBODY = NOBODY
    NULL = NULL
    Clients <- MCClients
    NameOf <- MCNameOf
    Foreign = {f}
    Expected = {"parent", "kid"}
    Tables <- MCTables
    ParentName = "parent"
    Tries = 2
    PauseSuffices = TRUE
    Processes = {"a", "b", "c"}
    First = "a"
    HDR = 2
    BASE = 5
    Names <- MCNames
    Arguments <- MCArguments
    Packs <- MCPacks
    Ints <- MCInts
    Texts <- MCTexts
    LogBytes = 28
    MaxDirectives = 2
    Args <- MCArgs
    MaxArgs = 2
    Paths <- MCPaths
    r1 = r1
    r2 = r2
    Main = Main
    Recievers <- MCRecievers
    MaxAdds <- MCMaxAdds
    MaxCalls = 2
SPECIFICATION MCSpec
INVARIANTS
    StartupTypeOK
    BothSidesAgree
    NoInstructionLost
    LibraryFollowsUse
    UnpackedAsPacked
    LogArrives
    ArgumentsArrive
    WaitInv
PROPERTIES
    HandshakeEnds
    TakesFirstAwaited
    AwaitedEndsWait
CHECK_DEADLOCK FALSE
