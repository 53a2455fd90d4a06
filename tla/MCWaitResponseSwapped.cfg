CONSTANTS
    r1 = r1
    r2 = r2
    Main = Main
    Recievers <- MCRecievers
    MaxAdds <- MCMaxAdds
    MaxCalls = 1
SPECIFICATION WaitSpec
INVARIANT AlwaysGuarded
CHECK_DEADLOCK FALSE
