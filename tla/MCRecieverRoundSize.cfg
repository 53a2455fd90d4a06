CONSTANTS
    HDR = 2
    BASE = 4
    BUF = 3
    Sizes = {3, 4}
    PING = 15
    Events = {}
    MaxSent = 2
    MaxPings = 1
SPECIFICATION Spec
INVARIANT NeverCrashes
CHECK_DEADLOCK FALSE
