SPECIFICATION Spec
CONSTANTS
    c1 = c1
    c2 = c2
    Conns <- OneConn
    Scheduler = Scheduler
    Main = Main
    None = None
    Planned = 1
    MaxBlocks = 2
    MaxClock = 2
    MaxSetbacks = 0
    MaxCrashes = 1
CHECK_DEADLOCK FALSE
INVARIANT BlocksAreKept
