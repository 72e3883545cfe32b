SPECIFICATION Spec
CONSTANTS
    c1 = c1
    c2 = c2
    Conns <- OneConn
    Scheduler = Scheduler
    Main = Main
    None = None
    Planned = 2
    MaxBlocks = 1
    MaxClock = 3
    MaxSetbacks = 1
    MaxCrashes = 1
CHECK_DEADLOCK FALSE
INVARIANTS EndsHonestly
PROPERTIES EndingsAreFinal TimeIsKept
