SPECIFICATION MCSpec
CONSTANTS
    c1 = c1
    c2 = c2
    Conns <- MCConns
    Capacity = 1
    MaxErrors = 1
    MaxMessages = 2
    MaxLive = 2
    Nothing = Nothing
    s = s
    t = t
    d1 = d1
    d2 = d2
    Instances = {s, t}
    Builds <- MCBuilds
    Environments <- MCEnvironments
    Databases <- MCDatabases
    Rows = {d1, d2}
    Optional = {d2}
    SaltVersion = 2
    ChecksumVersion = 3
    MaxLaunches = 2
    MaxFaults = 1
CHECK_DEADLOCK FALSE
INVARIANTS  PushesAccountedFor DatabaseIsWhole OneServiceAtATime
PROPERTIES PushesArrive ServiceComesUp
