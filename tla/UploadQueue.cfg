SPECIFICATION Spec
CONSTANTS
    e1 = e1
    e2 = e2
    e3 = e3
    v1 = v1
    v2 = v2
    a1 = a1
    a2 = a2
    Events = {e1, e2}
    Versions = {v1}
    Accounts = {a1}
    VersionOf <- MCVersionOf
    OwnerOf <- MCOwnerOf
    Tainted = {}
    BatchLimit = 2
    RecoverLimit = 2
    AttemptCeiling = 2
    MaxRestarts = 1
    MaxFaults = 1
    NoVersion = NoVersion
    NoAccount = NoAccount
CHECK_DEADLOCK FALSE
SYMMETRY MCSymmetry
INVARIANTS QueueIsHonest NoDoubleCount
