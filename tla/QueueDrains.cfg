SPECIFICATION FairSpec
CONSTANTS
    e1 = e1
    e2 = e2
    e3 = e3
    v1 = v1
    v2 = v2
    a1 = a1
    a2 = a2
    Events = {e3}
    Versions = {v1, v2}
    Accounts = {a1}
    VersionOf <- MCVersionOf
    OwnerOf <- MCOwnerOf
    Tainted = {e3}
    BatchLimit = 1
    RecoverLimit = 2
    AttemptCeiling = 2
    MaxRestarts = 1
    MaxFaults = 2
    NoVersion = NoVersion
    NoAccount = NoAccount
CHECK_DEADLOCK FALSE
PROPERTY QueueDrains
