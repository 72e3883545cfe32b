SPECIFICATION Spec
CONSTANTS
    e1 = e1
    e2 = e2
    e3 = e3
    v1 = v1
    v2 = v2
    a1 = a1
    a2 = a2
    Events = {e1}
    Versions = {v1}
    Accounts = {a1, a2}
    VersionOf <- MCVersionOf
    OwnerOf <- MCOwnerOf
    Tainted = {}
    BatchLimit = 2
    RecoverLimit = 2
    AttemptCeiling = 2
    MaxRestarts = 0
    MaxFaults = 0
    NoVersion = NoVersion
    NoAccount = NoAccount
CHECK_DEADLOCK FALSE
INVARIANT DeletedActivityStaysDeleted
