SPECIFICATION FairSpec
CONSTANTS
    poll = poll
    router = router
    d1 = d1
    d2 = d2
    Senders <- MCSenders
    Pollers <- MCPollers
    Devices <- MCDevices
    Router = router
    Free = Free
    NoDevice = NoDevice
    MaxTimeouts = 1
INVARIANTS RefreshIsSerial
PROPERTIES  LogoutUndoneOnlyInFlight RequestsFinish
