SPECIFICATION Spec
CONSTANTS
    k1 = k1
    k2 = k2
    BucketTicks = 2
    HourTicks = 2
    DayTicks = 4
    LateNight = {1}
    Morning = {0}
    QuietStart = 3
    QuietEnd = 1
    Lookback = 3
    MinDays = 2
    ReaskTicks = 4
    EvidenceTicks = 6
    Offsets <- MCOffsets
    WeekDays = 1
    Histories <- MCHistories
    GoodLookback = 24
    MinBlocks = 2
    MinBucketBlocks = 2
    MinBucketTicks = 2
    Ttl = 2
    BaseCooldown = 4
    Multiplier = 2
    SilenceThreshold = 1
    SilenceTicks = 6
    MaxInvitations = 3
    Keys = {k1, k2}
    Rankings <- MCRankings
    MaxEntries = 1
    UnopenedRun = 1
    PauseTicks = 8
    ReminderHorizon = 12
    EntryHorizon = 4
    ClientOffset = 0
    MaxCards = 3
    MaxInFlight = 2
    RetentionWeeks = 0
    MaxBlocks = 2
    MaxOffers = 1
    MaxTaps = 1
    Steps <- MCSteps
    MaxNow <- MCMaxNow
    ReportLimit <- MCReportLimit
INVARIANTS  InvitationsAreSpaced  
PROPERTY ReminderIsNews
CHECK_DEADLOCK FALSE
