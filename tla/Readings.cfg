SPECIFICATION Spec
CONSTANTS
    None = None
    InvalidPluginResult = InvalidPluginResult
    Events <- MCEvents
    Titles <- MCTitles
    Nothing = Nothing
    c1 = c1
    c2 = c2
    p1 = p1
    p2 = p2
    q = q
    Callers = {c1}
    Pages = {p1, p2, q}
    KeyOf <- MCKeyOf
    KeptSketches = 2
    Unread = Unread
    NoBlock = NoBlock
    Unavailable = Unavailable
    Now = 14
    WindowTicks = 5
    DayTicks = 8
    Days <- MCDays
    MaxDwell = 3
    WindowCap = 8
    DayCap = 3
    ClusterMin = 3
    ClusterTicks = 2
    TinyTicks = 1
    MinorPercent = 20
    MaxBuckets = 2
    ReadyTicks = 3
    SessionGap = 2
    Seam = 1
    NotYet = NotYet
    Dimensions <- MCDimensions
    PrecedingCategories = {1, 2}
    PLevels = {20, 40}
    MinSupport = 1
    MinDays = 2
    MaxShifts = 1
    SingleLook = 4
    FdrQ = 100
    ScreenAlpha = 500
    Named = {1, 2}
    Absent = Absent
    Replies = {"accepted_action", "was_focused", "dismissed"}
    OutcomeHorizon = 1
    PlannedTicks = 4
    DriftWindow = 2
    MinSwitches = 1
    MinElapsed = 1
    MinRemaining = 1
    BackoffBase = 2
    BackoffMax = 3
    RollingTicks = 4
    ThresholdPercent = 15
    MinSample = 1
    DriftEnd = 3
    MaxDwells = 3
    MaxBoundaries = 2
INVARIANTS VerdictIsSound SketchIsOfThisPage  FindingsAreControlled  ResultsAreMeasured
PROPERTY HandlerReturns
CHECK_DEADLOCK FALSE
