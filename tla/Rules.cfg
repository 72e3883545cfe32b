SPECIFICATION Spec
CONSTANTS
    None = None
    PrivateHost = PrivateHost
    editor = editor
    renamed = renamed
    tab = tab
    blank = blank
    Windows <- MCWindows
    Apps = {"Code", "Coder", "Safari"}
    Bundles = {"code", "safari"}
    Sites = {"site"}
    Names = {}
    Taught = {"UNLOGGED"}
    AppOf <- MCAppOf
    Reported <- MCReported
    HostOf <- MCHostOf
    PluginSays <- MCPluginSays
    Browsers = {"Safari"}
    Embeddable = {editor}
    PrototypeCap = 1
    Faults = {"app_write"}
    MaxRows = 2
    MaxObservations = 3
    MaxAnswers = 2
INVARIANTS  HostnameOnlyWhileAsked
PROPERTY BrowserNeverTaught
CHECK_DEADLOCK FALSE
