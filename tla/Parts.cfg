SPECIFICATION PartsSpec
CONSTANTS
    UuidLogs = {"u"}
    BareLogs = {"b"}
    Snapshots = {"s", "t"}
    Contents = {"A"}
    Installs <- MCInstalls
    Broken = "broken"
    Loops = {"w"}
    Scans = {"x"}
    Nowhere = "nowhere"
    MaxLines = 2
    MaxFaults = 1
    Convs = {"a", "b"}
    Sites <- MCSites
    FpLimit = 1
    GateLimit = 1
    MaxMessages = 2
    MaxLength = 2
    Slots = {1, 2}
    MaxMoves = 1
    MaxRefusals = 0
    Legs = {"web", "proxy"}
    Claimed = {"k", "m"}
    Window = 1
    MaxEntries = 1
    MaxClock = 2
    MaxClaims = 3
    PairIds = {"p", "q"}
    Sids = {1, 2}
    DaysOptions = {0, 1}
    RowsOptions = {0, 1}
    MaxNow = 2
    MaxRuns = 3
    Runners = {"r1", "r2"}
    Latest = 4
    ByColumns = {1, 2}
    ByScript = {3}
    ToCaptures = {2}
    Width = 2
    Fresh = {"fresh"}
    Legacy = "legacy"
    Nobody = "nobody"
    MaxBreaks = 1
    proxy = proxy
    litellm = litellm
    oneshot = oneshot
    Procs = {proxy, litellm}
    Policy <- MCPolicy
    Limited = {proxy}
    MaxRestarts <- MCMaxRestarts
    MaxBackoff = 1
    RestartCap = 1
INVARIANTS
    SchemaIsWhole
    OnlyLateSpawnsSurvive
    SpawnsWithinLimit
    OneRowPerSlip
    MarkedIsStored
    OnePrimaryPerWindow
    FavoritesKept
PROPERTIES
    LinesAreStored
    ShownIsAccepted
    RowsSurvive
    EveryoneStarts
    StopCompletes
    ExitedComesBack
CHECK_DEADLOCK FALSE
