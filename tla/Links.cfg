SPECIFICATION Spec
CONSTANTS
    Keys = {"k1"}
    None = "none"
    HostFrames <- MCHostFrames
    ServerFrames <- MCServerFrames
    MaxFrames = 3
    MaxCuts = 1
    PipeSize = 1
    Outputs = {"stdout"}
    Cap = 2
    Block = 2
    MaxUnits = 3
    Calls = {"call"}
    Links = {"l1", "l2"}
    Nobody = "nobody"
    Hello = "hello"
    MaxDials = 1
    MaxMishaps = 1
    UserSettings = {corp}
    Off = off
    Pce = pce
    Modes = {"panel", "tray"}
INVARIANTS
    SnapshotIsTheUsers
    AlwaysRevertible
    SlotGivenBack
    ResponsesFindRequests
    RowIsExact
    NobodyWaitsForTheGone
    RepliesAreKept
PROPERTIES
    RelayImplementsTap
    RelayReturns
    CliImplementsTap
    WrapperReturns
    ExtensionAttaches
    DeadProxyReverted
CHECK_DEADLOCK FALSE
