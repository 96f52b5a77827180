SPECIFICATION NormalizerSpec
CONSTANTS
    Workers = {w1, w2}
    Sweeper = sweeper
    turn = turn
    page = page
    stray = stray
    k1 = k1
    goOn = goOn
    reply = reply
    Pairs = {turn, page}
    Single = {page}
    Hashes = {goOn, reply}
    UserHashes = {goOn}
    Keys = {k1}
    NoKey = NoKey
    KeyOf <- MCKeyOf
    Result <- MCResult
    Prompts <- MCPrompts
    Texts = {p, q}
    Captors = {x, y}
    MaxCompletions = 3
    MaxSweeps = 1
    MaxFaults = 2
    Files = {"f", "g"}
    Ingests = {x, y}
    Renditions <- MCRenditions
    Flows = {x, y}
    AllowList = {"known"}
    Hosts = {"other"}
    Traffic <- MCTraffic
    MaxFrames = 1
    Convs = {"a", "b"}
    Sites <- MCSites
    FpLimit = 1
    GateLimit = 1
    MaxMessages = 2
    MaxLength = 2
    Slots = {1, 2}
    MaxMoves = 1
    MaxRefusals = 1
PROPERTIES OnlyActiveRecorded
CHECK_DEADLOCK FALSE
