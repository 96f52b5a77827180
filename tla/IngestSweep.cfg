SPECIFICATION Spec
CONSTANTS
    Workers = {w1}
    Sweeper = sweeper
    turn = turn
    page = page
    stray = stray
    k1 = k1
    goOn = goOn
    reply = reply
    Pairs = {turn, page, stray}
    Single = {page, stray}
    Hashes = {goOn, reply}
    UserHashes = {goOn}
    Keys = {k1}
    NoKey = NoKey
    KeyOf <- MCKeyOf
    Result <- MCResult
    Prompts <- MCPrompts
    MaxSweeps = 1
    MaxFaults = 0
INVARIANTS SweepIsIdempotent
CHECK_DEADLOCK FALSE
