SPECIFICATION Spec
CONSTANTS
    Workers = {w1, w2}
    Sweeper = sweeper
    turn = turn
    page = page
    stray = stray
    k1 = k1
    goOn = goOn
    reply = reply
    Pairs = {turn, page, stray}
    Single = {page, stray}
    Hashes = {goOn, reply}
    UserHashes = {goOn}
    Keys = {k1}
    NoKey = NoKey
    KeyOf <- MCKeyOf
    Result <- MCResult
    Prompts <- MCPrompts
    MaxSweeps = 0
    MaxFaults = 0
INVARIANTS TurnsUnique
CHECK_DEADLOCK FALSE
