SPECIFICATION FairSpec
CONSTANTS
    Captures = {c1, c2, c3}
    Malformed = {c3}
    Poison = {c1}
    Flushers = {loop, caller}
    Loop = loop
    MaxQueue = 2
    EvictCount = 1
    Batch = 2
    MaxBackoff = 1
    MaxFaults = 1
INVARIANTS NoSilentLoss OneCopyPerFault
PROPERTIES DrainsOnceOnline ImplementsDelivery
CHECK_DEADLOCK FALSE
