SPECIFICATION SchemaSpec
CONSTANTS
    Runners = {"a", "b"}
    Latest = 4
    ByColumns = {1, 2}
    ByScript = {3}
    ToCaptures = {2}
    Width = 2
    Fresh = {"fresh"}
    Legacy = "legacy"
    Nobody = "nobody"
    MaxBreaks = 1
INVARIANTS
    LegacyRowsInReach
CHECK_DEADLOCK FALSE
