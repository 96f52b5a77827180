SPECIFICATION BranchSpec
CONSTANTS
    Texts = {p, q}
    Captors = {x}
    MaxCompletions = 3
INVARIANT CollapsedIsCurrentPath
CHECK_DEADLOCK FALSE
