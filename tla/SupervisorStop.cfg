SPECIFICATION Spec
CONSTANTS
    proxy = proxy
    litellm = litellm
    oneshot = oneshot
    Procs = {litellm}
    Policy <- MCPolicy
    Limited = {}
    MaxRestarts <- MCMaxRestarts
    MaxBackoff = 1
    RestartCap = 1
INVARIANTS
    NoChildAfterStop
CHECK_DEADLOCK FALSE
