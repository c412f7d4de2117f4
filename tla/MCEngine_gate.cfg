\* One worker; a queue of one; one crash.
SPECIFICATION Spec
CONSTANTS
    Workers = {w1}
    MaxCmds = 1
    LogBuffer = 1
    MaxWork = 2
    MaxDay = 2
    NoDay = NoDay
INVARIANTS GateKeeps
CHECK_DEADLOCK FALSE
