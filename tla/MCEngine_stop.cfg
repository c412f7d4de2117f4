\* One worker; a queue of one; one crash.
SPECIFICATION FairSpec
CONSTANTS
    Workers = {w1}
    MaxCmds = 1
    LogBuffer = 1
    MaxWork = 2
    MaxDay = 2
    NoDay = NoDay
INVARIANTS OrderlyStop PushNoGap
PROPERTIES StopEnds
CHECK_DEADLOCK FALSE
