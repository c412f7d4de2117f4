SPECIFICATION Spec
CONSTANTS
    Observations = {recall}
    Commits = {offer, answer, consume}
    Ending = {answer}
    OnceDone = {offer}
    OnceTried = {answer}
    Eaten = {consume}
    IterationBudget = 2
    MaxObservationRounds = 1
    MaxToolCalls = 2
    MaxSpill = 1
    MaxStimuli = 2
INVARIANT NoOrphanToolUse
CHECK_DEADLOCK FALSE
