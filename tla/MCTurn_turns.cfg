SPECIFICATION FairSpec
CONSTANTS
    Observations = {recall}
    Commits = {offer, answer, consume}
    Ending = {answer}
    OnceDone = {offer}
    OnceTried = {answer}
    Eaten = {consume}
    IterationBudget = 2
    MaxObservationRounds = 1
    MaxToolCalls = 2
    MaxSpill = 1
    MaxStimuli = 2
INVARIANTS TranscriptSound OnePerTurn NothingUnsaid
PROPERTIES TurnsQuiet
CHECK_DEADLOCK FALSE
