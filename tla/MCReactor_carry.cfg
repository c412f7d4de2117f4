SPECIFICATION Spec
CONSTANTS
    Actors = {a1}
    Workers = {w1}
    Attempts = {x1}
    Sources = {s1, s2}
    s1 = s1
    s2 = s2
    Warrants <- PileWarrants
    Unfinished <- MCUnfinished
    Holds <- PileHolds
    WarrantCap = 4
    QueueCap = 1
    MaxPlayerRun = 1
    NoAttempt = NoAttempt
    NoActor = NoActor
    NoSource = NoSource
PROPERTIES UnansweredCarriedForward
