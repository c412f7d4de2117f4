SPECIFICATION FairSpec
CONSTANTS
    Actors = {a1, a2}
    Workers = {w1}
    Attempts = {x1, x2}
    Sources = {}
    s1 = s1
    s2 = s2
    Warrants <- PoolWarrants
    Unfinished <- MCUnfinished
    Holds <- PoolHolds
    WarrantCap = 1
    QueueCap = 1
    MaxPlayerRun = 1
    NoAttempt = NoAttempt
    NoActor = NoActor
    NoSource = NoSource
INVARIANTS JobsSound HandOverSafe
PROPERTIES AttemptEnds VillageServed PoolDrains
