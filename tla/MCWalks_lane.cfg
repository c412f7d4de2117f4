SPECIFICATION FairSpec
CONSTANTS
    ann = ann
    bob = bob
    cal = cal
    Actors = {ann, bob, cal}
    Rank <- MCRank
    Grid <- MCGrid
    Door <- MCDoor
    Pin <- MCPin
    Slots <- MCSlots
    Members = {ann}
    Spots <- MCSpots
    DeadlockStuckThreshold = 2
    LivelockNoProgressThreshold = 3
    MaxCommands = 3
    maxReroutePathsPerTick = 4
INVARIANTS WalksSound
PROPERTIES EntersByRight VillageSettles
CHECK_DEADLOCK FALSE
