\* No failed writes, no crash: the loop to its bounds, against one canceller.
SPECIFICATION FairSpec
CONSTANTS
    InfoTasks <- MCInfoTasks
    NoCheckpoint = NoCheckpoint
    None = None
    Clients = {c1}
    MaxCycles = 4
    MaxReplans = 3
    MaxToolCalls = 1
    MaxFaults = 0
    MaxCrashes = 0
    MaxResumes = 0
INVARIANTS
    TurnsAreCounted
    StoredEndIsTrue
PROPERTIES
    StoredMovesAreSound
    EveryRequestEnds
