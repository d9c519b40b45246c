\* An accepted cancellation is not final.
SPECIFICATION Spec
CONSTANTS
    InfoTasks <- MCInfoTasks
    NoCheckpoint = NoCheckpoint
    None = None
    Clients = {c1}
    MaxCycles = 1
    MaxReplans = 1
    MaxToolCalls = 1
    MaxFaults = 0
    MaxCrashes = 0
    MaxResumes = 0
PROPERTIES
    CancellationIsFinal
