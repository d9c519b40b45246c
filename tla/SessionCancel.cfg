\* Two cancellers against a loop whose writes may fail.
SPECIFICATION Spec
CONSTANTS
    InfoTasks <- MCInfoTasks
    NoCheckpoint = NoCheckpoint
    None = None
    Clients = {c1, c2}
    MaxCycles = 2
    MaxReplans = 1
    MaxToolCalls = 1
    MaxFaults = 1
    MaxCrashes = 0
    MaxResumes = 0
SYMMETRY MCClients
INVARIANTS
    AtMostOneCancelAhead
PROPERTIES
    WritesGoForward
