\* One failed write, one crash, one resume, and a canceller throughout.
SPECIFICATION Spec
CONSTANTS
    InfoTasks <- MCInfoTasks
    NoCheckpoint = NoCheckpoint
    None = None
    Clients = {c1}
    MaxCycles = 2
    MaxReplans = 1
    MaxToolCalls = 1
    MaxFaults = 1
    MaxCrashes = 1
    MaxResumes = 1
INVARIANTS
    TaskListsAgree
PROPERTIES
    ResumesTakeUpLittle
