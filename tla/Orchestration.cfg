\* Two requests with one fingerprint, one of which may die.
SPECIFICATION Spec
CONSTANTS
    planner = planner
    coder = coder
    Requests = {q1, q2}
    Tasks <- MCTasks
    Deps <- MCDeps
    MaxPlans = 2
    MaxCrashes = 1
INVARIANTS
    TasksAreTrueTillClosed
PROPERTIES
    ReopenedOnlyByRace
CHECK_DEADLOCK FALSE
