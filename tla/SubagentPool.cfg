\* Two runs with a plan each on two slots.
SPECIFICATION FairSpec
CONSTANTS
    Runs = {r1, r2}
    a = a  b = b  c = c  d = d  e = e  f = f
    Tasks = {a, b, c, d, e, f}
    Deps <- MCDeps
    Plans <- MCPlans
    MaxActive = 2
    MaxParallel = 2
    Models = 1
INVARIANTS
    ResultsPartitionPlan
    OutcomesAreJustified
PROPERTIES
    ImplementsTaskExecution
    SettlesUnlessSlotsLeak
CHECK_DEADLOCK FALSE
