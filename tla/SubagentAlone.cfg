\* One run that starts more at a time than there are slots, as the defaults of
\* the code do (MAX_PARALLEL 4, MAX_ACTIVE_EXECUTIONS 3; here 2 and 1).
SPECIFICATION FairSpec
CONSTANTS
    Runs = {r1}
    a = a  b = b  c = c  d = d  e = e  f = f
    Tasks = {a, b, c, d, e, f}
    Deps <- MCDeps
    Plans <- MCPlans
    MaxActive = 1
    MaxParallel = 2
    Models = 2
PROPERTIES
    EveryRunSettles
CHECK_DEADLOCK FALSE
