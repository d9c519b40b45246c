\* Two terminals with two requests each.
SPECIFICATION FairSpec
CONSTANTS
    t1 = t1
    t2 = t2
    home = home
    work = work
    hello = hello
    named = named
    Unknown = Unknown
    NoId = NoId
    Terminals = {t1, t2}
    Workspaces = {home, work}
    Slots = {hello}
    ExplicitIds = {named}
    Casts <- MCCasts
    MaxTurns = 2
INVARIANTS
    OneCompactionAtATime
    MemoryStaysInWorkspace
PROPERTY EveryCompactionStarts
CHECK_DEADLOCK FALSE
