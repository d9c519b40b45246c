SPECIFICATION MCSpec
CONSTANTS
    Workers = {w1, w2, w3}
    LeasedTasks = {a}
    Timeout = 1
    MaxRecoveries = 2
    MaxVersion = 5
    PageLimit = 2
    Processes = {p, q}
    MaxSaves = 3
    MaxFaults = 1
    Callers = {c1, c2}
    Ttls <- MCTtls
    Margin = 1
    MinTtl = 1
    MaxCaches = 3
    MaxUses = 2
    MAX_SEARCH_TURNS = 3
    MaxCalls = 2
    Requests <- MCRequests
    Aliases <- MCAliases
    Others <- MCOthers
    Users = {u1, u2}
    Runs <- MCRuns
    Type <- MCType
    Language <- MCLanguage
    Facts = 1
    LongTerm = 2
    KeptNotes = 2
    Limit = 3
    MaxUpdates = 1
    t1 = t1  t2 = t2  t3 = t3  t4 = t4  t5 = t5  t6 = t6
    Needs <- MCNeeds
    Listed <- MCLists
    Texts = {one, other}
    MaxDepth = 4
INVARIANTS
    OverlapsOnlyByRecovery
    PassedOverAreTwins
    StaleOnlyByRaceOrFault
    NameOutlivedOnlyByDelay
    SearchesAreTold
    LeastModelsForLeastWork
    BlindNeverWrites
    ForeignNotesFillUp
    MergeIsSound
