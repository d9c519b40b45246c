\* Conversations of up to six turns with keepLastN scaled down to cut them, and of
\* up to four steps with the scan and audit windows scaled down to slide.
SPECIFICATION MCSpec
CONSTANTS
    KeepFirst = 2
    KeepLast = 3
    FailureAnchorDepth = 1
    PendingWindow = 4
    MaxTurns = 6
    Steps <- MCSteps
    MaxSteps = 4
    MaxPending = 2
    ScanTurns = 2
    ClearTurns = 2
    AuditTurns = 4
    MinRepeats = 2
    None = None
    Invalid = Invalid
    AskedTokens <- MCAskedTokens
    AskedBudgets <- MCAskedBudgets
    Models <- MCModels
    Ceiling <- MCCeiling
    Thinks <- MCThinks
INVARIANTS
    HistoryIsAccepted
    LatestIsKept
    ToldFileIsCurrent
    GuidanceAgreesOnServer
    StuckIsTold
    ThinkingFits
CHECK_DEADLOCK FALSE
