\* One streamed message; every way its calls and its answers may go.
SPECIFICATION Spec
CONSTANTS
    pro = pro
    flash = flash
    lite = lite
    gemma = gemma
    Models <- MCModels
    Chain <- MCChain
    Bodies <- MCBodies
    ConfiguredRetries = 3
    Routes <- MCRoutes
    ForcedRoute <- MCForced
    GemmaModels <- MCGemma
    MaxParts = 3
INVARIANTS
    CallsWithinBudget
    ThoughtStaysWithPrimary
    EndsAsItWent
PROPERTIES
    KeepsToProtocol
    ChangesToUntried
    EveryRequestIsAnswered
CHECK_DEADLOCK FALSE
