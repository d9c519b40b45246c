\* Two keys, a request that may race, and a job or an admin beside it.
SPECIFICATION Spec
SYMMETRY MCSymmetry
CONSTANTS
    Keys = {k1, k2}
    Phantom = none
    Requests = {r1}
    Keepers = {j1}
    RaceWidth = 2
INVARIANTS
    CallsUseRealKeys
PROPERTIES
    ComesBackLateOrByAdmin
CHECK_DEADLOCK FALSE
