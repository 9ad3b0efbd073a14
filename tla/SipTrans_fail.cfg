SPECIFICATION Spec
CONSTANTS
    Invite = TRUE
    Reliable = FALSE
    MayFail = TRUE
    T1 = 2
    T2 = 4
    T4 = 5
    T64 = 8
    COMPLETE_WAIT = 8
    Delay = 1
INVARIANTS OneFinal NoZombie
PROPERTIES KeepsPromise
