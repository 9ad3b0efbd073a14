SPECIFICATION Spec
CONSTANTS
    Invite = FALSE
    Reliable = FALSE
    MayFail = FALSE
    T1 = 2
    T2 = 16
    T4 = 20
    T64 = 128
    COMPLETE_WAIT = 128
    Delay = 1
INVARIANTS SeenOnce ClientOutlives ShiftFits

