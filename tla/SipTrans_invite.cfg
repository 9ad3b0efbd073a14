SPECIFICATION FairSpec
CONSTANTS
    Invite = TRUE
    Reliable = FALSE
    MayFail = FALSE
    T1 = 2
    T2 = 4
    T4 = 5
    T64 = 8
    COMPLETE_WAIT = 8
    Delay = 1
INVARIANTS TypeOK SeenOnce  ClientOutlives
PROPERTIES Ends
