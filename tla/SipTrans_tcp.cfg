SPECIFICATION FairSpec
CONSTANTS
    Invite = TRUE
    Reliable = TRUE
    MayFail = TRUE
    T1 = 2
    T2 = 4
    T4 = 5
    T64 = 8
    COMPLETE_WAIT = 8
    Delay = 1
INVARIANTS Agreement
PROPERTIES Ends
