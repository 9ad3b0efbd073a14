SPECIFICATION FairSpec
CONSTANTS
    Reqs = {r1}
    MaxSrv = 2
    MaxAddr = 2
    NumTp = 2
    SockHeld = FALSE
    Af = {"A", "AAAA"}
INVARIANTS TypeOK ToldOnce OneAtATime ProvisionalOfThis NoRingAfterCancel StuckOnlyCanceled
PROPERTIES CancelEnds Settles
CHECK_DEADLOCK FALSE
