SPECIFICATION Spec
CONSTANTS
    Reqs = {r1}
    MaxSrv = 1
    MaxAddr = 1
    NumTp = 1
    SockHeld = FALSE
    Af = {"A", "AAAA"}
INVARIANT RevivedByUser
CHECK_DEADLOCK FALSE
