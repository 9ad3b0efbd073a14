SPECIFICATION Spec
SYMMETRY ReqSymmetry
CONSTANTS
    Reqs = {r1, r2, r3}
    MaxSrv = 0
    MaxAddr = 1
    NumTp = 0
    SockHeld = TRUE
    Af = {"A"}
INVARIANTS NoDangling WalkSafe ClosedAll
PROPERTIES SilentAfterRelease
CHECK_DEADLOCK FALSE
