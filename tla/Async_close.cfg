SPECIFICATION FairSpec
CONSTANTS
    t1 = t1  t2 = t2  c1 = c1
    w1 = w1  w2 = w2  w3 = w3
    j1 = j1  j2 = j2  j3 = j3
    Main = Main  Mq = Mq  None = None
    Workers = {t1, t2}
    Clients = {}
    Works = {w1, w2, w3}
    Prealloc <- MCPrealloc
    Jobs = {j1, j2, j3}
    JobId <- MCJobId
    WorkJobs = {j2, j3}
    CbJobs = {j1, j2, j3}
    Nested <- MCNested
    MqSize = 2
    MayClose = TRUE
INVARIANTS ClosedTold
PROPERTIES JobServed
CHECK_DEADLOCK FALSE
