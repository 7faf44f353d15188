SPECIFICATION FairSpec
CONSTANTS
    Threads = {t1, t2}
    MaxReq = 2
    MaxPart = 1
    Garbage = {"execute", "error"}
INVARIANTS TypeOK PermitKept OnePermit OwnAnswer
PROPERTIES RequestReturns
CHECK_DEADLOCK FALSE
