SPECIFICATION Spec
CONSTANTS
    Threads = {t1}
    MaxReq = 3
    MaxPart = 0
    Garbage = {}
INVARIANTS ResultIsOwn
CHECK_DEADLOCK FALSE
