SPECIFICATION Spec
CONSTANTS
    NoThread = NoThread
    Threads = {t1, t2}
    Size = 2
    Half = 7
    Over = 2
    Period = 1
INVARIANTS HangDetectedAcrossWrap
