SPECIFICATION FairSpec
CONSTANTS
    NoThread = NoThread
    Threads = {t1, t2}
    Size = 1
    Half = 5
    Over = 1
    Period = 1
INVARIANTS TypeOK EntriesExclusive OnlyHangsReset HangDetected
PROPERTIES HangResets
