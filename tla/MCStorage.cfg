\* One thread with rows and the web thread.
\* The storage thread ends for good when the database cannot be opened.
SPECIFICATION FairSpec
CONSTANTS
    a1 = a1
    Adders = {a1}
    Web = web
    Keeper = keeper
    QueueLen = 2
    Limit = 1
    DelNum = 1
    MaxRow = 3
    MaxUse = 1
    MaxFault = 1
INVARIANTS TypeOK TableBounded
PROPERTIES ImplementsStoreSpec RowsSettle EditsSettle
CHECK_DEADLOCK FALSE
