\* One wired line, the radio line and buffers that are soon full.
\* The lines fall silent after MaxByte bytes.
SPECIFICATION FairSpec
CONSTANTS
    Wired = {1}
    Radio = {2}
    NoLine = NoLine
    BufSize = 2
    MaxByte = 3
INVARIANTS TypeOK InOrderOnce NothingElseLost
PROPERTIES Drained
CHECK_DEADLOCK FALSE
