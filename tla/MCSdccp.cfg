\* Either protocol; two variables of one device that take a telegram each.
SPECIFICATION FairSpec
CONSTANTS
    QueueLen = 3
    MaxMishap = 2
    MaxAir = 3
    Nid <- OneDevice
    Flags <- RealAndMin
    VerifyFlag = TRUE
    Room = 1
INVARIANTS TypeOK InStep ReportsAfterPass
PROPERTIES HandshakeSettles HeartbeatGoesOut DataReported
