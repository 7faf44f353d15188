\* Variables of two devices on one link.
SPECIFICATION FairSpec
CONSTANTS
    QueueLen = 2
    MaxMishap = 0
    MaxAir = 2
    Nid <- TwoDevices
    Flags <- RealOnly
    VerifyFlag = TRUE
    Room = 2
PROPERTIES HeartbeatGoesOut
