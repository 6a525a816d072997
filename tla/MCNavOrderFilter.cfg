SPECIFICATION FairSpec
CONSTANTS
    Msg <- MCMsg
    TimeStamp <- MCTimeStamp
    EpochInSeconds = 2
    Depths = {1, 2, 3}
    GpsEpoch = 3
INVARIANTS
    TypeOK
    TimeOrder
    NoLoss
PROPERTIES
    RejectedTooOld
    Released
