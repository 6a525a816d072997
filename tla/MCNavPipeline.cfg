SPECIFICATION PipelineSpec
CONSTANTS
    Msg <- MCMsg
    TimeStamp <- MCTimeStamp
    Prn <- MCPrn
    Bits <- MCBits
    Kinds = {"LNAV", "CNAV"}
    MinIdenticalArgs = {3}
    NoTime = 0
    EpochInSeconds = 2
    ProcDepth = 2
    GpsEpoch = 3
INVARIANTS
    CompleteVote
PROPERTIES
    DeliveredInOrder
    BufferBound
