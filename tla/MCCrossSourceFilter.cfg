SPECIFICATION Spec
CONSTANTS
    Msg <- MCMsg
    TimeStamp <- MCTimeStamp
    Prn <- MCPrn
    Bits <- MCBits
    Kinds = {"LNAV", "CNAV"}
    MinIdenticalArgs = {1, 65539}
    NoTime = 0
INVARIANTS
    TypeOK
    FairVote
    NoLoss
    OneEpoch
