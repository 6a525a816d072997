SPECIFICATION Spec
CONSTANTS
    Msg <- MCMsg
    Source <- MCSource
    SfId <- MCSfId
    Time <- MCTime
    Iode <- MCIode
    Week = 10
    MaxList = 4
    NULL = NULL
INVARIANTS
    OneFrame
    NoneMissed
