SPECIFICATION Spec
CONSTANTS
    Elem <- MCElem
    Sat <- MCSat
    Begin <- MCBegin
    End <- MCEnd
    Toe <- MCToe
    Healthy <- MCHealthy
    Gps <- MCGps
    Hour = 4
    Week = 100
    Half = 8
    BdsEpoch = 15
    Time <- MCTime
    Earliest <- MCEarliest
    Latest = 30
    NULL = NULL
INVARIANT LimitsCover
