SPECIFICATION Spec
CONSTANTS
    Eph <- MCEph
    Sat <- MCSat
    Begin <- MCBegin
    End <- MCEnd
    Toe <- MCToe
    Time <- MCTime
    NULL = NULL
INVARIANTS
    TypeOK
    KeysAgree
    Represented
    LimitsCover
    Searches
