CONSTANTS
    Time <- MCTime
    MaxHalf <- MCMaxHalf
    Limits <- MCLimits
    Off = Off
SPECIFICATION Spec
INVARIANT MatchReturned
