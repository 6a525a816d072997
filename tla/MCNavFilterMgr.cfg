SPECIFICATION FairSpec
CONSTANTS
    Msg = {m1, m2, m3}
    Filter = {f1, f2, f3}
INVARIANTS
    TypeOK
    Custody
    NoBypass
    FinalizeFlushes
    ValidateReports
PROPERTIES
    CustodySpec
    CallReturns
