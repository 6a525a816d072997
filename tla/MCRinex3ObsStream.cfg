SPECIFICATION FairSpec
CONSTANTS
    File <- MCFile
    Lines <- MCLines
    Terminated <- MCTerminated
    Timeless <- MCTimeless
    NumSVs = 2
    UIntSize = 12
    NULL = NULL
INVARIANTS
    TypeOK
    WholeRecords
    NothingSkipped
    RolledBack
PROPERTIES
    Returns
