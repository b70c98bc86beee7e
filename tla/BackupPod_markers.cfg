SPECIFICATION FairSpec
CHECK_DEADLOCK FALSE
INVARIANTS
    TypeOK
    StoresWhole
PROPERTY
    FailureEndsJob
