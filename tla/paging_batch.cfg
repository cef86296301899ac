\* Every environment: no failure, failures, short sleeps, both, each with UEs
\* told apart or not.  A lost UE stalls the batch for ever, so no deadlock
\* check; AllUesPaged excludes a stall when nothing fails.
SPECIFICATION FairSpec
CONSTANTS
    w1 = w1
    w2 = w2
    Worker = {w1, w2}
    WorkLoad = 2
    Environments <- AllEnvironments
INVARIANTS
    TypeOK
    LostUeStopsBatch
    MeasuredWhenServed
    NoStrayPaging
PROPERTIES
    ImplementsRounds
    AllUesPaged
CHECK_DEADLOCK FALSE
