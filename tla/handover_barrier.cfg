\* Two environments: nothing fails and the sleeps are long enough; or anything may fail and the
\* sleeps guarantee nothing.  In the second the batch may stall for ever (a lost worker, a
\* missed poll), so no deadlock check; that it ends in the first is AllLatenciesLogged.
SPECIFICATION FairSpec
CONSTANTS
    Worker = {w1, w2, w3}
    NoOne = NoOne
    Environments <- BestAndWorst
INVARIANTS
    TypeOK
    CounterIsArrivals
    NoEarlyStart
    LostWorkerStopsBatch
    LatenciesDelivered
PROPERTIES
    ImplementsBarrier
    AllLatenciesLogged
CHECK_DEADLOCK FALSE
