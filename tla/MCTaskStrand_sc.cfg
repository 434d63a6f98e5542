\* Sequentially consistent memory; the pool may stop, the policy may come and go.
CONSTANTS
    Callers = {c1}
    Workers = {w1, w2}
    Limits = {1, 2}
    Policies = {TRUE, FALSE}
    MaxCalls = 1
    MayRefuse = TRUE
    StoreBuffers = FALSE
SPECIFICATION FairSpec
INVARIANTS TypeOK NoStrandedTask FlagHasOwner StrandIsSerial PendingIsExact
PROPERTIES EveryTaskRuns
CHECK_DEADLOCK FALSE
