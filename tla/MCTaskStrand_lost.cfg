\* Delayed stores, a pool that never refuses: a task left behind by the drain.
CONSTANTS
    Callers = {c1, c2}
    Workers = {w1}
    Limits = {2}
    Policies = {FALSE}
    MaxCalls = 1
    MayRefuse = FALSE
    StoreBuffers = TRUE
SPECIFICATION Spec
SYMMETRY Symmetric
INVARIANTS NoStrandedTask
CHECK_DEADLOCK FALSE
