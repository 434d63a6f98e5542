\* Delayed stores; the pool may stop or refuse; no backpressure policy.
\* Two threads that both enqueue, from inside a task or not, and both drain.
CONSTANTS
    Callers = {}
    Workers = {w1, w2}
    Limits = {1, 2}
    Policies = {FALSE}
    MaxCalls = 3
    MayRefuse = TRUE
    StoreBuffers = TRUE
SPECIFICATION Spec
INVARIANTS AdmissionBound
 
CHECK_DEADLOCK FALSE
