\* One owner starts and stops once: what does stop leave in the pool?
CONSTANTS
    Callers = {c1}
    PoolWorkers = {w1, w2}
    Sessions = {}
    MaxStarts = 1
    MaxPackets = 1
SPECIFICATION Spec
INVARIANTS NoWorkAfterStop
CHECK_DEADLOCK FALSE
