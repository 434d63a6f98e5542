\* One worker; the pool may be stopped under the system; stop may be called twice at once; two starts.
CONSTANTS
    Callers = {c1, c2}
    PoolWorkers = {w1}
    Sessions = {}
    MaxStarts = 2
    MaxPackets = 1
SPECIFICATION FairSpec
PROPERTIES StopReturns PumpTicks
CHECK_DEADLOCK FALSE
