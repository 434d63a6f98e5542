\* Three starts; two threads that may call stop at once; two pool workers; one client.
CONSTANTS
    Callers = {c1,c2}
    PoolWorkers = {w1, w2}
    Sessions = {s1}
    MaxStarts = 3
    MaxPackets = 1
SPECIFICATION Spec
SYMMETRY Symmetry
INVARIANTS TypeOK CountsAreExact PumpNeverLost OnePump StopQuiesces SessionsClosed
CHECK_DEADLOCK FALSE
