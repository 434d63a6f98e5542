\* Two threads that call, two pool workers; two starts and two attempts to connect; one of
\* each once a connect has met a disconnect or a stop.
CONSTANTS
    Callers = {c1, c2}
    PoolWorkers = {w1, w2}
    MaxStarts = 2
    MaxConnects = 2
    MaxInbox = 1
    MaxCrossed = 2
SPECIFICATION Spec
SYMMETRY Symmetry
CONSTRAINT CallsBound
INVARIANTS TickIsExclusive PumpNeverLost DisconnectQuiesces
CHECK_DEADLOCK FALSE
