\* One client that connects once: which ends of its session are reported?
CONSTANTS
    Guids = {g1}
    Workers = {w1}
    Clients = {c1}
    Io = io
    Reconnects = {FALSE}
    MayRefuse = FALSE
    MaxSessions = 1
    MaxQueued = 1
    MaxCommands <- CommandsOf
    MaxTokens = 1
SPECIFICATION Spec
INVARIANTS EveryDisconnectReported
CHECK_DEADLOCK FALSE
