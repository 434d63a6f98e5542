\* One client that comes back, two workers, one caller of disconnectClient.
CONSTANTS
    Guids = {g1}
    Workers = {w1, w2}
    Clients = {c1}
    Io = io
    Reconnects = {TRUE, FALSE}
    MayRefuse = TRUE
    MaxSessions = 2
    MaxQueued = 1
    MaxCommands <- CommandsOf
    MaxTokens = 2
SPECIFICATION Spec
SYMMETRY Symmetric
INVARIANTS TypeOK FlushNeverLost OneFlush NoTokenLeak ReportedOnce RemovedIsClosed
CHECK_DEADLOCK FALSE
