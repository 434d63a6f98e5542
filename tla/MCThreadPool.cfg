\* One client and two workers, two submissions; two calls of stop race.
CONSTANTS
    Clients = {c1}
    Stoppers = {s1, s2}
    NumWorkers = 2
    Delays = {1}
    MaxTime = 0
    MaxCalls = 2
SPECIFICATION Spec
INVARIANTS TypeOK StopSeesNoSubmission NoSleepOnWork
PROPERTIES ImplementsService
CHECK_DEADLOCK FALSE
