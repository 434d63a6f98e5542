\* One worker and one client, two submissions; one call of stop.
CONSTANTS
    Clients = {c1}
    Stoppers = {s1, s2}
    NumWorkers = 1
    Delays = {1}
    MaxTime = 0
    MaxCalls = 2
SPECIFICATION FairSpec
PROPERTIES AcceptedRuns StopEndsWorkers
CHECK_DEADLOCK FALSE
