\* Restarts, waits and retries of one request against Shutdown and Close, with
\* starts that fail; and a worker that breaks and is probed in a pool that nobody
\* closes.
SPECIFICATION FairSpec
CONSTANTS
    PoolSize = 1
    Requests = {r1}
    Goroutines = {g1, g2}
    None = None
    MaxHandles = 2
    Configs <- LivenessConfigs
PROPERTIES WaitersReturn CloseCompletes SlotsRecover
CHECK_DEADLOCK FALSE
