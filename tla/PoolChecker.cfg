\* The health checker, hung detection, failing starts and Close around one
\* request; and one slot whose worker is replaced twice.
SPECIFICATION Spec
CONSTANTS
    PoolSize = 1
    Requests = {r1}
    Goroutines = {g1, g2}
    None = None
    MaxHandles = 3
    Configs <- CheckerConfigs
SYMMETRY ActorSymmetry
INVARIANTS TypeOK NoLeakedWorker RegisteredRestartsDone DrainIsGraceful GoodWorkersSurvive
PROPERTIES SwapsAreUpgrades
CHECK_DEADLOCK FALSE
