\* Two slots that fail and are restarted one behind the other, with two
\* requests that retry on them or wait for either.
SPECIFICATION Spec
CONSTANTS
    PoolSize = 2
    Requests = {r1, r2}
    Goroutines = {g1, g2}
    None = None
    MaxHandles = 3
    Configs <- TwoSlotsConfigs
SYMMETRY ActorSymmetry
INVARIANTS GoodWorkersSurvive NoLostWakeup
CHECK_DEADLOCK FALSE
