\* A restart that a waiting request started itself is not seen by Close.
SPECIFICATION Spec
CONSTANTS
    PoolSize = 1
    Requests = {r1}
    Goroutines = {g1, g2}
    None = None
    MaxHandles = 2
    Configs <- UntrackedConfigs
INVARIANTS CloseKillsAll
CHECK_DEADLOCK FALSE
