\* DropScope against concurrent and late FetchAdd calls, sweeper disabled.
SPECIFICATION FairSpec
CONSTANTS
    Callers = {c1, c2}
    Keys = {k1}
    Ops = {o1}
    NoOp = NoOp
    None = None
    Seeds = {7}
    Modulus = 8
    Delta = 1
    TTL = 0
    MaxClock = 1
    MaxScopes = 2
    MaxEntries = 4
    MaxPlain = 1
INVARIANTS TypeOK IdemImpliesScope
PROPERTIES FetchAddReturns
CHECK_DEADLOCK FALSE
