\* All four kinds of goroutines, with evictions.
SPECIFICATION Spec
CONSTANTS
    Callers = {c1, c2}
    Keys = {k1}
    Ops = {o1}
    NoOp = NoOp
    None = None
    Seeds = {7}
    Modulus = 8
    Delta = 1
    TTL = 1
    MaxClock = 4
    MaxScopes = 2
    MaxEntries = 2
    MaxPlain = 0
SYMMETRY CallerSymmetry
INVARIANTS IdemImpliesScope
CHECK_DEADLOCK FALSE
