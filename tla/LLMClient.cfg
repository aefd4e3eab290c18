\* Two racing round trips and two bytes of a streamed body; two unary calls to one
\* or two origins, with two objects of each pool and two connections.
SPECIFICATION Spec
CONSTANTS
    Trips = {t1, t2}
    MaxBytes = 2
    Calls = {c1, c2}
    Origins = {o1, o2}
    ClientMode = "auto"
    Slots = {1, 2}
INVARIANTS
    ReadsTruthful OneShot
    OneClientPerOrigin ExclusiveUse CleanPool NothingLeaked
PROPERTIES ReadsReturn CancelReturns
CHECK_DEADLOCK FALSE
