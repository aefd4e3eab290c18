\* Two extra connections with two attempts each; three tries of two requests, or one
\* try under two registry overrides.
SPECIFICATION Spec
CONSTANTS
    Extra = {1, 2}
    Attempts = 2
    Tries = {1, 2, 3}
    RequestOf <- MCRequestOf
    Clients <- MCClients
    ClientProvider <- MCProvider
    FallbackChain <- MCChain
    Starts <- MCStarts
    Modulus = 8
INVARIANTS
    DialsAccounted AttachedOrClean
    PreflightComplete RotationStable
PROPERTIES HandshakeReturns
CHECK_DEADLOCK FALSE
