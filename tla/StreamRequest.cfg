\* Both kinds of requests, retried inside the worker and by the pool, given up on
\* by callers, clients and workers.
SPECIFICATION FairSpec
CONSTANTS
    Modes = {"stream", "call"}
    MaxWindows = 2
    MaxDeltas = 2
    OutCap = 2
    MaxAttempts = 2
    WireCap = 2
    None = None
INVARIANTS TypeOK OneSource TerminalDelivered RestartJustified FirstByteTruthful MetadataPaired NoReplay
PROPERTIES StreamsReleased ImplementsClientView
CHECK_DEADLOCK FALSE
