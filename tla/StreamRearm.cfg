\* A fallback child that has not answered yet.
SPECIFICATION Spec
CONSTANTS
    Modes = {"stream"}
    MaxWindows = 2
    MaxDeltas = 1
    OutCap = 2
    MaxAttempts = 1
    WireCap = 2
    None = None
INVARIANTS HungDetectionRearms
CHECK_DEADLOCK FALSE
