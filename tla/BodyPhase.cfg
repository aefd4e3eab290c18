\* An idle deadline that fires while the read of an empty answer comes back.
SPECIFICATION StreamSpec
CONSTANTS
    Trips = {t1}
    MaxBytes = 1
INVARIANTS PhaseCorrect
CHECK_DEADLOCK FALSE
