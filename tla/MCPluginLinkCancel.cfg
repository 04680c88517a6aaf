\* A retry that overlaps the attempt before it is not cancelled.
SPECIFICATION LinkSpec
CONSTANTS
    r1 = r1
    k1 = k1
    Runs = {r1}
    Cancellers = {k1}
    MaxAttempts = 2
INVARIANTS
    CancelReaches
CHECK_DEADLOCK FALSE
