\* Background input strikes with the flag that lets go.
SPECIFICATION Spec
CONSTANTS
    a = a
    b = b
    Threads = {a, b}
    OnWindows = TRUE
    Windows = {"w"}
    Plans <- OnePlan
    MaxLost = 0
INVARIANTS
    TypeReleasesTheChord
CHECK_DEADLOCK FALSE
