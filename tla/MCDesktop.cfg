\* Every node alone and beside a chord, a paste or a drag of another run.
SPECIFICATION FairSpec
CONSTANTS
    a = a
    b = b
    Threads = {a, b}
    OnWindows = TRUE
    Windows = {"w"}
    Plans <- MCPlans
    MaxLost = 1
CHECK_DEADLOCK FALSE
INVARIANTS
    NothingLeftHeld
    PasteRestores
    KilledTreeIsDown
PROPERTIES
    CancelledNodeAnswers
