\* Two run threads record through failed writes and crashes.
SPECIFICATION AuditSpec
CONSTANTS
    t1 = t1
    t2 = t2
    Threads = {t1, t2}
    MaxRecords = 5
    MaxFaults = 2
    CharCuts = FALSE
SYMMETRY ThreadSymmetry
CHECK_DEADLOCK FALSE
INVARIANTS
    NumbersAreUnique
    
