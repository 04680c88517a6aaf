\* Two threads publish; two subscribers come late and lag.
SPECIFICATION StreamSpec
CONSTANTS
    engine = engine
    caller = caller
    s1 = s1
    s2 = s2
    Publishers <- TwoThreads
    Subscribers <- TwoClients
    Capacity = 2
    MaxEvents = 4
CHECK_DEADLOCK FALSE
SYMMETRY ClientSymmetry
INVARIANTS
    StreamMatchesLog
    StreamConsistent
