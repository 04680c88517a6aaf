\* Two API threads pause, resume, step and cancel a run as it starts and ends.
SPECIFICATION ManagerSpec
CONSTANTS
    engine = engine
    c1 = c1
    c2 = c2
    EngineThread = engine
    Publishers <- Threads
    Callers <- TwoCallers
    MaxCalls = 2
    Workflows <- Small
    MaxBudget = 2
    MaxNodes = 2
    MaxSteps = 2
SYMMETRY CallerSymmetry
CHECK_DEADLOCK FALSE
INVARIANTS
    ManagerConsistent
    OutcomeStands
PROPERTIES
    TerminalIsFinal
