\* Every walk of small workflows under every interleaving with the operator; cancelled
\* and unpaused runs end, granted steps are taken.
SPECIFICATION FairSpec
CONSTANTS
    MaxBudget = 2
    MaxNodes = 2
    MaxSteps = 2
    Workflows <- WalkWorkflows
INVARIANTS
    PauseHolds
    CancelIsPrompt
    GateHolds
    WalkIsOrderly
    ActivationJustified
    
    Inductive
PROPERTIES
    KeepsContract
    RunEnds
    StepsAreTaken
