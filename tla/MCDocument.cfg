SPECIFICATION Spec
CONSTANTS
    MaxDepth = 3
    NodeNames <- MCNodeNames
    EdgeNames <- MCEdgeNames
    Documents <- MCDocuments
CHECK_DEADLOCK FALSE
INVARIANTS
    AcceptedIsRunnable
    GraphAnswers
    MigrationSettles
    ValidationForetells

    
