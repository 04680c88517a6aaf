CONSTANTS
  MaxSteps = 2
  MaxRepairs = 1
  MaxFaults = 1
  s1 = s1
  Stops <- MCStops
  Configs <- MCConfigs
SPECIFICATION FairSpec
CHECK_DEADLOCK FALSE
INVARIANTS
    ShellConsistent
    BudgetCaps
    NoUnattendedRun
    SessionIsClosed
    StopIsNotAFailure

    
