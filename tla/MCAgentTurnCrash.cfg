CONSTANTS
  MaxSteps = 2
  MaxRepairs = 1
  MaxFaults = 1
  s1 = s1
  Stops <- MCStops
  Configs <- MCConfigs
SPECIFICATION Spec
INVARIANT CrashIsNotReplanned
CHECK_DEADLOCK FALSE
