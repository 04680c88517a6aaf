\* Two runs of one session, two deciders, timeouts and changes of status.
SPECIFICATION SessionsFairSpec
CONSTANTS
    s1 = s1
    r1 = r1
    r2 = r2
    d1 = d1
    d2 = d2
    NoRun = NoRun
    NoSession = NoSession
    Sessions <- OneSession
    Runs <- TwoRuns
    Deciders <- TwoDeciders
    MaxRequests = 2
INVARIANTS
    SessionsConsistent
    ToldFirstDecision
    BlockedIsFound
PROPERTIES
    WaitEnds
