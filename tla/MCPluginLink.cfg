\* A run retries its node while an API thread cancels it and the plugin may die.
SPECIFICATION LinkSpec
CONSTANTS
    r1 = r1
    k1 = k1
    Runs = {r1}
    Cancellers = {k1}
    MaxAttempts = 2
CHECK_DEADLOCK FALSE
INVARIANTS
    LinkConsistent
    RightAnswer
    DisconnectedMeansDead
    CancelReachesLoneAttempt
