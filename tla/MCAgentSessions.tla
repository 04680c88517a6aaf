--------------------------- MODULE MCAgentSessions ---------------------------
(***************************************************************************)
(* Model values for AgentSessions.                                         *)
(***************************************************************************)
EXTENDS AgentSessions

CONSTANTS s1, r1, r2, d1, d2

OneSession == {s1}
OneRun == {r1}
TwoRuns == {r1, r2}
OneDecider == {d1}
TwoDeciders == {d1, d2}
=============================================================================
