----------------------------- MODULE MCAgentTurn -----------------------------
(***************************************************************************)
(* A turn of the Studio's agent, or of the command line's, for TLC: each   *)
(* of the command line's ways to plan, and the modes of the Studio: as     *)
(* "forbidden" and "partial" ask for what plan and run ask for, they are   *)
(* the same records; "manual" continues an earlier session.                *)
(***************************************************************************)
EXTENDS StudioShell, TLC

CONSTANT s1
MCStops == {s1}
MCConfigs == CliConfigs \cup {Asks(FALSE, TRUE, TRUE, TRUE)}
=============================================================================
