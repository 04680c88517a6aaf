----------------------------- MODULE RunContract -----------------------------
(***************************************************************************)
(* What a run promises whoever started it, without saying how it walks:    *)
(* every node runs at most once, only in a live run; once a stop is asked  *)
(* for at most one more executor call begins; a run is reported cancelled  *)
(* only if someone asked; and the verdict is final.                        *)
(***************************************************************************)
EXTENDS FiniteSets

VARIABLES phase,  \* "ready", "live" or the verdict
          stop,   \* "no", "asked", or "spent": asked, and the last call began
          ran     \* the nodes that have begun to run

contractVars == <<phase, stop, ran>>

Verdicts == {"Completed", "Failed", "Cancelled"}

ContractInit == phase = "ready" /\ stop = "no" /\ ran = {}

Begin == phase = "ready" /\ phase' = "live" /\ UNCHANGED <<stop, ran>>

Reject == phase = "ready" /\ phase' = "Failed" /\ UNCHANGED <<stop, ran>>

AskStop == stop = "no" /\ stop' = "asked" /\ UNCHANGED <<phase, ran>>

LastCall == stop' = IF stop = "no" THEN "no" ELSE "spent"

RunNode == /\ phase = "live" /\ stop # "spent"
           /\ \E n \in ran' \ ran : ran' = ran \cup {n}
           /\ LastCall
           /\ UNCHANGED phase

RunAgain == /\ phase = "live" /\ stop # "spent"
            /\ LastCall
            /\ UNCHANGED <<phase, ran>>

End == /\ phase = "live"
       /\ phase' \in Verdicts
       /\ phase' = "Cancelled" => stop # "no"
       /\ UNCHANGED <<stop, ran>>

ContractNext == Begin \/ Reject \/ AskStop \/ RunNode \/ RunAgain \/ End

ContractSpec == ContractInit /\ [][ContractNext]_contractVars
=============================================================================
