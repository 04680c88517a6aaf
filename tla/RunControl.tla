----------------------------- MODULE RunControl -----------------------------
(***************************************************************************)
(* The pause / resume / step / cancel signalling of one run (control.rs):  *)
(* four flags behind a mutex and a condition variable on which the run's   *)
(* engine thread, the only waiter, may be parked.  Every operation holds   *)
(* the mutex from its first read to its last write, so each is one action. *)
(***************************************************************************)
EXTENDS Naturals

CONSTANT MaxBudget  \* the largest value of step_budget (u32::MAX in the code)

ASSUME BudgetAssumption == MaxBudget \in Nat \ {0}

VARIABLES flags,    \* Flags: paused, cancelled, finished, stepBudget
          parked    \* the engine thread sleeps in signal.wait

controlVars == <<flags, parked>>

Flags == [paused : BOOLEAN, cancelled : BOOLEAN, finished : BOOLEAN,
          stepBudget : 0..MaxBudget]

ControlTypeOK == flags \in Flags /\ parked \in BOOLEAN

\* A new control handle; the run manager pauses it at once for start_paused.
NewFlags(startPaused) ==
    [paused |-> startPaused, cancelled |-> FALSE, finished |-> FALSE,
     stepBudget |-> 0]

SaturatingInc(b) == IF b < MaxBudget THEN b + 1 ELSE b

-----------------------------------------------------------------------------
\* What the operator and the engine do to the flags.

\* Suspends at the next node boundary; nobody waits for this flag to rise.
Pause == /\ flags' = [flags EXCEPT !.paused = TRUE]
         /\ UNCHANGED parked

\* Mutant: resume keeps the steps already granted.
ResumeKeepsBudget == /\ flags' = [flags EXCEPT !.paused = FALSE]
                     /\ parked' = FALSE

Resume == /\ flags' = [flags EXCEPT !.paused = FALSE, !.stepBudget = 0]
          /\ parked' = FALSE

\* Mutant: step without notify_all.
StepSilently == /\ flags' = [flags EXCEPT !.paused = TRUE,
                                          !.stepBudget = SaturatingInc(@)]
                /\ UNCHANGED parked

Step == /\ flags' = [flags EXCEPT !.paused = TRUE,
                                  !.stepBudget = SaturatingInc(@)]
        /\ parked' = FALSE

\* Mutant: cancel without notify_all.
CancelSilently == /\ flags' = [flags EXCEPT !.cancelled = TRUE, !.paused = FALSE]
                  /\ UNCHANGED parked

Cancel == /\ flags' = [flags EXCEPT !.cancelled = TRUE, !.paused = FALSE]
          /\ parked' = FALSE

Finish == /\ flags' = [flags EXCEPT !.finished = TRUE, !.paused = FALSE]
          /\ parked' = FALSE

-----------------------------------------------------------------------------
\* await_permission: the body of its loop, by outcome.  A parked thread
\* re-evaluates it only after a notification.

AwaitRefused == /\ ~parked
                /\ flags.cancelled
                /\ UNCHANGED controlVars

\* Mutant: the grant forgets to take the step it uses.
GrantKeepsBudget ==
    /\ ~parked
    /\ ~flags.cancelled
    /\ ~flags.paused \/ flags.stepBudget > 0 \/ flags.finished
    /\ UNCHANGED controlVars

AwaitGranted ==
    /\ ~parked
    /\ ~flags.cancelled
    /\ ~flags.paused \/ flags.stepBudget > 0 \/ flags.finished
    /\ flags' = IF flags.paused /\ flags.stepBudget > 0
                THEN [flags EXCEPT !.stepBudget = @ - 1] ELSE flags
    /\ UNCHANGED parked

AwaitParks == /\ ~parked
              /\ ~flags.cancelled /\ ~flags.finished
              /\ flags.paused /\ flags.stepBudget = 0
              /\ parked' = TRUE
              /\ UNCHANGED flags
=============================================================================
