--------------------------- MODULE EngineInvariant ---------------------------
(***************************************************************************)
(* The inductive invariant behind the safety properties of Engine.  Each   *)
(* part says what a property leaves unsaid: where the thread can be, and   *)
(* what it has already checked, when the property is about to matter.      *)
(***************************************************************************)
EXTENDS Engine

\* The thread has entered a node that has not begun to execute.
Entered == {"await", "visit", "breakPause", "breakAwait", "authorize",
            "approval", "delayBefore"}

\* The flags and the thread: `finished` rises last, the verdict just before,
\* and an unpaused run has no steps left over.
FlagsInv == /\ flags.finished => pc = "done"
            /\ result = "None" <=> pc \notin {"concluding", "done"}
            /\ StepsLapse

\* What happened to the nodes is told by how far the walk has come.
FateInv ==
    /\ \A n \in Nodes : n > cur => fate[n] = "none"
    /\ pc \in {"spawned", "loop"} \cup Entered /\ cur \in Nodes => fate[cur] = "none"
    /\ pc = "execute" => fate[cur] = IF attempt = 0 THEN "none" ELSE "running"
    /\ pc \in {"executing", "retryWait"} => fate[cur] = "running" /\ attempt > 0
    /\ pc = "delayAfter" => fate[cur] = "finished"

\* A paused run owes the operator's steps and the node that has its permission.
QuotaInv == /\ quota >= 0
            /\ flags.paused => quota >= InFlight
            /\ flags.paused /\ ~flags.cancelled /\ ~flags.finished =>
                  quota >= InFlight + flags.stepBudget

\* Past the one late call no path leads back to an executor.
CancelInv == /\ late <= 1
             /\ late > 0 => flags.cancelled /\ pc # "execute"

\* A node about to execute has passed its gate, while the run still lived; an
\* approval given too late leads only to the end of the run.
Cleared(n) == /\ wf.node[n].known /\ wf.node[n].gate # "deny"
              /\ wf.node[n].gate = "approve" => <<n, FALSE>> \in approvals
GateInv ==
    /\ GateHolds
    /\ pc = "approval" => Node.known /\ Node.gate = "approve"
    /\ pc = "delayBefore" => \/ Cleared(cur)
                             \/ Node.known /\ <<cur, TRUE>> \in approvals
    /\ pc = "execute" => Cleared(cur)
    /\ \A n \in Nodes : <<n, TRUE>> \in approvals =>
          /\ flags.cancelled /\ n \notin Begun
          /\ pc \in {"delayBefore", "concluding", "done"}

\* Activations run ahead of the walk and rest on edges already taken.
Grounded(n) == n = wf.entry \/ \E e \in wf.edges : e.dst = n /\ Justifies(e)
ActivationInv ==
    /\ pc = "spawned" => cur = 1 /\ activated = {}
    /\ pc \notin {"spawned", "loop", "concluding", "done"} => cur \in activated
    /\ \A n \in activated : Grounded(n)
    /\ \A n \in Nodes : fate[n] # "none" => n \in activated
    /\ pc # "spawned" => \A n \in activated : n < cur => fate[n] # "none"
    /\ NothingLeftBehind

\* While the run lives, every failure behind the walk has been handled.
Handled(n) == \/ wf.node[n].continueOnError
              \/ \E e \in wf.edges : e.src = n /\ e.branch = "failure"
FailureInv ==
    /\ result = "None" =>
          \A n \in Nodes : /\ fate[n] # "refused"
                           /\ fate[n] = "running" => n = cur
                           /\ fate[n] = "failed" => Handled(n)
    /\ NoSwallowedFailure

\* A node past its breakpoint check was entered halted, or halted there, or is
\* being halted: nothing on the way to the executor forgets it.
BreakInv ==
    /\ pc \in {"authorize", "approval", "delayBefore", "execute", "executing", "retryWait"}
       /\ Node.breakpoint => halted # "no"
    /\ BreakpointStopsFreeRun

\* The whole invariant: its parts hold of every reachable state and every step
\* of the engine thread and of the operator keeps them.
Inductive == /\ TypeOK
             /\ FlagsInv /\ FateInv /\ QuotaInv /\ CancelInv
             /\ GateInv /\ ActivationInv /\ FailureInv /\ BreakInv
=============================================================================
