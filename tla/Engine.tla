------------------------------- MODULE Engine -------------------------------
(***************************************************************************)
(* WorkflowEngine::run (engine.rs): one thread walks the nodes of one      *)
(* workflow in topological order, asks for permission at every node        *)
(* boundary, authorizes and executes the node, and routes its outcome over *)
(* the outgoing edges, while the operator pauses, resumes, steps and       *)
(* cancels the run through its RunControl.                                 *)
(*                                                                         *)
(* Nodes are named by their position in graph.topological_order(), so an   *)
(* edge leads from a smaller to a larger number.  What a node computes is  *)
(* left out: its condition, its guards and its result are free choices.    *)
(***************************************************************************)
EXTENDS RunControl, Integers, FiniteSets, Sequences

CONSTANTS Workflows,  \* the workflows that may be submitted
          MaxNodes,   \* EngineOptions::max_nodes
          MaxSteps    \* bound on the unused steps the operator may pile up

Branches == {"always", "success", "failure"}

NodeKind == [enabled : BOOLEAN, conditional : BOOLEAN, breakpoint : BOOLEAN,
             known : BOOLEAN, gate : {"allow", "deny", "approve"},
             retry : Nat, continueOnError : BOOLEAN, last : BOOLEAN]

\* A request: `valid` says that validation, entry_node and topological_order
\* succeed; `last` marks a core.End node, `known` one with an executor.
IsWorkflow(w) ==
    /\ w.size \in Nat /\ w.entry \in 1..w.size
    /\ w.node \in [1..w.size -> NodeKind]
    /\ \A e \in w.edges : /\ e.src \in 1..w.size /\ e.dst \in 1..w.size
                          /\ e.src < e.dst
                          /\ e.branch \in Branches /\ e.guarded \in BOOLEAN
    /\ w.startPaused \in BOOLEAN /\ w.valid \in BOOLEAN

ASSUME EngineAssumption ==
    /\ \A w \in Workflows : IsWorkflow(w)
    /\ MaxNodes \in Nat
    /\ MaxSteps \in Nat

VARIABLES
    wf,         \* the submitted workflow
    pc,         \* where the engine thread is
    cur,        \* its position in the topological order
    activated,  \* nodes an incoming edge (or being the entry) has activated
    attempt,    \* executor calls made for the current node
    executed,   \* nodes that finished successfully
    result,     \* the status of the outcome, "None" before the loop ends
    outbox,     \* events the thread is emitting, in order
    \* History variables: they record what happened and guard nothing.
    fate,       \* what became of each node
    quota,      \* node starts the operator still owes a paused run
    late,       \* executor calls that began after the cancellation
    approvals,  \* approvals given: <<node, the run was cancelled by then>>
    halted      \* whether the run was suspended before the current node

engineVars == <<wf, pc, cur, activated, attempt, executed, result, outbox,
                fate, quota, late, approvals, halted>>
vars == <<controlVars, engineVars>>

Terminal == {"Completed", "Failed", "Cancelled"}
TerminalEvent == [Completed |-> "RunCompleted", Failed |-> "RunFailed",
                  Cancelled |-> "RunCancelled"]
Events == {"RunStarted", "RunPaused", "NodeStarted", "NodeFinished",
           "NodeFailed", "RunCompleted", "RunFailed", "RunCancelled"}
PCs == {"spawned", "loop", "await", "visit", "breakPause", "breakAwait",
        "authorize", "approval", "delayBefore", "execute", "executing",
        "retryWait", "delayAfter", "concluding", "done"}
Fates == {"none", "passed", "pruned", "refused", "running", "finished", "failed"}

Nodes == 1..wf.size
Node == wf.node[cur]

TypeOK ==
    /\ ControlTypeOK
    /\ wf \in Workflows
    /\ pc \in PCs
    /\ cur \in 1..(wf.size + 1)
    /\ pc \notin {"spawned", "loop", "concluding", "done"} => cur \in Nodes
    /\ activated \in SUBSET Nodes
    /\ attempt \in Nat /\ executed \in Nat
    /\ result \in Terminal \cup {"None"}
    /\ outbox \in Seq(Events)
    /\ fate \in [Nodes -> Fates]
    /\ quota \in Int /\ late \in Nat
    /\ approvals \in SUBSET (Nodes \X BOOLEAN)
    /\ halted \in {"no", "pausing", "yes"}

Init ==
    /\ wf \in Workflows
    /\ flags = NewFlags(wf.startPaused) /\ parked = FALSE
    /\ pc = "spawned" /\ cur = 1 /\ activated = {} /\ attempt = 0
    /\ executed = 0 /\ result = "None" /\ outbox = <<>>
    /\ fate = [n \in Nodes |-> "none"]
    /\ quota = 0 /\ late = 0 /\ approvals = {} /\ halted = "no"

-----------------------------------------------------------------------------
\* The steps of the thread.  It emits an event before it goes on.

At(where) == pc = where /\ outbox = <<>>

observations == <<quota, late, approvals, halted>>
progress == <<cur, activated, attempt, executed>>

\* Leaves the loop with a status; the terminal event follows what is emitted.
Conclude(status, emitted) ==
    /\ result' = status
    /\ outbox' = Append(emitted, TerminalEvent[status])
    /\ pc' = "concluding"

NextNode == pc' = "loop" /\ cur' = cur + 1

\* Mutant: the branch of the edge is not compared with the outcome.
TakingsOfAnyBranch(outcome) ==
    LET fits == {e \in wf.edges : e.src = cur}
        free == {e \in fits : ~e.guarded}
    IN  {free \cup held : held \in SUBSET (fits \ free)}

\* edge_is_taken: the branch fits the outcome and the guard, if any, holds.
Takings(outcome) ==
    LET fits == {e \in wf.edges : e.src = cur /\ e.branch \in {"always", outcome}}
        free == {e \in fits : ~e.guarded}
    IN  {free \cup held : held \in SUBSET (fits \ free)}

Activate(edges) == activated' = activated \cup {e.dst : e \in edges}

\* The event sink has taken the next event.
Emit == /\ outbox # <<>>
        /\ outbox' = Tail(outbox)
        /\ UNCHANGED <<controlVars, wf, pc, progress, result, fate, observations>>

\* fail_fast: validation, entry point or topological order.
FailFast == /\ At("spawned") /\ ~wf.valid
            /\ Conclude("Failed", <<>>)
            /\ UNCHANGED <<controlVars, wf, progress, fate, observations>>

Start == /\ At("spawned") /\ wf.valid
         /\ outbox' = IF wf.startPaused THEN <<"RunStarted", "RunPaused">>
                                        ELSE <<"RunStarted">>
         /\ activated' = {wf.entry}
         /\ pc' = "loop"
         /\ UNCHANGED <<controlVars, wf, cur, attempt, executed, result, fate,
                        observations>>

\* Mutant: a run at its node limit is reported as cancelled.
LimitCancels ==
    /\ At("loop")
    /\ \/ cur > wf.size /\ Conclude("Completed", <<>>)
       \/ /\ cur <= wf.size
          /\ flags.cancelled \/ (cur \in activated /\ executed >= MaxNodes)
          /\ Conclude("Cancelled", <<>>)
    /\ UNCHANGED <<controlVars, wf, progress, fate, observations>>

\* The loop is over, or its head finds the run cancelled or at its node limit.
LoopEnds ==
    /\ At("loop")
    /\ \/ cur > wf.size /\ Conclude("Completed", <<>>)
       \/ cur <= wf.size /\ flags.cancelled /\ Conclude("Cancelled", <<>>)
       \/ /\ cur <= wf.size /\ ~flags.cancelled
          /\ cur \in activated /\ executed >= MaxNodes
          /\ Conclude("Failed", <<>>)
    /\ UNCHANGED <<controlVars, wf, progress, fate, observations>>

SkipInactive == /\ At("loop") /\ cur <= wf.size /\ ~flags.cancelled
                /\ cur \notin activated
                /\ NextNode
                /\ UNCHANGED <<controlVars, wf, activated, attempt, executed,
                               result, outbox, fate, observations>>

EnterNode == /\ At("loop") /\ cur <= wf.size /\ ~flags.cancelled
             /\ cur \in activated /\ executed < MaxNodes
             /\ pc' = "await"
             /\ UNCHANGED <<controlVars, wf, progress, result, outbox, fate,
                            observations>>

\* control.await_permission(), called at the node boundary and at a breakpoint.
Await(where, next) ==
    /\ At(where)
    /\ \/ /\ AwaitGranted
          /\ pc' = next
          /\ halted' = IF flags.paused \/ where = "breakAwait" THEN "yes" ELSE "no"
          /\ UNCHANGED <<result, outbox>>
       \/ /\ AwaitRefused
          /\ Conclude("Cancelled", <<>>)
          /\ UNCHANGED halted
       \/ /\ AwaitParks
          /\ UNCHANGED <<pc, result, outbox, halted>>
    /\ UNCHANGED <<wf, progress, fate, quota, late, approvals>>

\* A disabled node runs nothing and passes control on.
PassDisabled == /\ At("visit") /\ ~Node.enabled
                /\ \E taken \in Takings("success") : Activate(taken)
                /\ fate' = [fate EXCEPT ![cur] = "passed"]
                /\ NextNode
                /\ UNCHANGED <<controlVars, wf, attempt, executed, result,
                               outbox, observations>>

\* A false condition prunes the node and whatever only it would activate.
Prune == /\ At("visit") /\ Node.enabled /\ Node.conditional
         /\ fate' = [fate EXCEPT ![cur] = "pruned"]
         /\ NextNode
         /\ UNCHANGED <<controlVars, wf, activated, attempt, executed, result,
                        outbox, observations>>

ConditionFails == /\ At("visit") /\ Node.enabled /\ Node.conditional
                  /\ fate' = [fate EXCEPT ![cur] = "refused"]
                  /\ Conclude("Failed", <<"NodeFailed">>)
                  /\ UNCHANGED <<controlVars, wf, progress, observations>>

CheckBreakpoint ==
    /\ At("visit") /\ Node.enabled
    /\ pc' = IF Node.breakpoint /\ ~flags.paused THEN "breakPause" ELSE "authorize"
    /\ halted' = IF flags.paused /\ halted = "no" THEN "pausing" ELSE halted
    /\ UNCHANGED <<controlVars, wf, progress, result, outbox, fate, quota, late,
                   approvals>>

HitBreakpoint ==
    /\ At("breakPause")
    /\ Pause
    /\ quota' = IF flags.paused THEN quota ELSE 0
    /\ outbox' = <<"RunPaused">>
    /\ pc' = "breakAwait"
    /\ UNCHANGED <<wf, progress, result, fate, late, approvals, halted>>

\* No executor, or context.authorize is denied: the run fails at this node.
Refuse(emitted) == /\ fate' = [fate EXCEPT ![cur] = "refused"]
                   /\ Conclude("Failed", emitted)
                   /\ UNCHANGED <<controlVars, wf, progress, observations>>

StartNode == pc' = "delayBefore" /\ outbox' = <<"NodeStarted">> /\ UNCHANGED result

\* Mutant: the policy that asks for an approval is taken as one that allows.
AuthorizeUnasked ==
    /\ At("authorize") /\ Node.known /\ Node.gate # "deny"
    /\ StartNode
    /\ UNCHANGED <<controlVars, wf, progress, fate, observations>>

Authorize ==
    /\ At("authorize")
    /\ \/ ~Node.known /\ Refuse(<<>>)
       \/ Node.known /\ Node.gate = "deny" /\ Refuse(<<"NodeFailed">>)
       \/ /\ Node.known /\ Node.gate = "allow"
          /\ StartNode
          /\ UNCHANGED <<controlVars, wf, progress, fate, observations>>
       \/ /\ Node.known /\ Node.gate = "approve"
          /\ pc' = "approval"
          /\ UNCHANGED <<controlVars, wf, progress, result, outbox, fate, observations>>

\* approval.approve blocks the thread until an answer or its timeout.
ApprovalGranted ==
    /\ At("approval")
    /\ StartNode
    /\ approvals' = approvals \cup {<<cur, flags.cancelled>>}
    /\ UNCHANGED <<controlVars, wf, progress, fate, quota, late, halted>>

ApprovalRefused == At("approval") /\ Refuse(<<"NodeFailed">>)

\* wait_interruptible(delay_before_ms): slices of sleep, then a last check.
DelayBefore ==
    /\ At("delayBefore")
    /\ IF flags.cancelled
       THEN Conclude("Cancelled", <<>>) /\ UNCHANGED attempt
       ELSE pc' = "execute" /\ attempt' = 0 /\ UNCHANGED <<result, outbox>>
    /\ UNCHANGED <<controlVars, wf, cur, activated, executed, fate, observations>>

\* executor.execute is called ...
BeginExecute ==
    /\ At("execute")
    /\ attempt' = attempt + 1
    /\ pc' = "executing"
    /\ fate' = [fate EXCEPT ![cur] = "running"]
    /\ quota' = IF flags.paused /\ attempt = 0 THEN quota - 1 ELSE quota
    /\ late' = IF flags.cancelled THEN late + 1 ELSE late
    /\ UNCHANGED <<controlVars, wf, cur, activated, executed, result, outbox,
                   approvals, halted>>

\* ... and returns: an output,
ExecuteOk ==
    /\ At("executing")
    /\ fate' = [fate EXCEPT ![cur] = "finished"]
    /\ executed' = executed + 1
    /\ outbox' = <<"NodeFinished">>
    /\ pc' = "delayAfter"
    /\ UNCHANGED <<controlVars, wf, cur, activated, attempt, result, observations>>

\* an error that is retried,
ExecuteRetries ==
    /\ At("executing") /\ attempt <= Node.retry
    /\ pc' = "retryWait"
    /\ UNCHANGED <<controlVars, wf, progress, result, outbox, fate, observations>>

\* Mutant: any matching edge, not only a failure branch, routes a failure.
RoutedByAnyEdge == {e \in wf.edges : e.src = cur}

\* Edges of the failure branch: has_failure_route.
FailureRoutes == {e \in wf.edges : e.src = cur /\ e.branch = "failure"}

\* a final error, handled by a failure branch or by continue_on_error,
ExecuteHandled ==
    /\ At("executing") /\ attempt > Node.retry
    /\ FailureRoutes # {} \/ Node.continueOnError
    /\ \E taken \in Takings("failure") :
          /\ taken # {} \/ Node.continueOnError
          /\ Activate(taken)
    /\ fate' = [fate EXCEPT ![cur] = "failed"]
    /\ outbox' = <<"NodeFailed">>
    /\ NextNode
    /\ UNCHANGED <<controlVars, wf, attempt, executed, result, observations>>

\* one that nothing handles,
ExecuteFails ==
    /\ At("executing") /\ attempt > Node.retry
    /\ ~Node.continueOnError
    /\ FailureRoutes = {} \/ {} \in Takings("failure")
    /\ fate' = [fate EXCEPT ![cur] = "failed"]
    /\ Conclude("Failed", <<"NodeFailed">>)
    /\ UNCHANGED <<controlVars, wf, progress, observations>>

\* or NodeError::Cancelled, which is neither retried nor routed.
ExecuteCancelled ==
    /\ At("executing") /\ flags.cancelled
    /\ fate' = [fate EXCEPT ![cur] = "failed"]
    /\ Conclude("Cancelled", <<"NodeFailed">>)
    /\ UNCHANGED <<controlVars, wf, progress, observations>>

\* Mutant: the wait before a retry ignores the cancellation.
RetryWaitDeaf ==
    /\ At("retryWait")
    /\ pc' = "execute"
    /\ UNCHANGED <<controlVars, wf, progress, result, outbox, fate, observations>>

RetryWait ==
    /\ At("retryWait")
    /\ IF flags.cancelled
       THEN Conclude("Cancelled", <<>>)
       ELSE pc' = "execute" /\ UNCHANGED <<result, outbox>>
    /\ UNCHANGED <<controlVars, wf, progress, fate, observations>>

DelayAfter ==
    /\ At("delayAfter")
    /\ \/ /\ flags.cancelled
          /\ Conclude("Cancelled", <<>>)
          /\ UNCHANGED <<cur, activated>>
       \/ /\ ~flags.cancelled
          /\ \E taken \in Takings("success") : Activate(taken)
          /\ \/ Node.last /\ Conclude("Completed", <<>>) /\ UNCHANGED cur
             \/ ~Node.last /\ NextNode /\ UNCHANGED <<result, outbox>>
    /\ UNCHANGED <<controlVars, wf, attempt, executed, fate, observations>>

\* The terminal event is out: control.finish() and the outcome.
ReturnOutcome == /\ At("concluding")
                 /\ Finish
                 /\ pc' = "done"
                 /\ UNCHANGED <<wf, progress, result, outbox, fate, observations>>

Execute == \/ BeginExecute \/ ExecuteOk \/ ExecuteRetries \/ ExecuteHandled
           \/ ExecuteFails \/ ExecuteCancelled \/ RetryWait

\* Everything the thread does between two emissions.
EngineStep ==
    \/ FailFast \/ Start \/ LoopEnds \/ SkipInactive \/ EnterNode
    \/ Await("await", "visit")
    \/ PassDisabled \/ Prune \/ ConditionFails \/ CheckBreakpoint
    \/ HitBreakpoint \/ Await("breakAwait", "authorize")
    \/ Authorize \/ ApprovalGranted \/ ApprovalRefused
    \/ DelayBefore \/ Execute \/ DelayAfter \/ ReturnOutcome

-----------------------------------------------------------------------------
\* The operator, who may call at any time, before the run and after it too.

\* The thread has permission for a node that has not begun to execute: pausing
\* now does not stop that node.
Permitted == \/ pc \in {"visit", "authorize", "approval", "delayBefore"}
             \/ pc = "execute" /\ attempt = 0
InFlight == IF Permitted THEN 1 ELSE 0

Owed == IF flags.paused THEN quota ELSE InFlight

OperatorPauses == /\ Pause
                  /\ quota' = Owed
                  /\ UNCHANGED <<wf, pc, progress, result, outbox, fate, late, approvals, halted>>
OperatorSteps == /\ quota < MaxSteps
                 /\ Step
                 /\ quota' = Owed + 1
                 /\ UNCHANGED <<wf, pc, progress, result, outbox, fate, late, approvals, halted>>
OperatorResumes == /\ Resume
                   /\ quota' = 0
                   /\ UNCHANGED <<wf, pc, progress, result, outbox, fate, late, approvals, halted>>
OperatorCancels == /\ Cancel
                   /\ quota' = 0
                   /\ UNCHANGED <<wf, pc, progress, result, outbox, fate, late, approvals, halted>>
Operator == OperatorPauses \/ OperatorSteps \/ OperatorResumes \/ OperatorCancels

Next == EngineStep \/ Emit \/ Operator

Spec == Init /\ [][Next]_vars

\* The scheduler runs the thread; executors return and approvals are answered
\* or time out.  Nothing obliges the operator.
FairSpec == Spec /\ WF_vars(EngineStep \/ Emit)

-----------------------------------------------------------------------------
\* Properties

Begun == {n \in Nodes : fate[n] \in {"running", "finished", "failed"}}
Done == pc = "done"

\* A paused run starts no more nodes than the steps it was granted since it
\* paused, plus the one that already had its permission ("Suspend at the next
\* node boundary", "Allow exactly one more node to run").
PauseHolds == quota >= 0

\* Once the run is cancelled at most one executor call begins, the one whose
\* last check came before: no other node, no retry.
CancelIsPrompt == late <= 1

\* Steps are left over only in a run that is still paused: a breakpoint that
\* suspends a free run always suspends it.
StepsLapse == ~flags.paused /\ ~flags.cancelled /\ ~flags.finished
              => flags.stepBudget = 0

\* Every node that was visited is the entry point or was activated by an edge
\* whose source passed control on with the outcome the edge's branch wants.
Justifies(e) ==
    \/ fate[e.src] \in {"passed", "finished"} /\ e.branch \in {"always", "success"}
    \/ fate[e.src] = "failed" /\ e.branch \in {"always", "failure"}
ActivationJustified ==
    \A n \in Nodes : fate[n] # "none" =>
        n = wf.entry \/ \E e \in wf.edges : e.dst = n /\ Justifies(e)

\* A run that completes without meeting core.End has visited every node it
\* activated: no activation falls behind the walk.
NothingLeftBehind ==
    result = "Completed" =>
        \/ \E n \in Nodes : wf.node[n].last /\ fate[n] = "finished"
        \/ \A n \in activated : fate[n] # "none"

\* A run that completes has no failed node but those a failure branch took or
\* continue_on_error excused, and none that was refused.
NoSwallowedFailure ==
    result = "Completed" =>
        \A n \in Nodes :
            /\ fate[n] \notin {"refused", "running"}
            /\ fate[n] = "failed" =>
                 \/ wf.node[n].continueOnError
                 \/ \E e \in wf.edges : e.src = n /\ e.branch = "failure"

\* A node whose policy asks for an approval executes only after one was given
\* while the run still lived; a denied node never executes.
GateHolds ==
    \A n \in Begun : /\ wf.node[n].known /\ wf.node[n].gate # "deny"
                     /\ wf.node[n].gate = "approve" => <<n, FALSE>> \in approvals

\* A breakpoint stops the run before its node executes (docs/schema.md, "Pause
\* automatically before this node executes"), unless the operator is just pausing
\* the run.
BreakpointStopsFreeRun == pc = "execute" /\ Node.breakpoint => halted # "no"

\* The walk as an operator sees it: a breakpoint stops a free run, what was stopped
\* leaves no step over for later, and a run that is reported completed left no
\* activated node behind (engine.rs:440-530, control.rs:57-70).
WalkIsOrderly == StepsLapse /\ BreakpointStopsFreeRun /\ NothingLeftBehind

\* The run keeps what RunContract promises.
Contract == INSTANCE RunContract WITH
    phase <- IF pc = "spawned" THEN "ready"
             ELSE IF result = "None" THEN "live" ELSE result,
    stop  <- IF ~flags.cancelled THEN "no"
             ELSE IF late = 0 THEN "asked"
             ELSE IF late = 1 THEN "spent" ELSE "overrun",
    ran   <- Begun
KeepsContract == Contract!ContractSpec

\* A cancelled run ends, even one parked in await_permission.
CancelledRunEnds == flags.cancelled ~> Done

\* A run the operator leaves unpaused ends: no wakeup is lost.
UnpausedRunEnds == <>[](~flags.paused) => <>Done

\* No wakeup is lost between RunControl and the parked thread: a cancelled run ends,
\* an unpaused run ends (control.rs:51-62, 73-78, 106-124).
RunEnds == CancelledRunEnds /\ UnpausedRunEnds

\* A granted step is taken.
StepsAreTaken == flags.stepBudget > 0 ~> flags.stepBudget = 0 \/ Done
=============================================================================
