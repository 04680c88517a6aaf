---------------------------- MODULE EngineProofs ----------------------------
(***************************************************************************)
(* Proofs about Engine for every set of workflows, node limit and budget.  *)
(* Each lemma XStep shows that a step keeps part X of the invariant.       *)
(***************************************************************************)
EXTENDS EngineInvariant, TLAPS

\* What the assumption on the workflows says of the one submitted.
LEMMA WorkflowFacts ==
    ASSUME wf \in Workflows
    PROVE  /\ wf.size \in Nat /\ wf.entry \in Nodes
           /\ wf.node \in [Nodes -> NodeKind]
           /\ \A e \in wf.edges : /\ e.src \in Nodes /\ e.dst \in Nodes
                                  /\ e.src < e.dst
BY EngineAssumption DEF IsWorkflow, Nodes

\* An edge that is taken leaves the current node on a branch for its outcome.
LEMMA TakingsFacts ==
    ASSUME NEW outcome, NEW taken \in Takings(outcome)
    PROVE  \A e \in taken : /\ e \in wf.edges /\ e.src = cur
                            /\ e.branch \in {"always", outcome}
BY DEF Takings

LEMMA ActivateFacts ==
    ASSUME NEW taken, Activate(taken)
    PROVE  \A n : n \in activated' <=> n \in activated \/ \E e \in taken : n = e.dst
BY DEF Activate

\* The engine's actions, one level below Next.
LEMMA StepCases ==
    ASSUME Next
    PROVE  \/ FailFast \/ Start \/ LoopEnds \/ SkipInactive \/ EnterNode
           \/ Await("await", "visit") \/ PassDisabled \/ Prune
           \/ ConditionFails \/ CheckBreakpoint \/ HitBreakpoint
           \/ Await("breakAwait", "authorize") \/ Authorize
           \/ ApprovalGranted \/ ApprovalRefused \/ DelayBefore
           \/ BeginExecute \/ ExecuteOk \/ ExecuteRetries \/ ExecuteHandled
           \/ ExecuteFails \/ ExecuteCancelled \/ RetryWait \/ DelayAfter
           \/ ReturnOutcome \/ Emit \/ OperatorPauses \/ OperatorSteps
           \/ OperatorResumes \/ OperatorCancels
BY DEF Next, EngineStep, Execute, Operator

-----------------------------------------------------------------------------

LEMMA ConcludeType ==
    ASSUME NEW status \in Terminal, NEW emitted \in Seq(Events),
           Conclude(status, emitted)
    PROVE  /\ result' \in Terminal /\ pc' = "concluding"
           /\ outbox' \in Seq(Events)
BY DEF Conclude, Terminal, TerminalEvent, Events

LEMMA ControlType ==
    ASSUME ControlTypeOK,
           \/ Pause \/ Resume \/ Step \/ Cancel \/ Finish
           \/ AwaitGranted \/ AwaitRefused \/ AwaitParks
           \/ UNCHANGED controlVars
    PROVE  ControlTypeOK'
<1> USE DEF ControlTypeOK, Flags
<1>0. 0 \in 0..MaxBudget
  BY BudgetAssumption
<1>1. CASE Pause
  BY <1>1 DEF Pause
<1>2. CASE Resume
  BY <1>0, <1>2 DEF Resume
<1>3. CASE Step
  <2>1. SaturatingInc(flags.stepBudget) \in 0..MaxBudget
    BY BudgetAssumption DEF SaturatingInc
  <2> QED
    BY <1>3, <2>1 DEF Step
<1>4. CASE Cancel
  <2>1. flags' = [flags EXCEPT !.cancelled = TRUE, !.paused = FALSE] /\ parked' = FALSE
    BY <1>4 DEF Cancel
  <2> QED
    BY <2>1
<1>5. CASE Finish
  <2>1. flags' = [flags EXCEPT !.finished = TRUE, !.paused = FALSE] /\ parked' = FALSE
    BY <1>5 DEF Finish
  <2> QED
    BY <2>1
<1>6. CASE AwaitGranted
  <2>1. flags.stepBudget > 0 => flags.stepBudget - 1 \in 0..MaxBudget
    BY BudgetAssumption
  <2> QED
    BY <1>6, <2>1 DEF AwaitGranted
<1>7. CASE AwaitRefused \/ AwaitParks \/ UNCHANGED controlVars
  BY <1>7 DEF AwaitRefused, AwaitParks, controlVars
<1> QED
  BY <1>1, <1>2, <1>3, <1>4, <1>5, <1>6, <1>7

LEMMA TypeInit == Init => TypeOK
<1> SUFFICES ASSUME Init PROVE TypeOK
    OBVIOUS
<1>1. wf.size \in Nat /\ wf.entry \in Nodes /\ wf.startPaused \in BOOLEAN
  BY WorkflowFacts, EngineAssumption DEF Init, IsWorkflow
<1>2. ControlTypeOK
  <2>1. 0 \in 0..MaxBudget
    BY BudgetAssumption
  <2> QED
    BY <1>1, <2>1 DEF Init, NewFlags, ControlTypeOK, Flags
<1> QED
  BY <1>1, <1>2 DEF Init, TypeOK, PCs, Fates, Nodes

LEMMA ActivateType ==
    ASSUME TypeOK, NEW outcome, NEW taken \in Takings(outcome), Activate(taken)
    PROVE  activated' \in SUBSET Nodes
<1>1. \A e \in wf.edges : e.dst \in Nodes
  BY WorkflowFacts DEF TypeOK
<1>2. \A e \in taken : e \in wf.edges
  BY TakingsFacts
<1>3. activated \subseteq Nodes
  BY DEF TypeOK
<1>4. \A n \in activated' : n \in Nodes
  BY <1>1, <1>2, <1>3, ActivateFacts
<1> QED
  BY <1>4

\* A node position is a place of the walk; the next one is a place of it too.
LEMMA PlaceFacts ==
    ASSUME TypeOK
    PROVE  /\ wf.size \in Nat /\ cur \in Int
           /\ cur \in Nodes => cur \in 1..(wf.size + 1) /\ cur + 1 \in 1..(wf.size + 1)
BY WorkflowFacts DEF TypeOK, Nodes

LEMMA EventTypes ==
    /\ <<>> \in Seq(Events) /\ <<"RunStarted">> \in Seq(Events)
    /\ <<"RunStarted", "RunPaused">> \in Seq(Events) /\ <<"RunPaused">> \in Seq(Events)
    /\ <<"NodeStarted">> \in Seq(Events) /\ <<"NodeFinished">> \in Seq(Events)
    /\ <<"NodeFailed">> \in Seq(Events)
BY DEF Events

\* The operator touches the flags and what is owed, nothing else.
LEMMA OperatorFrame ==
    ASSUME \/ OperatorPauses \/ OperatorSteps \/ OperatorResumes \/ OperatorCancels
    PROVE  /\ UNCHANGED <<wf, pc, cur, activated, attempt, executed, result, outbox,
                          fate, late, approvals, halted>>
           /\ Pause \/ Step \/ Resume \/ Cancel
BY DEF OperatorPauses, OperatorSteps, OperatorResumes, OperatorCancels, progress

LEMMA TypeStep == ASSUME TypeOK, Next PROVE TypeOK'
<1>a. ASSUME UNCHANGED <<wf, cur, activated, attempt, executed, quota, late>>,
             ControlTypeOK', pc' = "concluding",
             result' \in Terminal, outbox' \in Seq(Events), fate' \in [Nodes -> Fates],
             UNCHANGED <<approvals, halted>>
      PROVE  TypeOK'
  BY <1>a DEF TypeOK, PCs, Nodes
<1>b. ASSUME UNCHANGED <<wf, quota, late, approvals, halted, result>>,
             ControlTypeOK', cur \in Nodes, NextNode,
             attempt' \in Nat, executed' \in Nat,
             activated' \in SUBSET Nodes, outbox' \in Seq(Events),
             fate' \in [Nodes -> Fates]
      PROVE  TypeOK'
  BY <1>b, PlaceFacts DEF TypeOK, PCs, Nodes, NextNode
<1>c. ASSUME UNCHANGED <<wf, cur, activated>>, ControlTypeOK', cur \in Nodes,
             pc' \in PCs, result' \in Terminal \cup {"None"},
             attempt' \in Nat, executed' \in Nat,
             outbox' \in Seq(Events), fate' \in [Nodes -> Fates],
             quota' \in Int, late' \in Nat,
             approvals' \in SUBSET (Nodes \X BOOLEAN),
             halted' \in {"no", "pausing", "yes"}
      PROVE  TypeOK'
  BY <1>c, PlaceFacts DEF TypeOK, Nodes
<1>f. ASSUME NEW f \in Fates, cur \in Nodes, fate' = [fate EXCEPT ![cur] = f]
      PROVE  fate' \in [Nodes -> Fates]
  BY <1>f DEF TypeOK
<1>g. UNCHANGED controlVars => ControlTypeOK'
  BY ControlType DEF TypeOK
<1>t. /\ {"Completed", "Failed", "Cancelled"} = Terminal
      /\ {"none", "passed", "pruned", "refused", "running", "finished", "failed"} = Fates
  BY DEF Terminal, Fates
<1>n. pc \notin {"spawned", "loop", "concluding", "done"} => cur \in Nodes
  BY DEF TypeOK
<1>h. /\ attempt \in Nat /\ executed \in Nat /\ result \in Terminal \cup {"None"}
      /\ fate \in [Nodes -> Fates] /\ activated \in SUBSET Nodes
      /\ quota \in Int /\ late \in Nat
      /\ approvals \in SUBSET (Nodes \X BOOLEAN)
      /\ halted \in {"no", "pausing", "yes"} /\ outbox \in Seq(Events)
  BY DEF TypeOK
<1>1. CASE FailFast
  BY <1>1, <1>a, <1>g, <1>h, <1>t, EventTypes, ConcludeType DEF FailFast, progress, observations
<1>2. CASE Start
  <2>1. outbox' \in Seq(Events)
    BY <1>2, EventTypes DEF Start
  <2>2. activated' \in SUBSET Nodes
    BY <1>2, WorkflowFacts DEF Start, TypeOK
  <2> QED
    BY <1>2, <1>g, <2>1, <2>2, PlaceFacts DEF Start, observations, TypeOK, PCs, Nodes
<1>3. CASE LoopEnds
  <2>1. result' \in Terminal /\ pc' = "concluding" /\ outbox' \in Seq(Events)
    BY <1>3, <1>t, EventTypes, ConcludeType DEF LoopEnds
  <2> QED
    BY <1>3, <1>a, <1>g, <1>h, <2>1 DEF LoopEnds, progress, observations
<1>4. CASE SkipInactive
  <2>1. cur \in Nodes
    BY <1>4, PlaceFacts DEF SkipInactive, TypeOK, Nodes
  <2> QED
    BY <1>4, <1>b, <1>g, <1>h, <2>1 DEF SkipInactive, observations
<1>5. CASE EnterNode
  <2>1. cur \in Nodes
    BY <1>5, PlaceFacts DEF EnterNode, TypeOK, Nodes
  <2> QED
    BY <1>5, <1>c, <1>g, <1>h, <2>1 DEF EnterNode, progress, observations, PCs
<1>6. ASSUME NEW where, NEW next, Await(where, next), next \in PCs,
             where \in {"await", "breakAwait"}
      PROVE  TypeOK'
  <2>1. ControlTypeOK'
    BY <1>6, ControlType DEF Await, TypeOK
  <2>2. cur \in Nodes
    BY <1>6, <1>n DEF Await, At
  <2>3. result' \in Terminal \cup {"None"} /\ outbox' \in Seq(Events) /\ pc' \in PCs
    <3>1. CASE AwaitRefused /\ Conclude("Cancelled", <<>>)
      BY <3>1, <1>t, EventTypes, ConcludeType DEF PCs
    <3>2. CASE UNCHANGED <<result, outbox>> /\ pc' \in {pc, next}
      BY <1>6, <3>2, <1>h DEF TypeOK
    <3> QED
      BY <1>6, <3>1, <3>2 DEF Await
  <2>4. halted' \in {"no", "pausing", "yes"}
    BY <1>6, <1>h DEF Await
  <2> QED
    BY <1>6, <1>c, <1>h, <2>1, <2>2, <2>3, <2>4 DEF Await, progress
<1>7. CASE PassDisabled
  <2>1. cur \in Nodes
    BY <1>7, <1>n DEF PassDisabled, At
  <2>2. activated' \in SUBSET Nodes
    BY <1>7, ActivateType DEF PassDisabled
  <2>3. fate' \in [Nodes -> Fates]
    BY <1>7, <1>f, <1>t, <2>1 DEF PassDisabled
  <2> QED
    BY <1>7, <1>b, <1>g, <1>h, <2>1, <2>2, <2>3 DEF PassDisabled, observations
<1>8. CASE Prune
  <2>1. cur \in Nodes
    BY <1>8, <1>n DEF Prune, At
  <2>2. fate' \in [Nodes -> Fates]
    BY <1>8, <1>f, <1>t, <2>1 DEF Prune
  <2> QED
    BY <1>8, <1>b, <1>g, <1>h, <2>1, <2>2 DEF Prune, observations
<1>9. ASSUME At("visit") \/ At("executing") \/ At("authorize") \/ At("approval"),
             NEW f \in Fates, fate' = [fate EXCEPT ![cur] = f],
             NEW status \in Terminal, NEW emitted \in Seq(Events),
             Conclude(status, emitted),
             UNCHANGED <<controlVars, wf, progress, observations>>
      PROVE  TypeOK'
  <2>1. cur \in Nodes
    BY <1>9, <1>n DEF At
  <2> QED
    BY <1>9, <1>a, <1>f, <1>g, <2>1, ConcludeType DEF progress, observations
<1>10. CASE ConditionFails
  BY <1>9, <1>10, <1>t, EventTypes DEF ConditionFails
<1>11. CASE CheckBreakpoint
  <2>1. cur \in Nodes
    BY <1>11, <1>n DEF CheckBreakpoint, At
  <2>2. pc' \in PCs /\ halted' \in {"no", "pausing", "yes"}
    BY <1>11, <1>h DEF CheckBreakpoint, PCs
  <2> QED
    BY <1>11, <1>c, <1>g, <1>h, <2>1, <2>2 DEF CheckBreakpoint, progress
<1>12. CASE HitBreakpoint
  <2>1. ControlTypeOK'
    BY <1>12, ControlType DEF HitBreakpoint, TypeOK
  <2>2. cur \in Nodes
    BY <1>12, <1>n DEF HitBreakpoint, At
  <2>3. outbox' \in Seq(Events) /\ pc' \in PCs /\ quota' \in Int
    BY <1>12, <1>h, EventTypes DEF HitBreakpoint, PCs
  <2> QED
    BY <1>12, <1>c, <1>h, <2>1, <2>2, <2>3 DEF HitBreakpoint, progress
<1>13. ASSUME At("authorize") \/ At("approval"),
              \/ Refuse(<<>>)
              \/ Refuse(<<"NodeFailed">>)
       PROVE  TypeOK'
  BY <1>9, <1>13, <1>t, EventTypes DEF Refuse
<1>14. ASSUME At("authorize") \/ At("approval"), StartNode,
              UNCHANGED <<controlVars, wf, progress, fate, quota, late, halted>>,
              approvals' \in SUBSET (Nodes \X BOOLEAN)
       PROVE  TypeOK'
  <2>1. cur \in Nodes
    BY <1>14, <1>n DEF At
  <2> QED
    BY <1>14, <1>c, <1>g, <1>h, <2>1, EventTypes DEF StartNode, progress, PCs
<1>15. CASE Authorize
  <2>1. CASE Refuse(<<>>) \/ Refuse(<<"NodeFailed">>)
    BY <1>13, <1>15, <2>1 DEF Authorize
  <2>2. CASE StartNode /\ UNCHANGED <<controlVars, wf, progress, fate, observations>>
    BY <1>14, <1>15, <1>h, <2>2 DEF Authorize, observations
  <2>3. CASE pc' = "approval" /\ UNCHANGED <<controlVars, wf, progress, result, outbox,
                                            fate, observations>>
    <3>1. cur \in Nodes
      BY <1>15, <1>n DEF Authorize, At
    <3> QED
      BY <2>3, <1>c, <1>g, <1>h, <3>1 DEF progress, observations, PCs
  <2> QED
    BY <1>15, <2>1, <2>2, <2>3 DEF Authorize
<1>16. CASE ApprovalGranted
  <2>1. cur \in Nodes /\ flags.cancelled \in BOOLEAN
    BY <1>16, <1>n DEF ApprovalGranted, At, TypeOK, ControlTypeOK, Flags
  <2>2. approvals' \in SUBSET (Nodes \X BOOLEAN)
    BY <1>16, <1>h, <2>1 DEF ApprovalGranted
  <2> QED
    BY <1>14, <1>16, <2>2 DEF ApprovalGranted
<1>17. CASE ApprovalRefused
  BY <1>13, <1>17 DEF ApprovalRefused
<1>18. CASE DelayBefore
  <2>1. cur \in Nodes
    BY <1>18, <1>n DEF DelayBefore, At
  <2>2. CASE flags.cancelled
    BY <1>18, <2>1, <2>2, <1>a, <1>g, <1>h, <1>t, EventTypes, ConcludeType
       DEF DelayBefore, observations
  <2>3. CASE ~flags.cancelled
    BY <1>18, <2>1, <2>3, <1>c, <1>g, <1>h DEF DelayBefore, observations, PCs
  <2> QED
    BY <2>2, <2>3
<1>19. CASE BeginExecute
  <2>1. cur \in Nodes
    BY <1>19, <1>n DEF BeginExecute, At
  <2>2. fate' \in [Nodes -> Fates]
    BY <1>19, <1>f, <1>t, <2>1 DEF BeginExecute
  <2>3. attempt' \in Nat /\ quota' \in Int /\ late' \in Nat /\ pc' \in PCs
    BY <1>19, <1>h DEF BeginExecute, PCs
  <2> QED
    BY <1>19, <1>c, <1>g, <1>h, <2>1, <2>2, <2>3 DEF BeginExecute
<1>20. CASE ExecuteOk
  <2>1. cur \in Nodes
    BY <1>20, <1>n DEF ExecuteOk, At
  <2>2. fate' \in [Nodes -> Fates]
    BY <1>20, <1>f, <1>t, <2>1 DEF ExecuteOk
  <2> QED
    BY <1>20, <1>c, <1>g, <1>h, <2>1, <2>2, EventTypes DEF ExecuteOk, observations, PCs
<1>21. CASE ExecuteRetries
  <2>1. cur \in Nodes
    BY <1>21, <1>n DEF ExecuteRetries, At
  <2> QED
    BY <1>21, <1>c, <1>g, <1>h, <2>1 DEF ExecuteRetries, progress, observations, PCs
<1>22. CASE ExecuteHandled
  <2>1. cur \in Nodes
    BY <1>22, <1>n DEF ExecuteHandled, At
  <2>2. activated' \in SUBSET Nodes
    BY <1>22, ActivateType DEF ExecuteHandled
  <2>3. fate' \in [Nodes -> Fates]
    BY <1>22, <1>f, <1>t, <2>1 DEF ExecuteHandled
  <2> QED
    BY <1>22, <1>b, <1>g, <1>h, <2>1, <2>2, <2>3, EventTypes DEF ExecuteHandled, observations
<1>23. CASE ExecuteFails \/ ExecuteCancelled
  BY <1>9, <1>23, <1>t, EventTypes DEF ExecuteFails, ExecuteCancelled
<1>24. CASE RetryWait
  <2>1. cur \in Nodes
    BY <1>24, <1>n DEF RetryWait, At
  <2>2. CASE flags.cancelled
    BY <1>24, <2>1, <2>2, <1>a, <1>g, <1>h, <1>t, EventTypes, ConcludeType
       DEF RetryWait, progress, observations
  <2>3. CASE ~flags.cancelled
    BY <1>24, <2>1, <2>3, <1>c, <1>g, <1>h DEF RetryWait, progress, observations, PCs
  <2> QED
    BY <2>2, <2>3
<1>25. CASE DelayAfter
  <2>1. cur \in Nodes
    BY <1>25, <1>n DEF DelayAfter, At
  <2>2. CASE flags.cancelled
    BY <1>25, <2>1, <2>2, <1>a, <1>g, <1>h, <1>t, EventTypes, ConcludeType
       DEF DelayAfter, observations
  <2>3. CASE ~flags.cancelled
    <3>1. activated' \in SUBSET Nodes
      BY <1>25, <2>3, ActivateType DEF DelayAfter
    <3>2. CASE Conclude("Completed", <<>>) /\ UNCHANGED cur
      <4>1. result' \in Terminal /\ pc' = "concluding" /\ outbox' \in Seq(Events)
        BY <3>2, <1>t, EventTypes, ConcludeType
      <4> QED
        BY <1>25, <1>g, <1>h, <2>1, <3>1, <3>2, <4>1, PlaceFacts
           DEF DelayAfter, observations, TypeOK, PCs, Nodes
    <3>3. CASE NextNode /\ UNCHANGED <<result, outbox>>
      BY <1>25, <1>b, <1>g, <1>h, <2>1, <3>1, <3>3 DEF DelayAfter, observations
    <3> QED
      BY <1>25, <2>3, <3>2, <3>3 DEF DelayAfter
  <2> QED
    BY <2>2, <2>3
<1>26. CASE ReturnOutcome
  <2>1. ControlTypeOK'
    BY <1>26, ControlType DEF ReturnOutcome, TypeOK
  <2> QED
    BY <1>26, <2>1 DEF ReturnOutcome, TypeOK, progress, observations, PCs, Nodes
<1>27. CASE Emit
  <2>1. outbox' \in Seq(Events)
    BY <1>27, <1>h DEF Emit
  <2> QED
    BY <1>27, <1>g, <2>1 DEF Emit, TypeOK, progress, observations, Nodes
<1>28. CASE OperatorPauses \/ OperatorSteps \/ OperatorResumes \/ OperatorCancels
  <2>1. ControlTypeOK'
    BY <1>28, OperatorFrame, ControlType DEF TypeOK
  <2>2. quota' \in Int
    BY <1>28, <1>h DEF OperatorPauses, OperatorSteps, OperatorResumes, OperatorCancels,
                       Owed, InFlight
  <2> QED
    BY <1>28, <2>1, <2>2, OperatorFrame DEF TypeOK, Nodes
<1>31. Await("await", "visit") \/ Await("breakAwait", "authorize") => TypeOK'
  BY <1>6 DEF PCs
<1> QED
  BY <1>1, <1>2, <1>3, <1>4, <1>5, <1>7, <1>8, <1>10, <1>11, <1>12, <1>15, <1>16,
     <1>17, <1>18, <1>19, <1>20, <1>21, <1>22, <1>23, <1>24, <1>25, <1>26, <1>27,
     <1>28, <1>31, StepCases

\* Every variable keeps its type, whatever the workflows and the interleaving.
THEOREM TypeCorrect == Spec => []TypeOK
<1>1. TypeOK /\ [Next]_vars => TypeOK'
  <2>1. TypeOK /\ UNCHANGED vars => TypeOK'
    BY DEF vars, engineVars, controlVars, TypeOK, ControlTypeOK, Nodes
  <2> QED
    BY TypeStep, <2>1
<1> QED
  BY TypeInit, <1>1, PTL DEF Spec

-----------------------------------------------------------------------------
\* The flags, the verdict and the place of the thread.

LEMMA ConcludeFacts ==
    ASSUME NEW status \in Terminal, NEW emitted, Conclude(status, emitted)
    PROVE  result' = status /\ result' # "None" /\ pc' = "concluding"
BY DEF Conclude, Terminal

\* Whoever touches the flags leaves no steps over in an unpaused run.
LEMMA LapseStep ==
    ASSUME ControlTypeOK, StepsLapse,
           \/ Pause \/ Resume \/ Step \/ Cancel \/ Finish
           \/ AwaitGranted \/ AwaitRefused \/ AwaitParks
           \/ UNCHANGED controlVars
    PROVE  StepsLapse'
<1> USE DEF StepsLapse, ControlTypeOK, Flags
<1>1. CASE Pause \/ Step
  BY <1>1 DEF Pause, Step
<1>2. CASE Resume
  BY <1>2 DEF Resume
<1>3. CASE Cancel
  BY <1>3 DEF Cancel
<1>4. CASE Finish
  BY <1>4 DEF Finish
<1>5. CASE AwaitGranted
  BY <1>5 DEF AwaitGranted
<1>6. CASE AwaitRefused \/ AwaitParks \/ UNCHANGED controlVars
  BY <1>6 DEF AwaitRefused, AwaitParks, controlVars
<1> QED
  BY <1>1, <1>2, <1>3, <1>4, <1>5, <1>6

\* `finished` rises in Finish only, and `cancelled` never falls.
LEMMA FlagMoves ==
    ASSUME ControlTypeOK,
           \/ Pause \/ Resume \/ Step \/ Cancel
           \/ AwaitGranted \/ AwaitRefused \/ AwaitParks
           \/ UNCHANGED controlVars
    PROVE  flags'.finished = flags.finished /\ (flags.cancelled => flags'.cancelled)
<1> USE DEF ControlTypeOK, Flags
<1>1. CASE Pause \/ Step
  BY <1>1 DEF Pause, Step
<1>2. CASE Resume
  BY <1>2 DEF Resume
<1>3. CASE Cancel
  BY <1>3 DEF Cancel
<1>4. CASE AwaitGranted
  BY <1>4 DEF AwaitGranted
<1>5. CASE AwaitRefused \/ AwaitParks \/ UNCHANGED controlVars
  BY <1>5 DEF AwaitRefused, AwaitParks, controlVars
<1> QED
  BY <1>1, <1>2, <1>3, <1>4, <1>5

\* What a step of the engine, of Emit or of the operator does to the flags.
LEMMA FlagCases ==
    ASSUME Next
    PROVE  \/ Pause \/ Resume \/ Step \/ Cancel
           \/ AwaitGranted \/ AwaitRefused \/ AwaitParks
           \/ UNCHANGED controlVars
           \/ ReturnOutcome
<1>1. CASE OperatorPauses \/ OperatorSteps \/ OperatorResumes \/ OperatorCancels
  BY <1>1, OperatorFrame
<1>2. CASE HitBreakpoint
  BY <1>2 DEF HitBreakpoint
<1>3. CASE Await("await", "visit") \/ Await("breakAwait", "authorize")
  BY <1>3 DEF Await
<1>4. CASE FailFast \/ Start \/ LoopEnds \/ SkipInactive \/ EnterNode \/ PassDisabled \/ Prune
  BY <1>4 DEF FailFast, Start, LoopEnds, SkipInactive, EnterNode, PassDisabled, Prune
<1>5. CASE ConditionFails \/ CheckBreakpoint \/ Authorize \/ ApprovalGranted \/ ApprovalRefused
  BY <1>5 DEF ConditionFails, CheckBreakpoint, Authorize, ApprovalGranted, ApprovalRefused, Refuse
<1>6. CASE DelayBefore \/ BeginExecute \/ ExecuteOk \/ ExecuteRetries \/ ExecuteHandled
  BY <1>6 DEF DelayBefore, BeginExecute, ExecuteOk, ExecuteRetries, ExecuteHandled
<1>7. CASE ExecuteFails \/ ExecuteCancelled \/ RetryWait \/ DelayAfter \/ Emit
  BY <1>7 DEF ExecuteFails, ExecuteCancelled, RetryWait, DelayAfter, Emit
<1> QED
  BY <1>1, <1>2, <1>3, <1>4, <1>5, <1>6, <1>7, StepCases

\* Where a step of the engine leads, and whether it settles the verdict.
LEMMA VerdictMoves ==
    ASSUME Next
    PROVE  \/ result' \in Terminal /\ pc' = "concluding" /\ pc \notin {"concluding", "done"}
           \/ UNCHANGED result /\ pc \notin {"concluding", "done"}
                               /\ pc' \notin {"concluding", "done"}
           \/ UNCHANGED result /\ pc = "concluding" /\ pc' = "done"
           \/ UNCHANGED <<result, pc>>
<1> USE ConcludeFacts DEF At, Terminal
<1>1. CASE OperatorPauses \/ OperatorSteps \/ OperatorResumes \/ OperatorCancels
  BY <1>1, OperatorFrame
<1>2. CASE HitBreakpoint \/ ReturnOutcome \/ Emit
  BY <1>2 DEF HitBreakpoint, ReturnOutcome, Emit
<1>3. CASE Await("await", "visit") \/ Await("breakAwait", "authorize")
  BY <1>3 DEF Await
<1>4. CASE FailFast \/ Start \/ LoopEnds \/ SkipInactive \/ EnterNode
  BY <1>4 DEF FailFast, Start, LoopEnds, SkipInactive, EnterNode, NextNode
<1>5. CASE PassDisabled \/ Prune \/ ConditionFails \/ CheckBreakpoint
  BY <1>5 DEF PassDisabled, Prune, ConditionFails, CheckBreakpoint, NextNode
<1>6. CASE Authorize \/ ApprovalGranted \/ ApprovalRefused
  BY <1>6 DEF Authorize, ApprovalGranted, ApprovalRefused, Refuse, StartNode
<1>7. CASE DelayBefore \/ BeginExecute \/ ExecuteOk \/ ExecuteRetries \/ ExecuteHandled
  BY <1>7 DEF DelayBefore, BeginExecute, ExecuteOk, ExecuteRetries, ExecuteHandled, NextNode
<1>8. CASE ExecuteFails \/ ExecuteCancelled \/ RetryWait \/ DelayAfter
  BY <1>8 DEF ExecuteFails, ExecuteCancelled, RetryWait, DelayAfter, NextNode
<1> QED
  BY <1>1, <1>2, <1>3, <1>4, <1>5, <1>6, <1>7, <1>8, StepCases

LEMMA FlagsStep == ASSUME TypeOK, FlagsInv, Next PROVE FlagsInv'
<1>1. ControlTypeOK /\ StepsLapse
  BY DEF TypeOK, FlagsInv
<1>2. result' = "None" <=> pc' \notin {"concluding", "done"}
  BY VerdictMoves DEF FlagsInv, Terminal
<1>3. CASE ReturnOutcome
  <2>1. StepsLapse'
    BY <1>1, <1>3, LapseStep DEF ReturnOutcome
  <2> QED
    BY <1>2, <1>3, <2>1 DEF FlagsInv, ReturnOutcome
<1>4. CASE ~ReturnOutcome
  <2>1. StepsLapse'
    BY <1>1, <1>4, FlagCases, LapseStep
  <2>2. flags'.finished = flags.finished
    BY <1>1, <1>4, FlagCases, FlagMoves
  <2>3. pc = "done" => pc' = "done"
    BY VerdictMoves
  <2> QED
    BY <1>2, <2>1, <2>2, <2>3 DEF FlagsInv
<1> QED
  BY <1>3, <1>4

-----------------------------------------------------------------------------
\* The walk and the fates of the nodes.

LEMMA FateStep == ASSUME TypeOK, FateInv, Next PROVE FateInv'
<1>t. fate \in [Nodes -> Fates] /\ wf.size \in Nat /\ cur \in Int /\ attempt \in Nat
  BY PlaceFacts DEF TypeOK
<1>n. pc \notin {"spawned", "loop", "concluding", "done"} => cur \in Nodes
  BY DEF TypeOK
<1>a. ASSUME UNCHANGED <<wf, cur>>, pc' \in {"concluding", "done"},
             fate' = fate \/ \E f : fate' = [fate EXCEPT ![cur] = f]
      PROVE  FateInv'
  BY <1>t, <1>a DEF FateInv, Nodes, Entered
<1>b. ASSUME UNCHANGED wf, NextNode, fate' = fate \/ \E f : fate' = [fate EXCEPT ![cur] = f]
      PROVE  FateInv'
  BY <1>t, <1>b DEF FateInv, NextNode, Nodes, Entered
<1>c. ASSUME UNCHANGED <<wf, cur, fate>>, pc \in {"spawned", "loop"} \cup Entered,
             pc' \in {"loop"} \cup Entered
      PROVE  FateInv'
  BY <1>t, <1>c DEF FateInv, Nodes, Entered
<1>e. ASSUME UNCHANGED <<wf, cur, fate>>, cur \in Nodes, pc \in Entered,
             pc' = "execute", attempt' = 0
      PROVE  FateInv'
  BY <1>t, <1>e DEF FateInv, Nodes, Entered
<1>d. ASSUME UNCHANGED <<wf, cur, fate, pc, attempt>>
      PROVE  FateInv'
  BY <1>d DEF FateInv, Nodes, Entered
<1> USE DEF At, progress, observations
<1>1. CASE FailFast \/ LoopEnds \/ ReturnOutcome
  BY <1>1, <1>a, ConcludeFacts DEF FailFast, LoopEnds, ReturnOutcome, Terminal
<1>2. CASE Start \/ EnterNode
  BY <1>2, <1>c DEF Start, EnterNode, Entered
<1>3. CASE SkipInactive \/ PassDisabled \/ Prune
  BY <1>3, <1>b DEF SkipInactive, PassDisabled, Prune
<1>4. CASE ConditionFails \/ ApprovalRefused
  BY <1>4, <1>a, ConcludeFacts DEF ConditionFails, ApprovalRefused, Refuse, Terminal
<1>5. ASSUME NEW where \in Entered, NEW next \in Entered, Await(where, next)
      PROVE  FateInv'
  BY <1>5, <1>a, <1>c, <1>d, ConcludeFacts DEF Await, Terminal
<1>6. Await("await", "visit") \/ Await("breakAwait", "authorize") => FateInv'
  BY <1>5 DEF Entered
<1>7. CASE CheckBreakpoint \/ HitBreakpoint
  BY <1>7, <1>c DEF CheckBreakpoint, HitBreakpoint, Entered
<1>8. CASE Authorize
  <2>1. CASE Refuse(<<>>) \/ Refuse(<<"NodeFailed">>)
    BY <2>1, <1>a, ConcludeFacts DEF Refuse, Terminal
  <2>2. CASE pc' \in {"delayBefore", "approval"} /\ UNCHANGED <<wf, progress, fate>>
    BY <1>8, <2>2, <1>c DEF Authorize, Entered
  <2> QED
    BY <1>8, <2>1, <2>2 DEF Authorize, StartNode
<1>9. CASE ApprovalGranted
  BY <1>9, <1>c DEF ApprovalGranted, StartNode, Entered
<1>10. CASE DelayBefore
  BY <1>10, <1>n, <1>a, <1>e, ConcludeFacts DEF DelayBefore, Entered, Terminal
<1>11. CASE BeginExecute
  <2>1. cur \in Nodes
    BY <1>11, <1>n DEF BeginExecute
  <2> QED
    BY <1>11, <1>t, <2>1 DEF BeginExecute, FateInv, Nodes, Entered
<1>12. CASE ExecuteOk
  <2>1. cur \in Nodes
    BY <1>12, <1>n DEF ExecuteOk
  <2> QED
    BY <1>12, <1>t, <2>1 DEF ExecuteOk, FateInv, Nodes, Entered
<1>13. CASE ExecuteRetries
  BY <1>13, <1>t DEF ExecuteRetries, FateInv, Nodes, Entered
<1>14. CASE ExecuteHandled
  BY <1>14, <1>b DEF ExecuteHandled
<1>15. CASE ExecuteFails \/ ExecuteCancelled
  BY <1>15, <1>a, ConcludeFacts DEF ExecuteFails, ExecuteCancelled, Terminal
<1>16. CASE RetryWait
  <2>1. CASE flags.cancelled
    BY <1>16, <2>1, <1>a, ConcludeFacts DEF RetryWait, Terminal
  <2>2. CASE ~flags.cancelled
    BY <1>16, <2>2, <1>t DEF RetryWait, FateInv, Nodes, Entered
  <2> QED
    BY <2>1, <2>2
<1>17. CASE DelayAfter
  BY <1>17, <1>a, <1>b, ConcludeFacts DEF DelayAfter, Terminal
<1>18. CASE Emit
  BY <1>18, <1>d DEF Emit
<1>19. CASE OperatorPauses \/ OperatorSteps \/ OperatorResumes \/ OperatorCancels
  BY <1>19, <1>d, OperatorFrame
<1> QED
  BY <1>1, <1>2, <1>3, <1>4, <1>6, <1>7, <1>8, <1>9, <1>10, <1>11, <1>12, <1>13,
     <1>14, <1>15, <1>16, <1>17, <1>18, <1>19, StepCases

-----------------------------------------------------------------------------
\* Pauses and cancellations take effect in time.

LEMMA CancelStep == ASSUME TypeOK, CancelInv, Next PROVE CancelInv'
<1> USE DEF At
<1>t. ControlTypeOK /\ late \in Nat
  BY DEF TypeOK
<1>1. CASE BeginExecute
  BY <1>1, <1>t DEF BeginExecute, CancelInv, controlVars
<1>2. CASE ~BeginExecute
  <2>1. UNCHANGED late /\ (pc' = "execute" => pc = "execute" \/ ~flags.cancelled)
    <3> USE ConcludeFacts DEF observations, Terminal
    <3>1. CASE OperatorPauses \/ OperatorSteps \/ OperatorResumes \/ OperatorCancels
      BY <3>1, OperatorFrame
    <3>2. CASE HitBreakpoint \/ ReturnOutcome \/ Emit
      BY <3>2 DEF HitBreakpoint, ReturnOutcome, Emit
    <3>3. CASE Await("await", "visit") \/ Await("breakAwait", "authorize")
      BY <3>3 DEF Await
    <3>4. CASE FailFast \/ Start \/ LoopEnds \/ SkipInactive \/ EnterNode
      BY <3>4 DEF FailFast, Start, LoopEnds, SkipInactive, EnterNode, NextNode
    <3>5. CASE PassDisabled \/ Prune \/ ConditionFails \/ CheckBreakpoint
      BY <3>5 DEF PassDisabled, Prune, ConditionFails, CheckBreakpoint, NextNode
    <3>6. CASE Authorize \/ ApprovalGranted \/ ApprovalRefused
      BY <3>6 DEF Authorize, ApprovalGranted, ApprovalRefused, Refuse, StartNode
    <3>7. CASE DelayBefore \/ ExecuteOk \/ ExecuteRetries \/ ExecuteHandled
      BY <3>7 DEF DelayBefore, ExecuteOk, ExecuteRetries, ExecuteHandled, NextNode
    <3>8. CASE ExecuteFails \/ ExecuteCancelled \/ RetryWait \/ DelayAfter
      BY <3>8 DEF ExecuteFails, ExecuteCancelled, RetryWait, DelayAfter, NextNode
    <3> QED
      BY <1>2, <3>1, <3>2, <3>3, <3>4, <3>5, <3>6, <3>7, <3>8, StepCases
  <2>2. flags.cancelled => flags'.cancelled
    <3>1. CASE ReturnOutcome
      BY <1>t, <3>1 DEF ReturnOutcome, Finish, ControlTypeOK, Flags
    <3> QED
      BY <1>t, <3>1, FlagCases, FlagMoves
  <2> QED
    BY <2>1, <2>2 DEF CancelInv
<1> QED
  BY <1>1, <1>2

\* The thread gets a permission in await_permission only.
LEMMA PermissionMoves ==
    ASSUME TypeOK, FateInv, Next,
           ~Await("await", "visit"), ~Await("breakAwait", "authorize"),
           ~HitBreakpoint, ~BeginExecute, ~ReturnOutcome,
           ~(OperatorPauses \/ OperatorSteps \/ OperatorResumes \/ OperatorCancels)
    PROVE  UNCHANGED <<flags, quota>> /\ (Permitted' => Permitted)
<1> USE ConcludeFacts DEF At, Permitted, Terminal, controlVars, observations
<1>1. CASE FailFast \/ Start \/ LoopEnds \/ SkipInactive \/ EnterNode
  BY <1>1 DEF FailFast, Start, LoopEnds, SkipInactive, EnterNode, NextNode
<1>2. CASE PassDisabled \/ Prune \/ ConditionFails \/ CheckBreakpoint
  BY <1>2 DEF PassDisabled, Prune, ConditionFails, CheckBreakpoint, NextNode
<1>3. CASE Authorize \/ ApprovalGranted \/ ApprovalRefused
  BY <1>3 DEF Authorize, ApprovalGranted, ApprovalRefused, Refuse, StartNode
<1>4. CASE DelayBefore \/ ExecuteOk \/ ExecuteRetries \/ ExecuteHandled
  BY <1>4 DEF DelayBefore, ExecuteOk, ExecuteRetries, ExecuteHandled, NextNode
<1>5. CASE ExecuteFails \/ ExecuteCancelled \/ DelayAfter
  BY <1>5 DEF ExecuteFails, ExecuteCancelled, DelayAfter, NextNode
<1>6. CASE RetryWait
  BY <1>6 DEF RetryWait, FateInv, progress, TypeOK
<1>7. CASE Emit
  BY <1>7 DEF Emit, progress
<1> QED
  BY <1>1, <1>2, <1>3, <1>4, <1>5, <1>6, <1>7, StepCases

LEMMA QuotaStep == ASSUME TypeOK, FlagsInv, FateInv, QuotaInv, Next PROVE QuotaInv'
<1>t. /\ flags \in Flags /\ quota \in Int /\ attempt \in Nat
      /\ flags.stepBudget \in Nat /\ flags.paused \in BOOLEAN
      /\ InFlight \in {0, 1} /\ InFlight' \in {0, 1}
  BY BudgetAssumption DEF TypeOK, ControlTypeOK, Flags, InFlight
<1>f. flags.finished => pc = "done"
  BY DEF FlagsInv
<1>l. ~flags.paused /\ ~flags.cancelled /\ ~flags.finished => flags.stepBudget = 0
  BY DEF FlagsInv, StepsLapse
<1>1. CASE /\ ~Await("await", "visit") /\ ~Await("breakAwait", "authorize")
           /\ ~HitBreakpoint /\ ~BeginExecute /\ ~ReturnOutcome
           /\ ~(OperatorPauses \/ OperatorSteps \/ OperatorResumes \/ OperatorCancels)
  <2>1. UNCHANGED <<flags, quota>> /\ (Permitted' => Permitted)
    BY <1>1, PermissionMoves
  <2>2. InFlight' <= InFlight
    BY <2>1 DEF InFlight
  <2> QED
    BY <1>t, <2>1, <2>2 DEF QuotaInv
<1>2. ASSUME NEW where \in {"await", "breakAwait"}, NEW next, Await(where, next)
      PROVE  QuotaInv'
  <2>1. pc = where /\ UNCHANGED quota /\ InFlight = 0 /\ ~flags.finished
    BY <1>2, <1>f DEF Await, At, InFlight, Permitted
  <2>2. CASE AwaitGranted
    <3>1. CASE ~flags.paused
      BY <1>t, <2>1, <2>2, <3>1 DEF AwaitGranted, QuotaInv
    <3>2. CASE flags.paused
      <4>1. flags.stepBudget > 0 /\ ~flags.cancelled
        BY <1>t, <2>1, <2>2, <3>2 DEF AwaitGranted
      <4>2. flags' = [flags EXCEPT !.stepBudget = @ - 1]
        BY <2>2, <3>2, <4>1 DEF AwaitGranted
      <4>3. flags'.stepBudget = flags.stepBudget - 1 /\ quota >= flags.stepBudget
        BY <1>t, <2>1, <3>2, <4>1, <4>2 DEF Flags, QuotaInv
      <4> QED
        BY <1>t, <2>1, <4>1, <4>3 DEF QuotaInv
    <3> QED
      BY <3>1, <3>2
  <2>3. CASE UNCHANGED flags /\ pc' \in {where, "concluding"}
    <3>1. InFlight' = 0
      BY <2>3 DEF InFlight, Permitted
    <3> QED
      BY <1>t, <2>1, <2>3, <3>1 DEF QuotaInv
  <2> QED
    BY <1>2, <2>1, <2>2, <2>3, ConcludeFacts DEF Await, AwaitRefused, AwaitParks,
                                                 controlVars, Terminal
<1>3. CASE HitBreakpoint
  <2>1. flags' = [flags EXCEPT !.paused = TRUE] /\ ~flags.finished /\ InFlight' = 0
    BY <1>3, <1>f DEF HitBreakpoint, Pause, At, InFlight, Permitted
  <2>2. /\ flags'.stepBudget = flags.stepBudget /\ flags'.cancelled = flags.cancelled
        /\ flags'.finished = flags.finished
    BY <1>t, <2>1 DEF Flags
  <2>3. CASE flags.paused
    BY <1>3, <1>t, <2>1, <2>2, <2>3 DEF HitBreakpoint, QuotaInv
  <2>4. CASE ~flags.paused
    BY <1>3, <1>l, <1>t, <2>1, <2>2, <2>4 DEF HitBreakpoint, QuotaInv
  <2> QED
    BY <2>3, <2>4
<1>4. CASE BeginExecute
  <2>1. UNCHANGED flags /\ InFlight' = 0 /\ pc = "execute"
    BY <1>4 DEF BeginExecute, controlVars, At, InFlight, Permitted
  <2>2. CASE flags.paused /\ attempt = 0
    <3>1. InFlight = 1 /\ quota' = quota - 1
      BY <1>4, <2>1, <2>2 DEF BeginExecute, InFlight, Permitted
    <3> QED
      BY <1>t, <2>1, <2>2, <3>1 DEF QuotaInv
  <2>3. CASE ~(flags.paused /\ attempt = 0)
    <3>1. quota' = quota
      BY <1>4, <2>3 DEF BeginExecute
    <3> QED
      BY <1>t, <2>1, <3>1 DEF QuotaInv
  <2> QED
    BY <2>2, <2>3
<1>5. CASE ReturnOutcome
  <2>1. flags'.paused = FALSE /\ UNCHANGED quota
    BY <1>5, <1>t DEF ReturnOutcome, Finish, Flags, observations
  <2> QED
    BY <1>t, <2>1 DEF QuotaInv
<1>6. CASE OperatorPauses
  <2>1. flags' = [flags EXCEPT !.paused = TRUE] /\ InFlight' = InFlight
    BY <1>6 DEF OperatorPauses, Pause, InFlight, Permitted, progress
  <2>2. /\ flags'.stepBudget = flags.stepBudget /\ flags'.cancelled = flags.cancelled
        /\ flags'.finished = flags.finished
    BY <1>t, <2>1 DEF Flags
  <2>3. CASE flags.paused
    BY <1>6, <1>t, <2>1, <2>2, <2>3 DEF OperatorPauses, Owed, QuotaInv
  <2>4. CASE ~flags.paused
    BY <1>6, <1>l, <1>t, <2>1, <2>2, <2>4 DEF OperatorPauses, Owed, QuotaInv
  <2> QED
    BY <2>3, <2>4
<1>7. CASE OperatorSteps
  <2>1. /\ flags' = [flags EXCEPT !.paused = TRUE, !.stepBudget = SaturatingInc(@)]
        /\ InFlight' = InFlight
    BY <1>7 DEF OperatorSteps, Step, InFlight, Permitted, progress
  <2>2. /\ flags'.stepBudget <= flags.stepBudget + 1 /\ flags'.stepBudget \in Int
        /\ flags'.cancelled = flags.cancelled /\ flags'.finished = flags.finished
    BY <1>t, <2>1 DEF Flags, SaturatingInc
  <2>3. CASE flags.paused
    BY <1>7, <1>t, <2>1, <2>2, <2>3 DEF OperatorSteps, Owed, QuotaInv
  <2>4. CASE ~flags.paused
    BY <1>7, <1>l, <1>t, <2>1, <2>2, <2>4 DEF OperatorSteps, Owed, QuotaInv
  <2> QED
    BY <2>3, <2>4
<1>8. CASE OperatorResumes \/ OperatorCancels
  <2>1. flags'.paused = FALSE /\ quota' = 0
    BY <1>8, <1>t DEF OperatorResumes, OperatorCancels, Resume, Cancel, Flags
  <2> QED
    BY <2>1 DEF QuotaInv
<1>9. Await("await", "visit") \/ Await("breakAwait", "authorize") => QuotaInv'
  BY <1>2
<1> QED
  BY <1>1, <1>3, <1>4, <1>5, <1>6, <1>7, <1>8, <1>9

-----------------------------------------------------------------------------
\* Gates, activations and failures: what relates one node to the others.

LEMMA CancelStays == ASSUME TypeOK, Next PROVE flags.cancelled => flags'.cancelled
<1>t. ControlTypeOK
  BY DEF TypeOK
<1>1. CASE ReturnOutcome
  BY <1>t, <1>1 DEF ReturnOutcome, Finish, ControlTypeOK, Flags
<1> QED
  BY <1>t, <1>1, FlagCases, FlagMoves

\* A node begins in BeginExecute only.
LEMMA BegunMoves ==
    ASSUME TypeOK, FateInv, Next
    PROVE  /\ UNCHANGED wf
           /\ BeginExecute \/ Begun' \subseteq Begun
           /\ BeginExecute => Begun' \subseteq Begun \cup {cur}
<1>t. fate \in [Nodes -> Fates]
  BY DEF TypeOK
<1>a. ASSUME UNCHANGED <<wf, fate>> PROVE Begun' \subseteq Begun
  BY <1>a DEF Begun, Nodes
<1>b. ASSUME UNCHANGED wf, fate' = [fate EXCEPT ![cur] = "passed"]
             \/ fate' = [fate EXCEPT ![cur] = "pruned"]
             \/ fate' = [fate EXCEPT ![cur] = "refused"]
      PROVE  Begun' \subseteq Begun
  BY <1>t, <1>b DEF Begun, Nodes
<1>c. ASSUME UNCHANGED wf, pc = "executing", NEW f, fate' = [fate EXCEPT ![cur] = f]
      PROVE  Begun' \subseteq Begun
  BY <1>t, <1>c DEF Begun, Nodes, FateInv
<1> USE DEF At, progress, observations
<1>1. CASE FailFast \/ Start \/ LoopEnds \/ SkipInactive \/ EnterNode
  BY <1>1, <1>a DEF FailFast, Start, LoopEnds, SkipInactive, EnterNode
<1>2. CASE Await("await", "visit") \/ Await("breakAwait", "authorize")
  BY <1>2, <1>a DEF Await
<1>3. CASE PassDisabled \/ Prune \/ ConditionFails
  BY <1>3, <1>b DEF PassDisabled, Prune, ConditionFails
<1>4. CASE CheckBreakpoint \/ HitBreakpoint \/ DelayBefore
  BY <1>4, <1>a DEF CheckBreakpoint, HitBreakpoint, DelayBefore
<1>5. CASE Authorize \/ ApprovalGranted \/ ApprovalRefused
  BY <1>5, <1>a, <1>b DEF Authorize, ApprovalGranted, ApprovalRefused, Refuse
<1>6. CASE BeginExecute
  BY <1>6, <1>t DEF BeginExecute, Begun, Nodes
<1>7. CASE ExecuteOk \/ ExecuteHandled \/ ExecuteFails \/ ExecuteCancelled
  BY <1>7, <1>c DEF ExecuteOk, ExecuteHandled, ExecuteFails, ExecuteCancelled
<1>8. CASE ExecuteRetries \/ RetryWait \/ DelayAfter \/ ReturnOutcome \/ Emit
  BY <1>8, <1>a DEF ExecuteRetries, RetryWait, DelayAfter, ReturnOutcome, Emit
<1>9. CASE OperatorPauses \/ OperatorSteps \/ OperatorResumes \/ OperatorCancels
  BY <1>9, <1>a, OperatorFrame
<1> QED
  BY <1>1, <1>2, <1>3, <1>4, <1>5, <1>6, <1>7, <1>8, <1>9, StepCases

LEMMA GateStep == ASSUME TypeOK, FateInv, GateInv, Next PROVE GateInv'
<1>b. /\ UNCHANGED wf /\ (flags.cancelled => flags'.cancelled)
      /\ BeginExecute \/ Begun' \subseteq Begun
  BY CancelStays, BegunMoves
<1>n. pc \notin {"spawned", "loop", "concluding", "done"} => cur \in Nodes
  BY DEF TypeOK
<1>g. \A n \in Begun : Cleared(n)
  BY DEF GateInv, GateHolds, Cleared
<1>1. ASSUME UNCHANGED approvals, Begun' \subseteq Begun, pc' \in {"concluding", "done"}
      PROVE  GateInv'
  BY <1>1, <1>b DEF GateInv, GateHolds, Nodes
<1>2. ASSUME UNCHANGED approvals, Begun' \subseteq Begun,
             pc \notin {"delayBefore", "concluding", "done"},
             pc' \notin {"approval", "delayBefore", "execute"}
      PROVE  GateInv'
  BY <1>2, <1>b DEF GateInv, GateHolds, Nodes
<1>3. ASSUME UNCHANGED <<approvals, pc, cur>>, Begun' \subseteq Begun
      PROVE  GateInv'
  BY <1>3, <1>b DEF GateInv, GateHolds, Nodes, Cleared, Node
<1>4. ASSUME UNCHANGED <<approvals, cur>>, Begun' \subseteq Begun, Cleared(cur),
             pc \notin {"delayBefore", "concluding", "done"},
             pc' \in {"delayBefore", "execute"}
      PROVE  GateInv'
  BY <1>4, <1>b DEF GateInv, GateHolds, Nodes, Cleared, Node
<1> USE DEF At, progress, observations
<1>5. CASE FailFast \/ LoopEnds \/ ReturnOutcome
  BY <1>5, <1>1, <1>b, ConcludeFacts
     DEF FailFast, LoopEnds, ReturnOutcome, BeginExecute, Terminal
<1>6. CASE Start \/ SkipInactive \/ EnterNode
  BY <1>6, <1>2, <1>b DEF Start, SkipInactive, EnterNode, NextNode, BeginExecute
<1>7. CASE Await("await", "visit") \/ Await("breakAwait", "authorize")
  <2>1. pc' \in {"concluding", "visit", "authorize", pc} /\ UNCHANGED approvals
    BY <1>7, ConcludeFacts DEF Await, Terminal
  <2>2. pc \in {"await", "breakAwait"}
    BY <1>7 DEF Await
  <2> QED
    BY <2>1, <2>2, <1>2, <1>b DEF BeginExecute
<1>8. CASE PassDisabled \/ Prune \/ ConditionFails \/ CheckBreakpoint \/ HitBreakpoint
  BY <1>8, <1>1, <1>2, <1>b, ConcludeFacts
     DEF PassDisabled, Prune, ConditionFails, CheckBreakpoint, HitBreakpoint, NextNode,
         BeginExecute, Terminal
<1>9. CASE Authorize
  <2>1. CASE Refuse(<<>>) \/ Refuse(<<"NodeFailed">>)
    BY <1>9, <2>1, <1>1, <1>b, ConcludeFacts DEF Authorize, Refuse, BeginExecute, Terminal
  <2>2. CASE /\ Node.known /\ Node.gate = "allow" /\ StartNode
             /\ UNCHANGED <<controlVars, wf, progress, fate, observations>>
    BY <1>9, <2>2, <1>4, <1>b DEF Authorize, StartNode, BeginExecute, Cleared, Node
  <2>3. CASE /\ Node.known /\ Node.gate = "approve" /\ pc' = "approval"
             /\ UNCHANGED <<controlVars, wf, progress, result, outbox, fate, observations>>
    BY <1>9, <2>3, <1>b DEF Authorize, BeginExecute, GateInv, GateHolds, Nodes, Node
  <2> QED
    BY <1>9, <2>1, <2>2, <2>3 DEF Authorize
<1>10. CASE ApprovalGranted
  <2>1. /\ pc = "approval" /\ pc' = "delayBefore" /\ Begun' \subseteq Begun
        /\ UNCHANGED <<cur, flags>> /\ cur \in Nodes
        /\ approvals' = approvals \cup {<<cur, flags.cancelled>>}
    BY <1>10, <1>b, <1>n DEF ApprovalGranted, StartNode, BeginExecute, controlVars
  <2>2. cur \notin Begun /\ flags.cancelled \in BOOLEAN
    BY <2>1 DEF FateInv, Entered, Begun, TypeOK, ControlTypeOK, Flags
  <2>3. Node.known /\ Node.gate = "approve"
    BY <2>1 DEF GateInv
  <2>4. GateHolds'
    BY <1>b, <1>g, <2>1 DEF GateHolds, Cleared
  <2>5. Cleared(cur)' \/ (Node.known /\ <<cur, TRUE>> \in approvals')
    BY <1>b, <2>1, <2>2, <2>3 DEF Cleared, Node
  <2>6. \A n \in Nodes : <<n, TRUE>> \in approvals' => flags.cancelled /\ n \notin Begun
    BY <2>1, <2>2 DEF GateInv
  <2> QED
    BY <1>b, <2>1, <2>4, <2>5, <2>6 DEF GateInv, Nodes, Node
<1>11. CASE ApprovalRefused
  BY <1>11, <1>1, <1>b, ConcludeFacts DEF ApprovalRefused, Refuse, BeginExecute, Terminal
<1>12. CASE DelayBefore
  <2>1. Begun' \subseteq Begun /\ UNCHANGED <<approvals, cur, flags>> /\ cur \in Nodes
    BY <1>12, <1>b, <1>n DEF DelayBefore, BeginExecute, controlVars
  <2>2. CASE flags.cancelled
    BY <1>12, <2>1, <2>2, <1>1, ConcludeFacts DEF DelayBefore, Terminal
  <2>3. CASE ~flags.cancelled
    <3>1. Cleared(cur) /\ \A n \in Nodes : <<n, TRUE>> \notin approvals
      BY <1>12, <2>1, <2>3 DEF DelayBefore, GateInv
    <3> QED
      BY <1>12, <1>b, <1>g, <2>1, <2>3, <3>1
         DEF DelayBefore, GateInv, GateHolds, Cleared, Nodes, Node
  <2> QED
    BY <2>2, <2>3
<1>13. CASE BeginExecute
  <2>1. Begun' \subseteq Begun \cup {cur} /\ pc' = "executing" /\ UNCHANGED approvals
    BY <1>13, BegunMoves DEF BeginExecute
  <2>2. Cleared(cur) /\ \A n \in Nodes : <<n, TRUE>> \notin approvals
    BY <1>13 DEF BeginExecute, GateInv
  <2> QED
    BY <1>b, <1>g, <2>1, <2>2 DEF GateInv, GateHolds, Cleared, Nodes
<1>14. CASE ExecuteOk \/ ExecuteRetries \/ ExecuteHandled
  BY <1>14, <1>2, <1>b DEF ExecuteOk, ExecuteRetries, ExecuteHandled, NextNode, BeginExecute
<1>15. CASE ExecuteFails \/ ExecuteCancelled
  BY <1>15, <1>1, <1>b, ConcludeFacts DEF ExecuteFails, ExecuteCancelled, BeginExecute, Terminal
<1>16. CASE RetryWait
  <2>1. Begun' \subseteq Begun /\ UNCHANGED <<approvals, cur>> /\ cur \in Begun
    BY <1>16, <1>b, <1>n DEF RetryWait, BeginExecute, FateInv, Begun
  <2> QED
    BY <1>16, <2>1, <1>1, <1>4, <1>g, ConcludeFacts DEF RetryWait, Terminal
<1>17. CASE DelayAfter
  BY <1>17, <1>1, <1>2, <1>b, ConcludeFacts DEF DelayAfter, NextNode, BeginExecute, Terminal
<1>18. CASE Emit
  BY <1>18, <1>3, <1>b DEF Emit, BeginExecute
<1>19. CASE OperatorPauses \/ OperatorSteps \/ OperatorResumes \/ OperatorCancels
  <2>1. UNCHANGED <<approvals, pc, cur, fate, wf>>
    BY <1>19, OperatorFrame
  <2>2. Begun' = Begun
    BY <2>1 DEF Begun, Nodes
  <2> QED
    BY <2>1, <2>2, <1>3
<1> QED
  BY <1>5, <1>6, <1>7, <1>8, <1>9, <1>10, <1>11, <1>12, <1>13,
     <1>14, <1>15, <1>16, <1>17, <1>18, <1>19, StepCases

\* Only the fate of the current node changes, and only while it is unsettled.
LEMMA FateMoves ==
    ASSUME TypeOK, FateInv, Next
    PROVE  /\ UNCHANGED wf
           /\ \A n \in Nodes : \/ fate'[n] = fate[n]
                              \/ /\ n = cur /\ fate[n] \in {"none", "running"}
                                 /\ fate'[n] # "none"
                                 /\ pc \notin {"spawned", "loop", "concluding", "done"}
<1>t. fate \in [Nodes -> Fates] /\ attempt \in Nat
  BY DEF TypeOK
<1>n. pc \notin {"spawned", "loop", "concluding", "done"} => cur \in Nodes
  BY DEF TypeOK
<1>a. ASSUME fate' = fate
      PROVE  \A n \in Nodes : fate'[n] = fate[n]
  BY <1>a
<1>b. ASSUME NEW f, fate' = [fate EXCEPT ![cur] = f], f # "none", cur \in Nodes
      PROVE  \A n \in Nodes : fate'[n] = fate[n] \/ (n = cur /\ fate'[n] # "none")
  BY <1>t, <1>b
<1> USE DEF At, progress, observations
<1>1. CASE FailFast \/ Start \/ LoopEnds \/ SkipInactive \/ EnterNode
  BY <1>1, <1>a DEF FailFast, Start, LoopEnds, SkipInactive, EnterNode
<1>2. CASE Await("await", "visit") \/ Await("breakAwait", "authorize")
  BY <1>2, <1>a DEF Await
<1>3. CASE PassDisabled \/ Prune \/ ConditionFails
  <2>1. fate[cur] = "none" /\ pc = "visit" /\ UNCHANGED wf
    BY <1>3, <1>n DEF PassDisabled, Prune, ConditionFails, FateInv, Entered
  <2>2. PICK f \in {"passed", "pruned", "refused"} : fate' = [fate EXCEPT ![cur] = f]
    BY <1>3 DEF PassDisabled, Prune, ConditionFails
  <2> QED
    BY <2>1, <2>2, <1>b, <1>n
<1>4. CASE CheckBreakpoint \/ HitBreakpoint \/ DelayBefore
  BY <1>4, <1>a DEF CheckBreakpoint, HitBreakpoint, DelayBefore
<1>5. CASE Authorize \/ ApprovalGranted \/ ApprovalRefused
  <2>1. fate[cur] = "none" /\ pc \in {"authorize", "approval"} /\ UNCHANGED wf
    BY <1>5, <1>n DEF Authorize, ApprovalGranted, ApprovalRefused, Refuse, FateInv, Entered
  <2> QED
    BY <1>5, <2>1, <1>a, <1>b, <1>n DEF Authorize, ApprovalGranted, ApprovalRefused, Refuse
<1>6. CASE BeginExecute
  <2>1. fate[cur] \in {"none", "running"} /\ pc = "execute" /\ UNCHANGED wf
    BY <1>6 DEF BeginExecute, FateInv
  <2> QED
    BY <1>6, <2>1, <1>b, <1>n DEF BeginExecute
<1>7. CASE ExecuteOk \/ ExecuteHandled \/ ExecuteFails \/ ExecuteCancelled
  <2>1. fate[cur] = "running" /\ pc = "executing" /\ UNCHANGED wf
    BY <1>7 DEF ExecuteOk, ExecuteHandled, ExecuteFails, ExecuteCancelled, FateInv
  <2> QED
    BY <1>7, <2>1, <1>b, <1>n DEF ExecuteOk, ExecuteHandled, ExecuteFails, ExecuteCancelled
<1>8. CASE ExecuteRetries \/ RetryWait \/ DelayAfter \/ ReturnOutcome \/ Emit
  BY <1>8, <1>a DEF ExecuteRetries, RetryWait, DelayAfter, ReturnOutcome, Emit
<1>9. CASE OperatorPauses \/ OperatorSteps \/ OperatorResumes \/ OperatorCancels
  BY <1>9, <1>a, OperatorFrame
<1> QED
  BY <1>1, <1>2, <1>3, <1>4, <1>5, <1>6, <1>7, <1>8, <1>9, StepCases

\* A node that an edge has activated stays so: what justified the edge is settled.
LEMMA GroundedStays ==
    ASSUME TypeOK, FateInv, Next
    PROVE  \A n : Grounded(n) => Grounded(n)'
<1>1. \A e \in wf.edges : Justifies(e) => Justifies(e)'
  <2>1. \A e \in wf.edges : e.src \in Nodes
    BY WorkflowFacts DEF TypeOK
  <2> QED
    BY <2>1, FateMoves DEF Justifies
<1> QED
  BY <1>1, FateMoves DEF Grounded

\* The edges a settled node takes ground what they activate, further on.
LEMMA TakenGrounds ==
    ASSUME TypeOK, FateInv, Next, cur \in Nodes,
           NEW outcome \in {"success", "failure"}, NEW taken \in Takings(outcome),
           fate'[cur] \in IF outcome = "failure" THEN {"failed"} ELSE {"passed", "finished"}
    PROVE  \A e \in taken : Grounded(e.dst)' /\ e.dst \in Nodes /\ e.dst > cur
<1> SUFFICES ASSUME NEW e \in taken
             PROVE  Grounded(e.dst)' /\ e.dst \in Nodes /\ e.dst > cur
    OBVIOUS
<1>1. e \in wf.edges /\ e.src = cur /\ e.branch \in {"always", outcome}
  BY TakingsFacts
<1>2. e.dst \in Nodes /\ e.src < e.dst
  BY <1>1, WorkflowFacts DEF TypeOK
<1>3. Justifies(e)'
  BY <1>1 DEF Justifies
<1>4. e \in wf.edges' /\ wf' = wf
  BY <1>1, FateMoves
<1>5. e.dst > cur
  BY <1>1, <1>2, PlaceFacts, WorkflowFacts DEF TypeOK, Nodes
<1> QED
  BY <1>2, <1>3, <1>4, <1>5 DEF Grounded

LEMMA ActivationStep ==
    ASSUME TypeOK, FlagsInv, FateInv, ActivationInv, Next PROVE ActivationInv'
<1> DEFINE InNode == pc \notin {"spawned", "loop", "concluding", "done"}
<1>t. /\ cur \in Int /\ wf.size \in Nat /\ Nodes = 1..wf.size /\ activated \in SUBSET Nodes
      /\ fate \in [Nodes -> Fates] /\ wf.entry \in Nodes
  BY PlaceFacts, WorkflowFacts DEF TypeOK, Nodes
<1>n. InNode => cur \in Nodes
  BY DEF TypeOK
<1>m. /\ wf' = wf /\ Nodes' = Nodes /\ \A n : Grounded(n) => Grounded(n)'
      /\ \A n \in Nodes : fate'[n] = fate[n] \/ (n = cur /\ fate'[n] # "none" /\ InNode)
  BY FateMoves, GroundedStays DEF Nodes
<1>i. /\ pc = "spawned" => cur = 1 /\ activated = {}
      /\ InNode => cur \in activated
      /\ \A n \in activated : Grounded(n)
      /\ \A n \in Nodes : fate[n] # "none" => n \in activated
      /\ pc # "spawned" => \A n \in activated : n < cur => fate[n] # "none"
  BY DEF ActivationInv
<1>r. result = "None" <=> pc \notin {"concluding", "done"}
  BY DEF FlagsInv
\* The walk stays where it is and activates nothing.
<1>a. ASSUME UNCHANGED <<cur, activated>>, pc' = pc \/ (pc' # "spawned" /\ InNode),
             result' = result \/ result' # "Completed"
      PROVE  ActivationInv'
  <2>1. NothingLeftBehind'
    <3>1. CASE result' # "Completed"
      BY <3>1 DEF NothingLeftBehind
    <3>2. CASE result' = "Completed"
      <4>1. result = "Completed" /\ ~InNode
        BY <1>a, <1>r, <3>2
      <4>2. \A n \in Nodes : fate'[n] = fate[n]
        BY <1>m, <4>1
      <4> QED
        BY <1>a, <1>m, <1>t, <4>1, <4>2 DEF ActivationInv, NothingLeftBehind
    <3> QED
      BY <3>1, <3>2
  <2>2. \A n \in Nodes : fate'[n] # "none" => n \in activated
    BY <1>m, <1>i
  <2>3. \A n \in activated : n < cur => fate'[n] = fate[n]
    BY <1>m, <1>t
  <2> QED
    BY <1>a, <1>i, <1>m, <1>n, <2>1, <2>2, <2>3 DEF ActivationInv
\* It goes on to the next node, whose predecessor has been settled.
<1>b. ASSUME NextNode, activated \subseteq activated', activated' \subseteq Nodes,
             \A n \in activated' \ activated : Grounded(n)' /\ n > cur,
             cur \in Nodes, cur \in activated => fate'[cur] # "none",
             UNCHANGED result, pc \notin {"spawned", "concluding", "done"}
      PROVE  ActivationInv'
  <2>1. NothingLeftBehind'
    BY <1>b, <1>r DEF NothingLeftBehind
  <2>2. \A n \in Nodes : fate'[n] # "none" => n \in activated'
    BY <1>b, <1>m, <1>i
  <2>3. \A n \in activated' : n < cur + 1 => fate'[n] # "none"
    <3> SUFFICES ASSUME NEW n \in activated', n < cur + 1 PROVE fate'[n] # "none"
        OBVIOUS
    <3>1. n \in activated /\ n \in Nodes /\ (n = cur \/ n < cur)
      BY <1>b, <1>t
    <3> QED
      BY <1>b, <1>i, <1>m, <3>1
  <2> QED
    BY <1>b, <1>i, <1>m, <2>1, <2>2, <2>3 DEF ActivationInv, NextNode
<1>c. ASSUME NEW taken, Activate(taken),
             \A e \in taken : Grounded(e.dst)' /\ e.dst \in Nodes /\ e.dst > cur
      PROVE  /\ activated \subseteq activated' /\ activated' \subseteq Nodes
             /\ \A n \in activated' \ activated : Grounded(n)' /\ n > cur
  <2>1. \A n : n \in activated' <=> n \in activated \/ \E e \in taken : n = e.dst
    BY <1>c, ActivateFacts
  <2>2. activated \subseteq activated'
    BY <2>1
  <2>3. \A n \in activated' \ activated : Grounded(n)' /\ n \in Nodes /\ n > cur
    BY <1>c, <2>1
  <2> QED
    BY <1>t, <2>2, <2>3
<1> USE DEF At, progress, observations
<1> USE ConcludeFacts
<1>1. CASE FailFast
  <2>1. /\ UNCHANGED <<cur, activated, fate>> /\ pc = "spawned" /\ pc' = "concluding"
        /\ result' = "Failed"
    BY <1>1 DEF FailFast, Terminal
  <2> QED
    BY <2>1, <1>i, <1>m DEF ActivationInv, NothingLeftBehind
<1>2. CASE Start
  <2>1. /\ UNCHANGED <<cur, fate, result>> /\ pc = "spawned" /\ pc' = "loop"
        /\ activated' = {wf.entry}
    BY <1>2 DEF Start
  <2>2. \A n \in Nodes : fate[n] = "none"
    BY <2>1, <1>i
  <2>3. ~(wf.entry < cur)
    BY <2>1, <1>i, <1>t
  <2> QED
    BY <2>1, <2>2, <2>3, <1>m, <1>r DEF ActivationInv, NothingLeftBehind, Grounded
<1>3. CASE LoopEnds
  <2>1. UNCHANGED <<cur, activated, fate>> /\ pc = "loop" /\ pc' = "concluding"
    BY <1>3 DEF LoopEnds, Terminal
  <2>2. NothingLeftBehind'
    <3>1. CASE cur > wf.size
      <4>1. \A n \in activated : n < cur
        BY <3>1, <1>t
      <4> QED
        BY <2>1, <4>1, <1>i DEF NothingLeftBehind
    <3>2. CASE ~(cur > wf.size)
      BY <1>3, <3>2 DEF LoopEnds, NothingLeftBehind, Terminal
    <3> QED
      BY <3>1, <3>2
  <2> QED
    BY <2>1, <2>2, <1>i, <1>m DEF ActivationInv
<1>4. CASE SkipInactive
  <2>1. cur \in Nodes
    <3>1. cur \in 1..(wf.size + 1) /\ cur <= wf.size
      BY <1>4 DEF SkipInactive, TypeOK
    <3> QED
      BY <3>1, <1>t
  <2> QED
    BY <1>4, <2>1, <1>b, <1>t DEF SkipInactive
<1>5. CASE EnterNode
  BY <1>5, <1>i, <1>m, <1>r DEF EnterNode, ActivationInv, NothingLeftBehind
<1>6. CASE Await("await", "visit") \/ Await("breakAwait", "authorize")
  <2>1. /\ pc \in {"await", "breakAwait"} /\ pc' \in {pc, "visit", "authorize", "concluding"}
        /\ UNCHANGED <<cur, activated>> /\ (result' = result \/ result' = "Cancelled")
    BY <1>6 DEF Await, Terminal
  <2> QED
    BY <2>1, <1>a
<1>7. CASE PassDisabled
  <2>1. PICK taken \in Takings("success") : Activate(taken)
    BY <1>7 DEF PassDisabled
  <2>2. pc = "visit" /\ NextNode /\ UNCHANGED result /\ cur \in Nodes /\ fate'[cur] = "passed"
    BY <1>7, <1>n, <1>t DEF PassDisabled
  <2>3. \A e \in taken : Grounded(e.dst)' /\ e.dst \in Nodes /\ e.dst > cur
    BY <2>2, TakenGrounds
  <2> QED
    BY <2>1, <2>2, <2>3, <1>b, <1>c
<1>8. CASE Prune
  <2>1. /\ pc = "visit" /\ NextNode /\ UNCHANGED <<result, activated>> /\ cur \in Nodes
        /\ fate'[cur] = "pruned"
    BY <1>8, <1>n, <1>t DEF Prune
  <2> QED
    BY <2>1, <1>b, <1>t
<1>9. CASE ConditionFails \/ ApprovalRefused \/ ExecuteFails \/ ExecuteCancelled
  <2>1. /\ pc \in {"visit", "approval", "executing"} /\ pc' = "concluding"
        /\ UNCHANGED <<cur, activated>> /\ result' \in {"Failed", "Cancelled"}
    BY <1>9 DEF ConditionFails, ApprovalRefused, Refuse, ExecuteFails, ExecuteCancelled,
                Terminal
  <2> QED
    BY <2>1, <1>a
<1>10. CASE CheckBreakpoint \/ HitBreakpoint \/ ApprovalGranted
  BY <1>10, <1>a DEF CheckBreakpoint, HitBreakpoint, ApprovalGranted, StartNode
<1>11. CASE Authorize
  <2>1. CASE Refuse(<<>>) \/ Refuse(<<"NodeFailed">>)
    BY <1>11, <2>1, <1>a DEF Authorize, Refuse, Terminal
  <2>2. CASE pc' \in {"delayBefore", "approval"} /\ UNCHANGED <<progress, result>>
    BY <1>11, <2>2, <1>a DEF Authorize
  <2> QED
    BY <1>11, <2>1, <2>2 DEF Authorize, StartNode
<1>12. CASE DelayBefore
  BY <1>12, <1>a DEF DelayBefore, Terminal
<1>13. CASE BeginExecute \/ ExecuteOk \/ ExecuteRetries
  BY <1>13, <1>a DEF BeginExecute, ExecuteOk, ExecuteRetries
<1>14. CASE ExecuteHandled
  <2>1. PICK taken \in Takings("failure") : Activate(taken)
    BY <1>14 DEF ExecuteHandled
  <2>2. pc = "executing" /\ NextNode /\ UNCHANGED result /\ cur \in Nodes /\ fate'[cur] = "failed"
    BY <1>14, <1>n, <1>t DEF ExecuteHandled
  <2>3. \A e \in taken : Grounded(e.dst)' /\ e.dst \in Nodes /\ e.dst > cur
    BY <2>2, TakenGrounds
  <2> QED
    BY <2>1, <2>2, <2>3, <1>b, <1>c
<1>15. CASE RetryWait
  BY <1>15, <1>a DEF RetryWait, Terminal
<1>16. CASE DelayAfter
  <2>1. pc = "delayAfter" /\ UNCHANGED fate /\ cur \in Nodes /\ fate'[cur] = "finished"
    BY <1>16, <1>n DEF DelayAfter, FateInv
  <2>2. CASE flags.cancelled
    BY <1>16, <2>1, <2>2, <1>a DEF DelayAfter, Terminal
  <2>3. CASE ~flags.cancelled
    <3>1. PICK taken \in Takings("success") : Activate(taken)
      BY <1>16, <2>3 DEF DelayAfter
    <3>2. \A e \in taken : Grounded(e.dst)' /\ e.dst \in Nodes /\ e.dst > cur
      BY <2>1, TakenGrounds
    <3>3. CASE NextNode /\ UNCHANGED <<result, outbox>>
      BY <2>1, <3>1, <3>2, <3>3, <1>b, <1>c
    <3>4. CASE Node.last /\ Conclude("Completed", <<>>) /\ UNCHANGED cur
      <4>1. pc' = "concluding"
        BY <3>4 DEF Terminal
      <4>2. NothingLeftBehind'
        BY <2>1, <3>4, <1>m DEF NothingLeftBehind, Node
      <4>3. /\ activated \subseteq activated'
            /\ \A n \in activated' : n \in activated \/ (Grounded(n)' /\ n > cur)
        BY <3>1, <3>2, ActivateFacts
      <4>4. \A n \in activated' : n < cur => n \in activated
        BY <4>3, <1>t
      <4> QED
        BY <2>1, <3>4, <4>1, <4>2, <4>3, <4>4, <1>i, <1>m DEF ActivationInv
    <3> QED
      BY <1>16, <2>3, <3>3, <3>4 DEF DelayAfter
  <2> QED
    BY <2>2, <2>3
<1>17. CASE ReturnOutcome
  <2>1. UNCHANGED <<cur, activated, fate, result>> /\ pc = "concluding" /\ pc' = "done"
    BY <1>17 DEF ReturnOutcome
  <2> QED
    BY <2>1, <1>i, <1>m DEF ActivationInv, NothingLeftBehind
<1>18. CASE Emit
  BY <1>18, <1>a DEF Emit
<1>19. CASE OperatorPauses \/ OperatorSteps \/ OperatorResumes \/ OperatorCancels
  BY <1>19, <1>a, OperatorFrame
<1> QED
  BY <1>1, <1>2, <1>3, <1>4, <1>5, <1>6, <1>7, <1>8, <1>9, <1>10, <1>11, <1>12, <1>13,
     <1>14, <1>15, <1>16, <1>17, <1>18, <1>19, StepCases

LEMMA FailureStep ==
    ASSUME TypeOK, FlagsInv, FateInv, FailureInv, Next PROVE FailureInv'
<1>t. /\ cur \in Int /\ wf.size \in Nat /\ Nodes = 1..wf.size
      /\ fate \in [Nodes -> Fates]
  BY PlaceFacts DEF TypeOK, Nodes
<1>n. pc \notin {"spawned", "loop", "concluding", "done"} => cur \in Nodes
  BY DEF TypeOK
<1>m. /\ wf' = wf /\ Nodes' = Nodes /\ \A n : Handled(n)' = Handled(n)
      /\ \A n \in Nodes : fate'[n] = fate[n] \/ n = cur
  BY FateMoves DEF Nodes, Handled
<1>i. result = "None" => \A n \in Nodes : /\ fate[n] # "refused"
                                          /\ fate[n] = "running" => n = cur
                                          /\ fate[n] = "failed" => Handled(n)
  BY DEF FailureInv
<1>r. result = "None" <=> pc \notin {"concluding", "done"}
  BY DEF FlagsInv
\* The run goes on; the current node is fine, or left behind in good order.
<1>a. ASSUME result = "None", result' = "None",
             cur \in Nodes => \/ fate'[cur] \in {"none", "passed", "pruned", "finished"}
                              \/ fate'[cur] = "running" /\ cur' = cur
                              \/ fate'[cur] = "failed" /\ Handled(cur)
      PROVE  FailureInv'
  <2>1. \A n \in Nodes : /\ fate'[n] # "refused"
                         /\ fate'[n] = "running" => n = cur'
                         /\ fate'[n] = "failed" => Handled(n)
    <3> SUFFICES ASSUME NEW n \in Nodes
                 PROVE  /\ fate'[n] # "refused"
                        /\ fate'[n] = "running" => n = cur'
                        /\ fate'[n] = "failed" => Handled(n)
        OBVIOUS
    <3>1. CASE n = cur
      BY <1>a, <3>1
    <3>2. CASE n # cur
      BY <1>a, <1>i, <1>m, <3>2
    <3> QED
      BY <3>1, <3>2
  <2> QED
    BY <1>a, <1>m, <2>1 DEF FailureInv, NoSwallowedFailure
\* It ends, and not in success.
<1>b. ASSUME result' \notin {"None", "Completed"} PROVE FailureInv'
  BY <1>b DEF FailureInv, NoSwallowedFailure
\* Nothing of interest changes.
<1>c. ASSUME UNCHANGED <<result, fate>>, cur' = cur \/ result # "None"
      PROVE  FailureInv'
  BY <1>c, <1>m, <1>i DEF FailureInv, NoSwallowedFailure
\* It ends in success, with no node still running.
<1>d. ASSUME result = "None", fate' = fate, cur \in Nodes => fate[cur] # "running",
             result' # "None"
      PROVE  FailureInv'
  <2>1. \A n \in Nodes : /\ fate[n] \notin {"refused", "running"}
                         /\ fate[n] = "failed" => Handled(n)
    BY <1>d, <1>i
  <2>2. NoSwallowedFailure'
    BY <1>d, <1>m, <2>1 DEF NoSwallowedFailure, Handled
  <2> QED
    BY <1>d, <2>2 DEF FailureInv
<1> USE ConcludeFacts DEF At, progress, observations
<1>1. CASE FailFast
  BY <1>1, <1>b DEF FailFast, Terminal
<1>2. CASE Start \/ EnterNode \/ HitBreakpoint \/ CheckBreakpoint
  BY <1>2, <1>c DEF Start, EnterNode, HitBreakpoint, CheckBreakpoint
<1>3. CASE LoopEnds
  <2>1. result = "None" /\ fate' = fate /\ result' # "None"
    BY <1>3, <1>r DEF LoopEnds, Terminal
  <2>2. cur \in Nodes => fate[cur] # "running"
    BY <1>3 DEF LoopEnds, FateInv
  <2> QED
    BY <2>1, <2>2, <1>d
<1>4. CASE SkipInactive
  BY <1>4, <1>a, <1>r DEF SkipInactive, FateInv
<1>5. CASE Await("await", "visit") \/ Await("breakAwait", "authorize")
  <2>1. UNCHANGED <<fate, cur>> /\ (UNCHANGED result \/ result' = "Cancelled")
    BY <1>5 DEF Await, Terminal
  <2> QED
    BY <2>1, <1>b, <1>c
<1>6. CASE PassDisabled \/ Prune
  <2>1. pc = "visit" /\ UNCHANGED result /\ cur \in Nodes
    BY <1>6, <1>n DEF PassDisabled, Prune
  <2>2. fate'[cur] \in {"passed", "pruned"}
    BY <1>6, <1>t, <2>1 DEF PassDisabled, Prune
  <2> QED
    BY <2>1, <2>2, <1>a, <1>r
<1>7. CASE ConditionFails \/ ApprovalRefused \/ ExecuteFails \/ ExecuteCancelled
  BY <1>7, <1>b DEF ConditionFails, ApprovalRefused, Refuse, ExecuteFails, ExecuteCancelled,
                    Terminal
<1>8. CASE Authorize
  <2>1. CASE Refuse(<<>>) \/ Refuse(<<"NodeFailed">>)
    BY <2>1, <1>b DEF Refuse, Terminal
  <2>2. CASE UNCHANGED <<result, fate, cur>>
    BY <2>2, <1>c
  <2> QED
    BY <1>8, <2>1, <2>2 DEF Authorize, StartNode
<1>9. CASE ApprovalGranted
  BY <1>9, <1>c DEF ApprovalGranted, StartNode
<1>10. CASE DelayBefore
  BY <1>10, <1>b, <1>c DEF DelayBefore, Terminal
<1>11. CASE BeginExecute
  <2>1. pc = "execute" /\ UNCHANGED <<result, cur>> /\ cur \in Nodes
    BY <1>11, <1>n DEF BeginExecute
  <2>2. fate'[cur] = "running"
    BY <1>11, <1>t, <2>1 DEF BeginExecute
  <2> QED
    BY <2>1, <2>2, <1>a, <1>r
<1>12. CASE ExecuteOk
  <2>1. pc = "executing" /\ UNCHANGED <<result, cur>> /\ cur \in Nodes
    BY <1>12, <1>n DEF ExecuteOk
  <2>2. fate'[cur] = "finished"
    BY <1>12, <1>t, <2>1 DEF ExecuteOk
  <2> QED
    BY <2>1, <2>2, <1>a, <1>r
<1>13. CASE ExecuteRetries \/ Emit
  BY <1>13, <1>c DEF ExecuteRetries, Emit
<1>14. CASE ExecuteHandled
  <2>1. pc = "executing" /\ UNCHANGED result /\ cur \in Nodes
    BY <1>14, <1>n DEF ExecuteHandled
  <2>2. fate'[cur] = "failed"
    BY <1>14, <1>t, <2>1 DEF ExecuteHandled
  <2>3. Handled(cur)
    BY <1>14 DEF ExecuteHandled, FailureRoutes, Handled, Node
  <2> QED
    BY <2>1, <2>2, <2>3, <1>a, <1>r
<1>15. CASE RetryWait
  BY <1>15, <1>b, <1>c DEF RetryWait, Terminal
<1>16. CASE DelayAfter
  <2>1. pc = "delayAfter" /\ UNCHANGED fate /\ fate[cur] = "finished"
    BY <1>16 DEF DelayAfter, FateInv
  <2>2. UNCHANGED result \/ result' # "None"
    BY <1>16 DEF DelayAfter, Terminal
  <2> QED
    BY <2>1, <2>2, <1>a, <1>d, <1>r
<1>17. CASE ReturnOutcome
  BY <1>17, <1>c DEF ReturnOutcome
<1>18. CASE OperatorPauses \/ OperatorSteps \/ OperatorResumes \/ OperatorCancels
  BY <1>18, <1>c, OperatorFrame
<1> QED
  BY <1>1, <1>2, <1>3, <1>4, <1>5, <1>6, <1>7, <1>8, <1>9, <1>10, <1>11, <1>12, <1>13,
     <1>14, <1>15, <1>16, <1>17, <1>18, StepCases

\* The breakpoint of the node at hand is not skipped: only CheckBreakpoint and the
\* halt behind it lead to `authorize`, and nothing from there to the executor
\* changes `halted` or the node.
LEMMA BreakStep == ASSUME TypeOK, BreakInv, Next PROVE BreakInv'
<1> DEFINE Past == {"authorize", "approval", "delayBefore", "execute", "executing", "retryWait"}
<1>t. halted \in {"no", "pausing", "yes"}
  BY DEF TypeOK
<1>a. SUFFICES ASSUME pc' \in Past, Node'.breakpoint
               PROVE  halted' # "no"
  BY DEF BreakInv, BreakpointStopsFreeRun
<1>b. ASSUME pc \in Past, UNCHANGED <<wf, cur, halted>> PROVE halted' # "no"
  BY <1>a, <1>b DEF BreakInv, Node
<1> USE DEF At, progress, observations
<1>1. CASE OperatorPauses \/ OperatorSteps \/ OperatorResumes \/ OperatorCancels
  BY <1>1, <1>a, <1>b, OperatorFrame
<1>2. CASE HitBreakpoint \/ ReturnOutcome \/ Emit
  BY <1>2, <1>a, <1>b DEF HitBreakpoint, ReturnOutcome, Emit
<1>3. CASE Await("await", "visit") \/ Await("breakAwait", "authorize")
  BY <1>3, <1>a DEF Await, Conclude
<1>4. CASE FailFast \/ Start \/ LoopEnds \/ SkipInactive \/ EnterNode
  BY <1>4, <1>a DEF FailFast, Start, LoopEnds, SkipInactive, EnterNode, NextNode, Conclude
<1>5. CASE PassDisabled \/ Prune \/ ConditionFails
  BY <1>5, <1>a DEF PassDisabled, Prune, ConditionFails, NextNode, Conclude
<1>6. CASE CheckBreakpoint
  <2>1. Node' = Node /\ flags.paused
    BY <1>6, <1>a DEF CheckBreakpoint, Node
  <2> QED
    BY <1>6, <2>1 DEF CheckBreakpoint
<1>7. CASE Authorize \/ ApprovalGranted \/ ApprovalRefused
  BY <1>7, <1>a, <1>b DEF Authorize, ApprovalGranted, ApprovalRefused, Refuse
<1>8. CASE DelayBefore \/ BeginExecute \/ ExecuteOk \/ ExecuteRetries \/ ExecuteHandled
  BY <1>8, <1>a, <1>b DEF DelayBefore, BeginExecute, ExecuteOk, ExecuteRetries, ExecuteHandled,
                          NextNode
<1>9. CASE ExecuteFails \/ ExecuteCancelled \/ RetryWait \/ DelayAfter
  BY <1>9, <1>a, <1>b DEF ExecuteFails, ExecuteCancelled, RetryWait, DelayAfter, NextNode, Conclude
<1> QED
  BY <1>1, <1>2, <1>3, <1>4, <1>5, <1>6, <1>7, <1>8, <1>9, StepCases

-----------------------------------------------------------------------------
\* The invariant and what follows from it.

LEMMA InductiveInit == Init => Inductive
<1> SUFFICES ASSUME Init PROVE Inductive
    OBVIOUS
<1>1. TypeOK
  BY TypeInit
<1>2. flags = NewFlags(wf.startPaused) /\ fate = [n \in Nodes |-> "none"]
  BY DEF Init
<1>3. FlagsInv
  BY <1>2 DEF Init, FlagsInv, StepsLapse, NewFlags
<1>4. FateInv
  BY <1>2 DEF Init, FateInv, Entered
<1>5. QuotaInv
  BY <1>2 DEF Init, QuotaInv, InFlight, Permitted, NewFlags
<1>6. CancelInv
  BY DEF Init, CancelInv
<1>7. GateInv
  BY <1>2 DEF Init, GateInv, GateHolds, Begun
<1>8. ActivationInv
  BY <1>2 DEF Init, ActivationInv, NothingLeftBehind
<1>9. FailureInv
  BY <1>2 DEF Init, FailureInv, NoSwallowedFailure
<1>10. BreakInv
  BY DEF Init, BreakInv, BreakpointStopsFreeRun
<1> QED
  BY <1>1, <1>3, <1>4, <1>5, <1>6, <1>7, <1>8, <1>9, <1>10 DEF Inductive

LEMMA InductiveStep == Inductive /\ [Next]_vars => Inductive'
<1>1. CASE Inductive /\ Next
  BY <1>1, TypeStep, FlagsStep, FateStep, QuotaStep, CancelStep, GateStep,
     ActivationStep, FailureStep, BreakStep DEF Inductive
<1>2. CASE Inductive /\ UNCHANGED vars
  <2>1. /\ UNCHANGED <<wf, pc, cur, activated, attempt, executed, result, outbox>>
        /\ UNCHANGED <<flags, parked, fate, quota, late, approvals, halted>>
    BY <1>2 DEF vars, engineVars, controlVars
  <2>2. /\ Nodes' = Nodes /\ Node' = Node /\ Begun' = Begun /\ InFlight' = InFlight
    BY <2>1 DEF Nodes, Node, Begun, InFlight, Permitted
  <2>3. TypeOK' /\ FlagsInv' /\ FateInv' /\ QuotaInv' /\ CancelInv'
    BY <1>2, <2>1, <2>2 DEF Inductive, TypeOK, ControlTypeOK, FlagsInv, StepsLapse, FateInv,
                            QuotaInv, CancelInv
  <2>4. GateInv'
    BY <1>2, <2>1, <2>2 DEF Inductive, GateInv, GateHolds, Cleared
  <2>5. ActivationInv'
    BY <1>2, <2>1, <2>2 DEF Inductive, ActivationInv, NothingLeftBehind, Grounded, Justifies
  <2>6. FailureInv'
    BY <1>2, <2>1, <2>2 DEF Inductive, FailureInv, NoSwallowedFailure, Handled
  <2>7. BreakInv'
    BY <1>2, <2>1, <2>2 DEF Inductive, BreakInv, BreakpointStopsFreeRun
  <2> QED
    BY <2>3, <2>4, <2>5, <2>6, <2>7 DEF Inductive
<1> QED
  BY <1>1, <1>2

\* The inductive invariant holds of every reachable state.
THEOREM InvariantHolds == Spec => []Inductive
BY InductiveInit, InductiveStep, PTL DEF Spec

\* An unpaused run has no steps left over, so a later pause is not overridden
\* by steps granted before the last resume (control.rs: resume clears them).
THEOREM NoStaleSteps == Spec => []StepsLapse
<1>1. Inductive => StepsLapse
  BY DEF Inductive, FlagsInv
<1> QED
  BY <1>1, InvariantHolds, PTL

\* A paused run starts no more nodes than it was granted steps for, and the
\* one that already had its permission.
THEOREM PausesHold == Spec => []PauseHolds
<1>1. Inductive => PauseHolds
  BY DEF Inductive, QuotaInv, PauseHolds
<1> QED
  BY <1>1, InvariantHolds, PTL

\* At most one executor call begins after the cancellation.
THEOREM CancelsArePrompt == Spec => []CancelIsPrompt
<1>1. Inductive => CancelIsPrompt
  BY DEF Inductive, CancelInv, CancelIsPrompt
<1> QED
  BY <1>1, InvariantHolds, PTL

\* No node executes past a gate that denies it or that nobody opened, nor on
\* an approval that came after the cancellation.
THEOREM GatesHold == Spec => []GateHolds
<1>1. Inductive => GateHolds
  BY DEF Inductive, GateInv, Begun
<1> QED
  BY <1>1, InvariantHolds, PTL

\* A node is visited only because an edge, or being the entry point, activated
\* it, and a run that completes leaves no activated node behind.
THEOREM ActivationsHold == Spec => [](ActivationJustified /\ NothingLeftBehind)
<1>1. Inductive => ActivationJustified /\ NothingLeftBehind
  BY DEF Inductive, ActivationInv, ActivationJustified, Grounded
<1> QED
  BY <1>1, InvariantHolds, PTL

\* A run that completes swallowed no failure.
THEOREM FailuresSurface == Spec => []NoSwallowedFailure
<1>1. Inductive => NoSwallowedFailure
  BY DEF Inductive, FailureInv
<1> QED
  BY <1>1, InvariantHolds, PTL

\* The walk is orderly: a breakpoint stops a free run (engine.rs:526), a suspension
\* leaves no step over, and no activated node falls behind a completed run.
THEOREM WalksAreOrderly == Spec => []WalkIsOrderly
<1>1. Inductive => WalkIsOrderly
  BY DEF Inductive, FlagsInv, BreakInv, ActivationInv, WalkIsOrderly
<1> QED
  BY <1>1, InvariantHolds, PTL

-----------------------------------------------------------------------------
(***************************************************************************)
(* Engine implements RunContract, for every set of workflows: BeginExecute *)
(* is RunNode or RunAgain, a step that settles the verdict is Reject or    *)
(* End, Start is Begin, the first cancellation is AskStop, and every other *)
(* step of the thread or of the operator leaves the contract alone.        *)
(***************************************************************************)

LEMMA LateMoves == ASSUME Next, ~BeginExecute PROVE late' = late
<1> USE DEF observations
<1>1. CASE OperatorPauses \/ OperatorSteps \/ OperatorResumes \/ OperatorCancels
  BY <1>1, OperatorFrame
<1>2. CASE HitBreakpoint \/ ReturnOutcome \/ Emit
  BY <1>2 DEF HitBreakpoint, ReturnOutcome, Emit
<1>3. CASE Await("await", "visit") \/ Await("breakAwait", "authorize")
  BY <1>3 DEF Await
<1>4. CASE FailFast \/ Start \/ LoopEnds \/ SkipInactive \/ EnterNode
  BY <1>4 DEF FailFast, Start, LoopEnds, SkipInactive, EnterNode
<1>5. CASE PassDisabled \/ Prune \/ ConditionFails \/ CheckBreakpoint
  BY <1>5 DEF PassDisabled, Prune, ConditionFails, CheckBreakpoint
<1>6. CASE Authorize \/ ApprovalGranted \/ ApprovalRefused
  BY <1>6 DEF Authorize, ApprovalGranted, ApprovalRefused, Refuse
<1>7. CASE DelayBefore \/ ExecuteOk \/ ExecuteRetries \/ ExecuteHandled
  BY <1>7 DEF DelayBefore, ExecuteOk, ExecuteRetries, ExecuteHandled
<1>8. CASE ExecuteFails \/ ExecuteCancelled \/ RetryWait \/ DelayAfter
  BY <1>8 DEF ExecuteFails, ExecuteCancelled, RetryWait, DelayAfter
<1> QED
  BY <1>1, <1>2, <1>3, <1>4, <1>5, <1>6, <1>7, <1>8, StepCases

\* Only the operator's cancel raises the flag.
LEMMA CancelMoves ==
    ASSUME TypeOK, Next, ~OperatorCancels
    PROVE  flags'.cancelled = flags.cancelled
<1>t. flags \in Flags
  BY DEF TypeOK, ControlTypeOK
<1> USE <1>t DEF Flags
<1>1. CASE OperatorPauses \/ OperatorSteps
  BY <1>1 DEF OperatorPauses, OperatorSteps, Pause, Step
<1>2. CASE OperatorResumes
  BY <1>2 DEF OperatorResumes, Resume
<1>3. CASE HitBreakpoint
  BY <1>3 DEF HitBreakpoint, Pause
<1>4. CASE ReturnOutcome
  BY <1>4 DEF ReturnOutcome, Finish
<1>5. CASE Await("await", "visit") \/ Await("breakAwait", "authorize")
  <2>1. CASE AwaitGranted
    BY <2>1 DEF AwaitGranted
  <2> QED
    BY <1>5, <2>1 DEF Await, AwaitRefused, AwaitParks, controlVars
<1> USE DEF controlVars
<1>6. CASE FailFast \/ Start \/ LoopEnds \/ SkipInactive \/ EnterNode
  BY <1>6 DEF FailFast, Start, LoopEnds, SkipInactive, EnterNode
<1>7. CASE PassDisabled \/ Prune \/ ConditionFails \/ CheckBreakpoint
  BY <1>7 DEF PassDisabled, Prune, ConditionFails, CheckBreakpoint
<1>8. CASE Authorize \/ ApprovalGranted \/ ApprovalRefused
  BY <1>8 DEF Authorize, ApprovalGranted, ApprovalRefused, Refuse
<1>9. CASE DelayBefore \/ BeginExecute \/ ExecuteOk \/ ExecuteRetries \/ ExecuteHandled
  BY <1>9 DEF DelayBefore, BeginExecute, ExecuteOk, ExecuteRetries, ExecuteHandled
<1>10. CASE ExecuteFails \/ ExecuteCancelled \/ RetryWait \/ DelayAfter \/ Emit
  BY <1>10 DEF ExecuteFails, ExecuteCancelled, RetryWait, DelayAfter, Emit
<1> QED
  BY <1>1, <1>2, <1>3, <1>4, <1>5, <1>6, <1>7, <1>8, <1>9, <1>10, StepCases

\* Settling a fate that was running, or one that never ran, begins no node.
LEMMA BegunStays ==
    ASSUME TypeOK, FateInv, Next, ~BeginExecute
    PROVE  Begun' = Begun
<1>t. fate \in [Nodes -> Fates] /\ attempt \in Nat
  BY DEF TypeOK
<1>n. pc \notin {"spawned", "loop", "concluding", "done"} => cur \in Nodes
  BY DEF TypeOK
<1>m. Nodes' = Nodes
  BY FateMoves DEF Nodes
<1>a. fate' = fate => Begun' = Begun
  BY <1>m DEF Begun
<1>b. ASSUME NEW f \in {"passed", "pruned", "refused"}, fate' = [fate EXCEPT ![cur] = f],
             cur \in Nodes, fate[cur] = "none"
      PROVE  Begun' = Begun
  BY <1>t, <1>m, <1>b DEF Begun
<1>c. ASSUME NEW f \in {"finished", "failed"}, fate' = [fate EXCEPT ![cur] = f],
             cur \in Nodes, fate[cur] = "running"
      PROVE  Begun' = Begun
  BY <1>t, <1>m, <1>c DEF Begun
<1> USE DEF At, progress, observations
<1>1. CASE FailFast \/ Start \/ LoopEnds \/ SkipInactive \/ EnterNode
  BY <1>1, <1>a DEF FailFast, Start, LoopEnds, SkipInactive, EnterNode
<1>2. CASE Await("await", "visit") \/ Await("breakAwait", "authorize")
  BY <1>2, <1>a DEF Await
<1>3. CASE PassDisabled \/ Prune \/ ConditionFails
  <2>1. fate[cur] = "none" /\ cur \in Nodes
    BY <1>3, <1>n DEF PassDisabled, Prune, ConditionFails, FateInv, Entered
  <2>2. PICK f \in {"passed", "pruned", "refused"} : fate' = [fate EXCEPT ![cur] = f]
    BY <1>3 DEF PassDisabled, Prune, ConditionFails
  <2> QED
    BY <2>1, <2>2, <1>b
<1>4. CASE CheckBreakpoint \/ HitBreakpoint \/ DelayBefore
  BY <1>4, <1>a DEF CheckBreakpoint, HitBreakpoint, DelayBefore
<1>5. CASE Authorize \/ ApprovalGranted \/ ApprovalRefused
  <2>1. fate[cur] = "none" /\ cur \in Nodes
    BY <1>5, <1>n DEF Authorize, ApprovalGranted, ApprovalRefused, Refuse, FateInv, Entered
  <2> QED
    BY <1>5, <2>1, <1>a, <1>b DEF Authorize, ApprovalGranted, ApprovalRefused, Refuse
<1>6. CASE ExecuteOk \/ ExecuteHandled \/ ExecuteFails \/ ExecuteCancelled
  <2>1. fate[cur] = "running" /\ cur \in Nodes
    BY <1>6, <1>n DEF ExecuteOk, ExecuteHandled, ExecuteFails, ExecuteCancelled, FateInv
  <2>2. PICK f \in {"finished", "failed"} : fate' = [fate EXCEPT ![cur] = f]
    BY <1>6 DEF ExecuteOk, ExecuteHandled, ExecuteFails, ExecuteCancelled
  <2> QED
    BY <2>1, <2>2, <1>c
<1>7. CASE ExecuteRetries \/ RetryWait \/ DelayAfter \/ ReturnOutcome \/ Emit
  BY <1>7, <1>a DEF ExecuteRetries, RetryWait, DelayAfter, ReturnOutcome, Emit
<1>8. CASE OperatorPauses \/ OperatorSteps \/ OperatorResumes \/ OperatorCancels
  BY <1>8, <1>a, OperatorFrame
<1> QED
  BY <1>1, <1>2, <1>3, <1>4, <1>5, <1>6, <1>7, <1>8, StepCases

\* Where the verdict comes from: nothing but FailFast and Start leaves
\* "spawned", and a cancelled verdict follows the flag.
LEMMA VerdictCauses ==
    ASSUME Next
    PROVE  /\ pc = "spawned" => \/ pc' = "loop" /\ UNCHANGED result
                                \/ pc' = "concluding" /\ result' = "Failed"
                                \/ UNCHANGED <<pc, result>>
           /\ pc # "spawned" => pc' # "spawned"
           /\ result' = result \/ result' # "Cancelled" \/ flags.cancelled
<1> USE ConcludeFacts DEF At, Terminal
<1>1. CASE OperatorPauses \/ OperatorSteps \/ OperatorResumes \/ OperatorCancels
  BY <1>1, OperatorFrame
<1>2. CASE HitBreakpoint \/ ReturnOutcome \/ Emit
  BY <1>2 DEF HitBreakpoint, ReturnOutcome, Emit
<1>3. CASE Await("await", "visit") \/ Await("breakAwait", "authorize")
  BY <1>3 DEF Await, AwaitRefused
<1>4. CASE FailFast \/ Start \/ LoopEnds \/ SkipInactive \/ EnterNode
  BY <1>4 DEF FailFast, Start, LoopEnds, SkipInactive, EnterNode, NextNode
<1>5. CASE PassDisabled \/ Prune \/ ConditionFails \/ CheckBreakpoint
  BY <1>5 DEF PassDisabled, Prune, ConditionFails, CheckBreakpoint, NextNode
<1>6. CASE Authorize \/ ApprovalGranted \/ ApprovalRefused
  BY <1>6 DEF Authorize, ApprovalGranted, ApprovalRefused, Refuse, StartNode
<1>7. CASE DelayBefore \/ BeginExecute \/ ExecuteOk \/ ExecuteRetries \/ ExecuteHandled
  BY <1>7 DEF DelayBefore, BeginExecute, ExecuteOk, ExecuteRetries, ExecuteHandled, NextNode
<1>8. CASE ExecuteFails \/ ExecuteCancelled \/ RetryWait \/ DelayAfter
  BY <1>8 DEF ExecuteFails, ExecuteCancelled, RetryWait, DelayAfter, NextNode
<1> QED
  BY <1>1, <1>2, <1>3, <1>4, <1>5, <1>6, <1>7, <1>8, StepCases

-----------------------------------------------------------------------------
\* The refinement mapping, as Engine gives it to RunContract.
PhaseOf == IF pc = "spawned" THEN "ready" ELSE IF result = "None" THEN "live" ELSE result
StopOf == IF ~flags.cancelled THEN "no"
          ELSE IF late = 0 THEN "asked" ELSE IF late = 1 THEN "spent" ELSE "overrun"

LEMMA ContractStep ==
    ASSUME Inductive, Next
    PROVE  Contract!ContractNext \/ UNCHANGED Contract!contractVars
<1>p. TypeOK /\ FlagsInv /\ FateInv /\ CancelInv
  BY DEF Inductive
<1>t. late \in Nat /\ flags.cancelled \in BOOLEAN /\ late <= 1
  BY <1>p DEF TypeOK, ControlTypeOK, Flags, CancelInv
<1>1. CASE BeginExecute
  <2>1. /\ pc = "execute" /\ pc' = "executing" /\ UNCHANGED <<flags, result>>
        /\ late' = IF flags.cancelled THEN late + 1 ELSE late
    BY <1>1 DEF BeginExecute, At, controlVars
  <2>2. result = "None" /\ late = 0 /\ cur \in Nodes
    BY <1>p, <1>t, <2>1 DEF FlagsInv, CancelInv, TypeOK
  <2>3. PhaseOf = "live" /\ PhaseOf' = "live"
    BY <2>1, <2>2 DEF PhaseOf
  <2>4. StopOf # "spent" /\ StopOf' = IF StopOf = "no" THEN "no" ELSE "spent"
    BY <1>t, <2>1, <2>2 DEF StopOf
  <2>5. fate \in [Nodes -> Fates] /\ fate' = [fate EXCEPT ![cur] = "running"]
        /\ Nodes' = Nodes
    BY <1>1, <1>p DEF BeginExecute, TypeOK, Nodes
  <2>6. CASE fate[cur] = "none"
    <3>1. cur \in Begun' \ Begun /\ Begun' = Begun \cup {cur}
      BY <2>2, <2>5, <2>6 DEF Begun
    <3>2. Contract!RunNode
      BY <2>3, <2>4, <3>1 DEF Contract!RunNode, Contract!LastCall, PhaseOf, StopOf
    <3> QED
      BY <3>2 DEF Contract!ContractNext
  <2>7. CASE fate[cur] = "running"
    <3>1. Begun' = Begun
      BY <2>2, <2>5, <2>7 DEF Begun
    <3>2. Contract!RunAgain
      BY <2>3, <2>4, <3>1 DEF Contract!RunAgain, Contract!LastCall, PhaseOf, StopOf
    <3> QED
      BY <3>2 DEF Contract!ContractNext
  <2> QED
    BY <1>p, <2>1, <2>6, <2>7 DEF FateInv
<1>2. CASE OperatorCancels
  <2>1. UNCHANGED <<pc, result, late, fate, wf>> /\ flags'.cancelled = TRUE
    BY <1>2, <1>p, OperatorFrame DEF OperatorCancels, Cancel, TypeOK, ControlTypeOK, Flags
  <2>2. Begun' = Begun
    BY <2>1 DEF Begun, Nodes
  <2>3. CASE flags.cancelled
    BY <1>t, <2>1, <2>2, <2>3 DEF Contract!contractVars
  <2>4. CASE ~flags.cancelled
    <3>1. late = 0
      BY <1>p, <1>t, <2>4 DEF CancelInv
    <3>2. Contract!AskStop
      BY <2>1, <2>2, <2>4, <3>1 DEF Contract!AskStop
    <3> QED
      BY <3>2 DEF Contract!ContractNext
  <2> QED
    BY <2>3, <2>4
<1>3. CASE ~BeginExecute /\ ~OperatorCancels
  <2>1. Begun' = Begun /\ late' = late /\ flags'.cancelled = flags.cancelled
    BY <1>3, <1>p, BegunStays, LateMoves, CancelMoves
  <2>2. StopOf' = StopOf
    BY <2>1 DEF StopOf
  <2>3. CASE PhaseOf' = PhaseOf
    BY <2>1, <2>2, <2>3 DEF Contract!contractVars, PhaseOf, StopOf
  <2>4. CASE PhaseOf' # PhaseOf /\ pc = "spawned"
    <3>1. PhaseOf = "ready" /\ PhaseOf' \in {"live", "Failed"}
      <4>1. result = "None"
        BY <1>p, <2>4 DEF FlagsInv
      <4> QED
        BY <2>4, <4>1, VerdictCauses DEF PhaseOf
    <3>2. Contract!Begin \/ Contract!Reject
      BY <2>1, <2>2, <3>1 DEF Contract!Begin, Contract!Reject, PhaseOf, StopOf
    <3> QED
      BY <3>2 DEF Contract!ContractNext
  <2>5. CASE PhaseOf' # PhaseOf /\ pc # "spawned"
    <3>1. pc' # "spawned" /\ result' # result
      BY <2>5, VerdictCauses DEF PhaseOf
    <3>2. result' \in Terminal /\ result = "None"
      BY <1>p, <3>1, VerdictMoves DEF FlagsInv
    <3>3. PhaseOf = "live" /\ PhaseOf' = result'
      BY <2>5, <3>1, <3>2 DEF PhaseOf, Terminal
    <3>4. PhaseOf' = "Cancelled" => StopOf # "no"
      BY <3>1, <3>3, VerdictCauses DEF StopOf
    <3>5. Contract!End
      BY <2>1, <2>2, <3>2, <3>3, <3>4
         DEF Contract!End, Contract!Verdicts, Terminal, PhaseOf, StopOf
    <3> QED
      BY <3>5 DEF Contract!ContractNext
  <2> QED
    BY <2>3, <2>4, <2>5
<1> QED
  BY <1>1, <1>2, <1>3

\* The engine keeps the contract: a node runs at most once and only while the
\* run lives, at most one executor call follows a cancellation, "Cancelled" is
\* reported only if someone asked, and the verdict is final.
THEOREM ContractKept == Spec => KeepsContract
<1>1. Init => Contract!ContractInit
  BY DEF Init, NewFlags, Begun, Contract!ContractInit
<1>2. Inductive /\ [Next]_vars => [Contract!ContractNext]_(Contract!contractVars)
  <2>1. CASE UNCHANGED vars
    BY <2>1 DEF vars, engineVars, controlVars, Begun, Nodes, Contract!contractVars
  <2> QED
    BY <2>1, ContractStep
<1> QED
  BY <1>1, <1>2, InvariantHolds, PTL DEF Spec, KeepsContract, Contract!ContractSpec
=============================================================================
