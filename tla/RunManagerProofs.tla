-------------------------- MODULE RunManagerProofs --------------------------
(***************************************************************************)
(* The run a RunManager serves, for any workflows, any number of API       *)
(* threads and calls: the engine's invariant carries over, a finished run  *)
(* is never revived, its outcome stands and its log tells it.              *)
(***************************************************************************)
EXTENDS RunManagerInvariant, EngineProofs, WellFoundedInduction, FiniteSetTheorems

LEMMA PublisherFacts ==
    /\ EngineThread \in Publishers /\ Callers \subseteq Publishers
    /\ \A p \in Publishers : p # EngineThread => p \in Callers
    /\ EngineThread \notin Callers
BY ManagerAssumption

LEMMA PublicationFacts ==
    ASSUME HandleTypeOK, NEW p \in Publishers
    PROVE  /\ pub[p].at \in {"idle", "apply", "push", "send"}
           /\ pub[p].at # "idle" => /\ pub[p] \in [at : {"apply", "push", "send"}, envelope : Envelopes]
                                    /\ pub[p].envelope \in Envelopes
                                    /\ pub[p].envelope.event \in RunEvents
BY DEF HandleTypeOK, Publication, Envelopes

-----------------------------------------------------------------------------
\* The steps of the manager, by what they touch.

\* A caller goes on to publish.
Announces(c) ==
    /\ call[c] \in {"markPaused", "markRunning"}
    /\ TakeSeq(c, IF call[c] = "markPaused" THEN "RunPaused" ELSE "RunResumed")
    /\ call' = [call EXCEPT ![c] = "publishing"]
    /\ UNCHANGED <<vars, thread, calls>>

\* A caller sets a flag, or looks at the status and leaves.
Quietly(c) ==
    /\ call[c] # "publishing"
    /\ call'[c] # "publishing"
    /\ call'[c] = "markRunning" => calls'["resume"] # 0
    /\ \A d \in Callers : d # c => call'[d] = call[d]
    /\ \A k \in Kinds : calls'[k] = 0 => calls[k] = 0
    /\ UNCHANGED <<handleVars, thread, wf, pc, result, outbox, executed>>
    /\ parked' => parked

LEMMA CallerCases ==
    ASSUME ManagerTypeOK, NEW c \in Callers, Caller(c)
    PROVE  Announces(c) \/ Quietly(c) \/ CallPublished(c)
<1>t. call \in [Callers -> CallPCs] /\ calls \in [Kinds -> Nat]
  BY DEF ManagerTypeOK
<1>k. ASSUME NEW kind \in Kinds, Calls(c, kind)
      PROVE  /\ \A k \in Kinds : calls'[k] = 0 => calls[k] = 0
             /\ calls'[kind] # 0 /\ call[c] = "free"
  BY <1>t, <1>k DEF Calls
<1>u. UNCHANGED calls => \A k \in Kinds : calls'[k] = 0 => calls[k] = 0
  OBVIOUS
<1>v. UNCHANGED vars => UNCHANGED <<wf, pc, result, outbox, executed, parked>>
  BY DEF vars, engineVars, controlVars
<1>g. ASSUME NEW where, Goes(c, where)
      PROVE  call'[c] = where /\ \A d \in Callers : d # c => call'[d] = call[d]
  BY <1>t, <1>g DEF Goes
<1>p. ASSUME OperatorPauses \/ OperatorSteps \/ OperatorResumes \/ OperatorCancels
      PROVE  UNCHANGED <<wf, pc, result, outbox, executed>> /\ (parked' => parked)
  <2>1. UNCHANGED <<wf, pc, result, outbox, executed>> /\ (Pause \/ Step \/ Resume \/ Cancel)
    BY <1>p, OperatorFrame
  <2>2. parked' = parked \/ parked' = FALSE
    BY <2>1, Zenon DEF Pause, Step, Resume, Cancel
  <2> QED
    BY <2>1, <2>2
<1>1. CASE CallPause(c)
  BY <1>1, <1>k, <1>v, <1>g DEF CallPause, Quietly, Kinds
<1>2. CASE PauseFlag(c)
  BY <1>2, <1>u, <1>p, <1>g DEF PauseFlag, Quietly
<1>3. CASE MarkPaused(c)
  BY <1>3, <1>u, <1>v, <1>g DEF MarkPaused, Quietly, Announces, Goes
<1>4. CASE CallResume(c)
  BY <1>4, <1>k, <1>p, <1>g DEF CallResume, Quietly, Kinds
<1>5. CASE MarkRunning(c)
  BY <1>5, <1>u, <1>v, <1>g DEF MarkRunning, Quietly, Announces, Goes
<1>6. CASE CallStep(c)
  BY <1>6, <1>k, <1>p DEF CallStep, Quietly, Kinds
<1>7. CASE CallCancel(c)
  BY <1>7, <1>k, <1>p DEF CallCancel, Quietly, Kinds
<1> QED
  BY <1>1, <1>2, <1>3, <1>4, <1>5, <1>6, <1>7 DEF Caller

LEMMA ManagerCases ==
    ASSUME ManagerTypeOK, ManagerNext
    PROVE  \/ Spawn \/ SpawnFails \/ EngineRuns \/ EnginePublishes
           \/ EnginePublished \/ Complete
           \/ \E p \in Publishers : /\ Apply(p) \/ PushHistory(p)
                                    /\ UNCHANGED <<vars, thread, call, calls>>
           \/ \E c \in Callers : Announces(c) \/ Quietly(c) \/ CallPublished(c)
BY CallerCases, PublisherFacts DEF ManagerNext, RunThread, Publishing

-----------------------------------------------------------------------------
\* The engine inside.

LEMMA EngineInside == ASSUME ManagerNext PROVE Next \/ UNCHANGED vars
<1>1. ASSUME NEW c \in Callers, Caller(c) PROVE Operator \/ UNCHANGED vars
  BY <1>1 DEF Caller, CallPause, PauseFlag, MarkPaused, CallResume, MarkRunning, CallStep,
              CallCancel, CallPublished, Operator
<1>2. ASSUME RunThread PROVE EngineStep \/ Emit \/ UNCHANGED vars
  BY <1>2 DEF RunThread, EngineRuns, EnginePublishes, Publishing, EnginePublished, Complete
<1> QED
  BY <1>1, <1>2 DEF ManagerNext, Publishing, Spawn, SpawnFails, Next

LEMMA InductiveKept == ASSUME Inductive, ManagerNext PROVE Inductive'
BY EngineInside, InductiveStep

\* What a step of the engine thread leaves in the outbox, which was empty.
LEMMA ConcludeEmits ==
    ASSUME NEW verdict \in Terminal
    PROVE  /\ Conclude(verdict, <<>>) => outbox' = <<TerminalEvent[verdict]>>
           /\ Conclude(verdict, <<"NodeFailed">>) =>
                 outbox' = <<"NodeFailed", TerminalEvent[verdict]>>
           /\ TerminalEvent[verdict] \in {"RunCompleted", "RunFailed", "RunCancelled"}
BY DEF Conclude, Terminal, TerminalEvent

\* An engine step starts with nothing to emit; it settles the verdict, which it then
\* emits last, or it leaves the verdict as it was, or it starts the run.
Settles == /\ result = "None" /\ result' \in Terminal /\ pc' = "concluding"
           /\ outbox' \in {<<TerminalEvent[result']>>, <<"NodeFailed", TerminalEvent[result']>>}
Moves == /\ result' = result /\ pc # "spawned"
         /\ result # "None" => outbox' = <<>>
         /\ pc' = "done" => outbox' = <<>>
         /\ outbox' \in {<<>>, <<"RunPaused">>, <<"NodeStarted">>, <<"NodeFinished">>,
                         <<"NodeFailed">>}
Starts == /\ result' = result /\ result = "None" /\ pc = "spawned" /\ pc' = "loop"
          /\ outbox' = IF wf.startPaused THEN <<"RunStarted", "RunPaused">>
                                         ELSE <<"RunStarted">>

LEMMA EngineEffects ==
    ASSUME TypeOK, FlagsInv, ParkedInv, EngineStep
    PROVE  /\ outbox = <<>> /\ wf' = wf /\ pc # "done" /\ pc' # "spawned"
           /\ parked' => pc' \in {"await", "breakAwait"} /\ outbox' = <<>>
           /\ Settles \/ Moves \/ Starts
<1>r. result = "None" <=> pc \notin {"concluding", "done"}
  BY DEF FlagsInv
<1>p. parked => pc \in {"await", "breakAwait"}
  BY DEF ParkedInv
<1>c. ASSUME NEW verdict \in Terminal, pc \notin {"concluding", "done"},
             Conclude(verdict, <<>>) \/ Conclude(verdict, <<"NodeFailed">>)
      PROVE  Settles /\ pc' # "spawned"
  <2>1. result' = verdict /\ pc' = "concluding"
    BY <1>c DEF Conclude
  <2> QED
    BY <1>c, <2>1, <1>r, ConcludeEmits DEF Settles
<1>t. {"Completed", "Failed", "Cancelled"} \subseteq Terminal
  BY DEF Terminal
<1> USE DEF At, controlVars
<1>1. CASE FailFast \/ LoopEnds \/ ConditionFails
  BY <1>1, <1>c, <1>t, <1>p DEF FailFast, LoopEnds, ConditionFails
<1>2. CASE Start
  BY <1>2, <1>r, <1>p DEF Start, Starts
<1>3. CASE SkipInactive \/ EnterNode \/ PassDisabled \/ Prune \/ CheckBreakpoint
  BY <1>3, <1>r, <1>p DEF SkipInactive, EnterNode, PassDisabled, Prune, CheckBreakpoint,
                          NextNode, Moves
<1>4. CASE HitBreakpoint
  BY <1>4, <1>r, <1>p DEF HitBreakpoint, Pause, Moves
<1>5. ASSUME NEW where \in {"await", "breakAwait"}, NEW next \in {"visit", "authorize"},
             Await(where, next)
      PROVE  /\ outbox = <<>> /\ wf' = wf /\ pc # "done" /\ pc' # "spawned"
             /\ parked' => pc' \in {"await", "breakAwait"} /\ outbox' = <<>>
             /\ Settles \/ Moves
  <2>1. CASE AwaitGranted /\ pc' = next /\ UNCHANGED <<result, outbox>>
    BY <1>5, <2>1, <1>r, Zenon DEF Await, AwaitGranted, Moves
  <2>2. CASE AwaitRefused /\ Conclude("Cancelled", <<>>)
    BY <1>5, <2>2, <1>r, <1>c, <1>t DEF Await, AwaitRefused
  <2>3. CASE AwaitParks /\ UNCHANGED <<pc, result, outbox>>
    BY <1>5, <2>3, <1>r DEF Await, Moves
  <2> QED
    BY <1>5, <2>1, <2>2, <2>3 DEF Await
<1>6. CASE Authorize
  BY <1>6, <1>r, <1>p, <1>c, <1>t, EventTypes DEF Authorize, Refuse, StartNode, Moves
<1>7. CASE ApprovalGranted \/ ApprovalRefused
  BY <1>7, <1>r, <1>p, <1>c, <1>t DEF ApprovalGranted, ApprovalRefused, Refuse, StartNode, Moves
<1>8. CASE DelayBefore \/ RetryWait
  BY <1>8, <1>r, <1>p, <1>c, <1>t DEF DelayBefore, RetryWait, Moves
<1>9. CASE BeginExecute \/ ExecuteOk \/ ExecuteRetries \/ ExecuteHandled
  BY <1>9, <1>r, <1>p DEF BeginExecute, ExecuteOk, ExecuteRetries, ExecuteHandled, NextNode, Moves
<1>10. CASE ExecuteFails \/ ExecuteCancelled
  BY <1>10, <1>p, <1>c, <1>t DEF ExecuteFails, ExecuteCancelled
<1>11. CASE DelayAfter
  BY <1>11, <1>r, <1>p, <1>c, <1>t DEF DelayAfter, NextNode, Moves
<1>12. CASE ReturnOutcome
  BY <1>12, <1>p DEF ReturnOutcome, Finish, Moves
<1> QED
  BY <1>1, <1>2, <1>3, <1>4, <1>5, <1>6, <1>7, <1>8, <1>9, <1>10, <1>11, <1>12
     DEF EngineStep, Execute

-----------------------------------------------------------------------------
\* The statements of publish.

\* What each of them does to the publications, and nothing else to them.
LEMMA PublishMoves ==
    ASSUME HandleTypeOK, NEW p \in Publishers
    PROVE  /\ \A event : TakeSeq(p, event) =>
                 /\ pub[p].at = "idle" /\ pub'[p].at = "apply" /\ pub'[p].envelope.event = event
                 /\ pub'[p].envelope.seq = nextSeq
                 /\ UNCHANGED <<stateVars, history>>
           /\ Apply(p) =>
                 /\ pub[p].at = "apply" /\ pub'[p].at = "push"
                 /\ pub'[p].envelope = pub[p].envelope
                 /\ status' = StatusAfter(status, pub[p].envelope.event)
                 /\ UNCHANGED <<history, overlapped>>
           /\ PushHistory(p) =>
                 /\ pub[p].at = "push" /\ pub'[p].at = "send"
                 /\ pub'[p].envelope = pub[p].envelope
                 /\ history' = Append(history, pub[p].envelope)
                 /\ UNCHANGED <<stateVars, overlapped>>
           /\ Broadcast(p) =>
                 /\ pub[p].at = "send" /\ pub'[p].at = "idle"
                 /\ UNCHANGED <<stateVars, history, overlapped>>
           /\ Apply(p) \/ PushHistory(p) \/ Broadcast(p) \/ (\E event : TakeSeq(p, event)) =>
                 \A q \in Publishers : q # p => pub'[q] = pub[q]
<1>1. pub \in [Publishers -> Publication]
  BY DEF HandleTypeOK
<1>2. pub[p].at # "idle" => pub[p] \in [at : {"apply", "push", "send"}, envelope : Envelopes]
  BY PublicationFacts
<1>3. ASSUME NEW event, TakeSeq(p, event)
      PROVE  /\ pub[p].at = "idle" /\ pub'[p].at = "apply" /\ pub'[p].envelope.event = event
             /\ pub'[p].envelope.seq = nextSeq
             /\ UNCHANGED <<stateVars, history>>
             /\ \A q \in Publishers : q # p => pub'[q] = pub[q]
  BY <1>1, <1>3 DEF TakeSeq, Idle
<1>4. ASSUME Apply(p)
      PROVE  /\ pub[p].at = "apply" /\ pub'[p].at = "push"
             /\ pub'[p].envelope = pub[p].envelope
             /\ status' = StatusAfter(status, pub[p].envelope.event)
             /\ UNCHANGED <<history, overlapped>>
             /\ \A q \in Publishers : q # p => pub'[q] = pub[q]
  BY <1>1, <1>2, <1>4 DEF Apply
<1>5. ASSUME PushHistory(p)
      PROVE  /\ pub[p].at = "push" /\ pub'[p].at = "send"
             /\ pub'[p].envelope = pub[p].envelope
             /\ history' = Append(history, pub[p].envelope)
             /\ UNCHANGED <<stateVars, overlapped>>
             /\ \A q \in Publishers : q # p => pub'[q] = pub[q]
  BY <1>1, <1>2, <1>5 DEF PushHistory
<1>6. ASSUME Broadcast(p)
      PROVE  /\ pub[p].at = "send" /\ pub'[p].at = "idle"
             /\ UNCHANGED <<stateVars, history, overlapped>>
             /\ \A q \in Publishers : q # p => pub'[q] = pub[q]
  BY <1>1, <1>2, <1>6 DEF Broadcast
<1> QED
  BY <1>3, <1>4, <1>5, <1>6

LEMMA StatusAfterType ==
    ASSUME NEW s \in RunStatus, NEW event
    PROVE  StatusAfter(s, event) \in RunStatus
BY DEF StatusAfter, RunStatus, TerminalStatus

LEMMA HandleTypeStep ==
    ASSUME HandleTypeOK, NEW p \in Publishers,
           \/ \E event \in RunEvents : TakeSeq(p, event)
           \/ Apply(p) \/ PushHistory(p) \/ Broadcast(p)
    PROVE  HandleTypeOK'
<1>t. /\ status \in RunStatus /\ counted \in Nat /\ stamped \in BOOLEAN
      /\ history \in Seq(Envelopes) /\ sent \in Seq(Envelopes)
      /\ nextSeq \in Nat /\ overlapped \in BOOLEAN
      /\ pub \in [Publishers -> Publication]
  BY DEF HandleTypeOK
<1>e. pub[p].at # "idle" => /\ pub[p].envelope \in Envelopes
                            /\ pub[p] \in [at : {"apply", "push", "send"}, envelope : Envelopes]
  BY PublicationFacts
<1>1. ASSUME NEW event \in RunEvents, TakeSeq(p, event) PROVE HandleTypeOK'
  <2>1. [seq |-> nextSeq, event |-> event] \in Envelopes
    BY <1>t DEF Envelopes
  <2>2. pub' \in [Publishers -> Publication]
    BY <1>1, <1>t, <2>1 DEF TakeSeq, Publication
  <2>3. overlapped' \in BOOLEAN /\ nextSeq' \in Nat
    BY <1>1, <1>t DEF TakeSeq, Overlaps
  <2> QED
    BY <1>1, <1>t, <2>2, <2>3 DEF TakeSeq, HandleTypeOK, stateVars
<1>2. CASE Apply(p)
  <2>1. pub' \in [Publishers -> Publication]
    BY <1>2, <1>t, <1>e DEF Apply, Publication
  <2>2. status' \in RunStatus
    BY <1>2, <1>t, StatusAfterType DEF Apply
  <2>3. counted' \in Nat /\ stamped' \in BOOLEAN
    BY <1>2, <1>t DEF Apply
  <2> QED
    BY <1>2, <1>t, <2>1, <2>2, <2>3 DEF Apply, HandleTypeOK
<1>3. CASE PushHistory(p)
  <2>1. pub' \in [Publishers -> Publication]
    BY <1>3, <1>t, <1>e DEF PushHistory, Publication
  <2>2. history' \in Seq(Envelopes)
    BY <1>3, <1>t, <1>e DEF PushHistory
  <2> QED
    BY <1>3, <1>t, <2>1, <2>2 DEF PushHistory, HandleTypeOK, stateVars
<1>4. CASE Broadcast(p)
  <2>1. pub' \in [Publishers -> Publication]
    BY <1>4, <1>t DEF Broadcast, Publication
  <2>2. sent' \in Seq(Envelopes)
    BY <1>4, <1>t, <1>e DEF Broadcast
  <2> QED
    BY <1>4, <1>t, <2>1, <2>2 DEF Broadcast, HandleTypeOK, stateVars
<1> QED
  BY <1>1, <1>2, <1>3, <1>4

LEMMA HandleTypeStays == ASSUME HandleTypeOK, UNCHANGED handleVars PROVE HandleTypeOK'
BY DEF HandleTypeOK, handleVars, stateVars

LEMMA ManagerTypeStep == ASSUME Inductive, ManagerTypeOK, ManagerNext PROVE ManagerTypeOK'
<1>t. /\ TypeOK /\ HandleTypeOK /\ thread \in {"none", "alive", "failed", "ended"}
      /\ call \in [Callers -> CallPCs] /\ calls \in [Kinds -> Nat]
  BY DEF ManagerTypeOK
<1>e. TypeOK'
  BY InductiveKept DEF Inductive
<1>1. HandleTypeOK'
  <2>1. CASE SpawnFails
    BY <1>t, <2>1 DEF SpawnFails, HandleTypeOK, RunStatus, TerminalStatus
  <2>2. CASE Complete
    <3>1. result \in TerminalStatus /\ executed \in Nat
      BY <1>t, <2>2 DEF Complete, Done, Inductive, FlagsInv, TypeOK, Terminal, TerminalStatus
    <3> QED
      BY <1>t, <2>2, <3>1 DEF Complete, HandleTypeOK, RunStatus
  <2>3. CASE EnginePublishes
    <3>1. Head(outbox) \in RunEvents
      BY <1>t, <2>3 DEF EnginePublishes, TypeOK, Events, RunEvents
    <3> QED
      BY <1>t, <2>3, <3>1, HandleTypeStep, PublisherFacts DEF EnginePublishes
  <2>4. CASE EnginePublished
    BY <1>t, <2>4, HandleTypeStep, PublisherFacts DEF EnginePublished
  <2>5. CASE \E p \in Publishers : Apply(p) \/ PushHistory(p)
    BY <1>t, <2>5, HandleTypeStep
  <2>6. ASSUME NEW c \in Callers, Announces(c) \/ CallPublished(c) PROVE HandleTypeOK'
    BY <1>t, <2>6, HandleTypeStep, PublisherFacts DEF Announces, CallPublished, RunEvents
  <2>7. CASE UNCHANGED handleVars
    BY <1>t, <2>7, HandleTypeStays
  <2> QED
    BY <2>1, <2>2, <2>3, <2>4, <2>5, <2>6, <2>7, ManagerCases
       DEF Spawn, EngineRuns, Quietly
<1>2. thread' \in {"none", "alive", "failed", "ended"}
  BY <1>t, ManagerCases DEF Spawn, SpawnFails, EngineRuns, EnginePublishes, EnginePublished,
                            Complete, Announces, Quietly, CallPublished
<1>3. call' \in [Callers -> CallPCs] /\ calls' \in [Kinds -> Nat]
  <2>1. ASSUME NEW c \in Callers, NEW kind \in Kinds, Calls(c, kind)
        PROVE  calls' \in [Kinds -> Nat]
    BY <1>t, <2>1 DEF Calls
  <2>2. ASSUME NEW c \in Callers, NEW where \in CallPCs, Goes(c, where)
        PROVE  call' \in [Callers -> CallPCs]
    BY <1>t, <2>2 DEF Goes
  <2>3. ASSUME NEW c \in Callers, Caller(c)
        PROVE  call' \in [Callers -> CallPCs] /\ calls' \in [Kinds -> Nat]
    BY <1>t, <2>1, <2>2, <2>3
       DEF Caller, CallPause, PauseFlag, MarkPaused, CallResume, MarkRunning, CallStep, CallCancel,
           CallPublished, Kinds, CallPCs
  <2> QED
    BY <1>t, <2>3 DEF ManagerNext, Spawn, SpawnFails, RunThread, EngineRuns, EnginePublishes,
                      Publishing, EnginePublished, Complete
<1> QED
  BY <1>e, <1>1, <1>2, <1>3 DEF ManagerTypeOK

-----------------------------------------------------------------------------
\* The parts of the invariant.

\* Nobody but the engine's thread moves the engine; what callers do leaves the
\* place, the outbox and the verdict alone.
LEMMA Frames ==
    ASSUME ManagerTypeOK, ManagerNext
    PROVE  \/ EngineRuns
           \/ EnginePublished
           \/ UNCHANGED <<wf, pc, result, outbox, executed>> /\ (parked' => parked)
<1>1. UNCHANGED vars => UNCHANGED <<wf, pc, result, outbox, executed, parked>>
  BY DEF vars, engineVars, controlVars
<1> QED
  BY <1>1, ManagerCases DEF Spawn, SpawnFails, EnginePublishes, Complete, Announces, Quietly,
                            CallPublished

LEMMA EmitFrame ==
    ASSUME EnginePublished
    PROVE  /\ outbox # <<>> /\ outbox' = Tail(outbox)
           /\ UNCHANGED <<wf, pc, result, executed, parked>>
BY DEF EnginePublished, Emit, controlVars, progress

LEMMA ThreadStep ==
    ASSUME Inductive, ManagerTypeOK, ParkedInv, ThreadInv, ManagerNext
    PROVE  ThreadInv'
<1>1. CASE EngineRuns
  <2>1. thread = "alive" /\ thread' = thread
    BY <1>1 DEF EngineRuns
  <2> QED
    BY <2>1 DEF ThreadInv
<1>2. CASE EnginePublished
  BY <1>2, EmitFrame DEF EnginePublished, ThreadInv, Done
<1>3. CASE ~EngineRuns /\ ~EnginePublished
  <2>1. UNCHANGED pc
    BY <1>3, Frames
  <2>2. thread' = thread \/ thread' = "alive" \/ SpawnFails \/ Complete
    BY <1>3, ManagerCases DEF Spawn, EnginePublishes, Announces, Quietly, CallPublished
  <2>3. SpawnFails => thread = "none" /\ thread' = "failed"
    BY DEF SpawnFails
  <2>4. Complete => Done /\ thread' = "ended"
    BY DEF Complete
  <2> QED
    BY <2>1, <2>2, <2>3, <2>4 DEF ThreadInv, Done
<1> QED
  BY <1>1, <1>2, <1>3

\* Short sequences, as the engine emits them.
LEMMA ShortSeqs ==
    /\ Len(<<>>) = 0
    /\ \A a : /\ <<a>> # <<>> /\ Head(<<a>>) = a /\ Tail(<<a>>) = <<>> /\ Len(<<a>>) = 1
    /\ \A a, b : /\ <<a, b>> # <<>> /\ Head(<<a, b>>) = a /\ Tail(<<a, b>>) = <<b>>
                 /\ Len(<<a, b>>) = 2
    /\ \A a, b : <<a>> = <<b>> => a = b
OBVIOUS

\* What emitting the next event leaves is again something the thread may emit.
LEMMA EmittingTail ==
    ASSUME outbox \in Emitting, outbox # <<>>, result \in Terminal \cup {"None"}
    PROVE  /\ Tail(outbox) \in Emitting
           /\ Tail(outbox) # <<"RunStarted">>
           /\ Len(outbox) = 1 <=> Tail(outbox) = <<>>
<1>1. CASE result = "None"
  <2>1. \/ \E a \in {"RunStarted", "RunPaused", "NodeStarted", "NodeFinished", "NodeFailed"} :
              outbox = <<a>>
        \/ outbox = <<"RunStarted", "RunPaused">>
    BY <1>1 DEF Emitting
  <2>2. <<>> \in Emitting /\ <<"RunPaused">> \in Emitting
    BY <1>1 DEF Emitting
  <2>3. ASSUME NEW a, outbox = <<a>> PROVE Tail(outbox) = <<>> /\ Len(outbox) = 1
    BY <2>3, ShortSeqs
  <2>4. ASSUME outbox = <<"RunStarted", "RunPaused">>
        PROVE  Tail(outbox) = <<"RunPaused">> /\ Len(outbox) = 2
    BY <2>4, ShortSeqs
  <2>5. <<"RunPaused">> # <<"RunStarted">> /\ <<>> # <<"RunStarted">> /\ <<"RunPaused">> # <<>>
    BY ShortSeqs
  <2>6. \/ Tail(outbox) = <<>> /\ Len(outbox) = 1
        \/ Tail(outbox) = <<"RunPaused">> /\ Len(outbox) = 2
    BY <2>1, <2>3, <2>4
  <2>7. Tail(outbox) \in Emitting
    BY <2>2, <2>6, Zenon
  <2>8. Tail(outbox) # <<"RunStarted">>
    BY <2>5, <2>6, Zenon
  <2>9. Len(outbox) = 1 <=> Tail(outbox) = <<>>
    <3>1. 1 # 2
      OBVIOUS
    <3> QED
      BY <2>5, <2>6, <3>1, Zenon
  <2> QED
    BY <2>7, <2>8, <2>9
<1>2. CASE result # "None"
  <2> DEFINE last == TerminalEvent[result]
  <2>1. outbox = <<last>> \/ outbox = <<"NodeFailed", last>>
    BY <1>2 DEF Emitting
  <2>2. <<>> \in Emitting /\ <<last>> \in Emitting
    BY <1>2 DEF Emitting
  <2>3. last # "RunStarted"
    BY <1>2, ConcludeEmits
  <2> HIDE DEF last
  <2>4. ASSUME outbox = <<last>> PROVE Tail(outbox) = <<>> /\ Len(outbox) = 1
    BY <2>4, ShortSeqs
  <2>5. ASSUME outbox = <<"NodeFailed", last>>
        PROVE  Tail(outbox) = <<last>> /\ Len(outbox) = 2
    BY <2>5, ShortSeqs
  <2>6. <<last>> # <<"RunStarted">> /\ <<>> # <<"RunStarted">> /\ <<last>> # <<>>
    BY <2>3, ShortSeqs
  <2>7. \/ Tail(outbox) = <<>> /\ Len(outbox) = 1
        \/ Tail(outbox) = <<last>> /\ Len(outbox) = 2
    BY <2>1, <2>4, <2>5
  <2>8. Tail(outbox) \in Emitting
    BY <2>2, <2>7, Zenon
  <2>9. Tail(outbox) # <<"RunStarted">>
    BY <2>6, <2>7, Zenon
  <2>10. Len(outbox) = 1 <=> Tail(outbox) = <<>>
    <3>1. 1 # 2
      OBVIOUS
    <3> QED
      BY <2>6, <2>7, <3>1, Zenon
  <2> QED
    BY <2>8, <2>9, <2>10
<1> QED
  BY <1>1, <1>2

LEMMA OutboxStep ==
    ASSUME Inductive, ManagerTypeOK, ParkedInv, OutboxInv, ManagerNext
    PROVE  OutboxInv' /\ ParkedInv'
<1>1. CASE EngineRuns
  <2>1. EngineStep
    BY <1>1 DEF EngineRuns
  <2>2. /\ outbox = <<>> /\ wf' = wf /\ pc' # "spawned"
        /\ parked' => pc' \in {"await", "breakAwait"} /\ outbox' = <<>>
        /\ Settles \/ Moves \/ Starts
    BY <2>1, EngineEffects DEF Inductive
  <2>3. CASE Settles
    <3>1. outbox' \in Emitting' /\ pc' # "done" /\ result' # "None"
      BY <2>3 DEF Settles, Emitting, Terminal
    <3>2. outbox' # <<"RunStarted">>
      <4>1. TerminalEvent[result'] \in {"RunCompleted", "RunFailed", "RunCancelled"}
        BY <2>3, ConcludeEmits DEF Settles
      <4> QED
        BY <2>3, <4>1 DEF Settles
    <3> QED
      BY <2>2, <3>1, <3>2 DEF OutboxInv, ParkedInv
  <2>4. CASE Moves
    <3>1. outbox' \in Emitting'
      BY <2>4 DEF Moves, Emitting
    <3>2. outbox' # <<"RunStarted">>
      BY <2>4, ShortSeqs DEF Moves
    <3> QED
      BY <2>2, <2>4, <3>1, <3>2 DEF Moves, OutboxInv, ParkedInv
  <2>5. CASE Starts
    <3>1. outbox' \in Emitting' /\ pc' = "loop"
      BY <2>5 DEF Starts, Emitting
    <3>2. wf.startPaused => outbox' # <<"RunStarted">>
      BY <2>5, ShortSeqs DEF Starts
    <3> QED
      BY <2>2, <3>1, <3>2 DEF OutboxInv, ParkedInv
  <2> QED
    BY <2>2, <2>3, <2>4, <2>5
<1>2. CASE EnginePublished
  <2>1. Emitting' = Emitting
    BY <1>2, EmitFrame DEF Emitting
  <2>2. outbox # <<>> /\ UNCHANGED <<wf, pc, result, parked>> /\ outbox' = Tail(outbox)
    BY <1>2, EmitFrame
  <2>3. Tail(outbox) \in Emitting /\ Tail(outbox) # <<"RunStarted">>
    BY <2>2, EmittingTail DEF OutboxInv, Inductive, TypeOK
  <2>4. pc \notin {"spawned", "done"} /\ ~parked
    BY <2>2 DEF OutboxInv, ParkedInv
  <2> QED
    BY <2>1, <2>2, <2>3, <2>4 DEF OutboxInv, ParkedInv
<1>3. CASE ~EngineRuns /\ ~EnginePublished
  <2>1. UNCHANGED <<wf, pc, result, outbox>> /\ (parked' => parked)
    BY <1>3, Frames
  <2>2. Emitting' = Emitting
    BY <2>1 DEF Emitting
  <2> QED
    BY <2>1, <2>2 DEF OutboxInv, ParkedInv
<1> QED
  BY <1>1, <1>2, <1>3

LEMMA PublishStep ==
    ASSUME Inductive, ManagerTypeOK, ParkedInv, OutboxInv, ThreadInv, PublishInv, ManagerNext
    PROVE  PublishInv'
<1>h. HandleTypeOK /\ call \in [Callers -> CallPCs]
  BY DEF ManagerTypeOK
<1> USE DEF Idle
<1>1. CASE EngineRuns
  <2>1. outbox = <<>>
    BY <1>1, EngineEffects DEF EngineRuns, Inductive
  <2>2. UNCHANGED <<pub, call>>
    BY <1>1 DEF EngineRuns, handleVars
  <2> QED
    BY <2>1, <2>2 DEF PublishInv
<1>2. CASE EnginePublished
  <2>1. /\ pub'[EngineThread].at = "idle" /\ UNCHANGED call
        /\ \A c \in Callers : pub'[c] = pub[c]
    BY <1>2, <1>h, PublishMoves, PublisherFacts DEF EnginePublished
  <2> QED
    BY <2>1 DEF PublishInv
<1>3. CASE EnginePublishes
  <2>1. /\ thread = "alive" /\ UNCHANGED <<thread, call, outbox>> /\ outbox # <<>>
        /\ pub'[EngineThread].envelope.event = Head(outbox)
        /\ \A c \in Callers : pub'[c] = pub[c]
    BY <1>3, <1>h, PublishMoves, PublisherFacts DEF EnginePublishes, vars, engineVars
  <2> QED
    BY <2>1 DEF PublishInv
<1>4. CASE Spawn \/ SpawnFails
  <2>1. UNCHANGED <<pub, call, outbox>> /\ thread = "none"
    BY <1>4 DEF Spawn, SpawnFails, handleVars, vars, engineVars
  <2> QED
    BY <2>1 DEF PublishInv
<1>5. CASE Complete
  <2>1. UNCHANGED <<pub, call, outbox>> /\ outbox = <<>>
    BY <1>5 DEF Complete, vars, engineVars, Done, OutboxInv
  <2> QED
    BY <2>1 DEF PublishInv
<1>6. ASSUME NEW p \in Publishers, Apply(p) \/ PushHistory(p),
             UNCHANGED <<vars, thread, call, calls>>
      PROVE  PublishInv'
  <2>1. /\ UNCHANGED <<thread, call, outbox>>
        /\ pub[p].at # "idle" /\ pub'[p].envelope = pub[p].envelope
        /\ \A q \in Publishers : q # p => pub'[q] = pub[q]
    BY <1>6, <1>h, PublishMoves DEF vars, engineVars
  <2> QED
    BY <2>1, PublisherFacts DEF PublishInv
<1>7. ASSUME NEW c \in Callers, Announces(c) PROVE PublishInv'
  <2>1. /\ UNCHANGED <<thread, outbox>> /\ call'[c] = "publishing"
        /\ pub'[c].envelope.event \in {"RunPaused", "RunResumed"}
        /\ \A d \in Callers : d # c => call'[d] = call[d]
        /\ \A q \in Publishers : q # c => pub'[q] = pub[q]
    BY <1>7, <1>h, PublishMoves, PublisherFacts DEF Announces, vars, engineVars
  <2> QED
    BY <2>1, PublisherFacts DEF PublishInv
<1>8. ASSUME NEW c \in Callers, Quietly(c) PROVE PublishInv'
  <2>1. UNCHANGED <<thread, outbox, pub>>
    BY <1>8 DEF Quietly, handleVars
  <2>2. \A d \in Callers : call[d] = "publishing" => call'[d] = "publishing"
    BY <1>8 DEF Quietly
  <2> QED
    BY <2>1, <2>2 DEF PublishInv
<1>9. ASSUME NEW c \in Callers, CallPublished(c) PROVE PublishInv'
  <2>1. /\ UNCHANGED <<thread, outbox>> /\ pub'[c].at = "idle"
        /\ \A d \in Callers : d # c => call'[d] = call[d]
        /\ \A q \in Publishers : q # c => pub'[q] = pub[q]
    BY <1>9, <1>h, PublishMoves, PublisherFacts DEF CallPublished, Goes, vars, engineVars
  <2> QED
    BY <2>1, PublisherFacts DEF PublishInv
<1> QED
  BY <1>1, <1>2, <1>3, <1>4, <1>5, <1>6, <1>7, <1>8, <1>9, ManagerCases

-----------------------------------------------------------------------------
\* What the event at the head of the outbox is, and makes of the snapshot.

LEMMA HeadFacts ==
    ASSUME TypeOK, OutboxInv, outbox # <<>>
    PROVE  /\ result = "None" => Head(outbox) \in {"RunStarted", "RunPaused", "NodeStarted",
                                                  "NodeFinished", "NodeFailed"}
           /\ result # "None" => /\ result \in Terminal
                                 /\ Len(outbox) = 1 => Head(outbox) = TerminalEvent[result]
                                 /\ Len(outbox) # 1 => Head(outbox) = "NodeFailed"
<1>t. result \in Terminal \cup {"None"}
  BY DEF TypeOK
<1>1. CASE result = "None"
  <2>1. \/ \E a \in {"RunStarted", "RunPaused", "NodeStarted", "NodeFinished", "NodeFailed"} :
              outbox = <<a>>
        \/ outbox = <<"RunStarted", "RunPaused">>
    BY <1>1 DEF OutboxInv, Emitting
  <2> QED
    BY <1>1, <2>1, ShortSeqs
<1>2. CASE result # "None"
  <2> DEFINE last == TerminalEvent[result]
  <2>1. outbox = <<last>> \/ outbox = <<"NodeFailed", last>>
    BY <1>2 DEF OutboxInv, Emitting
  <2> HIDE DEF last
  <2>2. ASSUME outbox = <<last>> PROVE Head(outbox) = last /\ Len(outbox) = 1
    BY <2>2, ShortSeqs
  <2>3. ASSUME outbox = <<"NodeFailed", last>>
        PROVE  Head(outbox) = "NodeFailed" /\ Len(outbox) = 2
    BY <2>3, ShortSeqs
  <2>4. \/ Head(outbox) = last /\ Len(outbox) = 1
        \/ Head(outbox) = "NodeFailed" /\ Len(outbox) = 2
    BY <2>1, <2>2, <2>3
  <2> QED
    BY <1>t, <1>2, <2>4 DEF last
<1> QED
  BY <1>1, <1>2

TerminalEvents == {"RunCompleted", "RunFailed", "RunCancelled"}

LEMMA StatusAfterFacts ==
    /\ \A s \in Terminal, event \in {"RunPaused", "RunResumed"} : StatusAfter(s, event) = s
    /\ \A s, event : s \notin Terminal /\ event \notin TerminalEvents =>
                        StatusAfter(s, event) \notin Terminal
    /\ \A verdict \in Terminal : \A s : StatusAfter(s, TerminalEvent[verdict]) = verdict
    /\ \A s : s \notin Terminal => StatusAfter(s, "RunPaused") = "Paused"
    /\ \A event \in {"RunPaused", "NodeStarted", "NodeFinished", "NodeFailed"} :
          StatusAfter("Paused", event) = "Paused"
BY DEF StatusAfter, Terminal, TerminalStatus, TerminalEvent, TerminalEvents

\* The engine steps only while its thread publishes nothing; a settled verdict has
\* not passed anything yet, and one that was settled before has passed everything.
LEMMA PassedByEngine ==
    ASSUME Inductive, ManagerTypeOK, ParkedInv, PublishInv, OutboxInv, EngineRuns, NEW places,
           "idle" \notin places
    PROVE  Passed(places)' <=> Passed(places)
<1>1. /\ outbox = <<>> /\ UNCHANGED pub
      /\ Settles \/ Moves \/ Starts
  BY EngineEffects DEF EngineRuns, Inductive, handleVars
<1>2. pub[EngineThread].at = "idle" /\ pub'[EngineThread].at = "idle"
  BY <1>1 DEF PublishInv, Idle
<1>3. CASE Settles
  <2>1. outbox' # <<>>
    BY <1>3, ShortSeqs DEF Settles
  <2> QED
    BY <1>2, <1>3, <2>1 DEF Settles, Passed
<1>4. CASE Moves
  BY <1>1, <1>2, <1>4 DEF Moves, Passed
<1>5. CASE Starts
  BY <1>1, <1>2, <1>5 DEF Starts, Passed
<1> QED
  BY <1>1, <1>3, <1>4, <1>5

\* Sending the head of the outbox and taking it from there leaves passed what was.
LEMMA PassedByEmit ==
    ASSUME Inductive, ManagerTypeOK, OutboxInv, EnginePublished, NEW places,
           "idle" \notin places, "send" \in places
    PROVE  Passed(places)' <=> Passed(places)
<1>1. outbox # <<>> /\ outbox' = Tail(outbox) /\ result' = result
  BY EmitFrame
<1>2. pub[EngineThread].at = "send" /\ pub'[EngineThread].at = "idle"
  BY PublishMoves, PublisherFacts DEF EnginePublished, ManagerTypeOK
<1>3. Len(outbox) = 1 <=> Tail(outbox) = <<>>
  BY <1>1, EmittingTail DEF OutboxInv, Inductive, TypeOK
<1> QED
  BY <1>1, <1>2, <1>3 DEF Passed

\* No other step than the one of its own statement lets the verdict pass.
LEMMA PassedElse ==
    ASSUME UNCHANGED <<result, outbox>>, NEW places,
           pub'[EngineThread].at \in places <=> pub[EngineThread].at \in places
    PROVE  Passed(places)' <=> Passed(places)
BY DEF Passed

LEMMA StatusStep ==
    ASSUME Inductive, ManagerTypeOK, ThreadInv, PublishInv, OutboxInv, ParkedInv, StatusInv,
           ManagerNext
    PROVE  StatusInv'
<1> DEFINE Applied == Passed({"push", "send"})
<1>h. HandleTypeOK /\ TypeOK /\ status \in RunStatus
  BY DEF ManagerTypeOK, HandleTypeOK
<1>s. IF thread = "failed" THEN status = "Failed"
      ELSE IF Applied THEN status = result ELSE status \notin Terminal
  BY DEF StatusInv
<1>a. ASSUME UNCHANGED <<status, thread, result>>, Applied' <=> Applied PROVE StatusInv'
  BY <1>s, <1>a DEF StatusInv
<1>1. CASE EngineRuns
  <2>1. thread = "alive" /\ UNCHANGED <<status, thread>>
    BY <1>1 DEF EngineRuns, handleVars, stateVars
  <2>2. Applied' <=> Applied
    BY <1>1, PassedByEngine
  <2>3. Applied => result' = result
    BY <1>1, EngineEffects DEF EngineRuns, Inductive, Passed, Settles, Moves, Starts
  <2> QED
    BY <1>s, <2>1, <2>2, <2>3 DEF StatusInv
<1>2. CASE EnginePublished
  <2>1. UNCHANGED <<status, thread, result>>
    BY <1>2, <1>h, EmitFrame, PublishMoves, PublisherFacts DEF EnginePublished, stateVars
  <2>2. Applied' <=> Applied
    BY <1>2, PassedByEmit
  <2> QED
    BY <2>1, <2>2, <1>a
<1>3. CASE EnginePublishes
  <2>1. /\ UNCHANGED <<status, thread, result, outbox>>
        /\ pub[EngineThread].at = "idle" /\ pub'[EngineThread].at = "apply"
    BY <1>3, <1>h, PublishMoves, PublisherFacts DEF EnginePublishes, vars, engineVars, stateVars
  <2> QED
    BY <2>1, <1>a, PassedElse
<1>4. CASE SpawnFails
  BY <1>4 DEF SpawnFails, StatusInv
<1>5. CASE Spawn
  <2>1. UNCHANGED <<status, result, outbox, pub>> /\ thread = "none" /\ thread' = "alive"
    BY <1>5 DEF Spawn, handleVars, stateVars, vars, engineVars
  <2>2. Applied' <=> Applied
    BY <2>1, PassedElse
  <2> QED
    BY <1>s, <2>1, <2>2 DEF StatusInv
<1>6. CASE Complete
  <2>1. /\ UNCHANGED <<result, outbox, pub>> /\ pc = "done"
        /\ status' = result /\ thread' = "ended"
    BY <1>6 DEF Complete, vars, engineVars, Done
  <2>2. Applied
    BY <2>1 DEF Passed, OutboxInv, Inductive, FlagsInv
  <2>3. Applied'
    BY <2>1, <2>2, PassedElse
  <2> QED
    BY <2>1, <2>3 DEF StatusInv
<1>7. ASSUME Apply(EngineThread), UNCHANGED <<vars, thread, call, calls>> PROVE StatusInv'
  <2>1. /\ UNCHANGED <<thread, result, outbox>>
        /\ pub[EngineThread].at = "apply" /\ pub'[EngineThread].at = "push"
        /\ status' = StatusAfter(status, pub[EngineThread].envelope.event)
    BY <1>7, <1>h, PublishMoves, PublisherFacts DEF vars, engineVars
  <2>2. thread = "alive" /\ outbox # <<>> /\ pub[EngineThread].envelope.event = Head(outbox)
    BY <2>1 DEF PublishInv, Idle
  <2>3. status \notin Terminal
    BY <1>s, <2>1, <2>2 DEF Passed
  <2>4. CASE result # "None" /\ Len(outbox) = 1
    <3>1. status' = result
      BY <1>h, <2>1, <2>2, <2>4, HeadFacts, StatusAfterFacts
    <3>2. Applied'
      BY <2>1, <2>4 DEF Passed
    <3> QED
      BY <2>1, <2>2, <3>1, <3>2 DEF StatusInv
  <2>5. CASE ~(result # "None" /\ Len(outbox) = 1)
    <3>1. Head(outbox) \notin TerminalEvents
      BY <1>h, <2>2, <2>5, HeadFacts DEF TerminalEvents
    <3>2. status' \notin Terminal
      BY <2>1, <2>2, <2>3, <3>1, StatusAfterFacts
    <3>3. ~Applied'
      BY <2>1, <2>2, <2>5 DEF Passed
    <3> QED
      BY <2>1, <2>2, <3>2, <3>3 DEF StatusInv
  <2> QED
    BY <2>4, <2>5
<1>8. ASSUME NEW c \in Callers, Apply(c), UNCHANGED <<vars, thread, call, calls>>
      PROVE  StatusInv'
  <2>1. /\ UNCHANGED <<thread, result, outbox>> /\ pub'[EngineThread] = pub[EngineThread]
        /\ pub[c].at = "apply"
        /\ status' = StatusAfter(status, pub[c].envelope.event)
    BY <1>8, <1>h, PublishMoves, PublisherFacts DEF vars, engineVars
  <2>2. pub[c].envelope.event \in {"RunPaused", "RunResumed"}
    BY <2>1 DEF PublishInv, Idle
  <2>3. status \in Terminal => status' = status
    BY <2>1, <2>2, StatusAfterFacts
  <2>4. status \notin Terminal => status' \notin Terminal
    BY <2>1, <2>2, StatusAfterFacts DEF TerminalEvents
  <2>5. Applied' <=> Applied
    BY <2>1, PassedElse
  <2>6. Applied => result \in Terminal
    BY <1>h DEF Passed, TypeOK
  <2>7. "Failed" \in Terminal
    BY DEF Terminal
  <2> QED
    BY <1>s, <2>1, <2>3, <2>4, <2>5, <2>6, <2>7 DEF StatusInv
<1>9. ASSUME NEW p \in Publishers, PushHistory(p), UNCHANGED <<vars, thread, call, calls>>
      PROVE  StatusInv'
  <2>1. /\ UNCHANGED <<status, thread, result, outbox>>
        /\ pub[p].at = "push" /\ pub'[p].at = "send"
        /\ \A q \in Publishers : q # p => pub'[q] = pub[q]
    BY <1>9, <1>h, PublishMoves DEF vars, engineVars, stateVars
  <2>2. pub'[EngineThread].at \in {"push", "send"} <=> pub[EngineThread].at \in {"push", "send"}
    BY <2>1, PublisherFacts
  <2> QED
    BY <2>1, <2>2, <1>a, PassedElse
<1>10. ASSUME NEW c \in Callers, Announces(c) \/ Quietly(c) \/ CallPublished(c)
       PROVE  StatusInv'
  <2>1. UNCHANGED <<status, thread, result, outbox>> /\ pub'[EngineThread] = pub[EngineThread]
    BY <1>10, <1>h, PublishMoves, PublisherFacts
       DEF Announces, Quietly, CallPublished, handleVars, stateVars, vars, engineVars
  <2> QED
    BY <2>1, <1>a, PassedElse
<1> QED
  BY <1>1, <1>2, <1>3, <1>4, <1>5, <1>6, <1>7, <1>8, <1>9, <1>10, ManagerCases, PublisherFacts

LEMMA OutcomeStep ==
    ASSUME Inductive, ManagerTypeOK, ThreadInv, PublishInv, OutcomeInv, ManagerNext
    PROVE  OutcomeInv'
<1>h. HandleTypeOK /\ stamped \in BOOLEAN
  BY DEF ManagerTypeOK, HandleTypeOK
<1>1. CASE EngineRuns \/ EnginePublishes \/ EnginePublished \/ Spawn \/ SpawnFails
  <2>1. thread' # "ended"
    <3>1. EnginePublished => thread = "alive" /\ thread' = thread
      BY <1>h, PublishMoves, PublisherFacts DEF EnginePublished, PublishInv, Idle
    <3> QED
      BY <1>1, <3>1 DEF EngineRuns, EnginePublishes, Spawn, SpawnFails
  <2> QED
    BY <2>1 DEF OutcomeInv
<1>2. CASE Complete
  <2>1. executed' = executed /\ counted' = executed /\ stamped' = TRUE
    BY <1>2 DEF Complete, vars, engineVars
  <2> QED
    BY <2>1 DEF OutcomeInv
<1>3. ASSUME NEW p \in Publishers, Apply(p), UNCHANGED <<vars, thread, call, calls>>
      PROVE  OutcomeInv'
  <2>1. UNCHANGED <<thread, executed>>
    BY <1>3 DEF vars, engineVars
  <2>2. SUFFICES ASSUME thread = "ended" PROVE UNCHANGED <<counted, stamped>>
    BY <2>1 DEF OutcomeInv
  <2>3. pub[p].at = "apply"
    BY <1>3 DEF Apply
  <2>4. pub[p].envelope.event \in {"RunPaused", "RunResumed"}
    BY <2>2, <2>3, PublisherFacts DEF PublishInv, Idle
  <2> QED
    BY <1>h, <1>3, <2>4 DEF Apply
<1>4. ASSUME NEW p \in Publishers, PushHistory(p), UNCHANGED <<vars, thread, call, calls>>
      PROVE  OutcomeInv'
  <2>1. UNCHANGED <<thread, executed, counted, stamped>>
    BY <1>4 DEF vars, engineVars, PushHistory, stateVars
  <2> QED
    BY <2>1 DEF OutcomeInv
<1>5. ASSUME NEW c \in Callers, Announces(c) \/ Quietly(c) \/ CallPublished(c)
      PROVE  OutcomeInv'
  <2>1. UNCHANGED <<thread, executed, counted, stamped>>
    BY <1>5 DEF Announces, TakeSeq, Quietly, CallPublished, Broadcast, handleVars, stateVars,
                vars, engineVars
  <2> QED
    BY <2>1 DEF OutcomeInv
<1> QED
  BY <1>1, <1>2, <1>3, <1>4, <1>5, ManagerCases

-----------------------------------------------------------------------------
\* The log.

LEMMA AppendFacts ==
    ASSUME NEW S, NEW s \in Seq(S), NEW e \in S
    PROVE  /\ Append(s, e) \in Seq(S) /\ Len(Append(s, e)) = Len(s) + 1 /\ Len(s) \in Nat
           /\ DOMAIN s = 1..Len(s)
           /\ DOMAIN Append(s, e) = DOMAIN s \cup {Len(s) + 1}
           /\ Append(s, e)[Len(s) + 1] = e
           /\ \A i \in DOMAIN s : Append(s, e)[i] = s[i] /\ i < Len(s) + 1 /\ i \in Nat
OBVIOUS

LEMMA LogStep ==
    ASSUME Inductive, ManagerTypeOK, ThreadInv, PublishInv, OutboxInv, ParkedInv, LogInv,
           ManagerNext
    PROVE  LogInv'
<1> DEFINE Logged == Passed({"send"})
<1>h. HandleTypeOK /\ TypeOK /\ history \in Seq(Envelopes)
  BY DEF ManagerTypeOK, HandleTypeOK
<1>a. ASSUME UNCHANGED <<history, result>>, Logged' <=> Logged PROVE LogInv'
  BY <1>a DEF LogInv, IsTerminalEvent, EngineEvent
<1>b. ASSUME UNCHANGED <<result, outbox, history>>,
             pub'[EngineThread].at = "send" <=> pub[EngineThread].at = "send"
      PROVE  LogInv'
  BY <1>b, <1>a, PassedElse
<1>1. CASE EngineRuns
  <2>1. UNCHANGED history /\ (Logged' <=> Logged)
    BY <1>1, PassedByEngine DEF EngineRuns, handleVars
  <2>2. CASE result' = result
    BY <2>1, <2>2, <1>a
  <2>3. CASE result' # result
    <3>1. ~Logged
      BY <1>1, <2>3, EngineEffects DEF EngineRuns, Inductive, Passed, Settles, Moves, Starts
    <3> QED
      BY <2>1, <3>1 DEF LogInv, IsTerminalEvent
  <2> QED
    BY <2>2, <2>3
<1>2. CASE EnginePublished
  <2>1. UNCHANGED <<history, result>>
    BY <1>2, <1>h, EmitFrame, PublishMoves, PublisherFacts DEF EnginePublished
  <2> QED
    BY <1>2, <2>1, <1>a, PassedByEmit
<1>3. CASE EnginePublishes
  BY <1>3, <1>h, <1>b, PublishMoves, PublisherFacts DEF EnginePublishes, vars, engineVars
<1>4. CASE Spawn \/ SpawnFails \/ Complete
  BY <1>4, <1>b DEF Spawn, SpawnFails, Complete, handleVars, vars, engineVars
<1>5. ASSUME NEW p \in Publishers, Apply(p), UNCHANGED <<vars, thread, call, calls>>
      PROVE  LogInv'
  <2>1. /\ UNCHANGED <<result, outbox, history>>
        /\ pub[p].at = "apply" /\ pub'[p].at = "push"
        /\ \A q \in Publishers : q # p => pub'[q] = pub[q]
    BY <1>5, <1>h, PublishMoves DEF vars, engineVars
  <2>2. pub'[EngineThread].at = "send" <=> pub[EngineThread].at = "send"
    BY <2>1, PublisherFacts
  <2> QED
    BY <2>1, <2>2, <1>b
<1>6. ASSUME PushHistory(EngineThread), UNCHANGED <<vars, thread, call, calls>> PROVE LogInv'
  <2> DEFINE e == pub[EngineThread].envelope
  <2>1. /\ UNCHANGED <<result, outbox>> /\ history' = Append(history, e)
        /\ pub[EngineThread].at = "push" /\ pub'[EngineThread].at = "send"
    BY <1>6, <1>h, PublishMoves, PublisherFacts DEF vars, engineVars
  <2>2. outbox # <<>> /\ e.event = Head(outbox) /\ e \in Envelopes
    BY <1>h, <2>1, PublicationFacts, PublisherFacts DEF PublishInv, Idle
  <2>3. ~Logged /\ \A j \in DOMAIN history : ~IsTerminalEvent(history[j])
    BY <2>1, <2>2 DEF LogInv, Passed
  <2> HIDE DEF e
  <2>4. /\ DOMAIN history' = DOMAIN history \cup {Len(history) + 1}
        /\ history'[Len(history) + 1] = e
        /\ \A i \in DOMAIN history : history'[i] = history[i] /\ i < Len(history) + 1 /\ i \in Nat
        /\ Len(history) \in Nat
    BY <1>h, <2>1, <2>2, AppendFacts
  <2>5. CASE result # "None" /\ Len(outbox) = 1
    <3>1. Logged'
      BY <2>1, <2>5 DEF Passed
    <3>2. e.event = TerminalEvent[result]
      BY <1>h, <2>2, <2>5, HeadFacts
    <3>3. \A j \in DOMAIN history' : /\ j # Len(history) + 1 => ~IsTerminalEvent(history'[j])
                                     /\ ~(j > Len(history) + 1)
      BY <2>3, <2>4
    <3> QED
      BY <2>1, <2>4, <3>1, <3>2, <3>3 DEF LogInv, IsTerminalEvent, EngineEvent
  <2>6. CASE ~(result # "None" /\ Len(outbox) = 1)
    <3>1. ~Logged'
      BY <2>1, <2>2, <2>6 DEF Passed
    <3>2. ~IsTerminalEvent(e)
      BY <1>h, <2>2, <2>6, HeadFacts DEF IsTerminalEvent
    <3>3. \A j \in DOMAIN history' : ~IsTerminalEvent(history'[j])
      BY <2>3, <2>4, <3>2
    <3> QED
      BY <3>1, <3>3 DEF LogInv, IsTerminalEvent
  <2> QED
    BY <2>5, <2>6
<1>7. ASSUME NEW c \in Callers, PushHistory(c), UNCHANGED <<vars, thread, call, calls>>
      PROVE  LogInv'
  <2> DEFINE e == pub[c].envelope
  <2>1. /\ UNCHANGED <<result, outbox>> /\ history' = Append(history, e)
        /\ pub[c].at = "push" /\ pub'[EngineThread] = pub[EngineThread]
    BY <1>7, <1>h, PublishMoves, PublisherFacts DEF vars, engineVars
  <2>2. e.event \in {"RunPaused", "RunResumed"} /\ e \in Envelopes
    BY <1>h, <2>1, PublicationFacts, PublisherFacts DEF PublishInv, Idle
  <2>3. ~IsTerminalEvent(e) /\ ~EngineEvent(e)
    BY <2>2 DEF IsTerminalEvent, EngineEvent
  <2> HIDE DEF e
  <2>4. /\ DOMAIN history' = DOMAIN history \cup {Len(history) + 1}
        /\ history'[Len(history) + 1] = e
        /\ \A i \in DOMAIN history : history'[i] = history[i] /\ i < Len(history) + 1 /\ i \in Nat
        /\ Len(history) \in Nat
    BY <1>h, <2>1, <2>2, AppendFacts
  <2>5. Logged' <=> Logged
    BY <2>1, PassedElse
  <2>6. CASE Logged
    <3>1. PICK i \in DOMAIN history :
              /\ history[i].event = TerminalEvent[result]
              /\ \A j \in DOMAIN history : /\ j # i => ~IsTerminalEvent(history[j])
                                           /\ j > i => ~EngineEvent(history[j])
      BY <2>6 DEF LogInv
    <3>2. i \in DOMAIN history' /\ history'[i].event = TerminalEvent[result]
      BY <2>4, <3>1
    <3>3. \A j \in DOMAIN history' : /\ j # i => ~IsTerminalEvent(history'[j])
                                     /\ j > i => ~EngineEvent(history'[j])
      BY <2>3, <2>4, <3>1
    <3> QED
      BY <2>1, <2>5, <2>6, <3>2, <3>3 DEF LogInv, IsTerminalEvent, EngineEvent
  <2>7. CASE ~Logged
    <3>1. \A j \in DOMAIN history' : ~IsTerminalEvent(history'[j])
      BY <2>3, <2>4, <2>7 DEF LogInv
    <3> QED
      BY <2>5, <2>7, <3>1 DEF LogInv, IsTerminalEvent
  <2> QED
    BY <2>6, <2>7
<1>8. ASSUME NEW c \in Callers, Announces(c) \/ Quietly(c) \/ CallPublished(c)
      PROVE  LogInv'
  <2>1. UNCHANGED <<history, result, outbox>> /\ pub'[EngineThread] = pub[EngineThread]
    BY <1>8, <1>h, PublishMoves, PublisherFacts
       DEF Announces, Quietly, CallPublished, handleVars, vars, engineVars
  <2> QED
    BY <2>1, <1>b
<1> QED
  BY <1>1, <1>2, <1>3, <1>4, <1>5, <1>6, <1>7, <1>8, ManagerCases, PublisherFacts

-----------------------------------------------------------------------------
\* A run created paused.

LEMMA FrozenStep ==
    ASSUME Inductive, ManagerTypeOK, ThreadInv, PublishInv, OutboxInv, ParkedInv, StatusInv,
           FrozenInv, ManagerNext
    PROVE  FrozenInv'
<1> DEFINE Frozen == wf.startPaused /\ calls["resume"] = 0 /\ calls["cancel"] = 0
           Unresumed == \A c \in Callers : /\ call[c] # "markRunning"
                                           /\ ~Idle(c) => pub[c].envelope.event = "RunPaused"
           Shown == result = "None" /\ pc # "spawned" =>
                       \/ outbox = <<"RunStarted", "RunPaused">>
                       \/ outbox = <<"RunPaused">> /\ pub[EngineThread].at \in {"idle", "apply"}
                       \/ status = "Paused"
<1>h. HandleTypeOK /\ TypeOK /\ call \in [Callers -> CallPCs] /\ calls \in [Kinds -> Nat]
  BY DEF ManagerTypeOK
<1>k. /\ wf' = wf
      /\ calls'["resume"] = 0 => calls["resume"] = 0
      /\ calls'["cancel"] = 0 => calls["cancel"] = 0
  BY EngineEffects, ManagerCases, EmitFrame
     DEF Inductive, Spawn, SpawnFails, EngineRuns, EnginePublishes, EnginePublished, Complete,
         Announces, Quietly, CallPublished, Kinds, vars, engineVars
<1>f. SUFFICES ASSUME Frozen, Frozen' PROVE Unresumed' /\ Shown'
  BY <1>k DEF FrozenInv
<1>g. Unresumed /\ Shown
  BY <1>f DEF FrozenInv
<1>n. result = "None" /\ pc # "spawned" => status \notin Terminal
  <2>1. thread = "failed" => pc = "spawned"
    BY DEF ThreadInv
  <2> QED
    BY <2>1 DEF StatusInv, Passed
<1> USE DEF Idle
<1>1. CASE EngineRuns
  <2>1. UNCHANGED <<status, pub, call>>
    BY <1>1 DEF EngineRuns, handleVars, stateVars
  <2>2. outbox = <<>> /\ (Settles \/ Moves \/ Starts)
    BY <1>1, EngineEffects DEF EngineRuns, Inductive
  <2>3. Shown'
    <3>1. CASE Settles
      BY <3>1 DEF Settles, Terminal
    <3>2. CASE Moves
      BY <1>g, <2>1, <2>2, <3>2, ShortSeqs DEF Moves
    <3>3. CASE Starts
      BY <1>f, <3>3 DEF Starts
    <3> QED
      BY <2>2, <3>1, <3>2, <3>3
  <2> QED
    BY <1>g, <2>1, <2>3
<1>2. CASE EnginePublished
  <2>1. /\ UNCHANGED <<status, call, result, pc>> /\ outbox' = Tail(outbox)
        /\ pub[EngineThread].at = "send" /\ pub'[EngineThread].at = "idle"
        /\ \A c \in Callers : pub'[c] = pub[c]
    BY <1>2, <1>h, EmitFrame, PublishMoves, PublisherFacts DEF EnginePublished, stateVars
  <2>2. outbox = <<"RunStarted", "RunPaused">> => outbox' = <<"RunPaused">>
    BY <2>1, ShortSeqs
  <2> QED
    BY <1>g, <2>1, <2>2
<1>3. CASE EnginePublishes
  <2>1. /\ UNCHANGED <<status, call, result, pc, outbox>>
        /\ pub'[EngineThread].at = "apply"
        /\ \A c \in Callers : pub'[c] = pub[c]
    BY <1>3, <1>h, PublishMoves, PublisherFacts DEF EnginePublishes, vars, engineVars, stateVars
  <2> QED
    BY <1>g, <2>1
<1>4. CASE Spawn \/ SpawnFails \/ Complete
  <2>1. /\ UNCHANGED <<call, pub, result, pc, outbox>>
        /\ pc = "spawned" \/ result # "None"
    BY <1>4 DEF Spawn, SpawnFails, Complete, handleVars, vars, engineVars, ThreadInv, Done,
                Inductive, FlagsInv
  <2> QED
    BY <1>g, <2>1
<1>5. ASSUME Apply(EngineThread), UNCHANGED <<vars, thread, call, calls>>
      PROVE  Unresumed' /\ Shown'
  <2>1. /\ UNCHANGED <<call, result, pc, outbox>>
        /\ pub[EngineThread].at = "apply"
        /\ status' = StatusAfter(status, pub[EngineThread].envelope.event)
        /\ \A c \in Callers : pub'[c] = pub[c]
    BY <1>5, <1>h, PublishMoves, PublisherFacts DEF vars, engineVars
  <2>2. outbox # <<>> /\ pub[EngineThread].envelope.event = Head(outbox)
    BY <2>1 DEF PublishInv
  <2>3. SUFFICES ASSUME result = "None", pc # "spawned", outbox # <<"RunStarted", "RunPaused">>
                 PROVE  status' = "Paused"
    BY <1>g, <2>1
  <2>4. Head(outbox) \in {"RunPaused", "NodeStarted", "NodeFinished", "NodeFailed"}
    <3>1. outbox \in {<<"RunPaused">>, <<"NodeStarted">>, <<"NodeFinished">>, <<"NodeFailed">>}
      BY <1>f, <2>2, <2>3 DEF OutboxInv, Emitting
    <3> QED
      BY <3>1, ShortSeqs
  <2>5. CASE outbox = <<"RunPaused">>
    BY <1>n, <2>1, <2>2, <2>3, <2>5, ShortSeqs, StatusAfterFacts
  <2>6. CASE status = "Paused"
    BY <2>1, <2>2, <2>4, <2>6, StatusAfterFacts
  <2> QED
    BY <1>g, <2>3, <2>5, <2>6
<1>6. ASSUME NEW c \in Callers, Apply(c), UNCHANGED <<vars, thread, call, calls>>
      PROVE  Unresumed' /\ Shown'
  <2>1. /\ UNCHANGED <<call, result, pc, outbox>>
        /\ pub[c].at = "apply" /\ pub'[c].envelope = pub[c].envelope
        /\ status' = StatusAfter(status, pub[c].envelope.event)
        /\ \A q \in Publishers : q # c => pub'[q] = pub[q]
    BY <1>6, <1>h, PublishMoves, PublisherFacts DEF vars, engineVars
  <2>2. pub[c].envelope.event = "RunPaused"
    BY <1>g, <2>1
  <2>3. result = "None" /\ pc # "spawned" => status' = "Paused"
    BY <1>n, <2>1, <2>2, StatusAfterFacts
  <2> QED
    BY <1>g, <2>1, <2>3, PublisherFacts
<1>7. ASSUME NEW p \in Publishers, PushHistory(p), UNCHANGED <<vars, thread, call, calls>>
      PROVE  Unresumed' /\ Shown'
  <2>1. /\ UNCHANGED <<status, call, result, pc, outbox>>
        /\ pub[p].at = "push" /\ pub'[p].envelope = pub[p].envelope
        /\ \A q \in Publishers : q # p => pub'[q] = pub[q]
    BY <1>7, <1>h, PublishMoves DEF vars, engineVars, stateVars
  <2> QED
    BY <1>g, <2>1, PublisherFacts
<1>8. ASSUME NEW c \in Callers, Announces(c) PROVE Unresumed' /\ Shown'
  <2>1. /\ UNCHANGED <<status, result, pc, outbox>>
        /\ call[c] = "markPaused" /\ call' = [call EXCEPT ![c] = "publishing"]
        /\ TakeSeq(c, "RunPaused")
    BY <1>8, <1>g DEF Announces, TakeSeq, vars, engineVars, stateVars
  <2>2. /\ pub'[c].envelope.event = "RunPaused"
        /\ \A q \in Publishers : q # c => pub'[q] = pub[q]
    BY <1>h, <2>1, PublishMoves, PublisherFacts
  <2> QED
    BY <1>g, <1>h, <2>1, <2>2, PublisherFacts
<1>9. ASSUME NEW c \in Callers, Quietly(c) PROVE Unresumed' /\ Shown'
  <2>1. UNCHANGED <<status, result, pc, outbox, pub>>
    BY <1>9 DEF Quietly, handleVars, stateVars
  <2>2. \A d \in Callers : call'[d] # "markRunning"
    BY <1>9, <1>f, <1>g DEF Quietly
  <2> QED
    BY <1>g, <2>1, <2>2
<1>10. ASSUME NEW c \in Callers, CallPublished(c) PROVE Unresumed' /\ Shown'
  <2>1. /\ UNCHANGED <<status, result, pc, outbox>>
        /\ call' = [call EXCEPT ![c] = "free"] /\ pub'[c].at = "idle"
        /\ \A q \in Publishers : q # c => pub'[q] = pub[q]
    BY <1>10, <1>h, PublishMoves, PublisherFacts
       DEF CallPublished, Goes, vars, engineVars, stateVars
  <2> QED
    BY <1>g, <1>h, <2>1, PublisherFacts
<1> QED
  BY <1>1, <1>2, <1>3, <1>4, <1>5, <1>6, <1>7, <1>8, <1>9, <1>10, ManagerCases, PublisherFacts

-----------------------------------------------------------------------------
\* Induction over the natural numbers, with sets in place of predicates, and the
\* functions that iteration defines.

LEMMA NatSetMin == ASSUME NEW T \in SUBSET Nat, T # {} PROVE \E m \in T : \A k \in T : m <= k
<1> DEFINE R == {ss \in Nat \X Nat : ss[1] < ss[2]}
<1>1. IsWellFoundedOn(R, Nat)
  BY NatLessThanWellFounded DEF OpToRel
<1>2. \E x \in T : \A y \in T : ~ (<<y, x>> \in R)
  <2> HIDE DEF R
  <2> QED BY <1>1, WFMin
<1>3. \A x, y \in Nat : y < x => <<y, x>> \in R
  OBVIOUS
<1> HIDE DEF R
<1>4. \A x, y \in Nat : ~(y < x) => x <= y
  OBVIOUS
<1> QED BY <1>2, <1>3, <1>4

LEMMA NatStep == ASSUME NEW S \in SUBSET Nat, 0 \in S, \A n \in S : n + 1 \in S PROVE S = Nat
<1> SUFFICES ASSUME Nat \ S # {} PROVE FALSE
  OBVIOUS
<1>1. PICK m \in Nat \ S : \A k \in Nat \ S : m <= k
  BY NatSetMin
<1>2. m # 0 /\ m - 1 \in Nat
  BY <1>1
<1>3. m - 1 \in S
  BY <1>1, <1>2
<1>4. m - 1 + 1 = m
  BY <1>1
<1> QED BY <1>1, <1>3, <1>4


\* Some sequence of values of W begins with start and takes a step at every number.
Iterates(W, start, step) ==
    \E f \in [Nat -> W] : f[0] = start /\ \A n \in Nat : f[n + 1] = step[n + 1][f[n]]

LEMMA Iteration ==
    ASSUME NEW W, NEW start \in W, NEW step \in [Nat -> [W -> W]]
    PROVE  Iterates(W, start, step)
<1> DEFINE Runs(f, n) == /\ f \in [0..n -> W] /\ f[0] = start
                         /\ \A i \in Nat : i < n => f[i + 1] = step[i + 1][f[i]]
           Some == {n \in Nat : \E f : Runs(f, n)}
<1>1. Some = Nat
  <2>1. 0 \in Some
    <3>1. Runs([i \in 0..0 |-> start], 0)
      OBVIOUS
    <3> QED BY <3>1
  <2>2. ASSUME NEW n \in Some PROVE n + 1 \in Some
    <3>1. PICK f : Runs(f, n)
      OBVIOUS
    <3>a. n \in Nat /\ n + 1 \in Nat
      OBVIOUS
    <3> DEFINE g == [i \in 0..(n + 1) |-> IF i = n + 1 THEN step[n + 1][f[n]] ELSE f[i]]
    <3>2. f[n] \in W /\ step[n + 1][f[n]] \in W
      BY <3>1, <3>a
    <3>3. g \in [0..(n + 1) -> W] /\ g[0] = start
      BY <3>1, <3>2, <3>a
    <3>4. ASSUME NEW i \in Nat, i < n + 1 PROVE g[i + 1] = step[i + 1][g[i]]
      <4>1. CASE i = n
        <5>1. g[n] = f[n] /\ g[n + 1] = step[n + 1][f[n]]
          BY <3>a
        <5> QED BY <5>1, <4>1
      <4>2. CASE i < n
        <5>1. g[i] = f[i] /\ g[i + 1] = f[i + 1]
          BY <3>a, <4>2
        <5> QED BY <5>1, <4>2, <3>1
      <4> QED BY <3>4, <3>a, <4>1, <4>2
    <3>5. Runs(g, n + 1)
      BY <3>3, <3>4
    <3> QED BY <3>5, <3>a
  <2> HIDE DEF Some
  <2>3. Some \in SUBSET Nat
    BY DEF Some
  <2> QED BY <2>1, <2>2, <2>3, NatStep
<1>2. ASSUME NEW n \in Nat, NEW m \in Nat, NEW f, NEW g, Runs(f, n), Runs(g, m)
      PROVE  \A i \in Nat : i <= n /\ i <= m => f[i] = g[i]
  <2> DEFINE Same == {i \in Nat : i <= n /\ i <= m => f[i] = g[i]}
  <2>1. 0 \in Same
    BY <1>2
  <2>2. ASSUME NEW i \in Same PROVE i + 1 \in Same
    <3>1. SUFFICES ASSUME i + 1 <= n, i + 1 <= m PROVE f[i + 1] = g[i + 1]
      OBVIOUS
    <3>2. i \in Nat /\ i < n /\ i < m
      BY <3>1
    <3>3. f[i] = g[i]
      BY <3>2
    <3> QED BY <3>2, <3>3, <1>2
  <2> HIDE DEF Same
  <2>3. Same \in SUBSET Nat
    BY DEF Same
  <2>4. Same = Nat
    BY <2>1, <2>2, <2>3, NatStep
  <2> QED BY <2>4 DEF Same
<1> DEFINE pick == [n \in Nat |-> CHOOSE f : Runs(f, n)]
           whole == [n \in Nat |-> pick[n][n]]
<1>3. \A n \in Nat : Runs(pick[n], n)
  BY <1>1
<1> HIDE DEF pick, Some, Runs
<1>4. whole \in [Nat -> W] /\ whole[0] = start
  <2>1. \A n \in Nat : pick[n][n] \in W
    BY <1>3 DEF Runs
  <2>2. pick[0][0] = start
    BY <1>3 DEF Runs
  <2> QED BY <2>1, <2>2
<1>5. ASSUME NEW n \in Nat PROVE whole[n + 1] = step[n + 1][whole[n]]
  <2>1. Runs(pick[n], n) /\ n + 1 \in Nat
    BY <1>3
  <2>a. Runs(pick[n + 1], n + 1)
    BY <1>3, <2>1
  <2>2. pick[n + 1][n + 1] = step[n + 1][pick[n + 1][n]]
    BY <2>1, <2>a DEF Runs
  <2>3. pick[n + 1][n] = pick[n][n]
    <3>1. \A i \in Nat : i <= n + 1 /\ i <= n => pick[n + 1][i] = pick[n][i]
      BY <1>2, <2>1, <2>a
    <3> QED BY <3>1
  <2> QED BY <2>1, <2>2, <2>3
<1> HIDE DEF whole
<1> QED BY <1>4, <1>5 DEF Iterates

\* Replaying a log, whatever log it is, unfolds event by event.
ReplayOf(log) == CHOOSE f : f = [i \in Nat |-> IF i = 0 THEN "Pending"
                                               ELSE StatusAfter(f[i - 1], log[i].event)]

LEMMA ReplayIs == Replayed = ReplayOf(history) /\ Replayed' = ReplayOf(history')
BY DEF Replayed, ReplayOf

LEMMA ReplayUnfolds ==
    ASSUME NEW log
    PROVE  /\ ReplayOf(log)[0] = "Pending"
           /\ \A n \in Nat : /\ ReplayOf(log)[n] \in RunStatus
                             /\ ReplayOf(log)[n + 1] = StatusAfter(ReplayOf(log)[n], log[n + 1].event)
<1> DEFINE step == [n \in Nat |-> [s \in RunStatus |-> StatusAfter(s, log[n].event)]]
           replay == ReplayOf(log)
<1>1. step \in [Nat -> [RunStatus -> RunStatus]]
  BY StatusAfterType
<1>2. \A s \in RunStatus, n \in Nat : step[n][s] = StatusAfter(s, log[n].event)
  OBVIOUS
<1>3. "Pending" \in RunStatus
  BY DEF RunStatus
<1> HIDE DEF step
<1>r. Iterates(RunStatus, "Pending", step)
  BY <1>1, <1>3, Iteration
<1>4. PICK f \in [Nat -> RunStatus] :
          f[0] = "Pending" /\ \A n \in Nat : f[n + 1] = step[n + 1][f[n]]
  BY <1>r DEF Iterates
<1>5. ASSUME NEW n \in Nat PROVE f[n + 1] = StatusAfter(f[n], log[n + 1].event)
  <2>1. f[n] \in RunStatus /\ n + 1 \in Nat
    BY <1>4
  <2>2. f[n + 1] = step[n + 1][f[n]]
    BY <1>4
  <2>3. step[n + 1][f[n]] = StatusAfter(f[n], log[n + 1].event)
    BY <1>2, <2>1
  <2> QED
    BY <2>2, <2>3
<1>6. f = [i \in Nat |-> IF i = 0 THEN "Pending" ELSE StatusAfter(f[i - 1], log[i].event)]
  <2>1. \A i \in Nat : f[i] = IF i = 0 THEN "Pending" ELSE StatusAfter(f[i - 1], log[i].event)
    <3> SUFFICES ASSUME NEW i \in Nat, i # 0
                 PROVE  f[i] = StatusAfter(f[i - 1], log[i].event)
      BY <1>4
    <3>1. i - 1 \in Nat /\ (i - 1) + 1 = i
      OBVIOUS
    <3> QED
      BY <3>1, <1>5
  <2>2. f = [i \in Nat |-> f[i]]
    OBVIOUS
  <2> QED
    BY <2>1, <2>2
<1>7. replay = [i \in Nat |-> IF i = 0 THEN "Pending" ELSE StatusAfter(replay[i - 1], log[i].event)]
  BY <1>6, Zenon DEF ReplayOf
<1> HIDE DEF replay
<1>8. \A i \in Nat : replay[i] = f[i]
  <2> DEFINE Same == {i \in Nat : replay[i] = f[i]}
  <2>1. 0 \in Same
    BY <1>4, <1>7
  <2>2. ASSUME NEW i \in Same PROVE i + 1 \in Same
    <3>1. i + 1 \in Nat /\ (i + 1) - 1 = i /\ i + 1 # 0 /\ i \in Nat /\ replay[i] = f[i]
      OBVIOUS
    <3>2. replay[i + 1] = StatusAfter(replay[i], log[i + 1].event)
      BY <1>7, <3>1
    <3> QED
      BY <1>5, <3>1, <3>2
  <2> HIDE DEF Same
  <2>3. Same \in SUBSET Nat
    BY DEF Same
  <2>4. Same = Nat
    BY <2>1, <2>2, <2>3, NatStep
  <2> QED
    BY <2>4 DEF Same
<1> QED
  BY <1>4, <1>5, <1>8 DEF replay

\* A longer log replays to the same status up to where the shorter one ends.
LEMMA ReplayAppends ==
    ASSUME NEW log \in Seq(Envelopes), NEW e \in Envelopes
    PROVE  ReplayOf(Append(log, e))[Len(log) + 1] = StatusAfter(ReplayOf(log)[Len(log)], e.event)
<1> DEFINE more == Append(log, e)
           Same == {i \in Nat : i <= Len(log) => ReplayOf(more)[i] = ReplayOf(log)[i]}
<1>f. Len(log) \in Nat /\ \A i \in DOMAIN log : more[i] = log[i]
  BY AppendFacts
<1>l. more[Len(log) + 1] = e /\ DOMAIN log = 1..Len(log)
  BY AppendFacts
<1> HIDE DEF more
<1>1. 0 \in Same
  BY ReplayUnfolds
<1>2. ASSUME NEW i \in Same PROVE i + 1 \in Same
  <2> SUFFICES ASSUME i + 1 <= Len(log) PROVE ReplayOf(more)[i + 1] = ReplayOf(log)[i + 1]
    OBVIOUS
  <2>1. i \in Nat /\ i + 1 \in DOMAIN log /\ ReplayOf(more)[i] = ReplayOf(log)[i]
    BY <1>f, <1>l
  <2>2. more[i + 1] = log[i + 1]
    BY <1>f, <2>1
  <2> QED
    BY <2>1, <2>2, ReplayUnfolds
<1> HIDE DEF Same
<1>3. Same \in SUBSET Nat
  BY DEF Same
<1>4. Same = Nat
  BY <1>1, <1>2, <1>3, NatStep
<1>5. ReplayOf(more)[Len(log)] = ReplayOf(log)[Len(log)]
  BY <1>4, <1>f DEF Same
<1>6. ReplayOf(more)[Len(log) + 1] = StatusAfter(ReplayOf(more)[Len(log)], more[Len(log) + 1].event)
  BY <1>f, ReplayUnfolds
<1> QED
  BY <1>5, <1>6, <1>l DEF more

LEMMA ReplayStep ==
    ASSUME Inductive, ManagerTypeOK, OutboxInv, StatusInv, ReplayInv, ManagerNext
    PROVE  ReplayInv'
<1> DEFINE shown == ReplayOf(history)[Len(history)]
           Alone == \A p, q \in Publishers : pub[p].at # "idle" /\ pub[q].at # "idle" => p = q
           Behind == \A p \in Publishers : pub[p].at = "push" =>
                        status = StatusAfter(shown, pub[p].envelope.event)
           Level == (\A p \in Publishers : pub[p].at # "push") => status = shown
<1>h. HandleTypeOK /\ history \in Seq(Envelopes)
  BY DEF ManagerTypeOK, HandleTypeOK
<1>i. ReplayInv <=> (~overlapped /\ thread # "failed" => Alone /\ Behind /\ Level)
  BY ReplayIs DEF ReplayInv, Idle
<1>j. ReplayInv' <=> (~overlapped' /\ thread' # "failed" => Alone' /\ Behind' /\ Level')
  BY ReplayIs DEF ReplayInv, Idle
<1>k. SUFFICES ASSUME ~overlapped', thread' # "failed" PROVE Alone' /\ Behind' /\ Level'
  BY <1>j
<1>o. overlapped' = FALSE => overlapped = FALSE
  BY <1>h, ManagerCases, PublishMoves, PublisherFacts
     DEF HandleTypeOK, Spawn, SpawnFails, EngineRuns, EnginePublishes, EnginePublished, Complete,
         Announces, Quietly, CallPublished, TakeSeq, Overlaps, handleVars
<1>t. thread = "failed" => thread' = "failed"
  BY <1>h, ManagerCases
     DEF Spawn, SpawnFails, EngineRuns, EnginePublishes, EnginePublished, Complete, Announces,
         Quietly, CallPublished
<1>g. Alone /\ Behind /\ Level
  BY <1>i, <1>k, <1>o, <1>t
<1>u. ASSUME UNCHANGED <<status, history, pub>> PROVE Alone' /\ Behind' /\ Level'
  BY <1>g, <1>u
<1>1. CASE EngineRuns \/ Spawn \/ \E c \in Callers : Quietly(c)
  BY <1>1, <1>u DEF EngineRuns, Spawn, Quietly, handleVars, stateVars
<1>2. CASE SpawnFails
  BY <1>2, <1>k DEF SpawnFails
<1>3. CASE Complete
  <2>1. UNCHANGED <<history, pub>> /\ thread = "alive" /\ pc = "done" /\ status' = result
    BY <1>3 DEF Complete, Done
  <2>2. Passed({"push", "send"})
    BY <2>1 DEF Passed, OutboxInv, Inductive, FlagsInv
  <2>3. status = result
    BY <2>1, <2>2 DEF StatusInv
  <2> QED
    BY <2>1, <2>3, <1>u
<1>4. ASSUME NEW p \in Publishers, NEW event, TakeSeq(p, event)
      PROVE  Alone' /\ Behind' /\ Level'
  <2>1. /\ UNCHANGED <<status, history>> /\ pub[p].at = "idle" /\ pub'[p].at = "apply"
        /\ \A q \in Publishers : q # p => pub'[q] = pub[q]
    BY <1>4, <1>h, PublishMoves DEF stateVars
  <2>2. \A q \in Publishers : q # p => pub[q].at = "idle"
    BY <1>4, <1>k DEF TakeSeq, Overlaps, Idle
  <2> QED
    BY <1>g, <2>1, <2>2
<1>5. ASSUME NEW p \in Publishers, Apply(p) PROVE Alone' /\ Behind' /\ Level'
  <2>1. /\ UNCHANGED history /\ pub[p].at = "apply" /\ pub'[p].at = "push"
        /\ pub'[p].envelope = pub[p].envelope
        /\ status' = StatusAfter(status, pub[p].envelope.event)
        /\ \A q \in Publishers : q # p => pub'[q] = pub[q]
    BY <1>5, <1>h, PublishMoves
  <2>2. \A q \in Publishers : q # p => pub[q].at = "idle"
    BY <1>g, <2>1
  <2>3. status = shown /\ shown' = shown
    BY <1>g, <2>1, <2>2
  <2> HIDE DEF shown
  <2> QED
    BY <1>g, <2>1, <2>2, <2>3
<1>6. ASSUME NEW p \in Publishers, PushHistory(p) PROVE Alone' /\ Behind' /\ Level'
  <2>1. /\ UNCHANGED status /\ history' = Append(history, pub[p].envelope)
        /\ pub[p].at = "push" /\ pub'[p].at = "send"
        /\ \A q \in Publishers : q # p => pub'[q] = pub[q]
    BY <1>6, <1>h, PublishMoves DEF stateVars
  <2>2. \A q \in Publishers : q # p => pub[q].at = "idle"
    BY <1>g, <2>1
  <2>3. pub[p].envelope \in Envelopes
    BY <1>h, <2>1, PublicationFacts
  <2>4. Len(history') = Len(history) + 1
    BY <1>h, <2>1, <2>3, AppendFacts
  <2>5. shown' = StatusAfter(shown, pub[p].envelope.event)
    BY <1>h, <2>1, <2>3, <2>4, ReplayAppends
  <2>6. status' = shown'
    BY <1>g, <2>1, <2>5
  <2> HIDE DEF shown
  <2> QED
    BY <2>1, <2>2, <2>6, <1>g
<1>7. ASSUME NEW p \in Publishers, Broadcast(p) PROVE Alone' /\ Behind' /\ Level'
  <2>1. /\ UNCHANGED <<status, history>> /\ pub[p].at = "send" /\ pub'[p].at = "idle"
        /\ \A q \in Publishers : q # p => pub'[q] = pub[q]
    BY <1>7, <1>h, PublishMoves DEF stateVars
  <2> QED
    BY <1>g, <2>1
<1> QED
  BY <1>1, <1>2, <1>3, <1>4, <1>5, <1>6, <1>7, ManagerCases, PublisherFacts
     DEF EnginePublishes, EnginePublished, Announces, CallPublished

-----------------------------------------------------------------------------
\* The invariant and what follows from it.

LEMMA ManagerInductiveInit == ASSUME ManagerInit PROVE ManagerInductive
<1>1. Inductive
  BY InductiveInit DEF ManagerInit
<1>2. /\ thread = "none" /\ status = "Pending" /\ counted = 0 /\ stamped = FALSE
      /\ history = <<>> /\ nextSeq = 0 /\ sent = <<>> /\ overlapped = FALSE
      /\ pub = [p \in Publishers |-> [at |-> "idle"]]
      /\ call = [c \in Callers |-> "free"] /\ calls = [k \in Kinds |-> 0]
      /\ pc = "spawned" /\ result = "None" /\ outbox = <<>> /\ parked = FALSE
  BY DEF ManagerInit, Init, HandleInit
<1>3. \A p \in Publishers : pub[p].at = "idle"
  BY <1>2
<1>4. ManagerTypeOK
  <2>1. TypeOK
    BY <1>1 DEF Inductive
  <2>2. HandleTypeOK
    <3>1. pub \in [Publishers -> Publication]
      BY <1>2 DEF Publication
    <3>2. <<>> \in Seq(Envelopes) /\ "Pending" \in RunStatus
      BY DEF RunStatus
    <3> QED
      BY <1>2, <3>1, <3>2 DEF HandleTypeOK
  <2> QED
    BY <1>2, <2>1, <2>2 DEF ManagerTypeOK, CallPCs
<1>5. ThreadInv /\ PublishInv /\ ParkedInv /\ OutcomeInv
  BY <1>2, <1>3, PublisherFacts DEF ThreadInv, PublishInv, ParkedInv, OutcomeInv, Idle
<1>6. OutboxInv
  BY <1>2, ShortSeqs DEF OutboxInv, Emitting
<1>7. StatusInv /\ LogInv
  BY <1>2 DEF StatusInv, LogInv, Passed, Terminal
<1>8. FrozenInv
  BY <1>2, <1>3, PublisherFacts DEF FrozenInv, Idle
<1>9. ReplayInv
  <2>1. Replayed[Len(history)] = "Pending"
    BY <1>2, ReplayIs, ReplayUnfolds
  <2> QED
    BY <1>2, <1>3, <2>1 DEF ReplayInv, Idle
<1> QED
  BY <1>1, <1>4, <1>5, <1>6, <1>7, <1>8, <1>9 DEF ManagerInductive

LEMMA ManagerInductiveStep ==
    ASSUME ManagerInductive, [ManagerNext]_managerVars PROVE ManagerInductive'
<1>1. CASE ManagerNext
  BY <1>1, InductiveKept, ManagerTypeStep, ThreadStep, OutboxStep, PublishStep, StatusStep,
     OutcomeStep, LogStep, FrozenStep, ReplayStep
     DEF ManagerInductive
<1>2. CASE UNCHANGED managerVars
  <2>1. /\ UNCHANGED vars
        /\ UNCHANGED <<wf, pc, result, outbox, executed, parked, thread, call, calls>>
        /\ UNCHANGED <<status, counted, stamped, history, nextSeq, sent, pub, overlapped>>
    BY <1>2 DEF managerVars, vars, engineVars, controlVars, handleVars, stateVars
  <2>2. Inductive'
    BY <2>1, InductiveStep DEF ManagerInductive
  <2>3. ManagerTypeOK'
    BY <2>1, <2>2 DEF ManagerInductive, ManagerTypeOK, HandleTypeOK, Inductive
  <2>4. ThreadInv' /\ PublishInv' /\ OutboxInv' /\ ParkedInv' /\ OutcomeInv'
    BY <2>1 DEF ManagerInductive, ThreadInv, PublishInv, OutboxInv, Emitting, ParkedInv,
                OutcomeInv, Done, Idle
  <2>5. StatusInv' /\ FrozenInv'
    BY <2>1 DEF ManagerInductive, StatusInv, FrozenInv, Passed, Idle
  <2>6. LogInv'
    BY <2>1 DEF ManagerInductive, LogInv, Passed, IsTerminalEvent, EngineEvent
  <2>7. ReplayInv'
    BY <2>1, ReplayIs DEF ManagerInductive, ReplayInv, Idle
  <2> QED
    BY <2>2, <2>3, <2>4, <2>5, <2>6, <2>7 DEF ManagerInductive
<1> QED
  BY <1>1, <1>2

\* The manager's threads, whatever they do in between, keep the whole invariant
\* (runs.rs, RunHandle::publish and the API calls, with engine.rs inside).
THEOREM ManagerInvariantHolds == ManagerSpec => []ManagerInductive
<1>1. ManagerInit => ManagerInductive
  BY ManagerInductiveInit
<1>2. ManagerInductive /\ [ManagerNext]_managerVars => ManagerInductive'
  BY ManagerInductiveStep
<1> QED
  BY <1>1, <1>2, PTL DEF ManagerSpec

\* What the run manager serves is a run of the engine: to WorkflowEngine::run
\* the API threads of runs.rs are the operator of run_control.rs, and waiting
\* for an event to be published is waiting for the sink.  Every theorem about
\* the engine therefore holds of the runs the manager serves.
THEOREM ServedRunIsAnEngineRun == ManagerSpec => Spec
<1>1. ManagerInit => Init
  BY DEF ManagerInit
<1>2. [ManagerNext]_managerVars => [Next]_vars
  BY EngineInside DEF managerVars
<1> QED
  BY <1>1, <1>2, PTL DEF ManagerSpec, Spec

\* RunHandle's state keeps its shape: a status, a counter and a log of
\* envelopes, whoever publishes (runs.rs, RunState).
THEOREM ManagerTypeCorrect == ManagerSpec => []ManagerTypeOK
<1>1. ManagerInductive => ManagerTypeOK
  BY DEF ManagerInductive
<1> QED
  BY <1>1, ManagerInvariantHolds, PTL

\* A run that a snapshot showed finished is never shown otherwise: an event of
\* a pause or resumption that is published late, and RunHandle::complete, leave
\* its status alone (runs.rs, RunHandle::publish and complete).
THEOREM FinishedStaysFinished == ManagerSpec => TerminalIsFinal
<1>1. ManagerInductive /\ ManagerInductive' /\ [ManagerNext]_managerVars
         => [(status \in Terminal) => (status' = status)]_managerVars
  <2> SUFFICES ASSUME ManagerInductive, ManagerInductive', ManagerNext, status \in Terminal
               PROVE  status' = status
    OBVIOUS
  <2>1. CASE thread = "failed"
    <3>1. thread' = "failed"
      BY <2>1, ManagerCases
         DEF ManagerInductive, Spawn, SpawnFails, EngineRuns, EnginePublishes, EnginePublished,
             Complete, Announces, Quietly, CallPublished, PublishInv, Idle, Broadcast
    <3> QED
      BY <2>1, <3>1 DEF ManagerInductive, StatusInv
  <2>2. CASE thread # "failed"
    <3>1. Passed({"push", "send"}) /\ status = result
      BY <2>2 DEF ManagerInductive, StatusInv
    <3>2. CASE Apply(EngineThread)
      <4>1. pub[EngineThread].at = "apply" /\ outbox # <<>>
        BY <3>2 DEF ManagerInductive, Apply, PublishInv, Idle
      <4> QED
        BY <3>1, <4>1 DEF Passed
    <3>3. ASSUME NEW c \in Callers, Apply(c) PROVE status' = status
      <4>1. pub[c].envelope.event \in {"RunPaused", "RunResumed"}
        BY <3>3 DEF ManagerInductive, Apply, PublishInv, Idle
      <4> QED
        BY <3>3, <4>1, StatusAfterFacts DEF Apply
    <3>4. CASE SpawnFails
      BY <3>1, <3>4 DEF SpawnFails, ManagerInductive, ThreadInv, Inductive, FlagsInv, Passed
    <3>5. Complete => status' = result
      BY DEF Complete
    <3> QED
      BY <3>1, <3>2, <3>3, <3>4, <3>5, ManagerCases, PublisherFacts
         DEF ManagerInductive, Spawn, EngineRuns, EnginePublishes, EnginePublished, PushHistory,
             Announces, Quietly, CallPublished, TakeSeq, Broadcast, handleVars, stateVars
  <2> QED
    BY <2>1, <2>2
<1> QED
  BY <1>1, ManagerInvariantHolds, PTL DEF ManagerSpec, TerminalIsFinal

\* When the engine has reported back, the snapshot is the engine's outcome, with
\* its node count and its finishing time, and the log holds one terminal event,
\* that of the outcome, behind every other event of the engine (runs.rs,
\* RunHandle::complete and publish).
THEOREM OutcomeIsKept == ManagerSpec => []OutcomeStands
<1>1. ManagerInductive => OutcomeStands
  <2> SUFFICES ASSUME ManagerInductive, thread = "ended" PROVE OutcomeStands
    BY DEF OutcomeStands, LogTellsOutcome
  <2>1. result # "None" /\ outbox = <<>>
    BY DEF ManagerInductive, ThreadInv, Done, OutboxInv, Inductive, FlagsInv
  <2>2. Passed({"push", "send"}) /\ Passed({"send"})
    BY <2>1 DEF Passed
  <2>3. status = result /\ counted = executed /\ stamped
    BY <2>2 DEF ManagerInductive, StatusInv, OutcomeInv
  <2>4. PICK i \in DOMAIN history :
            /\ history[i].event = TerminalEvent[result]
            /\ \A j \in DOMAIN history : /\ j # i => ~IsTerminalEvent(history[j])
                                         /\ j > i => ~EngineEvent(history[j])
    BY <2>2 DEF ManagerInductive, LogInv
  <2>5. Count(IsTerminalEvent) = 1
    <3>1. result \in Terminal
      BY <2>1 DEF ManagerInductive, Inductive, TypeOK
    <3>2. IsTerminalEvent(history[i])
      BY <2>4, <3>1 DEF IsTerminalEvent, Terminal, TerminalEvent
    <3>3. {j \in DOMAIN history : IsTerminalEvent(history[j])} = {i}
      BY <2>4, <3>2
    <3> QED
      BY <3>3, FS_Singleton DEF Count
  <2>6. \A j \in (i + 1)..Len(history) : ~EngineEvent(history[j])
    <3>1. history \in Seq(Envelopes)
      BY DEF ManagerInductive, ManagerTypeOK, HandleTypeOK
    <3>2. \A j \in (i + 1)..Len(history) : j \in DOMAIN history /\ j > i
      BY <3>1
    <3> QED
      BY <2>4, <3>2
  <2> QED
    BY <2>3, <2>4, <2>5, <2>6 DEF OutcomeStands, LogTellsOutcome
<1> QED
  BY <1>1, ManagerInvariantHolds, PTL

\* The snapshot, the log and the thread describe one run: replaying the log
\* gives the status shown, as long as no two threads were inside publish at
\* once, and a run created paused shows that whenever it is suspended
\* (runs.rs, RunHandle::publish, mark_paused and mark_running).
THEOREM ManagerIsConsistent == ManagerSpec => []ManagerConsistent
<1>1. ManagerInductive => ReplayAgrees
  <2> SUFFICES ASSUME ManagerInductive, ~overlapped, AtRest, thread # "failed"
               PROVE  status = Replayed[Len(history)]
    BY DEF ReplayAgrees
  <2>1. \A p \in Publishers : pub[p].at # "push"
    BY DEF AtRest, Quiet, Idle
  <2> QED
    BY <2>1 DEF ManagerInductive, ReplayInv
<1>2. ManagerInductive => StartPausedShows
  <2> SUFFICES ASSUME ManagerInductive, wf.startPaused, calls["resume"] = 0,
                      calls["cancel"] = 0, parked
               PROVE  status = "Paused"
    BY DEF StartPausedShows
  <2>1. pc \in {"await", "breakAwait"} /\ outbox = <<>>
    BY DEF ManagerInductive, ParkedInv
  <2>2. result = "None" /\ pc # "spawned"
    BY <2>1 DEF ManagerInductive, Inductive, FlagsInv
  <2> QED
    BY <2>1, <2>2, ShortSeqs DEF ManagerInductive, FrozenInv
<1>3. ManagerInductive => ManagerConsistent
  BY <1>1, <1>2 DEF ManagerConsistent, ManagerInductive
<1> QED
  BY <1>3, ManagerInvariantHolds, PTL
=============================================================================
