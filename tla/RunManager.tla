----------------------------- MODULE RunManager -----------------------------
(***************************************************************************)
(* One run as the runtime serves it (runs.rs): the run manager starts the  *)
(* engine on a thread, the engine's events go through RunHandle.publish,   *)
(* and API threads pause, resume, step and cancel the run.  The control    *)
(* flags, the handle's state and its history are changed one after the     *)
(* other, each under its own lock.                                         *)
(***************************************************************************)
EXTENDS Engine, RunHandle

CONSTANTS Callers,   \* API threads
          EngineThread,
          MaxCalls   \* bound on the calls they make

ASSUME ManagerAssumption == /\ Publishers = Callers \cup {EngineThread}
                            /\ EngineThread \notin Callers
                            /\ MaxCalls \in Nat

VARIABLES
    thread,    \* the run thread: "none" before spawn, "alive", "failed", "ended"
    call,      \* what each API thread is doing
    calls      \* calls made so far, of each kind

managerVars == <<vars, handleVars, thread, call, calls>>

Kinds == {"pause", "resume", "step", "cancel"}
CallPCs == {"free", "pauseFlag", "markPaused", "markRunning", "publishing"}

ManagerTypeOK ==
    /\ TypeOK /\ HandleTypeOK
    /\ thread \in {"none", "alive", "failed", "ended"}
    /\ call \in [Callers -> CallPCs]
    /\ calls \in [Kinds -> Nat]

ManagerInit ==
    /\ Init /\ HandleInit
    /\ thread = "none"
    /\ call = [c \in Callers |-> "free"]
    /\ calls = [k \in Kinds |-> 0]

-----------------------------------------------------------------------------
\* start_with_options: the handle is registered, then the thread spawned.

Spawn == /\ thread = "none"
         /\ thread' = "alive"
         /\ UNCHANGED <<vars, handleVars, call, calls>>

\* The thread could not be created: E_THREAD goes straight into the state.
SpawnFails == /\ thread = "none"
              /\ thread' = "failed"
              /\ status' = "Failed" /\ counted' = 0 /\ stamped' = TRUE
              /\ UNCHANGED <<vars, history, nextSeq, sent, pub, overlapped, call, calls>>

\* The run thread: the engine, whose next event is published by HandleSink
\* before it goes on, and then RunHandle::complete.
EngineRuns == /\ thread = "alive"
              /\ EngineStep
              /\ UNCHANGED <<handleVars, thread, call, calls>>

EnginePublishes ==
    /\ thread = "alive" /\ outbox # <<>>
    /\ TakeSeq(EngineThread, Head(outbox))
    /\ UNCHANGED <<vars, thread, call, calls>>

EnginePublished == /\ Broadcast(EngineThread)
                   /\ Emit
                   /\ UNCHANGED <<thread, call, calls>>

Complete == /\ thread = "alive" /\ Done
            /\ thread' = "ended"
            /\ status' = result /\ counted' = executed /\ stamped' = TRUE
            /\ UNCHANGED <<vars, history, nextSeq, sent, pub, overlapped, call, calls>>

-----------------------------------------------------------------------------
\* The API threads.

Calls(c, kind) == /\ call[c] = "free"
                  /\ calls["pause"] + calls["resume"] + calls["step"] + calls["cancel"] < MaxCalls
                  /\ calls' = [calls EXCEPT ![kind] = @ + 1]

Goes(c, where) == call' = [call EXCEPT ![c] = where]

\* pause: a finished run is refused with E_RUN_FINISHED, on a snapshot.
CallPause(c) == /\ Calls(c, "pause")
                /\ status \notin Terminal
                /\ Goes(c, "pauseFlag")
                /\ UNCHANGED <<vars, handleVars, thread>>

PauseFlag(c) == /\ call[c] = "pauseFlag"
                /\ OperatorPauses
                /\ Goes(c, "markPaused")
                /\ UNCHANGED <<handleVars, thread, calls>>

\* Mutant: the pause is shown and no event says so.
MarkPausedSilently(c) ==
    /\ call[c] = "markPaused"
    /\ Goes(c, "free")
    /\ status' = IF status \in Terminal THEN status ELSE "Paused"
    /\ UNCHANGED <<vars, counted, stamped, history, nextSeq, sent, pub, overlapped,
                   thread, calls>>

\* mark_paused and mark_running look at the status, release it and publish.
MarkPaused(c) ==
    /\ call[c] = "markPaused"
    /\ IF status \in Terminal \cup {"Paused"}
       THEN Goes(c, "free") /\ UNCHANGED handleVars
       ELSE Goes(c, "publishing") /\ TakeSeq(c, "RunPaused")
    /\ UNCHANGED <<vars, thread, calls>>

CallResume(c) == /\ Calls(c, "resume")
                 /\ OperatorResumes
                 /\ Goes(c, "markRunning")
                 /\ UNCHANGED <<handleVars, thread>>

MarkRunning(c) ==
    /\ call[c] = "markRunning"
    /\ IF status # "Paused"
       THEN Goes(c, "free") /\ UNCHANGED handleVars
       ELSE Goes(c, "publishing") /\ TakeSeq(c, "RunResumed")
    /\ UNCHANGED <<vars, thread, calls>>

CallStep(c) == /\ Calls(c, "step")
               /\ OperatorSteps
               /\ UNCHANGED <<handleVars, thread, call>>

CallCancel(c) == /\ Calls(c, "cancel")
                 /\ OperatorCancels
                 /\ UNCHANGED <<handleVars, thread, call>>

CallPublished(c) == /\ Broadcast(c)
                    /\ Goes(c, "free")
                    /\ UNCHANGED <<vars, thread, calls>>

Caller(c) == \/ CallPause(c) \/ PauseFlag(c) \/ MarkPaused(c)
             \/ CallResume(c) \/ MarkRunning(c)
             \/ CallStep(c) \/ CallCancel(c) \/ CallPublished(c)

Publishing(p) == /\ Apply(p) \/ PushHistory(p)
                 /\ UNCHANGED <<vars, thread, call, calls>>

RunThread == \/ EngineRuns \/ EnginePublishes \/ Publishing(EngineThread)
             \/ EnginePublished \/ Complete

ManagerNext == \/ Spawn \/ SpawnFails \/ RunThread
               \/ \E c \in Callers : Caller(c) \/ Publishing(c)

ManagerSpec == ManagerInit /\ [][ManagerNext]_managerVars

-----------------------------------------------------------------------------
\* Properties

IsTerminalEvent(e) == e.event \in {"RunCompleted", "RunFailed", "RunCancelled"}
Count(Test(_)) == Cardinality({i \in DOMAIN history : Test(history[i])})

\* Once a snapshot says the run is over it never says anything else: no event
\* of a late pause or resume revives it, and the outcome agrees with the event.
TerminalIsFinal == [][(status \in Terminal) => (status' = status)]_managerVars

\* The log of a finished run tells its outcome: it holds one terminal event,
\* that of the result, after every other event of the engine.
EngineEvent(e) == e.event \notin {"RunPaused", "RunResumed"}
LogTellsOutcome ==
    thread = "ended" =>
        /\ Count(IsTerminalEvent) = 1
        /\ \E i \in DOMAIN history :
              /\ history[i].event = TerminalEvent[result]
              /\ \A j \in (i + 1)..Len(history) : ~EngineEvent(history[j])

\* When the run thread has reported back, the state is the engine's outcome,
\* whatever API threads were publishing in between, and the log tells it.
OutcomeStands ==
    /\ thread = "ended" => status = result /\ counted = executed /\ stamped
    /\ LogTellsOutcome

\* A run created with start_paused that nobody resumed or cancelled shows
\* `paused` whenever it is suspended, after each step too
\* (protocol/runtime-api.md, "The snapshot becomes `paused`").
StartPausedShows ==
    wf.startPaused /\ calls["resume"] = 0 /\ calls["cancel"] = 0 /\ parked
        => status = "Paused"

\* A suspended run shows `paused` (event.rs, RunStatus::Paused, "Suspended by
\* an operator or policy"), once no event is being published.
AtRest == Quiet /\ outbox = <<>> /\ \A c \in Callers : call[c] = "free"
SuspendedShowsPaused == parked /\ AtRest => status = "Paused"

\* Replaying the log gives the status of the snapshot (CHANGELOG.md, "so
\* WebSocket clients and replayed event streams stay consistent with the run
\* snapshot"), unless two threads were publishing at once.
Replayed[i \in Nat] == IF i = 0 THEN "Pending"
                       ELSE StatusAfter(Replayed[i - 1], history[i].event)
ReplayAgrees ==
    ~overlapped /\ AtRest /\ thread # "failed" => status = Replayed[Len(history)]

\* The snapshot, the log and the thread describe one run (runs.rs:172-265).
ManagerConsistent == ManagerTypeOK /\ ReplayAgrees /\ StartPausedShows
=============================================================================
