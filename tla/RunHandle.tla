------------------------------ MODULE RunHandle ------------------------------
(***************************************************************************)
(* RunHandle (runs.rs): the state, the event history and the broadcast     *)
(* channel of one run, and `publish`, through which the engine thread and  *)
(* the API threads that pause or resume the run all record their events.   *)
(* Each of its four statements takes its own lock, none spans two of them. *)
(***************************************************************************)
EXTENDS Integers, Sequences

CONSTANT Publishers  \* the threads that publish

VARIABLES
    status,    \* RunState.status
    counted,   \* RunState.nodes_executed
    stamped,   \* RunState.finished_at_ms is set
    history,   \* the recorded envelopes, in the order they were pushed
    nextSeq,   \* next_seq
    sent,      \* the envelopes broadcast, in order
    pub,       \* what each thread is publishing: Publication
    overlapped \* history variable: two threads were inside publish at once

stateVars == <<status, counted, stamped>>
handleVars == <<stateVars, history, nextSeq, sent, pub, overlapped>>

RunEvents == {"RunStarted", "RunPaused", "RunResumed", "NodeStarted",
              "NodeFinished", "NodeFailed", "RunCompleted", "RunFailed",
              "RunCancelled"}
TerminalStatus == {"Completed", "Failed", "Cancelled"}
RunStatus == {"Pending", "Running", "Paused"} \cup TerminalStatus

Envelopes == [seq : Nat, event : RunEvents]
Publication == [at : {"apply", "push", "send"}, envelope : Envelopes]
               \cup {[at |-> "idle"]}

HandleTypeOK ==
    /\ status \in RunStatus
    /\ counted \in Nat /\ stamped \in BOOLEAN
    /\ history \in Seq(Envelopes) /\ sent \in Seq(Envelopes)
    /\ nextSeq \in Nat
    /\ pub \in [Publishers -> Publication]
    /\ overlapped \in BOOLEAN

HandleInit ==
    /\ status = "Pending" /\ counted = 0 /\ stamped = FALSE
    /\ history = <<>> /\ nextSeq = 0 /\ sent = <<>>
    /\ pub = [p \in Publishers |-> [at |-> "idle"]] /\ overlapped = FALSE

Idle(p) == pub[p].at = "idle"
Quiet == \A p \in Publishers : Idle(p)

-----------------------------------------------------------------------------
\* publish, statement by statement.

Overlaps(p) ==
    overlapped' = (overlapped \/ \E q \in Publishers \ {p} : ~Idle(q))

\* next_seq.fetch_add
TakeSeq(p, event) ==
    /\ Idle(p)
    /\ pub' = [pub EXCEPT ![p] = [at |-> "apply",
                                  envelope |-> [seq |-> nextSeq, event |-> event]]]
    /\ nextSeq' = nextSeq + 1
    /\ Overlaps(p)
    /\ UNCHANGED <<stateVars, history, sent>>

\* Mutants: a pause is applied whatever the status; so is a resumption.
PausedRegardless(s, event) ==
    CASE event = "RunStarted"   -> "Running"
      [] event = "RunPaused"    -> "Paused"
      [] event = "RunCompleted" -> "Completed"
      [] event = "RunFailed"    -> "Failed"
      [] event = "RunCancelled" -> "Cancelled"
      [] OTHER                  -> s
ResumedRegardless(s, event) ==
    CASE event \in {"RunStarted", "RunResumed"} -> "Running"
      [] event = "RunPaused" /\ s \notin TerminalStatus -> "Paused"
      [] event = "RunCompleted" -> "Completed"
      [] event = "RunFailed"    -> "Failed"
      [] event = "RunCancelled" -> "Cancelled"
      [] OTHER                  -> s

\* What an event makes of the status.
StatusAfter(s, event) ==
    CASE event = "RunStarted" -> "Running"
      [] event = "RunPaused" /\ s \notin TerminalStatus -> "Paused"
      [] event = "RunResumed" /\ s = "Paused" -> "Running"
      [] event = "RunCompleted" -> "Completed"
      [] event = "RunFailed"    -> "Failed"
      [] event = "RunCancelled" -> "Cancelled"
      [] OTHER                  -> s

Apply(p) ==
    /\ pub[p].at = "apply"
    /\ LET event == pub[p].envelope.event IN
         /\ status' = StatusAfter(status, event)
         /\ counted' = IF event = "NodeFinished" THEN counted + 1 ELSE counted
         /\ stamped' = (stamped \/ event \in {"RunCompleted", "RunFailed", "RunCancelled"})
    /\ pub' = [pub EXCEPT ![p].at = "push"]
    /\ UNCHANGED <<history, nextSeq, sent, overlapped>>

PushHistory(p) ==
    /\ pub[p].at = "push"
    /\ history' = Append(history, pub[p].envelope)
    /\ pub' = [pub EXCEPT ![p].at = "send"]
    /\ UNCHANGED <<stateVars, nextSeq, sent, overlapped>>

Broadcast(p) ==
    /\ pub[p].at = "send"
    /\ sent' = Append(sent, pub[p].envelope)
    /\ pub' = [pub EXCEPT ![p] = [at |-> "idle"]]
    /\ UNCHANGED <<stateVars, history, nextSeq, overlapped>>
=============================================================================
