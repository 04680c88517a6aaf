------------------------ MODULE RunManagerInvariant ------------------------
(***************************************************************************)
(* The inductive invariant behind the safety properties of RunManager.  It *)
(* follows one event of the engine from its outbox through the statements  *)
(* of publish, and says what the snapshot and the log know meanwhile.      *)
(***************************************************************************)
EXTENDS RunManager, EngineInvariant

\* The thread: the engine waits for it, and it ends with the engine.
ThreadInv == /\ thread \in {"none", "failed"} => pc = "spawned"
             /\ thread = "ended" => Done

\* An API thread publishes a pause or a resumption; the engine thread publishes
\* the event at the head of its outbox, and goes on only when that is out.
PublishInv ==
    /\ \A c \in Callers : ~Idle(c) => /\ call[c] = "publishing"
                                      /\ pub[c].envelope.event \in {"RunPaused", "RunResumed"}
    /\ ~Idle(EngineThread) => /\ thread = "alive" /\ outbox # <<>>
                              /\ pub[EngineThread].envelope.event = Head(outbox)

\* What the thread may have left to emit: a verdict comes last, and RunStarted
\* comes first, with the pause of a run created paused behind it.
Emitting ==
    IF result = "None"
    THEN {<<>>, <<"RunStarted">>, <<"RunStarted", "RunPaused">>, <<"RunPaused">>,
          <<"NodeStarted">>, <<"NodeFinished">>, <<"NodeFailed">>}
    ELSE {<<>>, <<TerminalEvent[result]>>, <<"NodeFailed", TerminalEvent[result]>>}
OutboxInv == /\ outbox \in Emitting
             /\ pc \in {"spawned", "done"} => outbox = <<>>
             /\ wf.startPaused => outbox # <<"RunStarted">>

\* A sleeping thread has told everything that led to its sleep.
ParkedInv == parked => pc \in {"await", "breakAwait"} /\ outbox = <<>>

\* The verdict has passed the statement of publish that is behind `places`.
Passed(places) == /\ result # "None"
                  /\ \/ outbox = <<>>
                     \/ Len(outbox) = 1 /\ pub[EngineThread].at \in places

\* The snapshot is final exactly when the verdict has been applied to it.
StatusInv == IF thread = "failed" THEN status = "Failed"
             ELSE IF Passed({"push", "send"}) THEN status = result
             ELSE status \notin Terminal

OutcomeInv == thread = "ended" => counted = executed /\ stamped

\* The log holds the verdict from its push on, and no event of the engine after it.
LogInv ==
    IF Passed({"send"})
    THEN \E i \in DOMAIN history :
            /\ history[i].event = TerminalEvent[result]
            /\ \A j \in DOMAIN history :
                  /\ j # i => ~IsTerminalEvent(history[j])
                  /\ j > i => ~EngineEvent(history[j])
    ELSE \A j \in DOMAIN history : ~IsTerminalEvent(history[j])

\* A run created paused, which nobody resumed or cancelled, shows it from the
\* moment the pause behind RunStarted is applied.
FrozenInv ==
    wf.startPaused /\ calls["resume"] = 0 /\ calls["cancel"] = 0 =>
        /\ \A c \in Callers : /\ call[c] # "markRunning"
                              /\ ~Idle(c) => pub[c].envelope.event = "RunPaused"
        /\ result = "None" /\ pc # "spawned" =>
              \/ outbox = <<"RunStarted", "RunPaused">>
              \/ outbox = <<"RunPaused">> /\ pub[EngineThread].at \in {"idle", "apply"}
              \/ status = "Paused"

\* While publications have not overlapped the log replays to the snapshot, but
\* for the event that is applied and not yet in it.
ReplayInv ==
    ~overlapped /\ thread # "failed" =>
        /\ \A p, q \in Publishers : ~Idle(p) /\ ~Idle(q) => p = q
        /\ \A p \in Publishers : pub[p].at = "push" =>
              status = StatusAfter(Replayed[Len(history)], pub[p].envelope.event)
        /\ (\A p \in Publishers : pub[p].at # "push") => status = Replayed[Len(history)]

\* The whole invariant: with that of the engine, which runs inside.
ManagerInductive ==
    /\ Inductive /\ ManagerTypeOK
    /\ ThreadInv /\ PublishInv /\ OutboxInv /\ ParkedInv /\ StatusInv /\ OutcomeInv
    /\ LogInv /\ FrozenInv /\ ReplayInv
=============================================================================
