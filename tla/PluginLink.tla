----------------------------- MODULE PluginLink -----------------------------
(***************************************************************************)
(* A plugin process seen from the runtime: StdioTransport (transport.rs),  *)
(* which matches responses to the threads that wait for them, PluginServer *)
(* (server.rs), which serves every request on a thread of its own, and     *)
(* their users: engine threads that execute a node, and execute it again   *)
(* when it failed or timed out (executor.rs, engine.rs), and API threads   *)
(* that cancel a run (PluginHost::cancel_run).                             *)
(***************************************************************************)
EXTENDS Integers, FiniteSets, Sequences

CONSTANTS Runs,        \* runs, each with its engine thread
          Cancellers,  \* API threads that serve one cancellation
          MaxAttempts  \* the node's `retry`, plus one

ASSUME LinkAssumption == MaxAttempts \in Nat /\ Runs \cap Cancellers = {}

Callers == Runs \cup Cancellers

VARIABLES
    \* The runtime.
    cancelled, \* the runs whose RunControl is cancelled
    attempts,  \* executor calls each run has made
    call,      \* what each thread does in StdioTransport::request
    nextId,    \* next_id
    pending,   \* ids in the pending map
    mailbox,   \* responses in the channels of their callers
    alive,     \* the transport's flag
    reader,    \* the thread that reads the plugin's output
    \* The pipes.
    stdin, stdout,
    \* The plugin process.
    up,        \* it runs
    served,    \* the threads serving requests
    table,     \* PluginServer.runs: run -> id of the execution that owns the control
    flagged,   \* executions whose control is cancelled
    \* History variables.
    shared,    \* executions that ran beside another one of their run
    missed     \* awaited executions that a cancellation of their run passed by

runtimeVars == <<cancelled, attempts, call, nextId, pending, mailbox, alive, reader>>
pluginVars == <<up, served, table, flagged, shared, missed>>
linkVars == <<runtimeVars, stdin, stdout, pluginVars>>

Results == {"ok", "failed", "cancelled"}
Errors == {"timeout", "disconnected", "broken"}

Request == [id : Nat, run : Runs, method : {"execute", "cancel"}, attempt : Nat]
Response == [to : Request, result : Results]  \* the code keeps only the id of `to`
Garbage == [line |-> "not UTF-8"]

\* Every variable has its type, and an id that waits for an answer has been
\* handed out by next_id.
LinkTypeOK ==
    /\ cancelled \in SUBSET Runs /\ attempts \in [Runs -> Nat]
    /\ call \in [Callers -> [at : {"free", "entered", "checked", "inserted",
                                   "waiting", "expired"},
                             run : Runs, id : Nat,
                             got : Results \cup Errors \cup {"nothing"}]]
    /\ nextId \in Nat /\ pending \in SUBSET (1..nextId) /\ mailbox \in SUBSET Response
    /\ alive \in BOOLEAN /\ reader \in {"reading", "broken", "dead", "gone"}
    /\ stdin \in Seq(Request) /\ stdout \in Seq(Response \cup {Garbage})
    /\ up \in BOOLEAN
    /\ served \in SUBSET [request : Request, result : Results \cup {"none"},
                          at : {"spawned", "running", "finished"}]
    /\ table \in [Runs -> Nat]
    /\ flagged \in SUBSET Nat /\ shared \in SUBSET Nat /\ missed \in SUBSET Nat

\* The handshake is over.
LinkInit ==
    /\ cancelled = {} /\ attempts = [r \in Runs |-> 0]
    /\ \E r \in Runs :
          call = [c \in Callers |-> [at |-> "free", run |-> IF c \in Runs THEN c ELSE r,
                                     id |-> 0, got |-> "nothing"]]
    /\ nextId = 0 /\ pending = {} /\ mailbox = {} /\ alive = TRUE /\ reader = "reading"
    /\ stdin = <<>> /\ stdout = <<>>
    /\ up = TRUE /\ served = {} /\ table = [r \in Runs |-> 0] /\ flagged = {}
    /\ shared = {} /\ missed = {}

-----------------------------------------------------------------------------
\* The callers.

At(c, where) == call[c].at = where
Goes(c, where) == call' = [call EXCEPT ![c].at = where]
Asked(c) == [id |-> call[c].id, run |-> call[c].run,
             method |-> IF c \in Runs THEN "execute" ELSE "cancel",
             attempt |-> IF c \in Runs THEN attempts[c] ELSE 0]
Returns(c, what) == call' = [call EXCEPT ![c].at = "free", ![c].got = what]

\* PluginExecutor::execute, at first and after a failure: not in a cancelled run.
Execute(r) ==
    /\ At(r, "free") /\ call[r].got \notin {"ok", "cancelled"}
    /\ attempts[r] < MaxAttempts /\ r \notin cancelled
    /\ attempts' = [attempts EXCEPT ![r] = @ + 1]
    /\ Goes(r, "entered")
    /\ UNCHANGED <<cancelled, nextId, pending, mailbox, alive, reader, stdin, stdout, pluginVars>>

\* cancel_run: the run's control first, then a request to the plugin.
CancelRun(k) ==
    /\ At(k, "free") /\ call[k].got = "nothing"
    /\ cancelled' = cancelled \cup {call[k].run}
    /\ Goes(k, "entered")
    /\ UNCHANGED <<attempts, nextId, pending, mailbox, alive, reader, stdin, stdout, pluginVars>>

\* request, from its first check ...
CheckAlive(c) ==
    /\ At(c, "entered")
    /\ IF alive THEN Goes(c, "checked") ELSE Returns(c, "disconnected")
    /\ UNCHANGED <<cancelled, attempts, nextId, pending, mailbox, alive, reader,
                   stdin, stdout, pluginVars>>

\* Mutant: an id is free again when its call is over.
InsertReused(c) ==
    /\ At(c, "checked")
    /\ LET id == CHOOSE i \in 1..(nextId + 1) : i \notin pending IN
         /\ pending' = pending \cup {id}
         /\ call' = [call EXCEPT ![c].at = "inserted", ![c].id = id]
    /\ nextId' = nextId + 1
    /\ UNCHANGED <<cancelled, attempts, mailbox, alive, reader, stdin, stdout, pluginVars>>

\* ... a fresh id into the pending map ...
Insert(c) ==
    /\ At(c, "checked")
    /\ nextId' = nextId + 1
    /\ pending' = pending \cup {nextId + 1}
    /\ call' = [call EXCEPT ![c].at = "inserted", ![c].id = nextId + 1]
    /\ UNCHANGED <<cancelled, attempts, mailbox, alive, reader, stdin, stdout, pluginVars>>

\* ... the frame to the plugin, whose pipe breaks when it is dead ...
Write(c) ==
    /\ At(c, "inserted")
    /\ IF up
       THEN /\ stdin' = Append(stdin, Asked(c))
            /\ Goes(c, "waiting")
            /\ UNCHANGED pending
       ELSE /\ pending' = pending \ {call[c].id}
            /\ Returns(c, "broken")
            /\ UNCHANGED stdin
    /\ UNCHANGED <<cancelled, attempts, nextId, mailbox, alive, reader, stdout, pluginVars>>

\* ... and the wait: for a response, ...
Receive(c) ==
    /\ At(c, "waiting")
    /\ \E m \in mailbox : /\ m.to.id = call[c].id
                          /\ Returns(c, m.result)
                          /\ mailbox' = mailbox \ {m}
    /\ UNCHANGED <<cancelled, attempts, nextId, pending, alive, reader, stdin, stdout, pluginVars>>

\* ... until the sender is dropped without one, ...
Disconnect(c) ==
    /\ At(c, "waiting") /\ call[c].id \notin pending
    /\ \A m \in mailbox : m.to.id # call[c].id
    /\ Returns(c, "disconnected")
    /\ UNCHANGED <<cancelled, attempts, nextId, pending, mailbox, alive, reader,
                   stdin, stdout, pluginVars>>

\* ... or until its time is up, which a response may still overtake.
Expire(c) ==
    /\ At(c, "waiting")
    /\ \A m \in mailbox : m.to.id # call[c].id
    /\ Goes(c, "expired")
    /\ UNCHANGED <<cancelled, attempts, nextId, pending, mailbox, alive, reader,
                   stdin, stdout, pluginVars>>

\* Mutant: a call that timed out stays pending.
GiveUpLeaky(c) ==
    /\ At(c, "expired")
    /\ mailbox' = {m \in mailbox : m.to.id # call[c].id}
    /\ Returns(c, "timeout")
    /\ UNCHANGED <<cancelled, attempts, nextId, pending, alive, reader, stdin, stdout, pluginVars>>

GiveUp(c) ==
    /\ At(c, "expired")
    /\ pending' = pending \ {call[c].id}
    /\ mailbox' = {m \in mailbox : m.to.id # call[c].id}
    /\ Returns(c, "timeout")
    /\ UNCHANGED <<cancelled, attempts, nextId, alive, reader, stdin, stdout, pluginVars>>

Caller(c) == \/ CheckAlive(c) \/ Insert(c) \/ Write(c)
             \/ Receive(c) \/ Disconnect(c) \/ Expire(c) \/ GiveUp(c)

-----------------------------------------------------------------------------
\* The reader thread of the transport.

ReadResponse ==
    /\ reader = "reading" /\ stdout # <<>> /\ Head(stdout) # Garbage
    /\ stdout' = Tail(stdout)
    /\ IF Head(stdout).to.id \in pending
       THEN /\ pending' = pending \ {Head(stdout).to.id}
            /\ mailbox' = mailbox \cup {Head(stdout)}
       ELSE UNCHANGED <<pending, mailbox>>
    /\ UNCHANGED <<cancelled, attempts, call, nextId, alive, reader, stdin, pluginVars>>

\* A line that cannot be read, or the end of the output, ends the loop; ...
ReadEnds ==
    /\ reader = "reading"
    /\ \/ stdout # <<>> /\ Head(stdout) = Garbage
       \/ stdout = <<>> /\ ~up
    /\ reader' = "broken"
    /\ UNCHANGED <<cancelled, attempts, call, nextId, pending, mailbox, alive,
                   stdin, stdout, pluginVars>>

\* Mutant: the waiters are woken before the flag is down.
WakeFirst ==
    /\ \/ reader = "broken" /\ reader' = "dead" /\ pending' = {} /\ UNCHANGED alive
       \/ reader = "dead" /\ reader' = "gone" /\ alive' = FALSE /\ UNCHANGED pending
    /\ UNCHANGED <<cancelled, attempts, call, nextId, mailbox, stdin, stdout, pluginVars>>

\* ... then the flag falls and the waiters lose their senders.
LeaveLoop ==
    /\ \/ reader = "broken" /\ reader' = "dead" /\ alive' = FALSE /\ UNCHANGED pending
       \/ reader = "dead" /\ reader' = "gone" /\ pending' = {} /\ UNCHANGED alive
    /\ UNCHANGED <<cancelled, attempts, call, nextId, mailbox, stdin, stdout, pluginVars>>

\* close: the flag falls; the process that it kills is gone soon after.
Close == /\ alive /\ alive' = FALSE
         /\ UNCHANGED <<cancelled, attempts, call, nextId, pending, mailbox, reader,
                        stdin, stdout, pluginVars>>

Reader == ReadResponse \/ ReadEnds \/ LeaveLoop

-----------------------------------------------------------------------------
\* The plugin process.

Moves(h, at, result) ==
    served' = (served \ {h}) \cup {[h EXCEPT !.at = at, !.result = result]}

Running(r) == {h \in served : h.at = "running" /\ h.request.run = r}
IdsOf(threads) == {h.request.id : h \in threads}

\* serve_stdio: one thread per request, in the order of the frames.
Dispatch ==
    /\ up /\ stdin # <<>>
    /\ served' = served \cup {[request |-> Head(stdin), result |-> "none", at |-> "spawned"]}
    /\ stdin' = Tail(stdin)
    /\ UNCHANGED <<runtimeVars, stdout, up, table, flagged, shared, missed>>

\* Mutant: the control is in the table only until the executor starts.
RegisterBriefly(h) ==
    /\ h.at = "spawned" /\ h.request.method = "execute"
    /\ table' = [table EXCEPT ![h.request.run] = 0]
    /\ Moves(h, "running", "none")
    /\ shared' = IF Running(h.request.run) = {} THEN shared
                 ELSE shared \cup IdsOf(Running(h.request.run)) \cup {h.request.id}
    /\ UNCHANGED <<runtimeVars, stdin, stdout, up, flagged, missed>>

\* execute: a fresh control replaces the one its run may have in the table.  The
\* runtime sends only node types the plugin has and artifacts it can decode, and
\* executors do not panic.
Register(h) ==
    /\ h.at = "spawned" /\ h.request.method = "execute"
    /\ table' = [table EXCEPT ![h.request.run] = h.request.id]
    /\ Moves(h, "running", "none")
    /\ shared' = IF Running(h.request.run) = {} THEN shared
                 ELSE shared \cup IdsOf(Running(h.request.run)) \cup {h.request.id}
    /\ UNCHANGED <<runtimeVars, stdin, stdout, up, flagged, missed>>

\* The executor is done, and takes the run's entry from the table, whosever it is.
Finish(h) ==
    /\ h.at = "running"
    /\ \E result \in Results :
          /\ result = "cancelled" => h.request.id \in flagged
          /\ Moves(h, "finished", result)
    /\ table' = [table EXCEPT ![h.request.run] = 0]
    /\ UNCHANGED <<runtimeVars, stdin, stdout, up, flagged, shared, missed>>

\* cancel: the control that is in the table for the run.
Awaited(h) == \E c \in Runs : At(c, "waiting") /\ call[c].id = h.request.id
ServeCancel(h) ==
    /\ h.at = "spawned" /\ h.request.method = "cancel"
    /\ flagged' = flagged \cup ({table[h.request.run]} \ {0})
    /\ missed' = missed \cup
                 (IdsOf({e \in Running(h.request.run) : Awaited(e)}) \ flagged')
    /\ Moves(h, "finished", "ok")
    /\ UNCHANGED <<runtimeVars, stdin, stdout, up, table, shared>>

Respond(h) ==
    /\ h.at = "finished"
    /\ stdout' = Append(stdout, [to |-> h.request, result |-> h.result])
    /\ served' = served \ {h}
    /\ UNCHANGED <<runtimeVars, stdin, up, table, flagged, shared, missed>>

\* The process prints something else than UTF-8, once; or it dies.
Babble == /\ up /\ reader = "reading" /\ \A i \in DOMAIN stdout : stdout[i] # Garbage
          /\ stdout' = Append(stdout, Garbage)
          /\ UNCHANGED <<runtimeVars, stdin, pluginVars>>

Die == /\ up /\ up' = FALSE
       /\ served' = {} /\ stdin' = <<>> /\ table' = [r \in Runs |-> 0] /\ flagged' = {}
       /\ UNCHANGED <<runtimeVars, stdout, shared, missed>>

Plugin == \/ Dispatch \/ Babble \/ Die
          \/ \E h \in served : Register(h) \/ Finish(h) \/ ServeCancel(h) \/ Respond(h)

LinkNext == \/ \E r \in Runs : Execute(r)
            \/ \E k \in Cancellers : CancelRun(k)
            \/ \E c \in Callers : Caller(c)
            \/ Reader \/ Close \/ Plugin

LinkSpec == LinkInit /\ [][LinkNext]_linkVars

-----------------------------------------------------------------------------
\* Properties

\* What a caller finds in its channel answers its own request: the late answer
\* of an attempt that timed out is never taken for that of the retry.
RightAnswer ==
    \A m \in mailbox, c \in Callers :
        call[c].at \in {"waiting", "expired"} /\ call[c].id = m.to.id => m.to = Asked(c)

\* An id is pending only while its caller is still in the call, and its channel
\* then has no answer yet: the reader's send into it cannot block, which it
\* would do with the map locked.
PendingAwaited ==
    \A id \in pending :
        /\ \E c \in Callers : /\ call[c].id = id
                              /\ call[c].at \in {"inserted", "waiting", "expired"}
        /\ \A m \in mailbox : m.to.id # id

\* Who is told `disconnected` finds the transport dead when he tries again.
DisconnectedMeansDead ==
    \A c \in Callers : call[c].got = "disconnected" => ~alive

\* The plugin's run table names only executions that are running.
NoRunLeak == \A r \in Runs : table[r] # 0 => table[r] \in IdsOf(Running(r))

\* The tables on both sides of the pipe name only requests under way
\* (transport.rs:184-215, server.rs:209-292).
LinkConsistent == LinkTypeOK /\ PendingAwaited /\ NoRunLeak

\* A cancellation that the plugin serves while it executes a node that the run
\* waits for reaches the node's control ("The plugin flips the run's
\* cancellation flag", protocol/plugin-protocol.md).
CancelReaches == missed = {}

\* It does, unless an attempt that timed out still ran beside the retry.
CancelReachesLoneAttempt == missed \subseteq shared
=============================================================================
