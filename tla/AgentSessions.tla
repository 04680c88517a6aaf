---------------------------- MODULE AgentSessions ----------------------------
(***************************************************************************)
(* AgentSessionStore (sessions.rs) and SessionApprovalHandler              *)
(* (approval.rs): a run thread that meets a gated node raises a request in *)
(* the session that owns the run and waits for an operator's decision, no  *)
(* longer than its timeout.  Each method of the store holds its one lock,  *)
(* but raise_and_wait and decide go on after releasing it.                 *)
(***************************************************************************)
EXTENDS Naturals, Sequences, FiniteSets

CONSTANTS Sessions, Runs,
          Deciders,     \* API threads serving decisions
          NoRun, NoSession,
          MaxRequests   \* bound on the requests raised

ASSUME SessionsAssumption ==
    /\ NoRun \notin Runs /\ NoSession \notin Sessions
    /\ MaxRequests \in Nat

VARIABLES
    session,   \* the stored sessions: status and run_id
    requests,  \* every ApprovalRequest, in the order raised; its id is its index
    waiters,   \* ids in the waiter map
    channel,   \* id -> the decision in the waiter's one-place channel
    thread,    \* what each run thread is doing
    decider,   \* what each deciding thread is doing
    \* History variables.
    owner,     \* the session each run was created for
    first,     \* id -> the first decision recorded
    outcome,   \* id -> what the waiting run was told
    unasked,   \* runs whose gated node was refused though nobody was asked
    overruled  \* sessions whose status was set while a request was pending

storeVars == <<session, requests, waiters, channel>>
historyVars == <<owner, first, outcome, unasked, overruled>>
sessionsVars == <<storeVars, thread, decider, historyVars>>

SessionStatus == {"Draft", "Planning", "AwaitingApproval", "Ready", "Running",
                  "Completed", "Failed", "Cancelled"}
Decisions == {"Approved", "Denied"}
Ids == 1..Len(requests)
IdBound == 1..MaxRequests

Threads == [at : {"absent", "working"}]
           \cup [at : {"waiting"}, id : Nat]
           \cup [at : {"leaving"}, id : Nat, told : Decisions]

SessionsTypeOK ==
    /\ session \in [Sessions -> [status : SessionStatus, run : Runs \cup {NoRun}]]
    /\ requests \in Seq([session : Sessions, run : Runs,
                         decision : Decisions \cup {"None"}])
    /\ waiters \in SUBSET Ids
    /\ channel \in [IdBound -> Decisions \cup {"None"}]
    /\ thread \in [Runs -> Threads]
    /\ decider \in [Deciders -> [at : {"free"}]
                                \cup [at : {"sending"}, id : Nat, decision : Decisions]]
    /\ owner \in [Runs -> Sessions \cup {NoSession}]
    /\ first \in [IdBound -> Decisions \cup {"None"}]
    /\ outcome \in [IdBound -> Decisions \cup {"None"}]
    /\ unasked \in SUBSET Runs /\ overruled \in SUBSET Sessions

SessionsInit ==
    /\ session = [s \in Sessions |-> [status |-> "Draft", run |-> NoRun]]
    /\ requests = <<>> /\ waiters = {}
    /\ channel = [i \in IdBound |-> "None"]
    /\ thread = [r \in Runs |-> [at |-> "absent"]]
    /\ decider = [d \in Deciders |-> [at |-> "free"]]
    /\ owner = [r \in Runs |-> NoSession]
    /\ first = [i \in IdBound |-> "None"]
    /\ outcome = [i \in IdBound |-> "None"]
    /\ unasked = {} /\ overruled = {}

Pending(s) == {i \in Ids : requests[i].session = s /\ requests[i].decision = "None"}
NeedsAttention(s) == Pending(s) # {}

Overrule(s) == overruled' = IF NeedsAttention(s) THEN overruled \cup {s} ELSE overruled

-----------------------------------------------------------------------------
\* The API: runs are created for a session, the agent reports on it.

\* create_run: the session learns of the run before the run's thread starts.
AttachRun(s, r) ==
    /\ thread[r].at = "absent"
    /\ session' = [session EXCEPT ![s] = [status |-> "Running", run |-> r]]
    /\ thread' = [thread EXCEPT ![r] = [at |-> "working"]]
    /\ owner' = [owner EXCEPT ![r] = s]
    /\ Overrule(s)
    /\ UNCHANGED <<requests, waiters, channel, decider, first, outcome, unasked>>

\* create_run without session_id.
StartUnowned(r) ==
    /\ thread[r].at = "absent"
    /\ thread' = [thread EXCEPT ![r] = [at |-> "working"]]
    /\ UNCHANGED <<storeVars, decider, historyVars>>

\* Mutant: the plan's verdict is shown though a request is pending.
SetPlanRegardless(s, valid) ==
    /\ session' = [session EXCEPT ![s].status = IF valid THEN "Ready" ELSE "Failed"]
    /\ UNCHANGED <<requests, waiters, channel, thread, decider, historyVars>>

SetPlan(s, valid) ==
    /\ session' = [session EXCEPT ![s].status =
                     IF NeedsAttention(s) THEN "AwaitingApproval"
                     ELSE IF valid THEN "Ready" ELSE "Failed"]
    /\ UNCHANGED <<requests, waiters, channel, thread, decider, historyVars>>

SetStatus(s, status) ==
    /\ session' = [session EXCEPT ![s].status = status]
    /\ Overrule(s)
    /\ UNCHANGED <<requests, waiters, channel, thread, decider, owner, first,
                   outcome, unasked>>

-----------------------------------------------------------------------------
\* raise_and_wait, on the run's thread.

Owners(r) == {s \in Sessions : session[s].run = r}

\* Under the lock: the request is stored and the waiter registered.
Raise(r) ==
    /\ thread[r].at = "working" /\ Len(requests) < MaxRequests
    /\ \E s \in Owners(r) :
         /\ requests' = Append(requests, [session |-> s, run |-> r, decision |-> "None"])
         /\ session' = [session EXCEPT ![s].status = "AwaitingApproval"]
    /\ waiters' = waiters \cup {Len(requests) + 1}
    /\ thread' = [thread EXCEPT ![r] = [at |-> "waiting", id |-> Len(requests) + 1]]
    /\ UNCHANGED <<channel, decider, historyVars>>

\* No session knows the run: None, which the handler takes for a refusal.
RefuseUnowned(r) ==
    /\ thread[r].at = "working" /\ Owners(r) = {}
    /\ unasked' = unasked \cup {r}
    /\ UNCHANGED <<storeVars, thread, decider, owner, first, outcome, overruled>>

Leave(r, told) ==
    /\ thread' = [thread EXCEPT ![r] = [at |-> "leaving", id |-> thread[r].id,
                                        told |-> told]]
    /\ outcome' = [outcome EXCEPT ![thread[r].id] = told]
    /\ UNCHANGED <<session, requests, waiters, decider, owner, first, unasked, overruled>>

ReceiveDecision(r) ==
    /\ thread[r].at = "waiting"
    /\ channel[thread[r].id] # "None"
    /\ channel' = [channel EXCEPT ![thread[r].id] = "None"]
    /\ Leave(r, channel[thread[r].id])

\* Mutant: an unanswered request counts as approved.
TimeoutApproves(r) ==
    /\ thread[r].at = "waiting"
    /\ channel[thread[r].id] = "None"
    /\ Leave(r, "Approved")
    /\ UNCHANGED channel

\* Mutant: recv in place of recv_timeout.
WaitOutDecision(r) ==
    /\ thread[r].at = "waiting"
    /\ channel[thread[r].id] # "None"
    /\ Leave(r, channel[thread[r].id])
    /\ UNCHANGED channel

\* recv_timeout expires: denied.  The request itself stays as it is.
Timeout(r) ==
    /\ thread[r].at = "waiting"
    /\ channel[thread[r].id] = "None"
    /\ Leave(r, "Denied")
    /\ UNCHANGED channel

\* Mutant: the waiter stays in the map.
ResumeLeaky(r) ==
    /\ thread[r].at = "leaving"
    /\ thread' = [thread EXCEPT ![r] = [at |-> "working"]]
    /\ UNCHANGED <<storeVars, decider, historyVars>>

\* The waiter is dropped and the answer goes back to the engine.
ResumeRun(r) ==
    /\ thread[r].at = "leaving"
    /\ waiters' = waiters \ {thread[r].id}
    /\ thread' = [thread EXCEPT ![r] = [at |-> "working"]]
    /\ UNCHANGED <<session, requests, channel, decider, historyVars>>

-----------------------------------------------------------------------------
\* decide, on an API thread.

\* What recording a decision does to the session's status.
AfterDecision(s, id) == IF Pending(s) \subseteq {id} /\ session[s].status = "AwaitingApproval"
                        THEN "Running" ELSE session[s].status

\* Under the lock: recorded, whether or not the run still waits.
Decide(d, id, decision) ==
    LET s == requests[id].session IN
    /\ decider[d].at = "free"
    /\ requests' = [requests EXCEPT ![id].decision = decision]
    /\ session' = [session EXCEPT ![s].status = AfterDecision(s, id)]
    /\ waiters' = waiters \ {id}
    /\ decider' = IF id \in waiters
                  THEN [decider EXCEPT ![d] = [at |-> "sending", id |-> id,
                                               decision |-> decision]]
                  ELSE decider
    /\ first' = IF first[id] = "None" THEN [first EXCEPT ![id] = decision] ELSE first
    /\ UNCHANGED <<channel, thread, owner, outcome, unasked, overruled>>

\* try_send, after the lock: the channel takes one decision; if the run has
\* given up, nobody reads it.
SendDecision(d) ==
    /\ decider[d].at = "sending"
    /\ LET id == decider[d].id IN
         channel' = [channel EXCEPT ![id] = IF @ = "None" THEN decider[d].decision ELSE @]
    /\ decider' = [decider EXCEPT ![d] = [at |-> "free"]]
    /\ UNCHANGED <<session, requests, waiters, thread, historyVars>>

RunThread(r) == Raise(r) \/ RefuseUnowned(r) \/ ReceiveDecision(r) \/ Timeout(r) \/ ResumeRun(r)

Api == \E s \in Sessions :
          \/ \E r \in Runs : AttachRun(s, r)
          \/ \E valid \in BOOLEAN : SetPlan(s, valid)
          \/ \E status \in SessionStatus : SetStatus(s, status)

SessionsNext ==
    \/ Api
    \/ \E r \in Runs : StartUnowned(r) \/ RunThread(r)
    \/ \E d \in Deciders : \/ \E id \in Ids, decision \in Decisions : Decide(d, id, decision)
                           \/ SendDecision(d)

SessionsSpec == SessionsInit /\ [][SessionsNext]_sessionsVars

\* recv_timeout returns, at the latest when its time is up.
SessionsFairSpec ==
    /\ SessionsSpec
    /\ \A r \in Runs : WF_sessionsVars(ReceiveDecision(r) \/ Timeout(r) \/ ResumeRun(r))

-----------------------------------------------------------------------------
\* Properties

Blocked(r) == thread[r].at = "waiting"

\* A run is told what the first decision on its request said, or that it is
\* refused; never an approval nobody gave, never a later change of mind
\* ("an unanswered request must never silently authorise a side effect").
ToldFirstDecision ==
    \A i \in IdBound : outcome[i] = "Approved" => first[i] = "Approved"

\* The waiter map holds only requests whose run has not returned yet.
NoWaiterLeak ==
    \A i \in waiters : \E r \in Runs : /\ thread[r].at \in {"waiting", "leaving"}
                                       /\ thread[r].id = i

\* Every blocked run can still be answered: its request is undecided and has a
\* waiter, or a decision for it is on its way or in its channel.
BlockedIsAnswerable ==
    \A r \in Runs : Blocked(r) =>
        LET i == thread[r].id IN
        \/ requests[i].decision = "None" /\ i \in waiters
        \/ channel[i] # "None"
        \/ \E d \in Deciders : decider[d].at = "sending" /\ decider[d].id = i

\* Request, waiter and channel belong to one run each, and go with it
\* (sessions.rs:198-250).
SessionsConsistent == SessionsTypeOK /\ NoWaiterLeak

\* A session with a blocked, undecided run shows `awaiting_approval`, a new
\* plan notwithstanding, unless a client set its status meanwhile.
BlockedShowsAwaiting ==
    \A r \in Runs : Blocked(r) /\ requests[thread[r].id].decision = "None" =>
        LET s == requests[thread[r].id].session
        IN  session[s].status = "AwaitingApproval" \/ s \in overruled

\* An operator who looks for a session that needs attention finds every blocked
\* run, and can answer it (session.rs:194-204, sessions.rs:254-286).
BlockedIsFound == BlockedIsAnswerable /\ BlockedShowsAwaiting

\* A request is pending while its run is still blocked on it, and only then
\* (session.rs, ApprovalRequest::is_pending, "True while the run is still
\* blocked on this request").
PendingMeansBlocked ==
    \A i \in Ids : requests[i].decision = "None" =>
        \E r \in Runs : thread[r].at \in {"waiting", "leaving"} /\ thread[r].id = i

\* A run created for a session is never refused without asking in it (api.rs,
\* CreateRunRequest, "Binding the run to its session *before* it starts is what
\* makes gated capabilities work").
OwnedRunIsAsked == \A r \in unasked : owner[r] = NoSession

\* No run waits forever.
WaitEnds == \A r \in Runs : Blocked(r) ~> ~Blocked(r)
=============================================================================
