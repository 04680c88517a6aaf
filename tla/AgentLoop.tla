------------------------------ MODULE AgentLoop ------------------------------
(***************************************************************************)
(* One session of the agent: Agent::session (agent.rs) with the planner it *)
(* drives (planner.rs), its budget and guardrails (policy.rs) and the      *)
(* runtime client it calls (runtime_client.rs).  The process discovers the *)
(* runtime's node types, asks a model for a workflow, repairs and reviews  *)
(* the draft, publishes it to a session the runtime keeps, runs it, waits, *)
(* and plans again after a run that failed for a reason it could fix.      *)
(* Every call it makes may be lost on the way or on the way back.          *)
(***************************************************************************)
EXTENDS Naturals, Sequences

CONSTANTS MaxSteps,    \* Budget::max_steps
          MaxRepairs,  \* AgentConfig::max_repairs
          MaxFaults    \* bound on the calls that are lost

ASSUME AgentAssumption ==
    MaxSteps \in Nat /\ MaxRepairs \in Nat /\ MaxFaults \in Nat

VARIABLES
    config,    \* the AgentConfig of this session
    alive,     \* the agent's process is running
    api,       \* the runtime answers on its address
    pc,        \* where session() is
    draft,     \* the plan last drafted
    steps,     \* BudgetTracker::steps
    calls,     \* the model calls made
    plans,     \* attempts: plans asked of the planner
    repairs,   \* repair rounds of this plan
    reviewed,  \* observation_reviewed
    runs,      \* the runs of this session, in the runtime
    seen,      \* the status wait_for_run returned
    session,   \* the status of the session the runtime keeps
    knows,     \* session_id is Some
    final,     \* the status to report when the session ends
    faults,    \* calls lost so far
    unheard    \* the last status call did not reach the runtime

planVars == <<draft, steps, calls, plans, repairs, reviewed>>
runVars == <<runs, seen>>
sessionVars == <<session, knows, final, unheard>>
agentVars == <<config, alive, api, pc, planVars, runVars, sessionVars, faults>>

MAX_RUN_ATTEMPTS == 2

\* What `nodara-agent plan` and `run` ask for, and a turn of the Studio in each
\* of its modes.
Asks(offline, autoRun, startPaused, continued) ==
    [offline |-> offline, publish |-> ~offline, autoRun |-> autoRun,
     startPaused |-> startPaused, continued |-> continued]
CliConfigs == {Asks(TRUE, FALSE, FALSE, FALSE), Asks(FALSE, FALSE, FALSE, FALSE),
               Asks(FALSE, TRUE, FALSE, FALSE)}
StudioModes == {"forbidden", "manual", "partial", "all"}
StudioConfigs == {Asks(FALSE, mode # "forbidden", mode = "manual", continued) :
                    mode \in StudioModes, continued \in BOOLEAN}

\* What the loop asks about a draft: was a workflow found in the reply, is it
\* valid, does the tool policy allow its nodes, and does something in it
\* measure the positions it clicks on.
NoDraft == [parsed |-> FALSE, valid |-> FALSE, permitted |-> FALSE, informed |-> FALSE]
Drafts == {NoDraft} \cup [parsed : {TRUE}, valid : BOOLEAN, permitted : BOOLEAN,
                          informed : BOOLEAN]

\* Why a run failed, and the code its snapshot carries.
Causes == {"config", "node", "plugin", "policy"}
Code(cause) == CASE cause = "config" -> "E_INVALID_CONFIG"
                 [] cause \in {"node", "plugin"} -> "E_EXECUTION"
                 [] cause = "policy" -> "E_PERMISSION_DENIED"
IsTerminal(status) == status \in {"completed", "failed", "cancelled"}

\* A run: its status, why it failed, whether a cancel reached the runtime, and
\* the call to or from the agent that was lost.
Runs == [status : {"running", "paused", "completed", "failed", "cancelled", "gone"},
         cause : Causes \cup {"none"}, cancelling : BOOLEAN,
         lost : {"none", "reply", "cancel"}]
NewRun(status, lost) == [status |-> status, cause |-> "none", cancelling |-> FALSE,
                         lost |-> lost]
Current == Len(runs)
Executing(i) == runs[i].status \in {"running", "paused"}

Locations == {"begin", "discover", "charge", "model", "evaluate", "tokens", "check",
              "review", "publish", "start", "wait", "grace", "abandon", "classify",
              "finish", "ended"}
SessionStatus == {"none", "draft", "planning", "ready", "running", "completed",
                  "failed", "cancelled"}

AgentTypeOK ==
    /\ config \in CliConfigs \cup StudioConfigs
    /\ alive \in BOOLEAN /\ api \in BOOLEAN
    /\ pc \in Locations /\ draft \in Drafts
    /\ steps \in 0..MaxSteps + 1 /\ calls \in Nat /\ plans \in Nat
    /\ repairs \in 0..MaxRepairs /\ reviewed \in BOOLEAN
    /\ runs \in Seq(Runs)
    /\ seen \in {"none", "running", "paused", "completed", "failed", "cancelled"}
    /\ session \in SessionStatus /\ final \in SessionStatus
    /\ knows \in BOOLEAN /\ unheard \in BOOLEAN
    /\ faults \in 0..MaxFaults

AgentInit(configs) ==
    /\ config \in configs
    /\ pc = "begin" /\ draft = NoDraft
    /\ steps = 0 /\ calls = 0 /\ plans = 1 /\ repairs = 0 /\ reviewed = FALSE
    /\ runs = <<>> /\ seen = "none"
    /\ session = IF config.continued THEN "ready" ELSE "none"
    /\ knows = FALSE /\ final = "none" /\ unheard = FALSE /\ faults = 0

-----------------------------------------------------------------------------
\* A request to the runtime: answered; lost before it arrived; or carried out
\* and its answer lost.
Call(outcome) ==
    \/ outcome = "answered" /\ api /\ UNCHANGED faults
    \/ outcome \in {"lost", "unanswered"} /\ api /\ faults < MaxFaults
       /\ faults' = faults + 1
    \/ outcome = "lost" /\ ~api /\ UNCHANGED faults
Outcomes == {"answered", "lost", "unanswered"}
Arrives(outcome) == outcome # "lost"

At(location) == alive /\ pc = location

\* finish_session(status) and return.
Return(status) == pc' = "finish" /\ final' = status
\* fail_session.
Fail == Return("failed")

\* begin_session: create a session, or load the one to continue and mark it.
BeginSession ==
    /\ At("begin")
    /\ IF ~config.publish
       THEN UNCHANGED <<session, knows, faults>>
       ELSE \E o \in Outcomes :
              /\ Call(o)
              /\ knows' = (o = "answered")
              /\ \/ /\ ~config.continued
                    /\ session' = IF Arrives(o) THEN "draft" ELSE session
                 \/ /\ config.continued /\ o = "answered"
                    /\ session' \in {"planning", session}
                 \/ config.continued /\ o # "answered" /\ UNCHANGED session
    /\ pc' = IF config.offline THEN "charge" ELSE "discover"
    /\ UNCHANGED <<config, alive, api, planVars, runVars, final, unheard>>

\* capability discovery; offline planning skips it.
Discover ==
    /\ At("discover")
    /\ \E o \in Outcomes : Call(o) /\ IF o = "answered"
                                      THEN pc' = "charge" /\ UNCHANGED final
                                      ELSE Fail
    /\ UNCHANGED <<config, alive, api, planVars, runVars, session, knows, unheard>>

\* Mutant: a repair is not charged to the budget.
ChargeFirstDraft ==
    /\ At("charge")
    /\ steps' = IF repairs = 0 THEN steps + 1 ELSE steps
    /\ IF steps' > MaxSteps THEN Fail ELSE pc' = "model" /\ UNCHANGED final
    /\ UNCHANGED <<config, alive, api, draft, calls, plans, repairs, reviewed,
                   runVars, session, knows, unheard, faults>>

\* charge_step, before the planner's next model call; the clock may run out.
ChargeStep ==
    /\ At("charge")
    /\ steps' = steps + 1
    /\ \/ steps' <= MaxSteps /\ pc' = "model" /\ UNCHANGED final
       \/ Fail
    /\ UNCHANGED <<config, alive, api, draft, calls, plans, repairs, reviewed,
                   runVars, session, knows, unheard, faults>>

\* complete_streaming: one request, or a second, plain one when the first is
\* refused or yields no text; either may fail.
CallModel ==
    /\ At("model")
    /\ calls' = calls + 1
    /\ \/ pc' = "evaluate" /\ draft' \in Drafts /\ UNCHANGED final
       \/ Fail /\ UNCHANGED draft
    /\ UNCHANGED <<config, alive, api, steps, plans, repairs, reviewed, runVars,
                   session, knows, unheard, faults>>

\* The planner returns a valid draft, or its last one when no repair is left.
Evaluate ==
    /\ At("evaluate")
    /\ IF draft.valid \/ repairs >= MaxRepairs
       THEN pc' = "tokens" /\ UNCHANGED <<draft, repairs>>
       ELSE pc' = "charge" /\ repairs' = repairs + 1 /\ draft' = NoDraft
    /\ UNCHANGED <<config, alive, api, steps, calls, plans, reviewed, runVars,
                   sessionVars, faults>>

\* charge_tokens for the whole plan; then a reply that held no workflow ends it.
ChargeTokens ==
    /\ At("tokens")
    /\ \/ draft.parsed /\ pc' = "check" /\ UNCHANGED final
       \/ Fail
    /\ UNCHANGED <<config, alive, api, planVars, runVars, session, knows, unheard, faults>>

CheckGuardrails ==
    /\ At("check")
    /\ IF draft.permitted THEN pc' = "review" /\ UNCHANGED final ELSE Fail
    /\ UNCHANGED <<config, alive, api, planVars, runVars, session, knows, unheard, faults>>

\* The top of the loop: another plan, with its own repair rounds.
PlanAgain == pc' = "charge" /\ plans' = plans + 1 /\ repairs' = 0 /\ draft' = NoDraft

\* The observation review, once.
Review ==
    /\ At("review")
    /\ IF ~reviewed /\ ~draft.informed
       THEN PlanAgain /\ reviewed' = TRUE
       ELSE pc' = "publish" /\ UNCHANGED <<draft, plans, repairs, reviewed>>
    /\ UNCHANGED <<config, alive, api, steps, calls, runVars, sessionVars, faults>>

\* publish_plan, best effort; a turn that does not run ends here.
PublishPlan ==
    /\ At("publish")
    /\ IF knows
       THEN \E o \in Outcomes :
              /\ Call(o)
              /\ session' = CASE ~Arrives(o) -> session
                              [] draft.valid -> "ready"
                              [] OTHER -> "failed"
       ELSE UNCHANGED <<session, faults>>
    /\ IF config.autoRun THEN pc' = "start" /\ UNCHANGED final ELSE Return("ready")
    /\ UNCHANGED <<config, alive, api, planVars, runVars, knows, unheard>>

-----------------------------------------------------------------------------
\* run_once.

Attached == IF knows THEN "running" ELSE session

\* start_run_with_options: the runtime refuses a document that is not valid.
StartRun ==
    /\ At("start")
    /\ \E o \in Outcomes :
         /\ Call(o)
         /\ LET status == IF config.startPaused THEN "paused" ELSE "running"
                created == Arrives(o) /\ draft.valid
            IN  /\ runs' = IF created
                           THEN Append(runs, NewRun(status, IF o = "answered" THEN "none"
                                                            ELSE "reply"))
                           ELSE runs
                /\ session' = IF created THEN Attached ELSE session
                /\ \/ ~(created /\ o = "answered") /\ Fail
                   \/ created /\ o = "answered" /\ config.startPaused /\ Return("running")
                   \/ /\ created /\ o = "answered" /\ ~config.startPaused
                      /\ pc' = "wait" /\ UNCHANGED final
    /\ draft' = NoDraft
    /\ UNCHANGED <<config, alive, api, steps, calls, plans, repairs, reviewed, seen, knows, unheard>>

\* wait_for_run: a poll that sees the end, in time or in the grace period.
SeeEnd ==
    /\ At("wait") \/ At("grace")
    /\ Call("answered") /\ IsTerminal(runs[Current].status)
    /\ seen' = runs[Current].status /\ pc' = "classify"
    /\ UNCHANGED <<config, alive, api, planVars, runs, sessionVars>>

\* A poll fails: contact is lost.
LoseContact ==
    /\ At("wait") \/ At("grace")
    /\ \E o \in {"lost", "unanswered"} : Call(o)
    /\ pc' = "abandon"
    /\ UNCHANGED <<config, alive, api, planVars, runVars, sessionVars>>

\* Mutant: the agent gives up on the run and leaves it alone.
LeaveAlone == UNCHANGED <<runs, faults>>

\* A cancel request, best effort.
SendCancel ==
    \E o \in Outcomes :
      /\ Call(o)
      /\ runs' = [runs EXCEPT ![Current] =
                    IF Arrives(o) THEN [@ EXCEPT !.cancelling = TRUE]
                    ELSE [@ EXCEPT !.lost = "cancel"]]

\* Mutant: the run is polled with no deadline.
PollOn ==
    /\ At("wait") /\ api /\ Executing(Current)
    /\ UNCHANGED agentVars

\* The deadline passes while the run is still going: cancel it and wait a little.
RunTimesOut ==
    /\ At("wait") /\ api /\ Executing(Current)
    /\ SendCancel /\ pc' = "grace"
    /\ UNCHANGED <<config, alive, api, planVars, seen, sessionVars>>

GraceEnds ==
    /\ At("grace") /\ Call("answered") /\ Executing(Current)
    /\ seen' = runs[Current].status /\ pc' = "classify"
    /\ UNCHANGED <<config, alive, api, planVars, runs, sessionVars>>

AbandonRun ==
    /\ At("abandon") /\ SendCancel /\ Fail
    /\ UNCHANGED <<config, alive, api, planVars, seen, session, knows, unheard>>

\* Only a failed run whose code is one of these two is planned again.
Replannable == /\ seen = "failed"
               /\ Code(runs[Current].cause) \in {"E_INVALID_CONFIG", "E_EXECUTION"}

Classify ==
    /\ At("classify")
    /\ IF Replannable /\ Current < MAX_RUN_ATTEMPTS
       THEN PlanAgain /\ UNCHANGED <<steps, calls, reviewed, final>>
       ELSE /\ Return(CASE seen \in {"completed", "cancelled"} -> seen
                        [] seen \in {"running", "paused"} -> "running"
                        [] OTHER -> "failed")
            /\ UNCHANGED planVars
    /\ seen' = "none"
    /\ UNCHANGED <<config, alive, api, runs, session, knows, unheard, faults>>

\* Mutant: an error returns at once, as a bare `?` would.
FinishOnSuccess ==
    /\ At("finish")
    /\ IF knows /\ final # "failed"
       THEN \E o \in Outcomes : /\ Call(o)
                                /\ session' = IF Arrives(o) THEN final ELSE session
                                /\ unheard' = ~Arrives(o)
       ELSE UNCHANGED <<session, unheard, faults>>
    /\ pc' = "ended"
    /\ UNCHANGED <<config, alive, api, planVars, runVars, knows, final>>

\* finish_session: the last status is reported, best effort.
FinishSession ==
    /\ At("finish")
    /\ IF knows
       THEN \E o \in Outcomes : /\ Call(o)
                                /\ session' = IF Arrives(o) THEN final ELSE session
                                /\ unheard' = ~Arrives(o)
       ELSE UNCHANGED <<session, unheard, faults>>
    /\ pc' = "ended"
    /\ UNCHANGED <<config, alive, api, planVars, runVars, knows, final>>

AgentStep == \/ BeginSession \/ Discover \/ ChargeStep \/ CallModel \/ Evaluate
             \/ ChargeTokens \/ CheckGuardrails \/ Review \/ PublishPlan
             \/ StartRun \/ SeeEnd \/ LoseContact \/ RunTimesOut \/ GraceEnds
             \/ AbandonRun \/ Classify \/ FinishSession

-----------------------------------------------------------------------------
\* The runtime carries out the runs; an operator may pause and resume them.
RunMoves(i) ==
    /\ api
    /\ \E to \in {"running", "paused", "completed", "failed", "cancelled"},
         cause \in Causes \cup {"none"} :
         /\ \/ runs[i].status = "running" /\ to \in {"paused", "completed", "failed"}
            \/ runs[i].status = "paused" /\ to = "running"
            \/ Executing(i) /\ runs[i].cancelling /\ to = "cancelled"
         /\ (to = "failed") <=> (cause # "none")
         /\ runs' = [runs EXCEPT ![i].status = to, ![i].cause = cause]
    /\ UNCHANGED <<config, alive, api, pc, planVars, seen, sessionVars, faults>>
RuntimeStep == \E i \in DOMAIN runs : RunMoves(i)

-----------------------------------------------------------------------------
\* An agent has at most one run going: a second run is started only after the
\* first was seen to end, and no run is forgotten for another
\* (Agent::session's loop over run_once).
OneRunAtATime == \A i, j \in DOMAIN runs : Executing(i) /\ Executing(j) => i = j
AgentConsistent == AgentTypeOK /\ OneRunAtATime

\* max_steps caps the drafts and repairs of the whole session over every plan,
\* "the round trips it counts instead of reporting overspend afterwards"; and the
\* review and the failed runs together ask for no more than one plan beyond the
\* run attempts (policy.rs, agent.rs:390-396, 1050).
BudgetCaps == /\ calls <= MaxSteps
              /\ plans <= MAX_RUN_ATTEMPTS + 1

\* "an unwatched run would keep executing its side effects unattended"
\* (runtime_client.rs:397): once the agent is done, a run that is still going is
\* one it was told to leave paused, one it has cancelled, or one whose start or
\* cancel was lost on the wire.
NoUnattendedRun ==
    pc = "ended" => \A i \in DOMAIN runs :
        Executing(i) => \/ config.startPaused
                        \/ runs[i].cancelling
                        \/ runs[i].lost # "none"

\* "a bare `?` would leave the session stuck in `planning` forever"
\* (agent.rs, fail_session): whichever way the agent ends, a session it opened is
\* not left in progress, unless that last call was lost; and it is completed only
\* for a run that completed.
SessionIsClosed ==
    /\ pc = "ended" /\ knows /\ ~unheard => session \notin {"none", "draft", "planning"}
    /\ session = "completed" => runs # <<>> /\ runs[Current].status = "completed"

\* A run that a plugin crash ended is the runtime's answer: no other run is
\* planned from it (agent.rs:17-18).
CrashIsNotReplanned == \A i \in DOMAIN runs : runs[i].cause = "plugin" => i = Current
=============================================================================
