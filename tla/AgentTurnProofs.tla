--------------------------- MODULE AgentTurnProofs ---------------------------
(***************************************************************************)
(* The safety of an agent turn under the Studio's shell, for every budget, *)
(* number of repairs, lost calls and operator's stops: one invariant of    *)
(* the agent's loop and one of the shell, each in named parts.             *)
(***************************************************************************)
EXTENDS StudioShell, TLAPS

Planning == {"begin", "discover", "charge", "model", "evaluate", "tokens", "check",
             "review", "publish", "start"}
Waiting == {"wait", "grace", "abandon", "classify"}
Over == {"finish", "ended"}
Unfinished == {"none", "draft", "planning"}
Reviews == IF reviewed THEN 1 ELSE 0

\* The parts of AgentTypeOK besides the type of `runs`.
Numbers == /\ steps \in 0..MaxSteps + 1 /\ calls \in Nat /\ plans \in Nat
           /\ repairs \in 0..MaxRepairs /\ faults \in 0..MaxFaults
Flags == /\ alive \in BOOLEAN /\ api \in BOOLEAN /\ knows \in BOOLEAN
         /\ unheard \in BOOLEAN /\ reviewed \in BOOLEAN
Data == config \in CliConfigs \cup StudioConfigs /\ draft \in Drafts
Places == /\ pc \in Locations /\ session \in SessionStatus /\ final \in SessionStatus
          /\ seen \in {"none", "running", "paused", "completed", "failed", "cancelled"}

\* Each model call was charged before it was made, and each plan beyond the first
\* is paid for by the review or by a run that failed.
BudgetInv ==
    /\ calls <= steps /\ calls <= MaxSteps
    /\ pc \notin Over => steps <= MaxSteps
    /\ pc = "model" => calls < steps
    /\ plans <= MAX_RUN_ATTEMPTS + 1
    /\ pc \in Planning => plans <= 1 + Reviews + Len(runs)
    /\ pc \in Waiting => plans <= Reviews + Len(runs)

\* While the agent plans, no run of it is going; otherwise only the last may be.
RunsInv ==
    /\ pc \in Planning => Len(runs) <= 1 /\ \A i \in DOMAIN runs : ~Executing(i)
    /\ pc \in Waiting => Len(runs) \in 1..2
    /\ \A i \in DOMAIN runs : Executing(i) => i = Current
    /\ pc = "classify" /\ seen \in {"completed", "failed"} => runs[Current].status = seen

\* A run the agent turned away from was cancelled, as far as that reached.
Answered(i) == runs[i].cancelling \/ runs[i].lost # "none"
WatchInv ==
    /\ pc \in {"grace", "classify"} => (Executing(Current) => Answered(Current))
    /\ pc \in Over => \A i \in DOMAIN runs :
                         Executing(i) => config.startPaused \/ Answered(i)

\* The session is closed last, with the status the turn ended on.
Completed == runs # <<>> /\ runs[Current].status = "completed"
SessionInv ==
    /\ pc = "finish" => final \notin Unfinished
    /\ pc = "ended" /\ knows /\ ~unheard => session \notin Unfinished
    /\ final = "completed" => pc \in Over /\ Completed
    /\ session = "completed" => pc = "ended" /\ Completed

AgentInv == AgentTypeOK /\ BudgetInv /\ RunsInv /\ WatchInv /\ SessionInv

\* A stop finds a registered turn only, and its mark is there until the turn has
\* looked for it.
StopInv ==
    /\ registered => turn \in {"reading", "streamed", "looked", "waiting"}
    /\ turn \in {"none", "cli", "spawned"} => \A s \in Stops : stop[s] \notin {"found", "marked"}
    /\ turn = "reading" => \A s \in Stops : stop[s] = "marked" => marked
    /\ cut => \/ turn \in {"reading", "streamed"} /\ marked
              \/ turn \in {"looked", "waiting"} /\ sawMark
              \/ turn = "done" /\ result = "cancelled"

\* Only a child of the shell can hold the port for it.
ChildInv == /\ RuntimeIsOwned
            /\ studio \in {"probing", "spawning"} => child = "none" /\ listener # "own"

ShellInv == ShellTypeOK /\ StopInv /\ ChildInv
TurnInv == AgentInv /\ ShellInv

-----------------------------------------------------------------------------
\* What the type of `runs` says of its elements.
LEMMA RunFacts ==
    ASSUME AgentTypeOK
    PROVE  /\ Len(runs) \in Nat /\ DOMAIN runs = 1..Len(runs)
           /\ \A i \in DOMAIN runs : runs[i] \in Runs
           /\ runs # <<>> <=> Len(runs) > 0
  BY DEF AgentTypeOK

\* A sequence of runs with one of them changed.
LEMMA ChangedRun ==
    ASSUME NEW s \in Seq(Runs), NEW i \in 1..Len(s), NEW r \in Runs
    PROVE  LET t == [s EXCEPT ![i] = r] IN
           /\ t \in Seq(Runs) /\ Len(t) = Len(s)
           /\ t[i] = r /\ \A j \in 1..Len(s) : j # i => t[j] = s[j]
  OBVIOUS

\* A cancel request reaches the last run or is lost, and changes nothing else.
LEMMA CancelFacts ==
    ASSUME AgentTypeOK, runs # <<>>, SendCancel
    PROVE  /\ runs' \in Seq(Runs) /\ Len(runs') = Len(runs) /\ faults' \in 0..MaxFaults
           /\ runs'[Current].cancelling \/ runs'[Current].lost # "none"
           /\ \A j \in 1..Len(runs) : runs'[j].status = runs[j].status
           /\ \A j \in 1..Len(runs) : j # Current => runs'[j] = runs[j]
<1>1. PICK o \in Outcomes :
         /\ Call(o)
         /\ runs' = [runs EXCEPT ![Current] =
                       IF Arrives(o) THEN [@ EXCEPT !.cancelling = TRUE]
                       ELSE [@ EXCEPT !.lost = "cancel"]]
  BY DEF SendCancel
<1> DEFINE r == IF Arrives(o) THEN [runs[Current] EXCEPT !.cancelling = TRUE]
                ELSE [runs[Current] EXCEPT !.lost = "cancel"]
<1>2. Current \in 1..Len(runs) /\ runs[Current] \in Runs
  BY RunFacts DEF Current
<1>3. /\ r \in Runs /\ r.status = runs[Current].status
      /\ r.cancelling \/ r.lost # "none"
  BY <1>2 DEF Runs
<1>4. runs' = [runs EXCEPT ![Current] = r] /\ runs \in Seq(Runs)
  BY <1>1 DEF AgentTypeOK
<1>5. faults' \in 0..MaxFaults
  BY <1>1, AgentAssumption DEF Call, AgentTypeOK
<1> QED
  BY <1>2, <1>3, <1>4, <1>5, ChangedRun

\* A run that is started is the last one, and its agent watches it unless it was
\* asked to leave it paused or never heard of it.
LEMMA StartFacts ==
    ASSUME AgentTypeOK, StartRun
    PROVE  \/ runs' = runs /\ pc' = "finish" /\ final' = "failed" /\ session' = session
           \/ \E r \in Runs :
                /\ r.status \in {"running", "paused"}
                /\ runs' \in Seq(Runs) /\ Len(runs') = Len(runs) + 1
                /\ \A j \in 1..Len(runs) : runs'[j] = runs[j]
                /\ runs'[Len(runs) + 1] = r
                /\ \/ pc' = "wait" /\ final' = final
                   \/ pc' = "finish" /\ final' = "failed" /\ r.lost # "none"
                   \/ pc' = "finish" /\ final' = "running" /\ config.startPaused
                /\ session' \in {session, "running"}
<1> DEFINE begun == IF config.startPaused THEN "paused" ELSE "running"
           lost(o) == IF o = "answered" THEN "none" ELSE "reply"
           created(o) == Arrives(o) /\ draft.valid
<1>1. PICK o \in Outcomes :
        /\ runs' = IF created(o) THEN Append(runs, NewRun(begun, lost(o))) ELSE runs
        /\ session' = IF created(o) THEN Attached ELSE session
        /\ \/ ~(created(o) /\ o = "answered") /\ Fail
           \/ created(o) /\ o = "answered" /\ config.startPaused /\ Return("running")
           \/ /\ created(o) /\ o = "answered" /\ ~config.startPaused
              /\ pc' = "wait" /\ UNCHANGED final
  BY DEF StartRun
<1>2. CASE ~created(o)
  <2>1. Fail /\ runs' = runs /\ session' = session
    BY <1>1, <1>2
  <2> QED
    BY <2>1 DEF Fail, Return
<1>3. CASE created(o)
  <2> DEFINE r == NewRun(begun, lost(o))
  <2>1. r \in Runs /\ r.status \in {"running", "paused"} /\ r.lost = lost(o)
    BY DEF NewRun, Runs
  <2>2. runs' = Append(runs, r) /\ runs \in Seq(Runs)
    BY <1>1, <1>3 DEF AgentTypeOK
  <2>4. session' \in {session, "running"}
    BY <1>1, <1>3 DEF Attached
  <2>5. \/ pc' = "wait" /\ final' = final
        \/ pc' = "finish" /\ final' = "failed" /\ r.lost # "none"
        \/ pc' = "finish" /\ final' = "running" /\ config.startPaused
    <3>1. CASE o # "answered"
      <4>1. Fail /\ lost(o) = "reply"
        BY <1>1, <3>1
      <4> QED
        BY <4>1, <2>1 DEF Fail, Return
    <3>2. CASE o = "answered"
      BY <1>1, <1>3, <3>2 DEF Return
    <3> QED
      BY <3>1, <3>2
  <2> HIDE DEF r
  <2>3. /\ runs' \in Seq(Runs) /\ Len(runs') = Len(runs) + 1
        /\ \A j \in 1..Len(runs) : runs'[j] = runs[j]
        /\ runs'[Len(runs) + 1] = r
    BY <2>1, <2>2
  <2> QED
    BY <2>1, <2>3, <2>4, <2>5
<1> QED
  BY <1>2, <1>3

-----------------------------------------------------------------------------
LEMMA AgentInitially == ASSUME Init PROVE AgentInv
<1> USE ConfigsAssumption, AgentAssumption
<1>1. AgentTypeOK
  <2>1. alive \in BOOLEAN /\ api \in BOOLEAN
    BY DEF Init
  <2>2. AgentInit(Configs)
    BY DEF Init
  <2>3. config \in CliConfigs \cup StudioConfigs /\ session \in SessionStatus
    BY <2>2 DEF AgentInit, SessionStatus
  <2>4. draft \in Drafts
    BY <2>2 DEF AgentInit, Drafts
  <2>5. Numbers /\ seen = "none" /\ pc \in Locations /\ final \in SessionStatus
    BY <2>2 DEF AgentInit, Numbers, Locations, SessionStatus
  <2>6. knows = FALSE /\ unheard = FALSE /\ reviewed = FALSE /\ runs \in Seq(Runs)
    BY <2>2 DEF AgentInit
  <2> QED
    BY <2>1, <2>3, <2>4, <2>5, <2>6 DEF Numbers, AgentTypeOK
<1>2. BudgetInv
  BY DEF Init, AgentInit, BudgetInv, Over, Planning, Waiting, Reviews, MAX_RUN_ATTEMPTS
<1>3. RunsInv /\ WatchInv /\ SessionInv
  BY DEF Init, AgentInit, RunsInv, WatchInv, SessionInv, Planning, Waiting, Over
<1> QED
  BY <1>1, <1>2, <1>3 DEF AgentInv

\* Every step of the agent keeps what is assumed of it.  StartRun and the cancel
\* requests, which change the runs, use the lemmas above.
LEMMA AgentKeeps == ASSUME AgentInv, AgentStep PROVE AgentInv'
<1> USE AgentAssumption DEF At, Fail, Return, planVars, runVars, sessionVars
<1>t. AgentTypeOK /\ BudgetInv /\ RunsInv /\ WatchInv /\ SessionInv
  BY DEF AgentInv
<1>f. /\ Len(runs) \in Nat /\ DOMAIN runs = 1..Len(runs)
      /\ \A i \in DOMAIN runs : runs[i] \in Runs
      /\ runs # <<>> <=> Len(runs) > 0
  BY <1>t, RunFacts
<1>1. CASE BeginSession
  <2>1. AgentTypeOK'
    <3>1. Numbers'
      BY <1>t, <1>1 DEF BeginSession, AgentTypeOK, BudgetInv, Over, Numbers, Call
    <3>2. Flags'
      BY <1>t, <1>1 DEF BeginSession, AgentTypeOK, Flags
    <3>3. Data' /\ runs' \in Seq(Runs)
      BY <1>t, <1>1 DEF BeginSession, AgentTypeOK, Data, Drafts
    <3>4. Places'
      BY <1>t, <1>f, <1>1 DEF BeginSession, AgentTypeOK, RunsInv, Places, Locations,
         SessionStatus, Arrives, Outcomes, Waiting, Runs, Current, IsTerminal, Attached, Executing
    <3> QED
      BY <3>1, <3>2, <3>3, <3>4 DEF AgentTypeOK, Numbers, Flags, Data, Places
  <2>2. BudgetInv'
    BY <1>t, <1>f, <1>1 DEF BeginSession, AgentTypeOK, BudgetInv, RunsInv, Planning,
       Waiting, Over, Reviews, MAX_RUN_ATTEMPTS
  <2>3. RunsInv'
    BY <1>t, <1>f, <1>1 DEF BeginSession, RunsInv, Planning, Waiting, Executing, Current
  <2>4. WatchInv'
    BY <1>t, <1>f, <1>1 DEF BeginSession, RunsInv, WatchInv, Planning, Waiting, Over,
       Executing, Current, Answered, IsTerminal
  <2>5. SessionInv'
    BY <1>t, <1>f, <1>1 DEF BeginSession, AgentTypeOK, RunsInv, SessionInv, Planning, Waiting,
       Over, Current, Unfinished, Completed, Arrives, Outcomes
  <2> QED
    BY <2>1, <2>2, <2>3, <2>4, <2>5 DEF AgentInv
<1>2. CASE Discover
  <2>1. AgentTypeOK'
    <3>1. Numbers'
      BY <1>t, <1>2 DEF Discover, AgentTypeOK, BudgetInv, Over, Numbers, Call
    <3>2. Flags'
      BY <1>t, <1>2 DEF Discover, AgentTypeOK, Flags
    <3>3. Data' /\ runs' \in Seq(Runs)
      BY <1>t, <1>2 DEF Discover, AgentTypeOK, Data, Drafts
    <3>4. Places'
      BY <1>t, <1>f, <1>2 DEF Discover, AgentTypeOK, RunsInv, Places, Locations,
         SessionStatus, Arrives, Outcomes, Waiting, Runs, Current, IsTerminal, Attached, Executing
    <3> QED
      BY <3>1, <3>2, <3>3, <3>4 DEF AgentTypeOK, Numbers, Flags, Data, Places
  <2>2. BudgetInv'
    BY <1>t, <1>f, <1>2 DEF Discover, AgentTypeOK, BudgetInv, RunsInv, Planning,
       Waiting, Over, Reviews, MAX_RUN_ATTEMPTS
  <2>3. RunsInv'
    BY <1>t, <1>f, <1>2 DEF Discover, RunsInv, Planning, Waiting, Executing, Current
  <2>4. WatchInv'
    BY <1>t, <1>f, <1>2 DEF Discover, RunsInv, WatchInv, Planning, Waiting, Over,
       Executing, Current, Answered, IsTerminal
  <2>5. SessionInv'
    BY <1>t, <1>f, <1>2 DEF Discover, AgentTypeOK, RunsInv, SessionInv, Planning, Waiting,
       Over, Current, Unfinished, Completed, Arrives, Outcomes
  <2> QED
    BY <2>1, <2>2, <2>3, <2>4, <2>5 DEF AgentInv
<1>3. CASE ChargeStep
  <2>1. AgentTypeOK'
    <3>1. Numbers'
      BY <1>t, <1>3 DEF ChargeStep, AgentTypeOK, BudgetInv, Over, Numbers, Call
    <3>2. Flags'
      BY <1>t, <1>3 DEF ChargeStep, AgentTypeOK, Flags
    <3>3. Data' /\ runs' \in Seq(Runs)
      BY <1>t, <1>3 DEF ChargeStep, AgentTypeOK, Data, Drafts
    <3>4. Places'
      BY <1>t, <1>f, <1>3 DEF ChargeStep, AgentTypeOK, RunsInv, Places, Locations,
         SessionStatus, Arrives, Outcomes, Waiting, Runs, Current, IsTerminal, Attached, Executing
    <3> QED
      BY <3>1, <3>2, <3>3, <3>4 DEF AgentTypeOK, Numbers, Flags, Data, Places
  <2>2. BudgetInv'
    BY <1>t, <1>f, <1>3 DEF ChargeStep, AgentTypeOK, BudgetInv, RunsInv, Planning,
       Waiting, Over, Reviews, MAX_RUN_ATTEMPTS
  <2>3. RunsInv'
    BY <1>t, <1>f, <1>3 DEF ChargeStep, RunsInv, Planning, Waiting, Executing, Current
  <2>4. WatchInv'
    BY <1>t, <1>f, <1>3 DEF ChargeStep, RunsInv, WatchInv, Planning, Waiting, Over,
       Executing, Current, Answered, IsTerminal
  <2>5. SessionInv'
    BY <1>t, <1>f, <1>3 DEF ChargeStep, AgentTypeOK, RunsInv, SessionInv, Planning, Waiting,
       Over, Current, Unfinished, Completed, Arrives, Outcomes
  <2> QED
    BY <2>1, <2>2, <2>3, <2>4, <2>5 DEF AgentInv
<1>4. CASE CallModel
  <2>1. AgentTypeOK'
    <3>1. Numbers'
      BY <1>t, <1>4 DEF CallModel, AgentTypeOK, BudgetInv, Over, Numbers, Call
    <3>2. Flags'
      BY <1>t, <1>4 DEF CallModel, AgentTypeOK, Flags
    <3>3. Data' /\ runs' \in Seq(Runs)
      BY <1>t, <1>4 DEF CallModel, AgentTypeOK, Data, Drafts
    <3>4. Places'
      BY <1>t, <1>f, <1>4 DEF CallModel, AgentTypeOK, RunsInv, Places, Locations,
         SessionStatus, Arrives, Outcomes, Waiting, Runs, Current, IsTerminal, Attached, Executing
    <3> QED
      BY <3>1, <3>2, <3>3, <3>4 DEF AgentTypeOK, Numbers, Flags, Data, Places
  <2>2. BudgetInv'
    BY <1>t, <1>f, <1>4 DEF CallModel, AgentTypeOK, BudgetInv, RunsInv, Planning,
       Waiting, Over, Reviews, MAX_RUN_ATTEMPTS
  <2>3. RunsInv'
    BY <1>t, <1>f, <1>4 DEF CallModel, RunsInv, Planning, Waiting, Executing, Current
  <2>4. WatchInv'
    BY <1>t, <1>f, <1>4 DEF CallModel, RunsInv, WatchInv, Planning, Waiting, Over,
       Executing, Current, Answered, IsTerminal
  <2>5. SessionInv'
    BY <1>t, <1>f, <1>4 DEF CallModel, AgentTypeOK, RunsInv, SessionInv, Planning, Waiting,
       Over, Current, Unfinished, Completed, Arrives, Outcomes
  <2> QED
    BY <2>1, <2>2, <2>3, <2>4, <2>5 DEF AgentInv
<1>5. CASE Evaluate
  <2>1. AgentTypeOK'
    <3>1. Numbers'
      BY <1>t, <1>5 DEF Evaluate, AgentTypeOK, BudgetInv, Over, Numbers, Call
    <3>2. Flags'
      BY <1>t, <1>5 DEF Evaluate, AgentTypeOK, Flags
    <3>3. Data' /\ runs' \in Seq(Runs)
      BY <1>t, <1>5 DEF Evaluate, AgentTypeOK, Data, Drafts
    <3>4. Places'
      BY <1>t, <1>f, <1>5 DEF Evaluate, AgentTypeOK, RunsInv, Places, Locations,
         SessionStatus, Arrives, Outcomes, Waiting, Runs, Current, IsTerminal, Attached, Executing
    <3> QED
      BY <3>1, <3>2, <3>3, <3>4 DEF AgentTypeOK, Numbers, Flags, Data, Places
  <2>2. BudgetInv'
    BY <1>t, <1>f, <1>5 DEF Evaluate, AgentTypeOK, BudgetInv, RunsInv, Planning,
       Waiting, Over, Reviews, MAX_RUN_ATTEMPTS
  <2>3. RunsInv'
    BY <1>t, <1>f, <1>5 DEF Evaluate, RunsInv, Planning, Waiting, Executing, Current
  <2>4. WatchInv'
    BY <1>t, <1>f, <1>5 DEF Evaluate, RunsInv, WatchInv, Planning, Waiting, Over,
       Executing, Current, Answered, IsTerminal
  <2>5. SessionInv'
    BY <1>t, <1>f, <1>5 DEF Evaluate, AgentTypeOK, RunsInv, SessionInv, Planning, Waiting,
       Over, Current, Unfinished, Completed, Arrives, Outcomes
  <2> QED
    BY <2>1, <2>2, <2>3, <2>4, <2>5 DEF AgentInv
<1>6. CASE ChargeTokens
  <2>1. AgentTypeOK'
    <3>1. Numbers'
      BY <1>t, <1>6 DEF ChargeTokens, AgentTypeOK, BudgetInv, Over, Numbers, Call
    <3>2. Flags'
      BY <1>t, <1>6 DEF ChargeTokens, AgentTypeOK, Flags
    <3>3. Data' /\ runs' \in Seq(Runs)
      BY <1>t, <1>6 DEF ChargeTokens, AgentTypeOK, Data, Drafts
    <3>4. Places'
      BY <1>t, <1>f, <1>6 DEF ChargeTokens, AgentTypeOK, RunsInv, Places, Locations,
         SessionStatus, Arrives, Outcomes, Waiting, Runs, Current, IsTerminal, Attached, Executing
    <3> QED
      BY <3>1, <3>2, <3>3, <3>4 DEF AgentTypeOK, Numbers, Flags, Data, Places
  <2>2. BudgetInv'
    BY <1>t, <1>f, <1>6 DEF ChargeTokens, AgentTypeOK, BudgetInv, RunsInv, Planning,
       Waiting, Over, Reviews, MAX_RUN_ATTEMPTS
  <2>3. RunsInv'
    BY <1>t, <1>f, <1>6 DEF ChargeTokens, RunsInv, Planning, Waiting, Executing, Current
  <2>4. WatchInv'
    BY <1>t, <1>f, <1>6 DEF ChargeTokens, RunsInv, WatchInv, Planning, Waiting, Over,
       Executing, Current, Answered, IsTerminal
  <2>5. SessionInv'
    BY <1>t, <1>f, <1>6 DEF ChargeTokens, AgentTypeOK, RunsInv, SessionInv, Planning, Waiting,
       Over, Current, Unfinished, Completed, Arrives, Outcomes
  <2> QED
    BY <2>1, <2>2, <2>3, <2>4, <2>5 DEF AgentInv
<1>7. CASE CheckGuardrails
  <2>1. AgentTypeOK'
    <3>1. Numbers'
      BY <1>t, <1>7 DEF CheckGuardrails, AgentTypeOK, BudgetInv, Over, Numbers, Call
    <3>2. Flags'
      BY <1>t, <1>7 DEF CheckGuardrails, AgentTypeOK, Flags
    <3>3. Data' /\ runs' \in Seq(Runs)
      BY <1>t, <1>7 DEF CheckGuardrails, AgentTypeOK, Data, Drafts
    <3>4. Places'
      BY <1>t, <1>f, <1>7 DEF CheckGuardrails, AgentTypeOK, RunsInv, Places, Locations,
         SessionStatus, Arrives, Outcomes, Waiting, Runs, Current, IsTerminal, Attached, Executing
    <3> QED
      BY <3>1, <3>2, <3>3, <3>4 DEF AgentTypeOK, Numbers, Flags, Data, Places
  <2>2. BudgetInv'
    BY <1>t, <1>f, <1>7 DEF CheckGuardrails, AgentTypeOK, BudgetInv, RunsInv, Planning,
       Waiting, Over, Reviews, MAX_RUN_ATTEMPTS
  <2>3. RunsInv'
    BY <1>t, <1>f, <1>7 DEF CheckGuardrails, RunsInv, Planning, Waiting, Executing, Current
  <2>4. WatchInv'
    BY <1>t, <1>f, <1>7 DEF CheckGuardrails, RunsInv, WatchInv, Planning, Waiting, Over,
       Executing, Current, Answered, IsTerminal
  <2>5. SessionInv'
    BY <1>t, <1>f, <1>7 DEF CheckGuardrails, AgentTypeOK, RunsInv, SessionInv, Planning, Waiting,
       Over, Current, Unfinished, Completed, Arrives, Outcomes
  <2> QED
    BY <2>1, <2>2, <2>3, <2>4, <2>5 DEF AgentInv
<1>8. CASE Review
  <2>1. AgentTypeOK'
    <3>1. Numbers'
      BY <1>t, <1>8 DEF Review, PlanAgain, AgentTypeOK, BudgetInv, Over, Numbers, Call
    <3>2. Flags'
      BY <1>t, <1>8 DEF Review, PlanAgain, AgentTypeOK, Flags
    <3>3. Data' /\ runs' \in Seq(Runs)
      BY <1>t, <1>8 DEF Review, PlanAgain, AgentTypeOK, Data, Drafts
    <3>4. Places'
      BY <1>t, <1>f, <1>8 DEF Review, PlanAgain, AgentTypeOK, RunsInv, Places, Locations,
         SessionStatus, Arrives, Outcomes, Waiting, Runs, Current, IsTerminal, Attached, Executing
    <3> QED
      BY <3>1, <3>2, <3>3, <3>4 DEF AgentTypeOK, Numbers, Flags, Data, Places
  <2>2. BudgetInv'
    BY <1>t, <1>f, <1>8 DEF Review, PlanAgain, AgentTypeOK, BudgetInv, RunsInv, Planning,
       Waiting, Over, Reviews, MAX_RUN_ATTEMPTS
  <2>3. RunsInv'
    BY <1>t, <1>f, <1>8 DEF Review, PlanAgain, RunsInv, Planning, Waiting, Executing, Current
  <2>4. WatchInv'
    BY <1>t, <1>f, <1>8 DEF Review, PlanAgain, RunsInv, WatchInv, Planning, Waiting, Over,
       Executing, Current, Answered, IsTerminal
  <2>5. SessionInv'
    BY <1>t, <1>f, <1>8 DEF Review, PlanAgain, AgentTypeOK, RunsInv, SessionInv, Planning, Waiting,
       Over, Current, Unfinished, Completed, Arrives, Outcomes
  <2> QED
    BY <2>1, <2>2, <2>3, <2>4, <2>5 DEF AgentInv
<1>9. CASE PublishPlan
  <2>1. AgentTypeOK'
    <3>1. Numbers'
      BY <1>t, <1>9 DEF PublishPlan, AgentTypeOK, BudgetInv, Over, Numbers, Call
    <3>2. Flags'
      BY <1>t, <1>9 DEF PublishPlan, AgentTypeOK, Flags
    <3>3. Data' /\ runs' \in Seq(Runs)
      BY <1>t, <1>9 DEF PublishPlan, AgentTypeOK, Data, Drafts
    <3>4. Places'
      BY <1>t, <1>f, <1>9 DEF PublishPlan, AgentTypeOK, RunsInv, Places, Locations,
         SessionStatus, Arrives, Outcomes, Waiting, Runs, Current, IsTerminal, Attached, Executing
    <3> QED
      BY <3>1, <3>2, <3>3, <3>4 DEF AgentTypeOK, Numbers, Flags, Data, Places
  <2>2. BudgetInv'
    BY <1>t, <1>f, <1>9 DEF PublishPlan, AgentTypeOK, BudgetInv, RunsInv, Planning,
       Waiting, Over, Reviews, MAX_RUN_ATTEMPTS
  <2>3. RunsInv'
    BY <1>t, <1>f, <1>9 DEF PublishPlan, RunsInv, Planning, Waiting, Executing, Current
  <2>4. WatchInv'
    BY <1>t, <1>f, <1>9 DEF PublishPlan, RunsInv, WatchInv, Planning, Waiting, Over,
       Executing, Current, Answered, IsTerminal
  <2>5. SessionInv'
    BY <1>t, <1>f, <1>9 DEF PublishPlan, AgentTypeOK, RunsInv, SessionInv, Planning, Waiting,
       Over, Current, Unfinished, Completed, Arrives, Outcomes
  <2> QED
    BY <2>1, <2>2, <2>3, <2>4, <2>5 DEF AgentInv
<1>10. CASE StartRun
  <2>s. \/ runs' = runs /\ pc' = "finish" /\ final' = "failed" /\ session' = session
        \/ \E r \in Runs :
             /\ r.status \in {"running", "paused"}
             /\ runs' \in Seq(Runs) /\ Len(runs') = Len(runs) + 1
             /\ \A j \in 1..Len(runs) : runs'[j] = runs[j]
             /\ runs'[Len(runs) + 1] = r
             /\ \/ pc' = "wait" /\ final' = final
                \/ pc' = "finish" /\ final' = "failed" /\ r.lost # "none"
                \/ pc' = "finish" /\ final' = "running" /\ config.startPaused
             /\ session' \in {session, "running"}
    BY <1>t, <1>10, StartFacts
  <2>a. /\ At("start") /\ draft' = NoDraft /\ faults' \in 0..MaxFaults
        /\ UNCHANGED <<config, alive, api, steps, calls, plans, repairs, reviewed, seen, knows, unheard>>
    BY <1>t, <1>10 DEF StartRun, AgentTypeOK, Call
  <2>1. AgentTypeOK'
    <3>1. Numbers'
      BY <1>t, <2>a DEF AgentTypeOK, Numbers
    <3>2. Flags'
      BY <1>t, <2>a DEF AgentTypeOK, Flags
    <3>3. Data' /\ runs' \in Seq(Runs)
      BY <1>t, <2>a, <2>s DEF AgentTypeOK, Data, Drafts
    <3>4. Places'
      BY <1>t, <2>a, <2>s DEF AgentTypeOK, Places, Locations, SessionStatus
    <3> QED
      BY <3>1, <3>2, <3>3, <3>4 DEF AgentTypeOK, Numbers, Flags, Data, Places
  <2>2. BudgetInv'
    BY <1>t, <1>f, <2>a, <2>s DEF AgentTypeOK, BudgetInv, Planning, Waiting, Over, Reviews
  <2>d. \A i \in DOMAIN runs : ~Executing(i)
    BY <1>t, <2>a DEF RunsInv, Planning
  <2>e. DOMAIN runs' = 1..Len(runs') /\ Len(runs) <= 1
    BY <1>t, <2>a, <2>s, <1>f DEF RunsInv, Planning
  <2>3. RunsInv' /\ WatchInv'
    <3>1. CASE runs' = runs /\ pc' = "finish"
      BY <1>f, <2>a, <2>d, <3>1
      DEF RunsInv, WatchInv, Planning, Waiting, Over, Executing, Current
    <3>2. CASE \E r \in Runs :
                 /\ r.status \in {"running", "paused"}
                 /\ Len(runs') = Len(runs) + 1
                 /\ \A j \in 1..Len(runs) : runs'[j] = runs[j]
                 /\ runs'[Len(runs) + 1] = r
                 /\ \/ pc' = "wait"
                    \/ pc' = "finish" /\ r.lost # "none"
                    \/ pc' = "finish" /\ config.startPaused
      <4>1. \A i \in DOMAIN runs' : Executing(i)' => i = Len(runs) + 1
        BY <1>f, <2>d, <2>e, <3>2 DEF Executing
      <4>2. \/ pc' = "wait"
            \/ pc' = "finish" /\ (runs'[Len(runs) + 1].lost # "none" \/ config.startPaused)
        BY <3>2
      <4>3. Len(runs') = Len(runs) + 1
        BY <3>2
      <4> QED
        BY <1>f, <2>a, <2>e, <4>1, <4>2, <4>3
        DEF RunsInv, WatchInv, Planning, Waiting, Over, Current, Answered
    <3> QED
      BY <2>s, <3>1, <3>2
  <2>5. SessionInv'
    BY <1>t, <1>f, <2>a, <2>s DEF AgentTypeOK, SessionInv, Over, Unfinished
  <2> QED
    BY <2>1, <2>2, <2>3, <2>5 DEF AgentInv
<1>11. CASE SeeEnd
  <2>1. AgentTypeOK'
    <3>1. Numbers'
      BY <1>t, <1>11 DEF SeeEnd, AgentTypeOK, BudgetInv, Over, Numbers, Call
    <3>2. Flags'
      BY <1>t, <1>11 DEF SeeEnd, AgentTypeOK, Flags
    <3>3. Data' /\ runs' \in Seq(Runs)
      BY <1>t, <1>11 DEF SeeEnd, AgentTypeOK, Data, Drafts
    <3>4. Places'
      BY <1>t, <1>f, <1>11 DEF SeeEnd, AgentTypeOK, RunsInv, Places, Locations,
         SessionStatus, Arrives, Outcomes, Waiting, Runs, Current, IsTerminal, Attached, Executing
    <3> QED
      BY <3>1, <3>2, <3>3, <3>4 DEF AgentTypeOK, Numbers, Flags, Data, Places
  <2>2. BudgetInv'
    BY <1>t, <1>f, <1>11 DEF SeeEnd, AgentTypeOK, BudgetInv, RunsInv, Planning,
       Waiting, Over, Reviews, MAX_RUN_ATTEMPTS
  <2>3. RunsInv'
    BY <1>t, <1>f, <1>11 DEF SeeEnd, RunsInv, Planning, Waiting, Executing, Current
  <2>4. WatchInv'
    BY <1>t, <1>f, <1>11 DEF SeeEnd, RunsInv, WatchInv, Planning, Waiting, Over,
       Executing, Current, Answered, IsTerminal
  <2>5. SessionInv'
    BY <1>t, <1>f, <1>11 DEF SeeEnd, AgentTypeOK, RunsInv, SessionInv, Planning, Waiting,
       Over, Current, Unfinished, Completed, Arrives, Outcomes
  <2> QED
    BY <2>1, <2>2, <2>3, <2>4, <2>5 DEF AgentInv
<1>12. CASE LoseContact
  <2>1. AgentTypeOK'
    <3>1. Numbers'
      BY <1>t, <1>12 DEF LoseContact, AgentTypeOK, BudgetInv, Over, Numbers, Call
    <3>2. Flags'
      BY <1>t, <1>12 DEF LoseContact, AgentTypeOK, Flags
    <3>3. Data' /\ runs' \in Seq(Runs)
      BY <1>t, <1>12 DEF LoseContact, AgentTypeOK, Data, Drafts
    <3>4. Places'
      BY <1>t, <1>f, <1>12 DEF LoseContact, AgentTypeOK, RunsInv, Places, Locations,
         SessionStatus, Arrives, Outcomes, Waiting, Runs, Current, IsTerminal, Attached, Executing
    <3> QED
      BY <3>1, <3>2, <3>3, <3>4 DEF AgentTypeOK, Numbers, Flags, Data, Places
  <2>2. BudgetInv'
    BY <1>t, <1>f, <1>12 DEF LoseContact, AgentTypeOK, BudgetInv, RunsInv, Planning,
       Waiting, Over, Reviews, MAX_RUN_ATTEMPTS
  <2>3. RunsInv'
    BY <1>t, <1>f, <1>12 DEF LoseContact, RunsInv, Planning, Waiting, Executing, Current
  <2>4. WatchInv'
    BY <1>t, <1>f, <1>12 DEF LoseContact, RunsInv, WatchInv, Planning, Waiting, Over,
       Executing, Current, Answered, IsTerminal
  <2>5. SessionInv'
    BY <1>t, <1>f, <1>12 DEF LoseContact, AgentTypeOK, RunsInv, SessionInv, Planning, Waiting,
       Over, Current, Unfinished, Completed, Arrives, Outcomes
  <2> QED
    BY <2>1, <2>2, <2>3, <2>4, <2>5 DEF AgentInv
<1>13. CASE RunTimesOut
  <2>c. /\ runs' \in Seq(Runs) /\ Len(runs') = Len(runs) /\ faults' \in 0..MaxFaults
        /\ runs'[Current].cancelling \/ runs'[Current].lost # "none"
        /\ \A j \in 1..Len(runs) : runs'[j].status = runs[j].status
        /\ \A j \in 1..Len(runs) : j # Current => runs'[j] = runs[j]
    <3>1. runs # <<>>
      BY <1>t, <1>f, <1>13 DEF RunTimesOut, RunsInv, Waiting
    <3> QED
      BY <1>t, <1>13, <3>1, CancelFacts DEF RunTimesOut
  <2>d. DOMAIN runs' = 1..Len(runs') /\ Current' = Current /\ Current = Len(runs)
    BY <2>c DEF Current
  <2>1. AgentTypeOK'
    <3>1. Numbers'
      BY <1>t, <1>13, <2>c DEF RunTimesOut, AgentTypeOK, BudgetInv, Over, Numbers, Call
    <3>2. Flags'
      BY <1>t, <1>13 DEF RunTimesOut, AgentTypeOK, Flags
    <3>3. Data' /\ runs' \in Seq(Runs)
      BY <1>t, <1>13, <2>c DEF RunTimesOut, AgentTypeOK, Data, Drafts
    <3>4. Places'
      BY <1>t, <1>f, <1>13 DEF RunTimesOut, AgentTypeOK, RunsInv, Places, Locations,
         SessionStatus, Arrives, Outcomes, Waiting, Runs, Current, IsTerminal, Attached, Executing
    <3> QED
      BY <3>1, <3>2, <3>3, <3>4 DEF AgentTypeOK, Numbers, Flags, Data, Places
  <2>2. BudgetInv'
    BY <2>c, <2>d, <1>t, <1>f, <1>13 DEF RunTimesOut, AgentTypeOK, BudgetInv, RunsInv, Planning,
       Waiting, Over, Reviews, MAX_RUN_ATTEMPTS
  <2>3. RunsInv'
    BY <2>c, <2>d, <1>t, <1>f, <1>13 DEF RunTimesOut, RunsInv, Planning, Waiting, Executing, Current
  <2>4. WatchInv'
    BY <2>c, <2>d, <1>t, <1>f, <1>13 DEF RunTimesOut, RunsInv, WatchInv, Planning, Waiting, Over,
       Executing, Current, Answered, IsTerminal
  <2>5. SessionInv'
    BY <2>c, <2>d, <1>t, <1>f, <1>13 DEF RunTimesOut, AgentTypeOK, RunsInv, SessionInv, Planning, Waiting,
       Over, Current, Unfinished, Completed, Arrives, Outcomes
  <2> QED
    BY <2>1, <2>2, <2>3, <2>4, <2>5 DEF AgentInv
<1>14. CASE GraceEnds
  <2>1. AgentTypeOK'
    <3>1. Numbers'
      BY <1>t, <1>14 DEF GraceEnds, AgentTypeOK, BudgetInv, Over, Numbers, Call
    <3>2. Flags'
      BY <1>t, <1>14 DEF GraceEnds, AgentTypeOK, Flags
    <3>3. Data' /\ runs' \in Seq(Runs)
      BY <1>t, <1>14 DEF GraceEnds, AgentTypeOK, Data, Drafts
    <3>4. Places'
      BY <1>t, <1>f, <1>14 DEF GraceEnds, AgentTypeOK, RunsInv, Places, Locations,
         SessionStatus, Arrives, Outcomes, Waiting, Runs, Current, IsTerminal, Attached, Executing
    <3> QED
      BY <3>1, <3>2, <3>3, <3>4 DEF AgentTypeOK, Numbers, Flags, Data, Places
  <2>2. BudgetInv'
    BY <1>t, <1>f, <1>14 DEF GraceEnds, AgentTypeOK, BudgetInv, RunsInv, Planning,
       Waiting, Over, Reviews, MAX_RUN_ATTEMPTS
  <2>3. RunsInv'
    BY <1>t, <1>f, <1>14 DEF GraceEnds, RunsInv, Planning, Waiting, Executing, Current
  <2>4. WatchInv'
    BY <1>t, <1>f, <1>14 DEF GraceEnds, RunsInv, WatchInv, Planning, Waiting, Over,
       Executing, Current, Answered, IsTerminal
  <2>5. SessionInv'
    BY <1>t, <1>f, <1>14 DEF GraceEnds, AgentTypeOK, RunsInv, SessionInv, Planning, Waiting,
       Over, Current, Unfinished, Completed, Arrives, Outcomes
  <2> QED
    BY <2>1, <2>2, <2>3, <2>4, <2>5 DEF AgentInv
<1>15. CASE AbandonRun
  <2>c. /\ runs' \in Seq(Runs) /\ Len(runs') = Len(runs) /\ faults' \in 0..MaxFaults
        /\ runs'[Current].cancelling \/ runs'[Current].lost # "none"
        /\ \A j \in 1..Len(runs) : runs'[j].status = runs[j].status
        /\ \A j \in 1..Len(runs) : j # Current => runs'[j] = runs[j]
    <3>1. runs # <<>>
      BY <1>t, <1>f, <1>15 DEF AbandonRun, RunsInv, Waiting
    <3> QED
      BY <1>t, <1>15, <3>1, CancelFacts DEF AbandonRun
  <2>d. DOMAIN runs' = 1..Len(runs') /\ Current' = Current /\ Current = Len(runs)
    BY <2>c DEF Current
  <2>1. AgentTypeOK'
    <3>1. Numbers'
      BY <1>t, <1>15, <2>c DEF AbandonRun, AgentTypeOK, BudgetInv, Over, Numbers, Call
    <3>2. Flags'
      BY <1>t, <1>15 DEF AbandonRun, AgentTypeOK, Flags
    <3>3. Data' /\ runs' \in Seq(Runs)
      BY <1>t, <1>15, <2>c DEF AbandonRun, AgentTypeOK, Data, Drafts
    <3>4. Places'
      BY <1>t, <1>f, <1>15 DEF AbandonRun, AgentTypeOK, RunsInv, Places, Locations,
         SessionStatus, Arrives, Outcomes, Waiting, Runs, Current, IsTerminal, Attached, Executing
    <3> QED
      BY <3>1, <3>2, <3>3, <3>4 DEF AgentTypeOK, Numbers, Flags, Data, Places
  <2>2. BudgetInv'
    BY <2>c, <2>d, <1>t, <1>f, <1>15 DEF AbandonRun, AgentTypeOK, BudgetInv, RunsInv, Planning,
       Waiting, Over, Reviews, MAX_RUN_ATTEMPTS
  <2>3. RunsInv'
    BY <2>c, <2>d, <1>t, <1>f, <1>15 DEF AbandonRun, RunsInv, Planning, Waiting, Executing, Current
  <2>4. WatchInv'
    BY <2>c, <2>d, <1>t, <1>f, <1>15 DEF AbandonRun, RunsInv, WatchInv, Planning, Waiting, Over,
       Executing, Current, Answered, IsTerminal
  <2>5. SessionInv'
    BY <2>c, <2>d, <1>t, <1>f, <1>15 DEF AbandonRun, AgentTypeOK, RunsInv, SessionInv, Planning, Waiting,
       Over, Current, Unfinished, Completed, Arrives, Outcomes
  <2> QED
    BY <2>1, <2>2, <2>3, <2>4, <2>5 DEF AgentInv
<1>16. CASE Classify
  <2>1. AgentTypeOK'
    <3>1. Numbers'
      BY <1>t, <1>16 DEF Classify, PlanAgain, AgentTypeOK, BudgetInv, Over, Numbers, Call
    <3>2. Flags'
      BY <1>t, <1>16 DEF Classify, PlanAgain, AgentTypeOK, Flags
    <3>3. Data' /\ runs' \in Seq(Runs)
      BY <1>t, <1>16 DEF Classify, PlanAgain, AgentTypeOK, Data, Drafts
    <3>4. Places'
      BY <1>t, <1>f, <1>16 DEF Classify, PlanAgain, AgentTypeOK, RunsInv, Places, Locations,
         SessionStatus, Arrives, Outcomes, Waiting, Runs, Current, IsTerminal, Attached, Executing
    <3> QED
      BY <3>1, <3>2, <3>3, <3>4 DEF AgentTypeOK, Numbers, Flags, Data, Places
  <2>2. BudgetInv'
    BY <1>t, <1>f, <1>16 DEF Classify, PlanAgain, AgentTypeOK, BudgetInv, RunsInv, Planning,
       Waiting, Over, Reviews, MAX_RUN_ATTEMPTS, Current
  <2>3. RunsInv'
    BY <1>t, <1>f, <1>16 DEF Classify, PlanAgain, RunsInv, Planning, Waiting, Executing, Current, Replannable, MAX_RUN_ATTEMPTS
  <2>4. WatchInv'
    BY <1>t, <1>f, <1>16 DEF Classify, PlanAgain, RunsInv, WatchInv, Planning, Waiting, Over,
       Executing, Current, Answered, IsTerminal
  <2>5. SessionInv'
    BY <1>t, <1>f, <1>16 DEF Classify, PlanAgain, AgentTypeOK, RunsInv, SessionInv, Planning, Waiting,
       Over, Current, Unfinished, Completed, Arrives, Outcomes
  <2> QED
    BY <2>1, <2>2, <2>3, <2>4, <2>5 DEF AgentInv
<1>17. CASE FinishSession
  <2>1. AgentTypeOK'
    <3>1. Numbers'
      BY <1>t, <1>17 DEF FinishSession, AgentTypeOK, BudgetInv, Over, Numbers, Call
    <3>2. Flags'
      BY <1>t, <1>17 DEF FinishSession, AgentTypeOK, Flags
    <3>3. Data' /\ runs' \in Seq(Runs)
      BY <1>t, <1>17 DEF FinishSession, AgentTypeOK, Data, Drafts
    <3>4. Places'
      BY <1>t, <1>f, <1>17 DEF FinishSession, AgentTypeOK, RunsInv, Places, Locations,
         SessionStatus, Arrives, Outcomes, Waiting, Runs, Current, IsTerminal, Attached, Executing
    <3> QED
      BY <3>1, <3>2, <3>3, <3>4 DEF AgentTypeOK, Numbers, Flags, Data, Places
  <2>2. BudgetInv'
    BY <1>t, <1>f, <1>17 DEF FinishSession, AgentTypeOK, BudgetInv, RunsInv, Planning,
       Waiting, Over, Reviews, MAX_RUN_ATTEMPTS
  <2>3. RunsInv'
    BY <1>t, <1>f, <1>17 DEF FinishSession, RunsInv, Planning, Waiting, Executing, Current
  <2>4. WatchInv'
    BY <1>t, <1>f, <1>17 DEF FinishSession, RunsInv, WatchInv, Planning, Waiting, Over,
       Executing, Current, Answered, IsTerminal
  <2>5. SessionInv'
    BY <1>t, <1>f, <1>17 DEF FinishSession, AgentTypeOK, RunsInv, SessionInv, Planning, Waiting,
       Over, Current, Unfinished, Completed, Arrives, Outcomes
  <2> QED
    BY <2>1, <2>2, <2>3, <2>4, <2>5 DEF AgentInv
<1> QED
  BY <1>1, <1>2, <1>3, <1>4, <1>5, <1>6, <1>7, <1>8, <1>9, <1>10, <1>11, <1>12, <1>13, <1>14, <1>15, <1>16, <1>17 DEF AgentStep

\* What does not go through the agent's loop leaves its own state alone, and at
\* most ends runs: that keeps what is assumed of the agent.
Quiet == /\ UNCHANGED AgentRest
         /\ alive' \in BOOLEAN /\ api' \in BOOLEAN
         /\ runs' \in Seq(Runs) /\ Len(runs') = Len(runs)
         /\ \A j \in 1..Len(runs) :
              /\ runs'[j].cancelling = runs[j].cancelling /\ runs'[j].lost = runs[j].lost
              /\ Executing(j)' => Executing(j)
              /\ ~Executing(j) => runs'[j].status = runs[j].status

LEMMA QuietKeeps == ASSUME AgentInv, Quiet PROVE AgentInv'
<1> USE DEF planVars, sessionVars, AgentRest
<1>t. AgentTypeOK /\ BudgetInv /\ RunsInv /\ WatchInv /\ SessionInv
  BY DEF AgentInv
<1>f. /\ Len(runs) \in Nat /\ DOMAIN runs = 1..Len(runs)
      /\ runs # <<>> <=> Len(runs) > 0
  BY <1>t, RunFacts
<1>g. /\ DOMAIN runs' = 1..Len(runs) /\ Len(runs') = Len(runs) /\ Current' = Current
      /\ runs' # <<>> <=> runs # <<>>
  BY <1>f DEF Quiet, Current
<1>1. AgentTypeOK'
  BY <1>t DEF Quiet, AgentTypeOK
<1>2. BudgetInv'
  BY <1>t, <1>g DEF Quiet, BudgetInv, Over, Planning, Waiting, Reviews
<1>3. RunsInv'
  <2>1. \A j \in 1..Len(runs) : Executing(j)' => Executing(j)
    BY DEF Quiet
  <2>2. pc' = "classify" /\ seen' \in {"completed", "failed"} => runs'[Current].status = seen
    BY <1>t, <1>f DEF Quiet, RunsInv, Executing, Waiting, Current
  <2> QED
    BY <1>t, <1>f, <1>g, <2>1, <2>2 DEF Quiet, RunsInv, Planning, Waiting, Current
<1>4. WatchInv'
  BY <1>t, <1>f, <1>g DEF Quiet, WatchInv, RunsInv, Waiting, Over, Answered, Current
<1>5. SessionInv'
  <2>1. Completed => Completed'
    BY <1>f, <1>g DEF Quiet, Completed, Executing, Current
  <2> QED
    BY <1>t, <2>1 DEF Quiet, SessionInv, Over, Unfinished
<1> QED
  BY <1>1, <1>2, <1>3, <1>4, <1>5 DEF AgentInv

\* A run the runtime moves was going, and only its status and cause change.
LEMMA RuntimeIsQuiet == ASSUME AgentInv, RuntimeStep PROVE Quiet
<1>t. AgentTypeOK /\ Len(runs) \in Nat /\ DOMAIN runs = 1..Len(runs)
      /\ \A i \in DOMAIN runs : runs[i] \in Runs
  BY RunFacts DEF AgentInv
<1>1. PICK i \in DOMAIN runs : RunMoves(i)
  BY DEF RuntimeStep
<1>2. PICK to \in {"running", "paused", "completed", "failed", "cancelled"},
           cause \in Causes \cup {"none"} :
         /\ Executing(i)
         /\ runs' = [runs EXCEPT ![i].status = to, ![i].cause = cause]
  BY <1>1 DEF RunMoves, Executing
<1> DEFINE r == [[runs[i] EXCEPT !.status = to] EXCEPT !.cause = cause]
<1>3. r \in Runs /\ r.cancelling = runs[i].cancelling /\ r.lost = runs[i].lost
  BY <1>t, <1>1 DEF Runs
<1>4. runs' = [runs EXCEPT ![i] = r]
  BY <1>t, <1>1, <1>2 DEF AgentTypeOK
<1> HIDE DEF r
<1>5. /\ runs' \in Seq(Runs) /\ Len(runs') = Len(runs)
      /\ runs'[i] = r /\ \A j \in 1..Len(runs) : j # i => runs'[j] = runs[j]
  BY <1>t, <1>1, <1>3, <1>4, ChangedRun DEF AgentTypeOK
<1>6. UNCHANGED AgentRest /\ alive' \in BOOLEAN /\ api' \in BOOLEAN
  BY <1>t, <1>1 DEF RunMoves, AgentRest, AgentTypeOK, planVars, sessionVars
<1> QED
  BY <1>t, <1>2, <1>3, <1>5, <1>6 DEF Quiet, Executing

\* A step that leaves the runs alone too.
LEMMA IdleIsQuiet ==
    ASSUME AgentInv, UNCHANGED <<AgentRest, runs>>, alive' \in BOOLEAN, api' \in BOOLEAN
    PROVE  Quiet
  BY RunFacts DEF Quiet, AgentInv, AgentTypeOK, Executing

\* The Studio closes: the runs of its own runtime are gone.
LEMMA CloseIsQuiet == ASSUME AgentInv, Close PROVE Quiet
<1>t. AgentTypeOK /\ Len(runs) \in Nat /\ DOMAIN runs = 1..Len(runs)
      /\ \A i \in DOMAIN runs : runs[i] \in Runs
  BY RunFacts DEF AgentInv
<1> DEFINE Ended(i) == [runs[i] EXCEPT !.status = IF Executing(i) THEN "gone" ELSE @]
<1>1. /\ \/ runs' = [i \in DOMAIN runs |-> Ended(i)]
         \/ runs' = runs
      /\ UNCHANGED AgentRest /\ alive' \in BOOLEAN /\ api' \in BOOLEAN
  BY <1>t DEF Close, AgentTypeOK
<1>2. CASE runs' = runs
  BY <1>1, <1>2, IdleIsQuiet
<1>3. CASE runs' = [i \in DOMAIN runs |-> Ended(i)]
  <2>1. \A i \in 1..Len(runs) :
           /\ Ended(i) \in Runs /\ Ended(i).status \notin {"running", "paused"}
           /\ Ended(i).cancelling = runs[i].cancelling /\ Ended(i).lost = runs[i].lost
           /\ ~Executing(i) => Ended(i).status = runs[i].status
    BY <1>t DEF Runs, Executing
  <2> HIDE DEF Ended
  <2>2. runs' \in Seq(Runs) /\ Len(runs') = Len(runs)
    BY <1>t, <1>3, <2>1
  <2> QED
    BY <1>t, <1>1, <1>3, <2>1, <2>2 DEF Quiet, Executing
<1> QED
  BY <1>1, <1>2, <1>3

-----------------------------------------------------------------------------
LEMMA ShellInitially == ASSUME Init PROVE ShellInv
  BY DEF Init, ShellInv, ShellTypeOK, StopInv, ChildInv, RuntimeIsOwned

\* The shell's parts, step by step.  A mark is taken away only by the turn that
\* looks for it, which remembers it, so a stop that killed a turn being read is
\* seen at its end.
LEMMA ShellKeeps == ASSUME ShellInv, Next PROVE ShellInv'
<1> USE DEF Up, shellVars, runtimeVars, turnVars, TurnRest, StopRest
<1>t. ShellTypeOK /\ StopInv /\ ChildInv
  BY DEF ShellInv
<1>1. CASE UNCHANGED shellVars
  BY <1>t, <1>1 DEF ShellInv, ShellTypeOK, StopInv, ChildInv, RuntimeIsOwned
<1>2. CASE AgentExits
  <2>1. ShellTypeOK'
    BY <1>t, <1>2 DEF AgentExits, ShellTypeOK
  <2>2. StopInv'
    BY <1>t, <1>2 DEF AgentExits, ShellTypeOK, StopInv
  <2>3. ChildInv'
    BY <1>t, <1>2 DEF AgentExits, ShellTypeOK, ChildInv, RuntimeIsOwned
  <2> QED
    BY <2>1, <2>2, <2>3 DEF ShellInv
<1>3. CASE Probe
  <2>1. ShellTypeOK'
    BY <1>t, <1>3 DEF Probe, ShellTypeOK
  <2>2. StopInv'
    BY <1>t, <1>3 DEF Probe, ShellTypeOK, StopInv
  <2>3. ChildInv'
    BY <1>t, <1>3 DEF Probe, ShellTypeOK, ChildInv, RuntimeIsOwned
  <2> QED
    BY <2>1, <2>2, <2>3 DEF ShellInv
<1>4. CASE SpawnRuntime
  <2>1. ShellTypeOK'
    BY <1>t, <1>4 DEF SpawnRuntime, ShellTypeOK
  <2>2. StopInv'
    BY <1>t, <1>4 DEF SpawnRuntime, ShellTypeOK, StopInv
  <2>3. ChildInv'
    BY <1>t, <1>4 DEF SpawnRuntime, ShellTypeOK, ChildInv, RuntimeIsOwned
  <2> QED
    BY <2>1, <2>2, <2>3 DEF ShellInv
<1>5. CASE ChildBinds
  <2>1. ShellTypeOK'
    BY <1>t, <1>5 DEF ChildBinds, ShellTypeOK
  <2>2. StopInv'
    BY <1>t, <1>5 DEF ChildBinds, ShellTypeOK, StopInv
  <2>3. ChildInv'
    BY <1>t, <1>5 DEF ChildBinds, ShellTypeOK, ChildInv, RuntimeIsOwned
  <2> QED
    BY <2>1, <2>2, <2>3 DEF ShellInv
<1>6. CASE FinishStart
  <2>1. ShellTypeOK'
    BY <1>t, <1>6 DEF FinishStart, ShellTypeOK
  <2>2. StopInv'
    BY <1>t, <1>6 DEF FinishStart, ShellTypeOK, StopInv
  <2>3. ChildInv'
    BY <1>t, <1>6 DEF FinishStart, ShellTypeOK, ChildInv, RuntimeIsOwned
  <2> QED
    BY <2>1, <2>2, <2>3 DEF ShellInv
<1>7. CASE StartByHand
  <2>1. ShellTypeOK'
    BY <1>t, <1>7 DEF StartByHand, ShellTypeOK
  <2>2. StopInv'
    BY <1>t, <1>7 DEF StartByHand, ShellTypeOK, StopInv
  <2>3. ChildInv'
    BY <1>t, <1>7 DEF StartByHand, ShellTypeOK, ChildInv, RuntimeIsOwned
  <2> QED
    BY <2>1, <2>2, <2>3 DEF ShellInv
<1>8. CASE Close
  <2>1. ShellTypeOK'
    BY <1>t, <1>8 DEF Close, ShellTypeOK
  <2>2. StopInv'
    BY <1>t, <1>8 DEF Close, ShellTypeOK, StopInv
  <2>3. ChildInv'
    BY <1>t, <1>8 DEF Close, ShellTypeOK, ChildInv, RuntimeIsOwned
  <2> QED
    BY <2>1, <2>2, <2>3 DEF ShellInv
<1>9. CASE SpawnAgent
  <2>1. ShellTypeOK'
    BY <1>t, <1>9 DEF SpawnAgent, ShellTypeOK
  <2>2. StopInv'
    BY <1>t, <1>9 DEF SpawnAgent, ShellTypeOK, StopInv
  <2>3. ChildInv'
    BY <1>t, <1>9 DEF SpawnAgent, ShellTypeOK, ChildInv, RuntimeIsOwned
  <2> QED
    BY <2>1, <2>2, <2>3 DEF ShellInv
<1>10. CASE Register
  <2>1. ShellTypeOK'
    BY <1>t, <1>10 DEF Register, ShellTypeOK
  <2>2. StopInv'
    BY <1>t, <1>10 DEF Register, ShellTypeOK, StopInv
  <2>3. ChildInv'
    BY <1>t, <1>10 DEF Register, ShellTypeOK, ChildInv, RuntimeIsOwned
  <2> QED
    BY <2>1, <2>2, <2>3 DEF ShellInv
<1>11. CASE StreamEnds
  <2>1. ShellTypeOK'
    BY <1>t, <1>11 DEF StreamEnds, ShellTypeOK
  <2>2. StopInv'
    BY <1>t, <1>11 DEF StreamEnds, ShellTypeOK, StopInv
  <2>3. ChildInv'
    BY <1>t, <1>11 DEF StreamEnds, ShellTypeOK, ChildInv, RuntimeIsOwned
  <2> QED
    BY <2>1, <2>2, <2>3 DEF ShellInv
<1>12. CASE LookForMark
  <2>1. ShellTypeOK'
    BY <1>t, <1>12 DEF LookForMark, ShellTypeOK
  <2>2. StopInv'
    BY <1>t, <1>12 DEF LookForMark, ShellTypeOK, StopInv
  <2>3. ChildInv'
    BY <1>t, <1>12 DEF LookForMark, ShellTypeOK, ChildInv, RuntimeIsOwned
  <2> QED
    BY <2>1, <2>2, <2>3 DEF ShellInv
<1>13. CASE LockChild
  <2>1. ShellTypeOK'
    BY <1>t, <1>13 DEF LockChild, ShellTypeOK
  <2>2. StopInv'
    BY <1>t, <1>13 DEF LockChild, ShellTypeOK, StopInv
  <2>3. ChildInv'
    BY <1>t, <1>13 DEF LockChild, ShellTypeOK, ChildInv, RuntimeIsOwned
  <2> QED
    BY <2>1, <2>2, <2>3 DEF ShellInv
<1>14. CASE Conclude
  <2>1. ShellTypeOK'
    BY <1>t, <1>14 DEF Conclude, ShellTypeOK
  <2>2. StopInv'
    BY <1>t, <1>14 DEF Conclude, ShellTypeOK, StopInv
  <2>3. ChildInv'
    BY <1>t, <1>14 DEF Conclude, ShellTypeOK, ChildInv, RuntimeIsOwned
  <2> QED
    BY <2>1, <2>2, <2>3 DEF ShellInv
<1>15. ASSUME NEW s \in Stops, FindChild(s) PROVE ShellInv'
  <2>1. ShellTypeOK'
    BY <1>t, <1>15 DEF FindChild, ShellTypeOK
  <2>2. StopInv'
    BY <1>t, <1>15 DEF FindChild, ShellTypeOK, StopInv
  <2>3. ChildInv'
    BY <1>t, <1>15 DEF FindChild, ShellTypeOK, ChildInv, RuntimeIsOwned
  <2> QED
    BY <2>1, <2>2, <2>3 DEF ShellInv
<1>16. ASSUME NEW s \in Stops, MarkTurn(s) PROVE ShellInv'
  <2>1. ShellTypeOK'
    BY <1>t, <1>16 DEF MarkTurn, ShellTypeOK
  <2>2. StopInv'
    BY <1>t, <1>16 DEF MarkTurn, ShellTypeOK, StopInv
  <2>3. ChildInv'
    BY <1>t, <1>16 DEF MarkTurn, ShellTypeOK, ChildInv, RuntimeIsOwned
  <2> QED
    BY <2>1, <2>2, <2>3 DEF ShellInv
<1>17. ASSUME NEW s \in Stops, KillAgent(s) PROVE ShellInv'
  <2>1. ShellTypeOK'
    BY <1>t, <1>17 DEF KillAgent, ShellTypeOK
  <2>2. StopInv'
    BY <1>t, <1>17 DEF KillAgent, ShellTypeOK, StopInv
  <2>3. ChildInv'
    BY <1>t, <1>17 DEF KillAgent, ShellTypeOK, ChildInv, RuntimeIsOwned
  <2> QED
    BY <2>1, <2>2, <2>3 DEF ShellInv
<1> QED
  BY <1>1, <1>2, <1>3, <1>4, <1>5, <1>6, <1>7, <1>8, <1>9, <1>10, <1>11, <1>12, <1>13, <1>14, <1>15, <1>16, <1>17
  DEF Next, AgentProcess, AgentRuns, Environment, TurnStep, StopStep

-----------------------------------------------------------------------------
LEMMA TurnInductive == TurnInv /\ [Next]_vars => TurnInv'
<1> SUFFICES ASSUME TurnInv, [Next]_vars PROVE TurnInv'
  OBVIOUS
<1>t. AgentInv /\ ShellInv /\ AgentTypeOK /\ ShellTypeOK
  BY DEF TurnInv, AgentInv, ShellInv
<1>1. CASE UNCHANGED vars
  <2>1. UNCHANGED <<AgentRest, runs, alive, api, shellVars>>
    BY <1>1 DEF vars, agentVars, AgentRest, runVars
  <2>2. AgentInv'
    BY <1>t, <2>1, IdleIsQuiet, QuietKeeps DEF AgentTypeOK
  <2>3. ShellInv'
    BY <1>t, <2>1 DEF shellVars, runtimeVars, turnVars, ShellInv, ShellTypeOK, StopInv,
                      ChildInv, RuntimeIsOwned
  <2> QED
    BY <2>2, <2>3 DEF TurnInv
<1>2. CASE Next
  <2>1. AgentInv'
    <3>1. CASE AgentRuns
      BY <1>t, <3>1, AgentKeeps DEF AgentRuns
    <3>2. CASE Environment
      BY <1>t, <3>2, RuntimeIsQuiet, QuietKeeps DEF Environment
    <3>3. CASE Close
      BY <1>t, <3>3, CloseIsQuiet, QuietKeeps
    <3>4. CASE AgentExits \/ TurnStep \/ \E s \in Stops : StopStep(s)
      <4>1. UNCHANGED <<AgentRest, runs>> /\ alive' \in BOOLEAN /\ api' \in BOOLEAN
        BY <1>t, <3>4 DEF AgentExits, TurnStep, SpawnAgent, Register, StreamEnds, LookForMark,
             LockChild, Conclude, StopStep, FindChild, MarkTurn, KillAgent, TurnRest, agentVars,
             runVars, AgentRest, AgentTypeOK
      <4> QED
        BY <1>t, <4>1, IdleIsQuiet, QuietKeeps
    <3>5. CASE StartByHand \/ Probe \/ SpawnRuntime \/ ChildBinds \/ FinishStart
      <4>1. UNCHANGED <<AgentRest, runs>> /\ alive' \in BOOLEAN /\ api' \in BOOLEAN
        BY <1>t, <3>5 DEF StartByHand, Probe, SpawnRuntime, ChildBinds, FinishStart, agentVars,
             runVars, AgentRest, AgentTypeOK
      <4> QED
        BY <1>t, <4>1, IdleIsQuiet, QuietKeeps
    <3> QED
      BY <1>2, <3>1, <3>2, <3>3, <3>4, <3>5 DEF Next, AgentProcess
  <2> QED
    BY <1>t, <1>2, <2>1, ShellKeeps DEF TurnInv
<1> QED
  BY <1>1, <1>2

\* The invariant the theorems below follow from (the agent's loop and the shell
\* around it, whatever is lost, stopped, closed or crashed).
THEOREM TurnInvariant == Spec => []TurnInv
<1>1. Init => TurnInv
  BY AgentInitially, ShellInitially DEF TurnInv
<1> QED
  BY <1>1, TurnInductive, PTL DEF Spec

\* Every variable has its type, the agent has at most one run going, and a runtime
\* that holds the port for the shell is the child it will kill (agent.rs's loop
\* over run_once; RuntimeProcess in main.rs).
THEOREM OwnersAreClear == Spec => []ShellConsistent
<1>1. TurnInv => ShellConsistent
  <2>1. AgentInv => AgentTypeOK /\ OneRunAtATime
    BY RunFacts DEF AgentInv, RunsInv, OneRunAtATime
  <2>2. ShellInv => ShellTypeOK /\ RuntimeIsOwned
    BY DEF ShellInv, ChildInv
  <2> QED
    BY <2>1, <2>2 DEF TurnInv, ShellConsistent, AgentConsistent
<1> QED
  BY <1>1, TurnInvariant, PTL

\* However the drafts, repairs, reviews and failed runs follow one another, the
\* agent makes no model call that its step budget does not cover, and asks for no
\* more plans than the run attempts and the one review (charge_step, session).
THEOREM BudgetIsKept == Spec => []BudgetCaps
<1>1. TurnInv => BudgetCaps
  BY DEF TurnInv, AgentInv, BudgetInv, BudgetCaps
<1> QED
  BY <1>1, TurnInvariant, PTL

\* A run the agent started does not go on unattended: whichever call is lost, it
\* ended, was left paused on purpose, or was cancelled as far as the agent could
\* (wait_for_run, cancel_run).
THEOREM NoRunIsLeft == Spec => []NoUnattendedRun
<1>1. TurnInv => NoUnattendedRun
  BY DEF TurnInv, AgentInv, WatchInv, Over, Answered, NoUnattendedRun
<1> QED
  BY <1>1, TurnInvariant, PTL

\* The session an agent opened is closed with the turn's status, and it is called
\* completed only when its last run completed (finish_session, fail_session).
THEOREM SessionEndsClosed == Spec => []SessionIsClosed
<1>1. TurnInv => SessionIsClosed
  BY DEF TurnInv, AgentInv, SessionInv, Unfinished, Completed, SessionIsClosed
<1> QED
  BY <1>1, TurnInvariant, PTL

\* A turn an operator stopped while its output was read ends as cancelled, for any
\* number of stops in any order with the end of the stream
\* (run_agent_turn_stream_inner, stop_agent_turn).
THEOREM StopShowsAsCancelled == Spec => []StopIsNotAFailure
<1>1. TurnInv => StopIsNotAFailure
  BY DEF TurnInv, ShellInv, StopInv, StopIsNotAFailure
<1> QED
  BY <1>1, TurnInvariant, PTL

=============================================================================
