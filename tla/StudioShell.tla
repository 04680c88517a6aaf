----------------------------- MODULE StudioShell -----------------------------
(***************************************************************************)
(* The Studio's desktop shell (src-tauri/main.rs) around one agent turn:   *)
(* it reuses or starts a runtime, runs the agent as a child process whose  *)
(* output it forwards, lets the operator stop the turn from other threads, *)
(* and on its way out kills the runtime it started.  A turn of the command *)
(* line's agent, which nobody watches, is the case without a shell turn.   *)
(***************************************************************************)
EXTENDS AgentLoop

CONSTANTS Stops,    \* the calls of stop_agent_turn
          Configs   \* the turns asked for

ASSUME ConfigsAssumption == Configs \subseteq CliConfigs \cup StudioConfigs

VARIABLES
    studio,     \* the shell: starting its runtime, up, closed or crashed
    listener,   \* who listens on RUNTIME_ADDRESS
    child,      \* the runtime this shell started and has as RuntimeProcess::child
    turn,       \* the thread in run_agent_turn_stream_inner
    registered, \* the turn is in AgentProcesses::children
    marked,     \* the turn is in AgentProcesses::cancelled
    sawMark,    \* the mark was there when the turn looked for it
    pipe,       \* somebody reads the agent's stdout
    status,     \* what the turn will be told of the agent's end
    result,     \* how the turn ended
    stop,       \* what each call of stop_agent_turn is doing
    cut         \* a stop killed the agent while its output was still read

runtimeVars == <<studio, listener, child>>
turnVars == <<turn, registered, marked, sawMark, pipe, status, result>>
shellVars == <<runtimeVars, turnVars, stop, cut>>
vars == <<agentVars, shellVars>>

ShellTypeOK ==
    /\ studio \in {"probing", "spawning", "waiting", "up", "closed", "crashed"}
    /\ listener \in {"none", "manual", "own"}
    /\ child \in {"none", "running"}
    /\ turn \in {"none", "cli", "spawned", "reading", "streamed", "looked",
                 "waiting", "done", "gone"}
    /\ registered \in BOOLEAN /\ marked \in BOOLEAN /\ sawMark \in BOOLEAN
    /\ pipe \in BOOLEAN
    /\ status \in {"none", "failure"}
    /\ result \in {"none", "ok", "error", "cancelled"}
    /\ stop \in [Stops -> {"idle", "found", "marked", "true", "false"}]
    /\ cut \in BOOLEAN

Init ==
    /\ AgentInit(Configs)
    /\ \/ /\ config \in StudioConfigs
          /\ studio = "probing" /\ turn = "none" /\ alive = FALSE
          /\ listener \in {"none", "manual"}
       \/ /\ config \in CliConfigs
          /\ studio = "closed" /\ turn = "cli" /\ alive = TRUE
          /\ listener = "manual"
    /\ api = (listener # "none")
    /\ child = "none"
    /\ registered = FALSE /\ marked = FALSE /\ sawMark = FALSE
    /\ pipe = TRUE /\ status = "none" /\ result = "none"
    /\ stop = [s \in Stops |-> "idle"] /\ cut = FALSE

\* What the agent's own steps leave alone, and the other way round.
AgentRest == <<config, pc, planVars, seen, sessionVars, faults>>

-----------------------------------------------------------------------------
\* RuntimeProcess.

\* Somebody starts a runtime by hand.
StartByHand ==
    /\ listener = "none" /\ studio \in {"probing", "spawning", "waiting"}
    /\ listener' = "manual" /\ api' = TRUE
    /\ UNCHANGED <<AgentRest, alive, runs, studio, child, turnVars, stop, cut>>

\* start: a runtime already there is reused.
Probe ==
    /\ studio = "probing"
    /\ studio' = IF listener # "none" THEN "up" ELSE "spawning"
    /\ UNCHANGED <<agentVars, listener, child, turnVars, stop, cut>>

\* find_runtime_binary and spawn_runtime, which may fail.
SpawnRuntime ==
    /\ studio = "spawning"
    /\ \/ studio' = "waiting" /\ child' = "running"
       \/ studio' = "up" /\ child' = "none"
    /\ UNCHANGED <<agentVars, listener, turnVars, stop, cut>>

\* The child binds the port, or finds it taken and exits; one that is late does
\* so before the first turn.
ChildBinds ==
    /\ child = "running" /\ listener # "own" /\ turn = "none"
    /\ IF listener = "none"
       THEN listener' = "own" /\ api' = TRUE /\ UNCHANGED child
       ELSE child' = "none" /\ UNCHANGED <<listener, api>>
    /\ UNCHANGED <<AgentRest, alive, runs, studio, turnVars, stop, cut>>

\* Mutant: a runtime that is not ready in time is not kept as the child to kill.
DropLateChild ==
    /\ studio = "waiting" /\ studio' = "up"
    /\ child' = "none"
    /\ UNCHANGED <<agentVars, listener, turnVars, stop, cut>>

\* wait_until_reachable ends, ready or not: the child is kept either way.
FinishStart ==
    /\ studio = "waiting" /\ studio' = "up"
    /\ UNCHANGED <<agentVars, listener, child, turnVars, stop, cut>>

\* The app exits (RuntimeProcess::stop), or crashes: then the child dies only if
\* it was bound to a job object.  The turn's thread and the agent's pipe go too.
Close ==
    /\ studio = "up"
    /\ \/ /\ studio' = "closed" /\ child' = "none"
          /\ listener' = IF listener = "own" THEN "none" ELSE listener
          /\ api' = (listener' # "none")
          /\ runs' = IF listener = "own"
                     THEN [i \in DOMAIN runs |-> [runs[i] EXCEPT !.status =
                             IF Executing(i) THEN "gone" ELSE @]]
                     ELSE runs
       \/ child = "running" /\ studio' = "crashed" /\ UNCHANGED <<child, listener, api, runs>>
    /\ turn' = "gone" /\ pipe' = FALSE /\ stop' = [s \in Stops |-> "idle"]
    /\ registered' = FALSE /\ marked' = FALSE /\ sawMark' = FALSE
    /\ status' = "none" /\ result' = "none" /\ cut' = FALSE
    /\ UNCHANGED <<AgentRest, alive>>

-----------------------------------------------------------------------------
\* run_agent_turn_stream_inner.

TurnRest == <<agentVars, runtimeVars, stop, cut>>
Up == studio = "up"

\* The agent is started and sent its request, or that fails.
SpawnAgent ==
    /\ Up /\ turn = "none"
    /\ \/ turn' = "spawned" /\ alive' = TRUE /\ UNCHANGED result
       \/ turn' = "done" /\ result' = "error" /\ UNCHANGED alive
    /\ UNCHANGED <<AgentRest, api, runs, runtimeVars, registered, marked, sawMark,
                   pipe, status, stop, cut>>

Register ==
    /\ Up /\ turn = "spawned"
    /\ turn' = "reading" /\ registered' = TRUE
    /\ UNCHANGED <<TurnRest, marked, sawMark, pipe, status, result>>

\* The agent's output ends; or a line cannot be read, parsed or forwarded, and
\* the reading end of the pipe is dropped.
StreamEnds ==
    /\ Up /\ turn = "reading" /\ turn' = "streamed"
    /\ \/ ~alive /\ UNCHANGED <<pipe, status>>
       \/ alive /\ pipe' = FALSE /\ status' = "failure"
    /\ UNCHANGED <<TurnRest, registered, marked, sawMark, result>>

\* processes_cancelled.remove(&turn_id).
LookForMark ==
    /\ Up /\ turn = "streamed" /\ turn' = "looked"
    /\ sawMark' = marked /\ marked' = FALSE
    /\ UNCHANGED <<TurnRest, registered, pipe, status, result>>

\* shared.lock().wait(): the lock is held until the agent is gone.
LockChild ==
    /\ Up /\ turn = "looked" /\ turn' = "waiting"
    /\ UNCHANGED <<TurnRest, registered, marked, sawMark, pipe, status, result>>

\* The agent is gone: the turn leaves the registry and is answered.
Conclude ==
    /\ Up /\ turn = "waiting" /\ ~alive
    /\ turn' = "done" /\ registered' = FALSE
    /\ result' = IF sawMark THEN "cancelled"
                 ELSE IF status = "failure" THEN "error" ELSE "ok"
    /\ sawMark' = FALSE /\ status' = "none"
    /\ UNCHANGED <<TurnRest, marked, pipe>>

TurnStep == \/ SpawnAgent \/ Register \/ StreamEnds \/ LookForMark \/ LockChild
            \/ Conclude

-----------------------------------------------------------------------------
\* stop_agent_turn.

StopRest == <<runtimeVars, turn, registered, sawMark, pipe, result>>

FindChild(s) ==
    /\ Up /\ turn # "cli" /\ stop[s] = "idle"
    /\ stop' = [stop EXCEPT ![s] = IF registered THEN "found" ELSE "false"]
    /\ UNCHANGED <<agentVars, StopRest, marked, status, cut>>

MarkTurn(s) ==
    /\ Up /\ stop[s] = "found"
    /\ stop' = [stop EXCEPT ![s] = "marked"] /\ marked' = TRUE
    /\ UNCHANGED <<agentVars, StopRest, status, cut>>

\* Mutant: the agent is killed before the turn is marked.
KillThenMark(s) ==
    /\ Up
    /\ \/ /\ stop[s] = "found" /\ stop' = [stop EXCEPT ![s] = "marked"]
          /\ alive' = FALSE /\ UNCHANGED marked
          /\ status' = IF alive THEN "failure" ELSE status
          /\ cut' = (cut \/ (alive /\ turn = "reading"))
       \/ /\ stop[s] = "marked" /\ stop' = [stop EXCEPT ![s] = "true"]
          /\ marked' = TRUE /\ UNCHANGED <<alive, status, cut>>
    /\ UNCHANGED <<AgentRest, api, runs, StopRest>>

\* child.lock().kill(): waits for the lock; an agent that is gone stays gone.
KillAgent(s) ==
    /\ Up /\ stop[s] = "marked" /\ turn # "waiting"
    /\ stop' = [stop EXCEPT ![s] = "true"]
    /\ alive' = FALSE
    /\ status' = IF alive THEN "failure" ELSE status
    /\ cut' = (cut \/ (alive /\ turn = "reading"))
    /\ UNCHANGED <<AgentRest, api, runs, StopRest, marked>>

StopStep(s) == FindChild(s) \/ MarkTurn(s) \/ KillAgent(s)

-----------------------------------------------------------------------------
\* The agent's process: it prints its progress while it plans and its result at
\* the end, and println! fails when nobody reads.

Printing == pc \in {"model", "evaluate", "review", "start", "ended"}

AgentRuns == (pipe \/ ~Printing) /\ AgentStep /\ UNCHANGED shellVars

AgentExits ==
    /\ alive /\ alive' = FALSE
    /\ \/ pc = "ended" /\ pipe /\ UNCHANGED status
       \/ Printing /\ ~pipe /\ status' = IF turn = "gone" THEN "none" ELSE "failure"
    /\ UNCHANGED <<AgentRest, api, runs, runtimeVars, turn, registered, marked,
                   sawMark, pipe, result, stop, cut>>

AgentProcess == AgentRuns \/ AgentExits

Environment == RuntimeStep /\ UNCHANGED shellVars

Next == \/ AgentProcess \/ Environment \/ TurnStep
        \/ StartByHand \/ Probe \/ SpawnRuntime \/ ChildBinds \/ FinishStart \/ Close
        \/ \E s \in Stops : StopStep(s)

\* Every call of the agent has a timeout, every loop of it a bound; the shell's
\* threads and the locks they take are scheduled.
Fairness == /\ WF_vars(AgentProcess) /\ WF_vars(TurnStep)
            /\ WF_vars(Probe) /\ WF_vars(SpawnRuntime) /\ WF_vars(FinishStart)
            /\ \A s \in Stops : WF_vars(MarkTurn(s) \/ KillAgent(s))

Spec == Init /\ [][Next]_vars
FairSpec == Spec /\ Fairness

-----------------------------------------------------------------------------
\* A turn whose agent an operator's stop killed while its output was still being
\* read is reported as cancelled, never as an error of the agent, however the
\* stops and the end of the stream interleave (run_agent_turn_stream_inner,
\* stop_agent_turn).
StopIsNotAFailure == turn = "done" /\ cut => result = "cancelled"

\* "a manually started runtime must survive Studio closing" (main.rs:415-417),
\* and the one the shell started must not: whatever the race for the port at the
\* start, the runtime the shell launched is the one it holds, and an orderly exit
\* leaves no runtime of its own behind.
RuntimeIsOwned ==
    /\ studio # "crashed" /\ listener = "own" => child = "running"
    /\ studio = "closed" => child = "none" /\ listener # "own"

\* Who owns what, across the processes: the shell its runtime, the turn its agent,
\* the agent at most one run that is going.
ShellConsistent == ShellTypeOK /\ AgentConsistent /\ RuntimeIsOwned

\* A stop that found its turn is answered, though the turn's thread holds the
\* child's lock until the agent is gone, and a turn whose output is being read
\* ends, unless the Studio closes first (main.rs:246-281, 289-310).
StopIsAnswered ==
    turn = "reading" ~> \/ turn = "gone"
                        \/ turn = "done" /\ \A s \in Stops : stop[s] \in {"idle", "true", "false"}
=============================================================================
