------------------------------ MODULE Command ------------------------------
(***************************************************************************)
(* system.Command of nodara-platform (command.rs): the thread that         *)
(* executes the node and the process it starts.  A thread writes all of    *)
(* the child's standard input before anybody reads its output, then polls  *)
(* for the exit, a cancellation or the node's timeout, and last joins the  *)
(* two readers, which end only when no process holds the pipes.            *)
(*                                                                         *)
(* A process is what the operating system and the program make of it: it   *)
(* reads its input or does not (it may be waiting for its output to be     *)
(* read, which nobody does yet), leaves a descendant (`heir`) that         *)
(* inherits the pipes, and exits when it likes.                            *)
(***************************************************************************)

CONSTANTS Threads,      \* the plugin's execute threads
          OnWindows     \* the build: taskkill takes the whole tree down there

ASSUME CommandAssumption == OnWindows \in BOOLEAN

VARIABLES proc,         \* what the thread's child process is doing
          call,         \* where run_process stands: its phase and outcome
          cancelled     \* RunControl of the execution

commandVars == <<proc, call, cancelled>>

\* No process yet; `fed` says that the program has read its input.
NoProcess == [alive |-> FALSE, heir |-> FALSE, fed |-> FALSE, code |-> 0]
NoCall == [phase |-> "idle", end |-> "none", stdin |-> "none", wait |-> TRUE,
           check |-> TRUE, timeout |-> FALSE]

CommandInit ==
    /\ proc = [t \in Threads |-> NoProcess]
    /\ call = [t \in Threads |-> NoCall]
    /\ cancelled = [t \in Threads |-> FALSE]

Running(t) == proc[t].alive
PipesHeld(t) == proc[t].alive \/ proc[t].heir
Returned(t) == call[t].phase = "done"

Ends(t, how) == [call[t] EXCEPT !.phase = "done", !.end = how]

-----------------------------------------------------------------------------
\* run_process, up to the loop.

\* Configuration read and child spawned; a child that is given no input goes
\* straight on, and one that is not waited for ends the call.
AfterStdin(c) == IF c.wait THEN [c EXCEPT !.phase = "poll"]
                 ELSE [c EXCEPT !.phase = "done", !.end = "ok"]

Spawn(t, n) ==
    /\ call[t].phase = "idle"
    /\ LET c == [NoCall EXCEPT !.stdin = n.stdin, !.wait = n.wait, !.check = n.check,
                               !.timeout = n.timeout]
       IN  \/ /\ proc' = [proc EXCEPT ![t] = [NoProcess EXCEPT !.alive = TRUE]]
              /\ call' = [call EXCEPT ![t] = IF n.stdin = "none" THEN AfterStdin(c)
                                             ELSE [c EXCEPT !.phase = "stdin"]]
           \/ /\ call' = [call EXCEPT ![t] = [c EXCEPT !.phase = "done", !.end = "failed"]]
              /\ UNCHANGED proc
    /\ UNCHANGED cancelled

\* stdin.write_all: a short text fits into the pipe, a long one waits for the
\* program to read it; if the program is gone the write fails and the child
\* alone is killed.
WriteStdin(t) ==
    /\ call[t].phase = "stdin"
    /\ \/ /\ call[t].stdin = "short" \/ proc[t].fed
          /\ call' = [call EXCEPT ![t] = AfterStdin(@)]
          /\ UNCHANGED proc
       \/ /\ ~Running(t)
          /\ call' = [call EXCEPT ![t] = Ends(t, "io")]
          /\ proc' = [proc EXCEPT ![t].alive = FALSE]
    /\ UNCHANGED cancelled

\* terminate: with taskkill /T the tree of a process that still runs, elsewhere
\* (and for one that has exited) nothing but the child itself.
Terminated(t) == [proc[t] EXCEPT !.alive = FALSE,
                                 !.heir = @ /\ ~(OnWindows /\ Running(t))]

\* Mutant: the node answers without waiting for the readers.
Unjoined(t, why) == Ends(t, why)

\* After a cancellation or a timeout the call still joins the readers.
GivingUp(t, why) == [call[t] EXCEPT !.phase = "join", !.end = why]

\* Mutant: the loop does not look at the run's control.
PollDeaf(t) ==
    /\ call[t].phase = "poll" /\ ~Running(t)
    /\ call' = [call EXCEPT ![t].phase = "join"]
    /\ UNCHANGED <<proc, cancelled>>

\* One look of the loop: the cancellation first, then the timeout, then the exit.
Poll(t) ==
    /\ call[t].phase = "poll"
    /\ \/ /\ cancelled[t]
          /\ proc' = [proc EXCEPT ![t] = Terminated(t)]
          /\ call' = [call EXCEPT ![t] = GivingUp(t, "cancelled")]
       \/ /\ ~cancelled[t] /\ call[t].timeout
          /\ proc' = [proc EXCEPT ![t] = Terminated(t)]
          /\ call' = [call EXCEPT ![t] = GivingUp(t, "timeout")]
       \/ /\ ~cancelled[t] /\ ~Running(t)
          /\ call' = [call EXCEPT ![t].phase = "join"]
          /\ UNCHANGED proc
    /\ UNCHANGED cancelled

\* join_readers, and run_command's verdict on the exit code.
Join(t) ==
    /\ call[t].phase = "join"
    /\ ~PipesHeld(t)
    /\ call' = [call EXCEPT ![t] =
           IF @.end # "none" THEN Ends(t, @.end)
           ELSE IF @.check /\ proc[t].code # 0 THEN Ends(t, "failed") ELSE Ends(t, "ok")]
    /\ UNCHANGED <<proc, cancelled>>

-----------------------------------------------------------------------------
\* The program.

ProgramReads(t) ==
    /\ Running(t) /\ ~proc[t].fed /\ call[t].stdin # "none"
    /\ proc' = [proc EXCEPT ![t].fed = TRUE]
    /\ UNCHANGED <<call, cancelled>>

ProgramForks(t) ==
    /\ Running(t) /\ ~proc[t].heir
    /\ proc' = [proc EXCEPT ![t].heir = TRUE]
    /\ UNCHANGED <<call, cancelled>>

ProgramExits(t) ==
    /\ Running(t)
    /\ \E code \in {0, 1} : proc' = [proc EXCEPT ![t].alive = FALSE, ![t].code = code]
    /\ UNCHANGED <<call, cancelled>>

HeirExits(t) ==
    /\ proc[t].heir
    /\ proc' = [proc EXCEPT ![t].heir = FALSE]
    /\ UNCHANGED <<call, cancelled>>

ProgramStep(t) ==
    \/ ProgramReads(t)
    \/ ProgramForks(t)
    \/ ProgramExits(t)
    \/ HeirExits(t)

\* What the node's own thread does.
CommandStep(t) == WriteStdin(t) \/ Poll(t) \/ Join(t)

-----------------------------------------------------------------------------
\* A command that was cancelled or timed out is reported only when nothing it
\* started is left (docs/nodes.md:214): the tree is killed, and where that
\* misses a descendant the readers are joined first.
KilledTreeIsDown ==
    \A t \in Threads : call[t].end \in {"cancelled", "timeout"} /\ Returned(t)
                          => ~PipesHeld(t)
=============================================================================
