---------------------------- MODULE DesktopProofs ----------------------------
(***************************************************************************)
(* Three facts of the desktop, for any number of executions, windows and   *)
(* plans, whatever the programs do and whatever host calls fail, on        *)
(* Windows and elsewhere: a killed command is down when it is reported,    *)
(* nothing stays held down that no node was told to hold, and a paste puts *)
(* the clipboard back.                                                     *)
(*                                                                         *)
(* The last two need what a node has left to call.  DeskInv says it:       *)
(*   WorkInv    every press that is left is followed by its release in the *)
(*              same or the next stroke, among the calls that are made in  *)
(*              any case (Promised);                                       *)
(*   HoldInv    once a press is made, that release is in the first stroke  *)
(*              there is, so that no failure drops it (Sure);              *)
(*   PasteInv   once the text is read, what can fail before it is put back *)
(*              leaves the call that does.                                 *)
(* The strokes of every node are shown to be made that way (NodeKeeps), a  *)
(* call that returns or fails to leave it so (Leftover).                   *)
(***************************************************************************)
EXTENDS Desktop, SequenceTheorems, TLAPS

\* The fields of calls and processes that the property reads.
Shape ==
    /\ DOMAIN call = Threads /\ DOMAIN proc = Threads
    /\ \A t \in Threads :
         /\ {"phase", "end"} \subseteq DOMAIN call[t]
         /\ {"alive", "heir", "fed", "code"} \subseteq DOMAIN proc[t]
         /\ proc[t].alive \in BOOLEAN /\ proc[t].heir \in BOOLEAN

\* A call that gave up on its process has killed it, and waits for the rest.
GaveUp(t) == call[t].end \in {"cancelled", "timeout"}
Killed(t) == GaveUp(t) => \/ call[t].phase = "join" /\ ~proc[t].alive
                          \/ call[t].phase = "done" /\ ~proc[t].alive /\ ~proc[t].heir

CommandInv == Shape /\ \A t \in Threads : Killed(t)

-----------------------------------------------------------------------------
\* What a step does to a thread's call and process, c and p being the new ones.
Replaces(t, c, p) ==
    /\ DOMAIN call' = Threads /\ DOMAIN proc' = Threads
    /\ call'[t] = c /\ proc'[t] = p
    /\ \A u \in Threads \ {t} : call'[u] = call[u] /\ proc'[u] = proc[u]

\* New ones of the right shape that keep the property.
GoodCall(c, p) ==
    /\ {"phase", "end"} \subseteq DOMAIN c
    /\ {"alive", "heir", "fed", "code"} \subseteq DOMAIN p
    /\ p.alive \in BOOLEAN /\ p.heir \in BOOLEAN
    /\ c.end \in {"cancelled", "timeout"} =>
          \/ c.phase = "join" /\ ~p.alive
          \/ c.phase = "done" /\ ~p.alive /\ ~p.heir

LEMMA OneThread ==
    ASSUME CommandInv, NEW t \in Threads, NEW c, NEW p, Replaces(t, c, p), GoodCall(c, p)
    PROVE  CommandInv'
<1>1. Shape'
  BY DEF CommandInv, Shape, Replaces, GoodCall
<1>2. ASSUME NEW u \in Threads PROVE Killed(u)'
  BY DEF CommandInv, Killed, GaveUp, Replaces, GoodCall
<1> QED
  BY <1>1, <1>2 DEF CommandInv

\* The thread of a node.
LEMMA CommandKeeps ==
    ASSUME CommandInv, NEW t \in Threads, CommandStep(t)
    PROVE  CommandInv'
<1>t. Shape /\ Killed(t)
  BY DEF CommandInv
<1>1. CASE WriteStdin(t)
  <2>1. CASE call' = [call EXCEPT ![t] = AfterStdin(@)] /\ UNCHANGED proc
    <3>1. Replaces(t, AfterStdin(call[t]), proc[t])
      BY <1>t, <2>1 DEF Shape, Replaces
    <3>2. GoodCall(AfterStdin(call[t]), proc[t])
      BY <1>t, <1>1 DEF Shape, Killed, GaveUp, GoodCall, AfterStdin, WriteStdin
    <3> QED
      BY <3>1, <3>2, OneThread
  <2>2. CASE /\ call' = [call EXCEPT ![t] = Ends(t, "io")]
             /\ proc' = [proc EXCEPT ![t].alive = FALSE]
    <3> DEFINE p == [proc[t] EXCEPT !.alive = FALSE]
    <3>1. Replaces(t, Ends(t, "io"), p)
      BY <1>t, <2>2 DEF Shape, Replaces
    <3>2. GoodCall(Ends(t, "io"), p)
      BY <1>t DEF Shape, GoodCall, Ends
    <3> QED
      BY <3>1, <3>2, OneThread
  <2> QED
    BY <1>1, <2>1, <2>2 DEF WriteStdin
<1>2. CASE Poll(t)
  <2>1. ASSUME NEW why \in {"cancelled", "timeout"},
               proc' = [proc EXCEPT ![t] = Terminated(t)],
               call' = [call EXCEPT ![t] = GivingUp(t, why)]
        PROVE  CommandInv'
    <3>1. Replaces(t, GivingUp(t, why), Terminated(t))
      BY <1>t, <2>1 DEF Shape, Replaces
    <3>2. GoodCall(GivingUp(t, why), Terminated(t))
      BY <1>t, CommandAssumption DEF Shape, GoodCall, GivingUp, Terminated, Running
    <3> QED
      BY <3>1, <3>2, OneThread
  <2>2. CASE call' = [call EXCEPT ![t].phase = "join"] /\ UNCHANGED proc
    <3> DEFINE c == [call[t] EXCEPT !.phase = "join"]
    <3>1. Replaces(t, c, proc[t])
      BY <1>t, <2>2 DEF Shape, Replaces
    <3>2. GoodCall(c, proc[t])
      BY <1>t, <1>2 DEF Shape, Killed, GaveUp, GoodCall, Poll
    <3> QED
      BY <3>1, <3>2, OneThread
  <2> QED
    BY <1>2, <2>1, <2>2 DEF Poll
<1>3. CASE Join(t)
  <2> DEFINE c == IF call[t].end # "none" THEN Ends(t, call[t].end)
                  ELSE IF call[t].check /\ proc[t].code # 0 THEN Ends(t, "failed")
                  ELSE Ends(t, "ok")
  <2>1. Replaces(t, c, proc[t])
    BY <1>t, <1>3 DEF Shape, Replaces, Join
  <2>2. GoodCall(c, proc[t])
    BY <1>t, <1>3 DEF Shape, GoodCall, Join, Ends, PipesHeld
  <2> QED
    BY <2>1, <2>2, OneThread
<1> QED
  BY <1>1, <1>2, <1>3 DEF CommandStep

\* The program: only one that runs starts another.
LEMMA ProgramKeeps ==
    ASSUME CommandInv, NEW t \in Threads, ProgramStep(t)
    PROVE  CommandInv'
<1>t. Shape /\ Killed(t)
  BY DEF CommandInv
<1>1. PICK p : /\ proc' = [proc EXCEPT ![t] = p] /\ UNCHANGED call
               /\ {"alive", "heir", "fed", "code"} \subseteq DOMAIN p
               /\ p.alive \in BOOLEAN /\ p.heir \in BOOLEAN
               /\ p.alive => proc[t].alive
               /\ p.heir => proc[t].heir \/ proc[t].alive
  <2>1. CASE ProgramReads(t)
    <3> DEFINE p == [proc[t] EXCEPT !.fed = TRUE]
    <3>1. proc' = [proc EXCEPT ![t] = p] /\ UNCHANGED call
      BY <2>1 DEF ProgramReads
    <3>2. /\ {"alive", "heir", "fed", "code"} \subseteq DOMAIN p
          /\ p.alive = proc[t].alive /\ p.heir = proc[t].heir
      BY <1>t DEF Shape
    <3> HIDE DEF p
    <3> QED
      BY <1>t, <3>1, <3>2 DEF Shape
  <2>2. CASE ProgramForks(t)
    BY <1>t, <2>2 DEF ProgramForks, Running, Shape
  <2>3. CASE ProgramExits(t)
    <3>1. PICK code \in {0, 1} :
             proc' = [proc EXCEPT ![t].alive = FALSE, ![t].code = code] /\ UNCHANGED call
      BY <2>3 DEF ProgramExits
    <3> DEFINE p == [[proc[t] EXCEPT !.alive = FALSE] EXCEPT !.code = code]
    <3>2. proc' = [proc EXCEPT ![t] = p] /\ UNCHANGED call
      BY <1>t, <3>1 DEF Shape
    <3>3. /\ {"alive", "heir", "fed", "code"} \subseteq DOMAIN p
          /\ p.alive = FALSE /\ p.heir = proc[t].heir
      BY <1>t DEF Shape
    <3> HIDE DEF p
    <3> QED
      BY <1>t, <3>2, <3>3 DEF Shape
  <2>4. CASE HeirExits(t)
    BY <1>t, <2>4 DEF HeirExits, Shape
  <2> QED
    BY <2>1, <2>2, <2>3, <2>4 DEF ProgramStep
<1>2. Replaces(t, call[t], p)
  BY <1>t, <1>1 DEF Shape, Replaces
<1>3. GoodCall(call[t], p)
  BY <1>t, <1>1 DEF Shape, Killed, GaveUp, GoodCall
<1> QED
  BY <1>2, <1>3, OneThread

LEMMA SpawnKeeps ==
    ASSUME CommandInv, NEW t \in Threads, NEW n, Spawn(t, n)
    PROVE  CommandInv'
<1>t. Shape
  BY DEF CommandInv
<1> DEFINE c == [NoCall EXCEPT !.stdin = n.stdin, !.wait = n.wait, !.check = n.check,
                               !.timeout = n.timeout]
           began == IF n.stdin = "none" THEN AfterStdin(c) ELSE [c EXCEPT !.phase = "stdin"]
           process == [NoProcess EXCEPT !.alive = TRUE]
           failed == [c EXCEPT !.phase = "done", !.end = "failed"]
<1>1. CASE /\ proc' = [proc EXCEPT ![t] = process]
           /\ call' = [call EXCEPT ![t] = began]
  <2>1. Replaces(t, began, process)
    BY <1>t, <1>1 DEF Shape, Replaces
  <2>2. GoodCall(began, process)
    BY DEF GoodCall, AfterStdin, NoCall, NoProcess
  <2> QED
    BY <2>1, <2>2, OneThread
<1>2. CASE call' = [call EXCEPT ![t] = failed] /\ UNCHANGED proc
  <2>1. Replaces(t, failed, proc[t])
    BY <1>t, <1>2 DEF Shape, Replaces
  <2>2. GoodCall(failed, proc[t])
    BY <1>t DEF Shape, GoodCall, NoCall
  <2> QED
    BY <2>1, <2>2, OneThread
<1> QED
  BY <1>1, <1>2 DEF Spawn

LEMMA FinishKeeps ==
    ASSUME CommandInv, NEW t \in Threads, Finish(t)
    PROVE  CommandInv'
<1>t. Shape
  BY DEF CommandInv
<1>1. Replaces(t, NoCall, proc[t])
  BY <1>t DEF Finish, Shape, Replaces
<1>2. GoodCall(NoCall, proc[t])
  BY <1>t DEF Shape, GoodCall, NoCall
<1> QED
  BY <1>1, <1>2, OneThread

-----------------------------------------------------------------------------
LEMMA CommandInductive == CommandInv /\ [Next]_vars => CommandInv'
<1> SUFFICES ASSUME CommandInv, [Next]_vars PROVE CommandInv'
  OBVIOUS
<1>1. CASE UNCHANGED <<proc, call>>
  BY <1>1 DEF CommandInv, Shape, Killed, GaveUp
<1>2. ASSUME NEW t \in Threads, Begin(t) \/ Works(t) \/ CancelRun(t) \/ Program(t)
      PROVE  CommandInv'
  <2>1. CASE Program(t)
    BY <2>1, ProgramKeeps DEF Program
  <2>2. CASE Finish(t)
    BY <2>2, FinishKeeps
  <2>3. ASSUME NEW c \in Due(t), DoCommand(t, c) PROVE CommandInv'
    <3>1. \/ Spawn(t, Node(t)) \/ CommandStep(t) \/ UNCHANGED commandVars
      BY <2>3 DEF DoCommand
    <3>2. CASE Spawn(t, Node(t))
      BY <3>2, SpawnKeeps
    <3>3. CASE CommandStep(t)
      BY <3>3, CommandKeeps
    <3> QED
      BY <1>1, <3>1, <3>2, <3>3 DEF commandVars
  <2>4. CASE Begin(t) \/ CancelRun(t)
    BY <1>1, <2>4 DEF Begin, CancelRun, commandVars
  <2>5. ASSUME NEW c \in Due(t),
               \/ DoCheck(t, c) \/ DoRefuse(t, c) \/ DoInput(t, c) \/ DoWindow(t, c)
               \/ DoCursor(t, c) \/ DoAim(t, c) \/ DoRead(t, c) \/ DoWrite(t, c)
               \/ DoWatch(t, c)
        PROVE  CommandInv'
    BY <1>1, <2>5 DEF DoCheck, DoRefuse, DoInput, DoWindow, DoCursor, DoAim,
       DoRead, DoWrite, DoWatch, commandVars
  <2> QED
    BY <1>2, <2>1, <2>2, <2>3, <2>4, <2>5 DEF Works
<1>3. ASSUME NEW w \in Windows, WindowCloses(w) \/ WindowOpens(w)
      PROVE  CommandInv'
  BY <1>1, <1>3 DEF WindowCloses, WindowOpens, commandVars
<1>4. CASE UNCHANGED vars
  BY <1>1, <1>4 DEF vars, commandVars
<1> QED
  BY <1>2, <1>3, <1>4 DEF Next

\* A command that was cancelled or timed out leaves nothing running when it is
\* reported, on either build: what taskkill misses holds the pipes, and the
\* readers are joined first (terminate, join_readers).
THEOREM KilledIsDown == Spec => []KilledTreeIsDown
<1>1. Init => CommandInv
  <2> SUFFICES ASSUME CommandInit PROVE CommandInv
    BY DEF Init
  <2>1. \A t \in Threads : call[t] = NoCall /\ proc[t] = NoProcess
    BY DEF CommandInit
  <2>2. DOMAIN call = Threads /\ DOMAIN proc = Threads
    BY DEF CommandInit
  <2>3. /\ {"phase", "end"} \subseteq DOMAIN NoCall /\ NoCall.end = "none"
        /\ {"alive", "heir", "fed", "code"} \subseteq DOMAIN NoProcess
        /\ NoProcess.alive = FALSE /\ NoProcess.heir = FALSE
    BY DEF NoCall, NoProcess
  <2> QED
    BY <2>1, <2>2, <2>3 DEF CommandInv, Shape, Killed, GaveUp
<1>2. CommandInv => KilledTreeIsDown
  BY DEF CommandInv, Killed, GaveUp, KilledTreeIsDown, Returned, PipesHeld
<1> QED
  BY <1>1, <1>2, CommandInductive, PTL DEF Spec

-----------------------------------------------------------------------------
(***************************************************************************)
(* The calls a node has left.  A press is a key of the host or a button    *)
(* that goes down: what must not stay so.                                  *)
(***************************************************************************)

Presses(x) == x.call = "input" /\ x.down /\ (x.at = Host \/ x.code \in Buttons)
Releases(x, h) == x.call = "input" /\ ~x.down /\ <<x.at, x.code>> = h

\* A set of calls as Calls makes them and Remaining leaves them: presses are made
\* in bodies only, and every call is one of `words`.
Listed(c, words) ==
    /\ c.role \in {"body", "undo", "tidy", "final"}
    /\ c.stroke \in Int /\ c.nr \in Int
    /\ c.do.call \in words
    /\ c.role # "body" => ~Presses(c.do)
    /\ c.do.call \in {"read", "write"} => c.role = "body"
Lists(todo, words) ==
    \A c \in todo : /\ Listed(c, words)
                    /\ \A u \in c.undo : /\ Listed(u, words) /\ u.undo = {}
                                         /\ u.role = "undo" /\ u.stroke = c.stroke

\* A release that is made whatever call fails: its stroke is the first there is.
Sure(todo, d) == d.role = "tidy" /\ \A e \in todo : Closes(e) \/ e.stroke >= d.stroke

\* Every press that is left is meant, or once it is made its release is sure.
Promised(todo, lasting) ==
    \A c \in todo : Presses(c.do) =>
        \/ <<c.do.at, c.do.code>> \in lasting
        \/ \E d \in todo : /\ Releases(d.do, <<c.do.at, c.do.code>>)
                           /\ d.role = "tidy" /\ Before(c, d)
                           /\ \A e \in todo : Before(c, e) => Closes(e) \/ e.stroke >= d.stroke

\* What a mouse node calls before and after it took aim, and what others call.
AimWords == {"check", "refuse", "find", "focus", "aim"}
MouseWords == {"check", "refuse", "message", "cursor", "put cursor", "input"}
PlainWords == {"check", "refuse", "find", "focus", "message", "watch", "command", "input"}
PasteWords == {"check", "refuse", "find", "focus", "read", "write", "put back", "input"}
Pastes(n) == n.type = "clipboard" \/ (n.type = "text" /\ n.method = "clipboard")
Vocabularies(n) == IF n.type = "mouse" THEN {AimWords, MouseWords}
                   ELSE IF Pastes(n) THEN {PasteWords} ELSE {PlainWords}

\* The node that is busy, and the calls it has left.
Fields == {"busy", "todo", "failed", "saved", "back"}
WorkInv ==
    /\ plan \in Plans /\ turn \in [Threads -> Nat \ {0}] /\ lost \in Nat /\ open \subseteq Windows
    /\ DOMAIN doing = Threads
    /\ \A t \in Threads :
         /\ DOMAIN doing[t] = Fields
         /\ IF doing[t].busy
            THEN /\ turn[t] <= Len(plan[t]) /\ LeftDown(Node(t)) \subseteq meant
                 /\ \E words \in Vocabularies(Node(t)) : Lists(doing[t].todo, words)
                 /\ Promised(doing[t].todo, meant)
            ELSE doing[t] = Idle

\* What is down, on the host or in an open window, is released for sure, was meant
\* to stay, or is a key in a window or a button there after a failed call.
Passes(h) == h[1] # Host /\ (lost > 0 \/ h[2] \notin Buttons)
HoldInv ==
    \A h \in held :
        /\ h[1] \in {Host} \cup open
        /\ \/ Passes(h)
           \/ h \in meant
           \/ \E t \in Threads : \E d \in doing[t].todo :
                 Releases(d.do, h) /\ Sure(doing[t].todo, d)

\* A paste that has read the clipboard puts it back whatever fails meanwhile, or has
\* put it back and writes no more; before that, nothing behind the read can fail
\* without closing.
PutsBack(p) == p.do.call = "put back" /\ Closes(p)
ReadPending(todo) ==
    \A r \in todo : r.do.call = "read" =>
        \E p \in todo : /\ PutsBack(p)
                        /\ \A e \in todo \ {r} : /\ e.do.call # "read"
                                                 /\ \/ e.do.call = "write" \/ e.stroke >= p.stroke
                                                    \/ ~Closes(e) /\ e.stroke < r.stroke
BackPending(todo) ==
    \E p \in todo : PutsBack(p) /\ \A e \in todo : e.do.call = "write" \/ e.stroke >= p.stroke
Never(todo, what) == \A e \in todo : e.do.call # what

\* What is true of an execution d and the clipboard's text.
Pasting(d, text) ==
    IF d.saved = <<>> THEN ReadPending(d.todo)
    ELSE /\ Never(d.todo, "read")
         /\ BackPending(d.todo) \/ (text = PutBack(d.saved[1]) /\ Never(d.todo, "write"))

Undisturbed(t) == lost = 0 /\ \A u \in Threads \ {t} : ~UsesClipboard(u)
PasteInv ==
    \A t \in Threads :
        doing[t].busy /\ Node(t).type = "text" /\ Undisturbed(t)
        => Pasting(doing[t], clipboard)

DeskInv == WorkInv /\ HoldInv /\ PasteInv

-----------------------------------------------------------------------------
\* The order of calls is one, and the closing calls are its end.
LEMMA BeforeFacts ==
    ASSUME NEW c, NEW d, NEW words, Listed(c, words), Listed(d, words), Before(c, d)
    PROVE  /\ ~Before(d, c)
           /\ Closes(c) => Closes(d)
           /\ Closes(c) = Closes(d) => c.stroke <= d.stroke
<1>1. c.stroke \in Int /\ d.stroke \in Int /\ c.nr \in Int /\ d.nr \in Int
  BY DEF Listed
<1>2. Rank[c.role] \in Int /\ Rank[d.role] \in Int
  BY DEF Listed, Rank
<1> QED
  BY <1>1, <1>2 DEF Before, Closes

\* What is left when the call whose turn it is returned, or failed: a release that
\* was sure still is, and that of a press that was just made is now.
LEMMA Leftover ==
    ASSUME NEW todo, NEW words, Lists(todo, words), NEW lasting, Promised(todo, lasting),
           NEW c \in todo, \A e \in todo \ {c} : Before(c, e),
           NEW left, left = todo \ {c} \/ left = Remaining(todo \ {c}, c)
    PROVE  /\ Lists(left, words) /\ Promised(left, lasting)
           /\ \A d \in todo \ {c} : Sure(todo, d) => d \in left /\ Sure(left, d)
           /\ left = todo \ {c} /\ Presses(c.do) /\ <<c.do.at, c.do.code>> \notin lasting
                 => \E d \in left : Releases(d.do, <<c.do.at, c.do.code>>) /\ Sure(left, d)
<1>1. \A e \in left : \/ e \in todo \ {c}
                      \/ e \in c.undo /\ left = Remaining(todo \ {c}, c)
  BY DEF Remaining, Tidying, Closing
<1>2. \A e \in todo : Listed(e, words)
  BY DEF Lists
<1>3. \A e \in todo \ {c} : /\ ~Before(e, c) /\ (Closes(c) => Closes(e))
                            /\ Closes(c) = Closes(e) => c.stroke <= e.stroke
  BY <1>2, BeforeFacts
<1>4. \A u \in c.undo : Listed(u, words) /\ u.role = "undo" /\ u.stroke = c.stroke /\ u.undo = {}
  BY DEF Lists
<1>5. Lists(left, words)
  BY <1>1, <1>4 DEF Lists
<1>6. Promised(left, lasting)
  <2>1. CASE left = todo \ {c}
    <3> SUFFICES ASSUME NEW e \in left, Presses(e.do), <<e.do.at, e.do.code>> \notin lasting
                 PROVE  \E d \in left : /\ Releases(d.do, <<e.do.at, e.do.code>>)
                                        /\ d.role = "tidy" /\ Before(e, d)
                                        /\ \A f \in left : Before(e, f) =>
                                              Closes(f) \/ f.stroke >= d.stroke
      BY DEF Promised
    <3>1. PICK d \in todo : /\ Releases(d.do, <<e.do.at, e.do.code>>)
                            /\ d.role = "tidy" /\ Before(e, d)
                            /\ \A f \in todo : Before(e, f) => Closes(f) \/ f.stroke >= d.stroke
      BY <2>1 DEF Promised
    <3>2. d # c
      BY <1>3, <2>1, <3>1
    <3> QED
      BY <2>1, <3>1, <3>2
  <2>2. CASE left = Remaining(todo \ {c}, c)
    <3>1. \A e \in left : e.role # "body"
      BY <1>4, <2>2 DEF Remaining, Tidying, Closing
    <3>2. \A e \in left : Listed(e, words)
      BY <1>5 DEF Lists
    <3> QED
      BY <3>1, <3>2 DEF Listed, Promised
  <2> QED
    BY <2>1, <2>2
<1>7. ASSUME NEW d \in todo \ {c}, Sure(todo, d) PROVE d \in left /\ Sure(left, d)
  <2>1. ~Closes(d) /\ ~Closes(c) /\ c.stroke = d.stroke
    <3>1. ~Closes(d) /\ ~Closes(c)
      BY <1>3, <1>7 DEF Sure, Closes
    <3>2. c.stroke >= d.stroke /\ c.stroke <= d.stroke
      <4>1. Closes(c) = Closes(d)
        BY <3>1 DEF Closes
      <4> QED
        BY <1>3, <1>7, <3>1, <4>1 DEF Sure
    <3>3. c.stroke \in Int /\ d.stroke \in Int
      BY <1>2 DEF Listed
    <3> QED
      BY <3>1, <3>2, <3>3
  <2>2. d \in left
    BY <1>7, <2>1 DEF Remaining, Tidying, Sure
  <2>3. \A e \in left : Closes(e) \/ e.stroke >= d.stroke
    <3>1. d.stroke \in Int
      BY <1>2 DEF Listed
    <3> QED
      BY <1>1, <1>4, <1>7, <2>1, <3>1 DEF Sure
  <2> QED
    BY <1>7, <2>2, <2>3 DEF Sure
<1>8. ASSUME left = todo \ {c}, Presses(c.do), <<c.do.at, c.do.code>> \notin lasting
      PROVE  \E d \in left : Releases(d.do, <<c.do.at, c.do.code>>) /\ Sure(left, d)
  <2>1. PICK d \in todo : /\ Releases(d.do, <<c.do.at, c.do.code>>)
                          /\ d.role = "tidy" /\ Before(c, d)
                          /\ \A e \in todo : Before(c, e) => Closes(e) \/ e.stroke >= d.stroke
    BY <1>8 DEF Promised
  <2>2. d # c
    BY <1>8, <2>1 DEF Presses, Releases
  <2> QED
    BY <1>8, <2>1, <2>2 DEF Sure
<1> QED
  BY <1>5, <1>6, <1>7, <1>8

-----------------------------------------------------------------------------
(***************************************************************************)
(* Lists of calls and of strokes.                                          *)
(***************************************************************************)

ListOf(s, n) == n \in Nat /\ s = [i \in 1..n |-> s[i]]

\* Calls that press nothing.
Still(does, words) ==
    \E n \in Nat : /\ ListOf(does, n)
                   /\ \A k \in 1..n : does[k].call \in words /\ ~Presses(does[k])

Others(words) == words \ {"read", "write"}
Tidies(s, h) == \E k \in DOMAIN s.tidy : Releases(s.tidy[k], h)
GoodStroke(s, words) ==
    /\ \A k \in DOMAIN s.body : k \in Int /\ s.body[k].call \in words
    /\ Still(s.tidy, Others(words)) /\ Still(s.undo, Others(words)) /\ Still(s.final, Others(words))

\* A press is meant to last, or its stroke releases it, or the next one does, before
\* which nothing more is called.
Keeps(strokes, words, lasting) ==
    \A i \in DOMAIN strokes :
        /\ i \in Int /\ GoodStroke(strokes[i], words)
        /\ \A k \in DOMAIN strokes[i].body : Presses(strokes[i].body[k]) =>
             LET h == <<strokes[i].body[k].at, strokes[i].body[k].code>> IN
             \/ h \in lasting
             \/ Tidies(strokes[i], h)
             \/ /\ i + 1 \in DOMAIN strokes /\ Tidies(strokes[i + 1], h)
                /\ DOMAIN strokes[i].tidy = {} /\ \A j \in DOMAIN strokes[i].body : j <= k

LEMMA CallsCases ==
    ASSUME NEW strokes, NEW c \in Calls(strokes)
    PROVE  \E i \in DOMAIN strokes :
              \/ /\ c.role = "body" /\ c.nr \in DOMAIN strokes[i].body
                 /\ c = [do |-> strokes[i].body[c.nr], role |-> "body", stroke |-> i, nr |-> c.nr,
                         undo |-> Marked(strokes[i].undo, "undo", i, {})]
              \/ /\ c.role = "tidy" /\ c.nr \in DOMAIN strokes[i].tidy
                 /\ c = [do |-> strokes[i].tidy[c.nr], role |-> "tidy", stroke |-> i, nr |-> c.nr,
                         undo |-> {}]
              \/ /\ c.role = "final" /\ c.nr \in DOMAIN strokes[i].final
                 /\ c = [do |-> strokes[i].final[c.nr], role |-> "final", stroke |-> i, nr |-> c.nr,
                         undo |-> {}]
<1>1. PICK i \in DOMAIN strokes :
         c \in Marked(strokes[i].body, "body", i, Marked(strokes[i].undo, "undo", i, {}))
               \cup Marked(strokes[i].tidy, "tidy", i, {})
               \cup Marked(strokes[i].final, "final", i, {})
  BY DEF Calls
<1>2. CASE c \in Marked(strokes[i].body, "body", i, Marked(strokes[i].undo, "undo", i, {}))
  BY <1>2 DEF Marked
<1>3. CASE c \in Marked(strokes[i].tidy, "tidy", i, {})
  BY <1>3 DEF Marked
<1>4. CASE c \in Marked(strokes[i].final, "final", i, {})
  BY <1>4 DEF Marked
<1> QED
  BY <1>1, <1>2, <1>3, <1>4

LEMMA StillItem ==
    ASSUME NEW does, NEW words, Still(does, words), NEW k \in DOMAIN does
    PROVE  k \in Int /\ does[k].call \in words /\ ~Presses(does[k])
BY DEF Still, ListOf

\* The calls of well-made strokes are what the invariant asks of a node's calls.
LEMMA CallsKeep ==
    ASSUME NEW strokes, NEW words, NEW lasting, Keeps(strokes, words, lasting)
    PROVE  Lists(Calls(strokes), words) /\ Promised(Calls(strokes), lasting)
<1>1. ASSUME NEW c \in Calls(strokes)
      PROVE  /\ Listed(c, words)
             /\ \A u \in c.undo : /\ Listed(u, words) /\ u.undo = {}
                                  /\ u.role = "undo" /\ u.stroke = c.stroke
  <2>1. PICK i \in DOMAIN strokes :
              \/ /\ c.role = "body" /\ c.nr \in DOMAIN strokes[i].body
                 /\ c = [do |-> strokes[i].body[c.nr], role |-> "body", stroke |-> i, nr |-> c.nr,
                         undo |-> Marked(strokes[i].undo, "undo", i, {})]
              \/ /\ c.role = "tidy" /\ c.nr \in DOMAIN strokes[i].tidy
                 /\ c = [do |-> strokes[i].tidy[c.nr], role |-> "tidy", stroke |-> i, nr |-> c.nr,
                         undo |-> {}]
              \/ /\ c.role = "final" /\ c.nr \in DOMAIN strokes[i].final
                 /\ c = [do |-> strokes[i].final[c.nr], role |-> "final", stroke |-> i, nr |-> c.nr,
                         undo |-> {}]
    BY CallsCases
  <2>2. i \in Int /\ GoodStroke(strokes[i], words)
    BY DEF Keeps
  <2>3. CASE c.role = "body"
    <3>1. c.do = strokes[i].body[c.nr] /\ c.stroke = i /\ c.nr \in DOMAIN strokes[i].body
          /\ c.undo = Marked(strokes[i].undo, "undo", i, {})
      BY <2>1, <2>3
    <3>2. c.nr \in Int /\ c.do.call \in words
      BY <2>2, <3>1 DEF GoodStroke, ListOf
    <3>3. Still(strokes[i].undo, Others(words))
      BY <2>2 DEF GoodStroke
    <3>4. ASSUME NEW u \in c.undo
          PROVE  Listed(u, words) /\ u.undo = {} /\ u.role = "undo" /\ u.stroke = c.stroke
      <4>1. PICK k \in DOMAIN strokes[i].undo :
               u = [do |-> strokes[i].undo[k], role |-> "undo", stroke |-> i, nr |-> k, undo |-> {}]
        BY <3>1 DEF Marked
      <4>2. /\ u.do = strokes[i].undo[k] /\ u.role = "undo" /\ u.stroke = i /\ u.nr = k
            /\ u.undo = {}
        BY <4>1
      <4>3. k \in Int /\ u.do.call \in Others(words) /\ ~Presses(u.do)
        BY <3>3, <4>2, StillItem
      <4> QED
        BY <2>2, <3>1, <4>2, <4>3 DEF Listed, Others
    <3> QED
      BY <2>2, <2>3, <3>1, <3>2, <3>4 DEF Listed
  <2>4. CASE c.role = "tidy"
    <3>1. c.do = strokes[i].tidy[c.nr] /\ c.stroke = i /\ c.nr \in DOMAIN strokes[i].tidy
          /\ c.undo = {}
      BY <2>1, <2>4
    <3>2. c.nr \in Int /\ c.do.call \in Others(words) /\ ~Presses(c.do)
      BY <2>2, <3>1, StillItem DEF GoodStroke
    <3> QED
      BY <2>2, <2>4, <3>1, <3>2 DEF Listed, Others
  <2>5. CASE c.role = "final"
    <3>1. c.do = strokes[i].final[c.nr] /\ c.stroke = i /\ c.nr \in DOMAIN strokes[i].final
          /\ c.undo = {}
      BY <2>1, <2>5
    <3>2. c.nr \in Int /\ c.do.call \in Others(words) /\ ~Presses(c.do)
      BY <2>2, <3>1, StillItem DEF GoodStroke
    <3> QED
      BY <2>2, <2>5, <3>1, <3>2 DEF Listed, Others
  <2> QED
    BY <2>1, <2>3, <2>4, <2>5
<1>2. Lists(Calls(strokes), words)
  BY <1>1 DEF Lists
<1>3. ASSUME NEW i \in DOMAIN strokes, NEW h, Tidies(strokes[i], h)
      PROVE  \E d \in Calls(strokes) : Releases(d.do, h) /\ d.role = "tidy" /\ d.stroke = i
  <2>1. PICK k \in DOMAIN strokes[i].tidy : Releases(strokes[i].tidy[k], h)
    BY <1>3 DEF Tidies
  <2> DEFINE d == [do |-> strokes[i].tidy[k], role |-> "tidy", stroke |-> i, nr |-> k, undo |-> {}]
  <2>2. d \in Calls(strokes)
    <3>1. d \in Marked(strokes[i].tidy, "tidy", i, {})
      BY DEF Marked
    <3> HIDE DEF d
    <3> QED
      BY <3>1 DEF Calls
  <2> QED
    BY <2>1, <2>2
<1>4. ASSUME NEW c \in Calls(strokes), Presses(c.do), <<c.do.at, c.do.code>> \notin lasting
      PROVE  \E d \in Calls(strokes) :
                /\ Releases(d.do, <<c.do.at, c.do.code>>)
                /\ d.role = "tidy" /\ Before(c, d)
                /\ \A e \in Calls(strokes) : Before(c, e) => Closes(e) \/ e.stroke >= d.stroke
  <2> DEFINE h == <<c.do.at, c.do.code>>
  <2>1. c.role = "body"
    BY <1>1, <1>4 DEF Listed
  <2>2. PICK i \in DOMAIN strokes :
              /\ c.nr \in DOMAIN strokes[i].body /\ c.do = strokes[i].body[c.nr]
              /\ c.stroke = i
    BY <2>1, CallsCases
  <2>3. \/ Tidies(strokes[i], h)
        \/ /\ i + 1 \in DOMAIN strokes /\ Tidies(strokes[i + 1], h)
           /\ DOMAIN strokes[i].tidy = {} /\ \A j \in DOMAIN strokes[i].body : j <= c.nr
    BY <1>4, <2>2 DEF Keeps
  <2>i. i \in Int /\ c.nr \in Int /\ Rank["body"] = 1 /\ Rank["tidy"] = 3
    BY <1>1, <2>2 DEF Keeps, Listed, Rank
  <2>4. ASSUME NEW e \in Calls(strokes), Before(c, e), ~Closes(e) PROVE e.stroke >= i /\ e.stroke \in Int
    <3>1. e.stroke \in Int /\ Listed(c, words) /\ Listed(e, words)
      BY <1>1 DEF Listed
    <3>2. Closes(c) = Closes(e)
      BY <2>1, <2>4 DEF Closes
    <3> QED
      BY <2>2, <2>4, <3>1, <3>2, <2>i, BeforeFacts
  <2>5. CASE Tidies(strokes[i], h)
    <3>1. PICK d \in Calls(strokes) : Releases(d.do, h) /\ d.role = "tidy" /\ d.stroke = i
      BY <1>3, <2>5
    <3>2. Before(c, d)
      BY <2>1, <2>2, <2>i, <3>1 DEF Before, Closes
    <3> QED
      BY <2>4, <3>1, <3>2
  <2>6. CASE /\ i + 1 \in DOMAIN strokes /\ Tidies(strokes[i + 1], h)
             /\ DOMAIN strokes[i].tidy = {} /\ \A j \in DOMAIN strokes[i].body : j <= c.nr
    <3>1. PICK d \in Calls(strokes) : Releases(d.do, h) /\ d.role = "tidy" /\ d.stroke = i + 1
      BY <1>3, <2>6
    <3>2. Before(c, d)
      BY <2>1, <2>2, <2>i, <3>1 DEF Before, Closes
    <3>3. ASSUME NEW e \in Calls(strokes), Before(c, e), ~Closes(e) PROVE e.stroke # i
      <4> SUFFICES ASSUME e.stroke = i PROVE FALSE
        OBVIOUS
      <4>1. e.role = "body" /\ e.nr \in DOMAIN strokes[i].body
        BY <2>6, <3>3, CallsCases DEF Closes
      <4>2. e.nr <= c.nr /\ e.nr \in Int
        BY <1>1, <2>6, <4>1 DEF Listed
      <4> QED
        BY <2>1, <2>2, <2>i, <3>3, <4>1, <4>2 DEF Before, Closes
    <3> QED
      BY <2>4, <2>i, <3>1, <3>2, <3>3
  <2> QED
    BY <2>3, <2>5, <2>6
<1> QED
  BY <1>2, <1>4 DEF Promised

LEMMA ListIsSeq ==
    ASSUME NEW s, NEW n, ListOf(s, n)
    PROVE  \A S : (\A i \in 1..n : s[i] \in S) => s \in Seq(S) /\ Len(s) = n
<1> SUFFICES ASSUME NEW S, \A i \in 1..n : s[i] \in S PROVE s \in Seq(S) /\ Len(s) = n
  OBVIOUS
<1>1. n \in Nat /\ s \in [1..n -> S]
  BY DEF ListOf
<1>2. s \in Seq(S)
  BY <1>1, SeqDef
<1> QED
  BY <1>1, <1>2, LenProperties

LEMMA ListLen ==
    ASSUME NEW s, NEW n, ListOf(s, n)
    PROVE  Len(s) = n /\ DOMAIN s = 1..n
<1> DEFINE S == {s[i] : i \in 1..n}
<1>1. \A i \in 1..n : s[i] \in S
  OBVIOUS
<1> HIDE DEF S
<1> QED
  BY <1>1, ListIsSeq DEF ListOf

LEMMA SeqIsList ==
    ASSUME NEW S, NEW s \in Seq(S)
    PROVE  ListOf(s, Len(s)) /\ \A i \in 1..Len(s) : s[i] \in S
BY LenProperties DEF ListOf

\* r is s and t, one after the other.
Joins(r, s, m, t, n) ==
    /\ ListOf(r, m + n)
    /\ \A k \in 1..m : r[k] = s[k]
    /\ \A k \in 1..n : r[m + k] = t[k]
    /\ \A k \in 1..(m + n) : \/ k \in 1..m /\ r[k] = s[k]
                             \/ k - m \in 1..n /\ r[k] = t[k - m]

LEMMA Joined ==
    ASSUME NEW s, NEW m \in Nat, ListOf(s, m), NEW t, NEW n \in Nat, ListOf(t, n)
    PROVE  Joins(s \o t, s, m, t, n)
<1> DEFINE S == {s[i] : i \in 1..m} \cup {t[i] : i \in 1..n}
<1>1. (\A i \in 1..m : s[i] \in S) /\ (\A i \in 1..n : t[i] \in S)
  OBVIOUS
<1> HIDE DEF S
<1>2. s \in Seq(S) /\ t \in Seq(S) /\ Len(s) = m /\ Len(t) = n
  BY <1>1, ListIsSeq
<1>4. /\ s \o t \in Seq(S) /\ Len(s \o t) = m + n
      /\ \A i \in 1..(m + n) : (s \o t)[i] = IF i <= m THEN s[i] ELSE t[i - m]
  BY <1>2, ConcatProperties
<1>5. ListOf(s \o t, m + n)
  BY <1>4, SeqIsList
<1> DEFINE r == s \o t
<1>6. ListOf(r, m + n) /\ \A i \in 1..(m + n) : r[i] = IF i <= m THEN s[i] ELSE t[i - m]
  BY <1>4, <1>5
<1> HIDE DEF r
<1>7. ASSUME NEW k \in 1..m PROVE r[k] = s[k]
  <2>1. k \in 1..(m + n) /\ k <= m
    OBVIOUS
  <2> QED
    BY <1>6, <2>1
<1>8. ASSUME NEW k \in 1..n PROVE r[m + k] = t[k]
  <2>1. m + k \in 1..(m + n) /\ ~(m + k <= m) /\ (m + k) - m = k
    OBVIOUS
  <2> QED
    BY <1>6, <2>1
<1>9. ASSUME NEW k \in 1..(m + n)
      PROVE  \/ k \in 1..m /\ r[k] = s[k]
             \/ k - m \in 1..n /\ r[k] = t[k - m]
  <2>1. (k <= m => k \in 1..m) /\ (~(k <= m) => k - m \in 1..n)
    OBVIOUS
  <2> QED
    BY <1>6, <2>1
<1>10. Joins(r, s, m, t, n)
  BY <1>6, <1>7, <1>8, <1>9 DEF Joins
<1> QED
  BY <1>10 DEF r

LEMMA StillOnes ==
    /\ \A words : Still(<<>>, words)
    /\ \A x, words : x.call \in words /\ ~Presses(x) => Still(<<x>>, words)
<1>1. ASSUME NEW words PROVE Still(<<>>, words)
  <2>1. ListOf(<<>>, 0)
    BY DEF ListOf
  <2> QED
    BY <2>1 DEF Still
<1>2. ASSUME NEW x, NEW words, x.call \in words, ~Presses(x) PROVE Still(<<x>>, words)
  <2>1. ListOf(<<x>>, 1)
    BY DEF ListOf
  <2> QED
    BY <1>2, <2>1 DEF Still
<1> QED
  BY <1>1, <1>2

LEMMA StillJoined ==
    ASSUME NEW s, NEW t, NEW words, Still(s, words), Still(t, words)
    PROVE  Still(s \o t, words)
<1>1. PICK m \in Nat : ListOf(s, m) /\ \A k \in 1..m : s[k].call \in words /\ ~Presses(s[k])
  BY DEF Still
<1>2. PICK n \in Nat : ListOf(t, n) /\ \A k \in 1..n : t[k].call \in words /\ ~Presses(t[k])
  BY DEF Still
<1> DEFINE r == s \o t
<1>3. Joins(r, s, m, t, n)
  BY <1>1, <1>2, Joined
<1> HIDE DEF r
<1>4. ASSUME NEW k \in 1..(m + n) PROVE r[k].call \in words /\ ~Presses(r[k])
  BY <1>1, <1>2, <1>3 DEF Joins
<1>5. m + n \in Nat
  OBVIOUS
<1>6. Still(r, words)
  BY <1>3, <1>4, <1>5 DEF Still, Joins
<1> QED
  BY <1>6 DEF r

\* A stroke that presses nothing, before others.
LEMMA StrokeAhead ==
    ASSUME NEW words, NEW lasting, NEW first, GoodStroke(first, words), Still(first.body, words),
           NEW rest, NEW n, ListOf(rest, n), Keeps(rest, words, lasting)
    PROVE  ListOf(<<first>> \o rest, n + 1) /\ Keeps(<<first>> \o rest, words, lasting)
<1> DEFINE all == <<first>> \o rest
<1>1. ListOf(<<first>>, 1) /\ n \in Nat
  BY DEF ListOf
<1>2. /\ ListOf(all, n + 1) /\ all[1] = first
      /\ \A k \in 1..n : all[k + 1] = rest[k]
  <2>1. Joins(all, <<first>>, 1, rest, n)
    BY <1>1, Joined
  <2> HIDE DEF all
  <2>2. 1 + n = n + 1 /\ \A k \in 1..n : 1 + k = k + 1
    BY <1>1
  <2>3. 1 \in 1..1 /\ <<first>>[1] = first
    OBVIOUS
  <2> QED
    BY <2>1, <2>2, <2>3 DEF Joins
<1>3. DOMAIN all = 1..(n + 1) /\ DOMAIN rest = 1..n
  BY <1>2, ListLen
<1> HIDE DEF all
<1>4. ASSUME NEW i \in 1..(n + 1)
      PROVE  /\ GoodStroke(all[i], words)
             /\ \A k \in DOMAIN all[i].body : Presses(all[i].body[k]) =>
                  LET h == <<all[i].body[k].at, all[i].body[k].code>> IN
                  \/ h \in lasting
                  \/ Tidies(all[i], h)
                  \/ /\ i + 1 \in DOMAIN all /\ Tidies(all[i + 1], h)
                     /\ DOMAIN all[i].tidy = {} /\ \A j \in DOMAIN all[i].body : j <= k
  <2>1. CASE i = 1
    BY <1>2, <2>1, StillItem
  <2>2. CASE i # 1
    <3> DEFINE r == i - 1
    <3>1. r \in 1..n /\ all[i] = rest[r] /\ (r + 1 \in 1..n => all[i + 1] = rest[r + 1])
      BY <1>1, <1>2, <2>2
    <3>2. r + 1 \in 1..n => i + 1 \in 1..(n + 1)
      BY <1>1
    <3> HIDE DEF r
    <3>3. /\ GoodStroke(rest[r], words)
          /\ \A k \in DOMAIN rest[r].body : Presses(rest[r].body[k]) =>
               LET h == <<rest[r].body[k].at, rest[r].body[k].code>> IN
               \/ h \in lasting
               \/ Tidies(rest[r], h)
               \/ /\ r + 1 \in 1..n /\ Tidies(rest[r + 1], h)
                  /\ DOMAIN rest[r].tidy = {} /\ \A j \in DOMAIN rest[r].body : j <= k
      BY <1>3, <3>1 DEF Keeps
    <3> QED
      BY <1>3, <3>1, <3>2, <3>3
  <2> QED
    BY <2>1, <2>2
<1>5. Keeps(all, words, lasting)
  BY <1>1, <1>3, <1>4 DEF Keeps
<1> QED
  BY <1>2, <1>5 DEF all

LEMMA RoundsKeep ==
    ASSUME NEW words, NEW lasting, NEW rounds, NEW n, ListOf(rounds, n),
           \A i \in 1..n : DOMAIN rounds[i] = 1..3 /\ Keeps(rounds[i], words, lasting)
    PROVE  ListOf(Rounds(rounds), 3 * n) /\ Keeps(Rounds(rounds), words, lasting)
<1> DEFINE all == Rounds(rounds)
<1>1. n \in Nat /\ Len(rounds) = n
  BY ListLen DEF ListOf
<1>2. /\ DOMAIN all = 1..(3 * n) /\ ListOf(all, 3 * n)
      /\ \A k \in 1..(3 * n) : all[k] = rounds[(k - 1) \div 3 + 1][((k - 1) % 3) + 1]
  BY <1>1 DEF Rounds, ListOf
<1>3. ASSUME NEW k \in 1..(3 * n)
      PROVE  /\ (k - 1) \div 3 + 1 \in 1..n /\ ((k - 1) % 3) + 1 \in 1..3
             /\ ((k - 1) % 3) + 1 < 3 => /\ k + 1 \in 1..(3 * n)
                                        /\ k \div 3 + 1 = (k - 1) \div 3 + 1
                                        /\ (k % 3) + 1 = ((k - 1) % 3) + 2
  BY <1>1
<1> HIDE DEF all
<1>4. ASSUME NEW k \in 1..(3 * n)
      PROVE  /\ GoodStroke(all[k], words)
             /\ \A p \in DOMAIN all[k].body : Presses(all[k].body[p]) =>
                  LET h == <<all[k].body[p].at, all[k].body[p].code>> IN
                  \/ h \in lasting
                  \/ Tidies(all[k], h)
                  \/ /\ k + 1 \in DOMAIN all /\ Tidies(all[k + 1], h)
                     /\ DOMAIN all[k].tidy = {} /\ \A j \in DOMAIN all[k].body : j <= p
  <2> DEFINE i == (k - 1) \div 3 + 1
             j == ((k - 1) % 3) + 1
  <2>1. i \in 1..n /\ j \in 1..3 /\ all[k] = rounds[i][j]
    BY <1>2, <1>3
  <2>2. j + 1 \in 1..3 => k + 1 \in 1..(3 * n) /\ all[k + 1] = rounds[i][j + 1]
    <3> SUFFICES ASSUME j + 1 \in 1..3 PROVE k + 1 \in 1..(3 * n) /\ all[k + 1] = rounds[i][j + 1]
      OBVIOUS
    <3>1. k + 1 \in 1..(3 * n) /\ k \div 3 + 1 = i /\ (k % 3) + 1 = j + 1
      BY <1>3
    <3>2. all[k + 1] = rounds[((k + 1) - 1) \div 3 + 1][(((k + 1) - 1) % 3) + 1]
      BY <1>2, <3>1
    <3>3. (k + 1) - 1 = k
      OBVIOUS
    <3> QED
      BY <3>1, <3>2, <3>3
  <2> HIDE DEF i, j
  <2>3. /\ GoodStroke(rounds[i][j], words)
        /\ \A p \in DOMAIN rounds[i][j].body : Presses(rounds[i][j].body[p]) =>
             LET h == <<rounds[i][j].body[p].at, rounds[i][j].body[p].code>> IN
             \/ h \in lasting
             \/ Tidies(rounds[i][j], h)
             \/ /\ j + 1 \in 1..3 /\ Tidies(rounds[i][j + 1], h)
                /\ DOMAIN rounds[i][j].tidy = {} /\ \A q \in DOMAIN rounds[i][j].body : q <= p
    BY <2>1 DEF Keeps
  <2> QED
    BY <1>2, <2>1, <2>2, <2>3
<1> QED
  BY <1>2, <1>4 DEF Keeps, all

-----------------------------------------------------------------------------
(***************************************************************************)
(* The strokes of each node.                                               *)
(***************************************************************************)

LEMMA PlainStills ==
    \A words :
        /\ "check" \in words => Still(Check, words)
        /\ "refuse" \in words => Still(Refuse, words)
        /\ "message" \in words => \A w : Still(Message(w), words)
        /\ "cursor" \in words => \A p : Still(Cursor(p), words)
BY StillOnes DEF Check, Refuse, Message, Cursor, Presses

LEMMA PlainStroke ==
    ASSUME NEW body, NEW words, Still(body, words)
    PROVE  GoodStroke(Plainly(body), words) /\ Still(Plainly(body).body, words)
<1>1. /\ Plainly(body).body = body /\ Plainly(body).tidy = <<>>
      /\ Plainly(body).undo = <<>> /\ Plainly(body).final = <<>>
  BY DEF Plainly, Stroke
<1> HIDE DEF Plainly
<1>2. Still(<<>>, Others(words))
  BY StillOnes
<1> QED
  BY <1>1, <1>2, StillItem DEF GoodStroke

LEMMA PausePlain ==
    ASSUME NEW i, NEW n, NEW words, "check" \in words
    PROVE  GoodStroke(Pause(i, n), words) /\ Still(Pause(i, n).body, words)
<1>1. Still(IF i < n THEN Check ELSE <<>>, words)
  BY PlainStills, StillOnes
<1> QED
  BY <1>1, PlainStroke DEF Pause

\* A stroke that keeps its presses by itself.
KeepsAlone(s, words, lasting) ==
    /\ GoodStroke(s, words)
    /\ \A k \in DOMAIN s.body : Presses(s.body[k]) =>
          \/ <<s.body[k].at, s.body[k].code>> \in lasting
          \/ Tidies(s, <<s.body[k].at, s.body[k].code>>)

LEMMA StillAlone ==
    ASSUME NEW s, NEW words, GoodStroke(s, words), Still(s.body, words)
    PROVE  \A lasting : KeepsAlone(s, words, lasting)
BY StillItem DEF KeepsAlone

LEMMA AloneKeeps ==
    ASSUME NEW strokes, NEW words, NEW lasting,
           \A i \in DOMAIN strokes : i \in Int /\ KeepsAlone(strokes[i], words, lasting)
    PROVE  Keeps(strokes, words, lasting)
BY DEF Keeps, KeepsAlone

\* Three strokes to a round.
LEMMA AloneRounds ==
    ASSUME NEW words, NEW lasting, NEW n \in Nat, NEW rounds,
           ListOf(rounds, n),
           \A i \in 1..n : /\ DOMAIN rounds[i] = 1..3
                           /\ \A j \in 1..3 : KeepsAlone(rounds[i][j], words, lasting)
    PROVE  ListOf(Rounds(rounds), 3 * n) /\ Keeps(Rounds(rounds), words, lasting)
<1>1. \A i \in 1..n : Keeps(rounds[i], words, lasting)
  BY AloneKeeps
<1> QED
  BY <1>1, RoundsKeep

\* Keys have other names than buttons.
KeyNames == Modifiers \cup Letters \cup {"1"}

LEMMA HitsFacts ==
    ASSUME NEW codes \in Seq(KeyNames), NEW at, NEW down
    PROVE  /\ ListOf(Hits(at, codes, down), Len(codes)) /\ Len(codes) \in Nat
           /\ \A k \in 1..Len(codes) : /\ Hits(at, codes, down)[k] = Hit(at, codes[k], down)
                                       /\ codes[k] \notin Buttons
<1>1. DOMAIN codes = 1..Len(codes) /\ Len(codes) \in Nat /\ \A k \in 1..Len(codes) : codes[k] \in KeyNames
  OBVIOUS
<1>2. KeyNames \cap Buttons = {}
  BY DEF KeyNames, Modifiers, Letters, Buttons
<1> QED
  BY <1>1, <1>2 DEF Hits, ListOf

LEMMA HitsStill ==
    ASSUME NEW codes \in Seq(KeyNames), NEW at, NEW down, at # Host \/ ~down,
           NEW words, "input" \in words
    PROVE  Still(Hits(at, codes, down), words) /\ Still(Muted(Hits(at, codes, down)), words)
<1> DEFINE hits == Hits(at, codes, down)
<1>1. /\ ListOf(hits, Len(codes)) /\ Len(codes) \in Nat /\ DOMAIN hits = 1..Len(codes)
      /\ \A k \in 1..Len(codes) : hits[k] = Hit(at, codes[k], down) /\ codes[k] \notin Buttons
  BY HitsFacts, ListLen
<1>2. \A code : code \notin Buttons => /\ Hit(at, code, down).call = "input"
                                       /\ ~Presses(Hit(at, code, down))
                                       /\ ~Presses([Hit(at, code, down) EXCEPT !.mute = TRUE])
                                       /\ [Hit(at, code, down) EXCEPT !.mute = TRUE].call = "input"
  BY DEF Hit, Presses
<1> HIDE DEF hits
<1>3. Still(hits, words)
  <2>1. \A k \in 1..Len(codes) : hits[k].call \in words /\ ~Presses(hits[k])
    BY <1>1, <1>2
  <2> QED
    BY <1>1, <2>1 DEF Still
<1>4. /\ ListOf(Muted(hits), Len(codes))
      /\ \A k \in 1..Len(codes) : Muted(hits)[k] = [hits[k] EXCEPT !.mute = TRUE]
  BY <1>1 DEF Muted, ListOf
<1>5. Still(Muted(hits), words)
  <2>1. ASSUME NEW k \in 1..Len(codes)
        PROVE  Muted(hits)[k].call \in words /\ ~Presses(Muted(hits)[k])
    <3>1. Muted(hits)[k] = [Hit(at, codes[k], down) EXCEPT !.mute = TRUE] /\ codes[k] \notin Buttons
      BY <1>1, <1>4
    <3> QED
      BY <1>2, <3>1
  <2> QED
    BY <1>1, <1>4, <2>1 DEF Still
<1> QED
  BY <1>3, <1>5 DEF hits

LEMMA ReverseFacts ==
    ASSUME NEW S, NEW codes \in Seq(S)
    PROVE  /\ Reverse(codes) \in Seq(S) /\ Len(Reverse(codes)) = Len(codes)
           /\ \A k \in 1..Len(codes) : /\ Len(codes) - k + 1 \in 1..Len(codes)
                                       /\ Reverse(codes)[Len(codes) - k + 1] = codes[k]
<1>1. Len(codes) \in Nat /\ \A k \in 1..Len(codes) : codes[k] \in S
  OBVIOUS
<1>2. \A k \in 1..Len(codes) : Len(codes) - k + 1 \in 1..Len(codes)
  BY <1>1
<1>3. Reverse(codes) = [i \in 1..Len(codes) |-> codes[(Len(codes) - i) + 1]]
  BY DEF Reverse
<1>4. ListOf(Reverse(codes), Len(codes)) /\ \A i \in 1..Len(codes) : Reverse(codes)[i] \in S
  BY <1>1, <1>2, <1>3 DEF ListOf
<1>5. \A k \in 1..Len(codes) : Len(codes) - (Len(codes) - k + 1) + 1 = k
  BY <1>1
<1> QED
  BY <1>2, <1>3, <1>4, <1>5, ListIsSeq

\* Keys of the host that go down and come up in the same stroke, with or without
\* a check in between.
LEMMA HostTap ==
    ASSUME NEW codes \in Seq(KeyNames), NEW then, NEW words, NEW lasting,
           {"input", "check"} \subseteq words, Still(then, words)
    PROVE  KeepsAlone(Stroke(Hits(Host, codes, TRUE) \o then,
                             Hits(Host, Reverse(codes), FALSE), <<>>, <<>>), words, lasting)
<1> DEFINE down == Hits(Host, codes, TRUE)
           up == Hits(Host, Reverse(codes), FALSE)
           body == down \o then
           m == Len(codes)
<1>1. /\ ListOf(down, m) /\ m \in Nat
      /\ \A k \in 1..m : down[k] = Hit(Host, codes[k], TRUE)
  BY HitsFacts
<1>r. Reverse(codes) \in Seq(KeyNames) /\ Len(Reverse(codes)) = m
  BY ReverseFacts
<1>2. /\ ListOf(up, m)
      /\ \A k \in 1..m : up[k] = Hit(Host, Reverse(codes)[k], FALSE)
  <2>1. /\ ListOf(up, Len(Reverse(codes)))
        /\ \A k \in 1..Len(Reverse(codes)) : up[k] = Hit(Host, Reverse(codes)[k], FALSE)
    BY <1>r, HitsFacts
  <2> QED
    BY <1>r, <2>1
<1>3. Still(up, Others(words))
  <2>1. "input" \in Others(words)
    BY DEF Others
  <2> QED
    BY <1>r, <2>1, HitsStill
<1>4. PICK n \in Nat : ListOf(then, n) /\ \A k \in 1..n : then[k].call \in words /\ ~Presses(then[k])
  BY DEF Still
<1>5. Joins(body, down, m, then, n)
  BY <1>1, <1>4, Joined
<1>6. DOMAIN up = 1..m
  BY <1>2, ListLen
<1> HIDE DEF body, down, up, m
<1>7. /\ ListOf(body, m + n) /\ m + n \in Nat
      /\ \A k \in 1..(m + n) : \/ k \in 1..m /\ body[k] = Hit(Host, codes[k], TRUE)
                               \/ body[k].call \in words /\ ~Presses(body[k])
  <2>1. ListOf(body, m + n) /\ m + n \in Nat
    BY <1>1, <1>5 DEF Joins
  <2>2. ASSUME NEW k \in 1..(m + n)
        PROVE  \/ k \in 1..m /\ body[k] = Hit(Host, codes[k], TRUE)
               \/ body[k].call \in words /\ ~Presses(body[k])
    <3>1. \/ k \in 1..m /\ body[k] = down[k]
          \/ k - m \in 1..n /\ body[k] = then[k - m]
      BY <1>5 DEF Joins
    <3> QED
      BY <1>1, <1>4, <3>1
  <2> QED
    BY <2>1, <2>2
<1>8. DOMAIN body = 1..(m + n)
  BY <1>7, ListLen
<1>9. ASSUME NEW k \in 1..(m + n) PROVE body[k].call \in words
  <2>1. \A code : Hit(Host, code, TRUE).call = "input"
    BY DEF Hit
  <2> QED
    BY <1>7, <2>1
<1>10. ASSUME NEW k \in DOMAIN body, Presses(body[k])
       PROVE  \E j \in DOMAIN up : Releases(up[j], <<body[k].at, body[k].code>>)
  <2>1. k \in 1..m /\ body[k] = Hit(Host, codes[k], TRUE)
    BY <1>7, <1>8, <1>10
  <2> DEFINE j == m - k + 1
  <2>2. j \in 1..m /\ up[j] = Hit(Host, codes[k], FALSE)
    BY <1>2, <2>1, ReverseFacts DEF m
  <2> QED
    BY <1>6, <2>1, <2>2 DEF Releases, Hit
<1> DEFINE s == Stroke(body, up, <<>>, <<>>)
<1>11. s.body = body /\ s.tidy = up /\ s.undo = <<>> /\ s.final = <<>>
  BY DEF Stroke
<1> HIDE DEF s
<1>12. GoodStroke(s, words)
  BY <1>3, <1>7, <1>8, <1>9, <1>11, StillOnes DEF GoodStroke
<1>13. KeepsAlone(s, words, lasting)
  BY <1>10, <1>11, <1>12 DEF KeepsAlone, Tidies
<1> QED
  BY <1>13 DEF s, body, down, up

\* Keys of a window are not what must come up again.
LEMMA WindowTap ==
    ASSUME NEW codes \in Seq(KeyNames), NEW w, w # Host, NEW after, NEW words,
           {"input", "check"} \subseteq words, Still(after, Others(words))
    PROVE  /\ GoodStroke(BackgroundType(w, codes, after), words)
           /\ Still(BackgroundType(w, codes, after).body, words)
<1> DEFINE body == Hits(w, codes, Struck) \o Check
           tidy == Muted(Hits(w, Reverse(codes), LetGo))
<1>r. Reverse(codes) \in Seq(KeyNames) /\ "input" \in Others(words)
  BY ReverseFacts DEF Others
<1>1. Still(body, words)
  BY HitsStill, PlainStills, StillJoined
<1>2. Still(tidy, Others(words)) /\ Still(<<>>, Others(words))
  BY <1>r, HitsStill, StillOnes
<1> HIDE DEF body, tidy
<1> DEFINE s == Stroke(body, tidy, <<>>, after)
<1>3. s.body = body /\ s.tidy = tidy /\ s.undo = <<>> /\ s.final = after
  BY DEF Stroke
<1> HIDE DEF s
<1>4. GoodStroke(s, words) /\ Still(s.body, words)
  BY <1>1, <1>2, <1>3, StillItem DEF GoodStroke
<1> QED
  BY <1>4 DEF s, body, tidy, BackgroundType

LEMMA HostPress ==
    ASSUME NEW codes \in Seq(KeyNames), NEW words, "input" \in words,
           NEW lasting, \A k \in 1..Len(codes) : <<Host, codes[k]>> \in lasting
    PROVE  KeepsAlone(Plainly(Hits(Host, codes, TRUE)), words, lasting)
<1> DEFINE body == Hits(Host, codes, TRUE)
           s == Plainly(body)
<1>1. /\ ListOf(body, Len(codes)) /\ Len(codes) \in Nat
      /\ \A k \in 1..Len(codes) : body[k] = Hit(Host, codes[k], TRUE)
  BY HitsFacts
<1>2. DOMAIN body = 1..Len(codes)
  BY <1>1, ListLen
<1> HIDE DEF body
<1>3. s.body = body /\ s.tidy = <<>> /\ s.undo = <<>> /\ s.final = <<>>
  BY DEF Plainly, Stroke
<1> HIDE DEF s
<1>4. ASSUME NEW k \in 1..Len(codes)
      PROVE  body[k].call \in words /\ <<body[k].at, body[k].code>> \in lasting
  <2>1. body[k] = Hit(Host, codes[k], TRUE)
    BY <1>1
  <2>2. body[k].call = "input" /\ body[k].at = Host /\ body[k].code = codes[k]
    BY <2>1 DEF Hit
  <2> QED
    BY <2>2
<1>5. Still(<<>>, Others(words))
  BY StillOnes
<1>6. KeepsAlone(s, words, lasting)
  <2>1. \A k \in DOMAIN body : k \in Int /\ k \in 1..Len(codes)
    BY <1>1, <1>2
  <2>2. GoodStroke(s, words)
    BY <1>3, <1>4, <1>5, <2>1 DEF GoodStroke
  <2> QED
    BY <1>3, <1>4, <2>1, <2>2 DEF KeepsAlone
<1> QED
  BY <1>6 DEF s, body

LEMMA NodeFields ==
    ASSUME NEW n \in Nodes
    PROVE  /\ n.type \in {"keyboard", "text", "mouse", "clipboard", "focus", "wait", "command"}
           /\ n.type = "keyboard" =>
                 /\ n.mods \in Seq(Modifiers) /\ n.repeat \in Nat \ {0} /\ n.window \in Windows
                 /\ n.action \in {"type", "press", "release"} /\ n.background \in BOOLEAN
           /\ n.type = "text" =>
                 /\ n.chars \in Seq(STRING) /\ n.window \in Windows
                 /\ n.method \in {"host", "wm_char", "set_text", "clipboard"}
           /\ n.type = "mouse" =>
                 /\ n.button \in Buttons \cup {""} /\ n.count \in Nat \ {0} /\ n.window \in Windows
                 /\ n.background \in BOOLEAN
                 /\ n.action \in {"move", "click", "right_click", "middle_click", "double_click",
                               "down", "up", "drag"}
BY DEF Nodes

LEMMA ResolvedKeys ==
    /\ \A name : ResolveName(name) \in Seq(KeyNames)
    /\ \A c : ResolveChar(c) \in Seq(KeyNames)
<1>1. ASSUME NEW name PROVE ResolveName(name) \in Seq(KeyNames)
  <2>1. CASE name \in Letters
    <3>1. name \in KeyNames
      BY <2>1 DEF KeyNames
    <3> QED
      BY <2>1, <3>1 DEF ResolveName
  <2>2. CASE name \notin Letters /\ name \in DOMAIN Shifted
    <3>1. "shift" \in KeyNames /\ Shifted[name] \in KeyNames
      BY <2>2 DEF Shifted, KeyNames, Modifiers
    <3> QED
      BY <2>2, <3>1 DEF ResolveName
  <2>3. CASE name \notin Letters /\ name \notin DOMAIN Shifted
    BY <2>3 DEF ResolveName
  <2> QED
    BY <2>1, <2>2, <2>3
<1>2. ASSUME NEW c PROVE ResolveChar(c) \in Seq(KeyNames)
  <2>1. CASE c \in DOMAIN Capital
    <3>1. "shift" \in KeyNames /\ Capital[c] \in KeyNames
      BY <2>1 DEF Capital, KeyNames, Modifiers, Letters
    <3> QED
      BY <2>1, <3>1 DEF ResolveChar
  <2> QED
    BY <1>1, <2>1 DEF ResolveChar
<1> QED
  BY <1>1, <1>2

LEMMA ChordKeys ==
    ASSUME NEW n \in Nodes, n.type = "keyboard"
    PROVE  Chord(n) \in Seq(KeyNames)
<1>1. n.mods \in Seq(Modifiers)
  BY NodeFields
<1>2. n.mods \in Seq(KeyNames)
  <2>1. Modifiers \subseteq KeyNames
    BY DEF KeyNames
  <2> QED
    BY <1>1, <2>1
<1>3. ResolveName(Normalise(n.key)) \in Seq(KeyNames)
  BY ResolvedKeys
<1> QED
  BY <1>2, <1>3, ConcatProperties DEF Chord

LEMMA TargetStill ==
    ASSUME NEW n, NEW words, {"refuse", "find", "focus"} \subseteq words
    PROVE  Still(InputTarget(n), words)
<1>1. Still(Refuse, words) /\ Still(<<>>, words)
  BY PlainStills, StillOnes
<1>2. /\ Still(<<[call |-> "find", at |-> n.window]>>, words)
      /\ Still(<<[call |-> "focus", at |-> n.window]>>, words)
  BY StillOnes DEF Presses
<1>3. Still(IF n.focus THEN <<[call |-> "focus", at |-> n.window]>> ELSE <<>>, words)
  BY <1>1, <1>2
<1>4. Still(<<[call |-> "find", at |-> n.window]>>
            \o (IF n.focus THEN <<[call |-> "focus", at |-> n.window]>> ELSE <<>>), words)
  BY <1>2, <1>3, StillJoined
<1> QED
  BY <1>1, <1>4 DEF InputTarget

\* The keyboard node's stroke: a Type releases what it pressed, a Press on the host
\* is meant to last, and in a window nothing counts.
LEMMA KeyboardStroke ==
    ASSUME NEW n \in Nodes, n.type = "keyboard"
    PROVE  KeepsAlone(IF n.background THEN BackgroundStroke(n) ELSE HostStroke(n),
                      PlainWords, LeftDown(n))
<1>1. /\ Chord(n) \in Seq(KeyNames) /\ Reverse(Chord(n)) \in Seq(KeyNames)
      /\ n.window # Host /\ n.action \in {"type", "press", "release"} /\ n.background \in BOOLEAN
  BY ChordKeys, ReverseFacts, NodeFields, DesktopAssumption
<1>2. {"input", "check"} \subseteq PlainWords /\ "input" \in Others(PlainWords)
  BY DEF PlainWords, Others
<1>3. CASE n.background /\ n.action = "type"
  <2>1. BackgroundStroke(n) = BackgroundType(n.window, Chord(n), <<>>)
    BY <1>3 DEF BackgroundStroke
  <2>2. Still(<<>>, Others(PlainWords))
    BY StillOnes
  <2> QED
    BY <1>1, <1>2, <1>3, <2>1, <2>2, WindowTap, StillAlone
<1>4. CASE n.background /\ n.action = "press"
  <2> DEFINE body == Hits(n.window, Chord(n), Struck)
             undo == Muted(Hits(n.window, Reverse(Chord(n)), LetGo))
  <2>1. Still(body, PlainWords) /\ Still(undo, Others(PlainWords)) /\ Still(<<>>, Others(PlainWords))
    BY <1>1, <1>2, HitsStill, StillOnes
  <2> HIDE DEF body, undo
  <2> DEFINE s == Stroke(body, <<>>, undo, <<>>)
  <2>2. s.body = body /\ s.tidy = <<>> /\ s.undo = undo /\ s.final = <<>>
    BY DEF Stroke
  <2>3. BackgroundStroke(n) = s
    BY <1>4 DEF BackgroundStroke, body, undo
  <2> HIDE DEF s
  <2>4. GoodStroke(s, PlainWords) /\ Still(s.body, PlainWords)
    BY <2>1, <2>2, StillItem DEF GoodStroke
  <2> QED
    BY <1>4, <2>3, <2>4, StillAlone
<1>5. CASE n.background /\ n.action = "release"
  <2>1. Still(Muted(Hits(n.window, Reverse(Chord(n)), LetGo)), PlainWords)
    BY <1>1, <1>2, HitsStill
  <2>2. BackgroundStroke(n) = Plainly(Muted(Hits(n.window, Reverse(Chord(n)), LetGo)))
    BY <1>5 DEF BackgroundStroke
  <2> QED
    BY <1>5, <2>1, <2>2, PlainStroke, StillAlone
<1>6. CASE ~n.background /\ n.action = "type"
  <2>1. HostStroke(n) = Stroke(Hits(Host, Chord(n), TRUE) \o Check,
                               Hits(Host, Reverse(Chord(n)), FALSE), <<>>, <<>>)
    BY <1>6 DEF HostStroke
  <2>2. Still(Check, PlainWords)
    BY <1>2, PlainStills
  <2> QED
    BY <1>1, <1>2, <1>6, <2>1, <2>2, HostTap
<1>7. CASE ~n.background /\ n.action = "press"
  <2>1. HostStroke(n) = Plainly(Hits(Host, Chord(n), TRUE))
    BY <1>7 DEF HostStroke
  <2>2. \A k \in 1..Len(Chord(n)) : <<Host, Chord(n)[k]>> \in LeftDown(n)
    BY <1>1, <1>7 DEF LeftDown, ToSet
  <2> QED
    BY <1>1, <1>2, <1>7, <2>1, <2>2, HostPress
<1>8. CASE ~n.background /\ n.action = "release"
  <2>1. Still(Hits(Host, Reverse(Chord(n)), FALSE), PlainWords)
    BY <1>1, <1>2, HitsStill
  <2>2. HostStroke(n) = Plainly(Hits(Host, Reverse(Chord(n)), FALSE))
    BY <1>8 DEF HostStroke
  <2> QED
    BY <1>8, <2>1, <2>2, PlainStroke, StillAlone
<1> QED
  BY <1>1, <1>3, <1>4, <1>5, <1>6, <1>7, <1>8

LEMMA OneStroke ==
    ASSUME NEW s, NEW words, NEW lasting, KeepsAlone(s, words, lasting)
    PROVE  ListOf(<<s>>, 1) /\ Keeps(<<s>>, words, lasting)
<1>1. DOMAIN <<s>> = {1} /\ <<s>>[1] = s /\ ListOf(<<s>>, 1)
  BY DEF ListOf
<1> QED
  BY <1>1, AloneKeeps

LEMMA PlainAhead ==
    ASSUME NEW words, NEW lasting, NEW body, Still(body, words),
           NEW rest, NEW n, ListOf(rest, n), Keeps(rest, words, lasting)
    PROVE  Keeps(<<Plainly(body)>> \o rest, words, lasting)
<1>1. GoodStroke(Plainly(body), words) /\ Still(Plainly(body).body, words)
  BY PlainStroke
<1> QED
  BY <1>1, StrokeAhead

LEMMA KeyboardKeeps ==
    ASSUME NEW n \in Nodes, n.type = "keyboard"
    PROVE  Keeps(Strokes(n), PlainWords, LeftDown(n))
<1>1. "check" \in PlainWords /\ "refuse" \in PlainWords /\ {"refuse", "find", "focus"} \subseteq PlainWords
  BY DEF PlainWords
<1>2. Still(Check, PlainWords) /\ Still(Refuse, PlainWords)
  BY <1>1, PlainStills
<1>3. Still((IF n.action # "type" /\ n.repeat # 1 THEN Refuse ELSE Check) \o InputTarget(n), PlainWords)
  <2>1. Still(IF n.action # "type" /\ n.repeat # 1 THEN Refuse ELSE Check, PlainWords)
    BY <1>2
  <2>2. Still(InputTarget(n), PlainWords)
    BY <1>1, TargetStill
  <2> QED
    BY <2>1, <2>2, StillJoined
<1>4. \E m : ListOf(KeyboardStrokes(n), m) /\ Keeps(KeyboardStrokes(n), PlainWords, LeftDown(n))
  <2>1. CASE ~KnownChord(n)
    <3>1. KeepsAlone(Plainly(Refuse), PlainWords, LeftDown(n))
      BY <1>2, PlainStroke, StillAlone
    <3> QED
      BY <2>1, <3>1, OneStroke DEF KeyboardStrokes
  <2>2. CASE KnownChord(n)
    <3> DEFINE s == IF n.background THEN BackgroundStroke(n) ELSE HostStroke(n)
               rounds == [i \in 1..n.repeat |-> <<Plainly(Check), s, Pause(i, n.repeat)>>]
    <3>1. KeepsAlone(s, PlainWords, LeftDown(n))
      BY KeyboardStroke
    <3> HIDE DEF s
    <3>2. KeepsAlone(Plainly(Check), PlainWords, LeftDown(n))
      BY <1>2, PlainStroke, StillAlone
    <3>3. \A i : KeepsAlone(Pause(i, n.repeat), PlainWords, LeftDown(n))
      BY <1>1, PausePlain, StillAlone
    <3>4. n.repeat \in Nat /\ ListOf(rounds, n.repeat)
      BY NodeFields DEF ListOf
    <3>5. ASSUME NEW i \in 1..n.repeat
          PROVE  /\ DOMAIN rounds[i] = 1..3
                 /\ \A j \in 1..3 : KeepsAlone(rounds[i][j], PlainWords, LeftDown(n))
      <4>1. /\ DOMAIN rounds[i] = 1..3 /\ rounds[i][1] = Plainly(Check) /\ rounds[i][2] = s
            /\ rounds[i][3] = Pause(i, n.repeat)
        OBVIOUS
      <4> HIDE DEF rounds
      <4>2. \A j \in 1..3 : j = 1 \/ j = 2 \/ j = 3
        OBVIOUS
      <4> QED
        BY <3>1, <3>2, <3>3, <4>1, <4>2
    <3>6. KeyboardStrokes(n) = Rounds(rounds)
      BY <2>2 DEF KeyboardStrokes, s
    <3> HIDE DEF rounds
    <3>7. ListOf(Rounds(rounds), 3 * n.repeat) /\ Keeps(Rounds(rounds), PlainWords, LeftDown(n))
      BY <3>4, <3>5, AloneRounds
    <3> QED
      BY <3>6, <3>7
  <2> QED
    BY <2>1, <2>2
<1>5. Strokes(n) = <<Plainly((IF n.action # "type" /\ n.repeat # 1 THEN Refuse ELSE Check)
                             \o InputTarget(n))>> \o KeyboardStrokes(n)
  BY DEF Strokes
<1> QED
  BY <1>3, <1>4, <1>5, PlainAhead

LEMMA CharacterKeeps ==
    ASSUME NEW codes \in Seq(KeyNames), NEW lasting
    PROVE  KeepsAlone(HostCharacter(codes), PlainWords, lasting)
<1>1. CASE codes = <<>>
  <2>1. Still(Refuse, PlainWords)
    BY PlainStills DEF PlainWords
  <2> QED
    BY <1>1, <2>1, PlainStroke, StillAlone DEF HostCharacter
<1>2. CASE codes # <<>>
  <2> DEFINE hits == Hits(Host, codes, TRUE)
  <2>1. hits \o <<>> = hits
    <3>1. ListOf(hits, Len(codes))
      BY HitsFacts
    <3> HIDE DEF hits
    <3>2. hits \in Seq({hits[i] : i \in 1..Len(codes)})
      BY <3>1, ListIsSeq
    <3> QED
      BY <3>2, ConcatEmptySeq
  <2>2. Still(<<>>, PlainWords) /\ {"input", "check"} \subseteq PlainWords
    BY StillOnes DEF PlainWords
  <2>3. KeepsAlone(Stroke(hits \o <<>>, Hits(Host, Reverse(codes), FALSE), <<>>, <<>>),
                   PlainWords, lasting)
    BY <2>2, HostTap
  <2> QED
    BY <1>2, <2>1, <2>3 DEF HostCharacter
<1> QED
  BY <1>1, <1>2

LEMMA TextKeeps ==
    ASSUME NEW n \in Nodes, n.type = "text"
    PROVE  Keeps(Strokes(n), IF Pastes(n) THEN PasteWords ELSE PlainWords, LeftDown(n))
<1> DEFINE words == IF Pastes(n) THEN PasteWords ELSE PlainWords
<1>1. {"check", "refuse", "find", "focus", "input"} \subseteq words
  BY DEF PasteWords, PlainWords
<1>2. /\ n.chars \in Seq(STRING) /\ n.window # Host
      /\ n.method \in {"host", "wm_char", "set_text", "clipboard"}
  BY NodeFields, DesktopAssumption
<1>3. n.method # "clipboard" => words = PlainWords
  BY DEF Pastes
<1>4. n.method = "clipboard" => words = PasteWords
  BY DEF Pastes
<1>5. "message" \in PlainWords /\ "check" \in PlainWords
  BY DEF PlainWords
<1> HIDE DEF words
<1>6. \E m : ListOf(TextStrokes(n), m) /\ Keeps(TextStrokes(n), words, LeftDown(n))
  <2>1. CASE n.method = "host"
    <3> DEFINE m == Len(n.chars)
               rounds == [i \in DOMAIN n.chars |->
                   << Plainly(Check), HostCharacter(ResolveChar(n.chars[i])), Plainly(Check) >>]
    <3>1. m \in Nat /\ DOMAIN n.chars = 1..m
      BY <1>2
    <3>2. ListOf(rounds, m)
      BY <3>1 DEF ListOf
    <3>3. KeepsAlone(Plainly(Check), PlainWords, LeftDown(n))
      BY <1>5, PlainStills, PlainStroke, StillAlone
    <3>4. ASSUME NEW i \in 1..m
          PROVE  /\ DOMAIN rounds[i] = 1..3
                 /\ \A j \in 1..3 : KeepsAlone(rounds[i][j], PlainWords, LeftDown(n))
      <4>1. /\ DOMAIN rounds[i] = 1..3 /\ rounds[i][1] = Plainly(Check)
            /\ rounds[i][2] = HostCharacter(ResolveChar(n.chars[i])) /\ rounds[i][3] = Plainly(Check)
        BY <3>1
      <4>2. KeepsAlone(HostCharacter(ResolveChar(n.chars[i])), PlainWords, LeftDown(n))
        BY ResolvedKeys, CharacterKeeps
      <4> HIDE DEF rounds
      <4>3. \A j \in 1..3 : j = 1 \/ j = 2 \/ j = 3
        OBVIOUS
      <4> QED
        BY <3>3, <4>1, <4>2, <4>3
    <3>5. TextStrokes(n) = Rounds(rounds)
      BY <2>1 DEF TextStrokes
    <3> HIDE DEF rounds, m
    <3>6. ListOf(Rounds(rounds), 3 * m) /\ Keeps(Rounds(rounds), PlainWords, LeftDown(n))
      BY <3>1, <3>2, <3>4, AloneRounds
    <3> QED
      BY <1>3, <2>1, <3>5, <3>6
  <2>2. CASE n.method = "wm_char"
    <3> DEFINE s == Plainly(Check \o Message(n.window) \o Check)
               strokes == [i \in DOMAIN n.chars |-> s]
    <3>1. KeepsAlone(s, PlainWords, LeftDown(n))
      <4>1. Still(Check, PlainWords) /\ Still(Message(n.window), PlainWords)
        BY <1>5, PlainStills
      <4>2. Still(Check \o Message(n.window) \o Check, PlainWords)
        BY <4>1, StillJoined
      <4> QED
        BY <4>2, PlainStroke, StillAlone
    <3>2. TextStrokes(n) = strokes
      BY <2>2 DEF TextStrokes
    <3> HIDE DEF s
    <3>3. /\ ListOf(strokes, Len(n.chars))
          /\ \A i \in DOMAIN strokes : i \in Int /\ strokes[i] = s
      BY <1>2 DEF ListOf
    <3> HIDE DEF strokes
    <3>4. Keeps(strokes, PlainWords, LeftDown(n))
      BY <3>1, <3>3, AloneKeeps
    <3> QED
      BY <1>3, <2>2, <3>2, <3>3, <3>4
  <2>3. CASE n.method = "set_text"
    <3>1. KeepsAlone(Plainly(Message(n.window)), PlainWords, LeftDown(n))
      BY <1>5, PlainStills, PlainStroke, StillAlone
    <3>2. TextStrokes(n) = <<Plainly(Message(n.window))>>
      BY <2>3 DEF TextStrokes
    <3> QED
      BY <1>3, <2>3, <3>1, <3>2, OneStroke
  <2>4. CASE n.method = "clipboard"
    <3> DEFINE after == Check \o <<[call |-> "put back"]>>
               s1 == Plainly(<<[call |-> "read"]>>)
               s2 == Plainly(<<[call |-> "write", text |-> n.text]>>)
               s3 == BackgroundType(n.window, <<"ctrl", "v">>, after)
    <3>1. TextStrokes(n) = <<s1, s2, s3>>
      BY <2>4 DEF TextStrokes, PasteStrokes
    <3>2. KeepsAlone(s1, PasteWords, LeftDown(n)) /\ KeepsAlone(s2, PasteWords, LeftDown(n))
      <4>1. /\ Still(<<[call |-> "read"]>>, PasteWords)
            /\ Still(<<[call |-> "write", text |-> n.text]>>, PasteWords)
        <5> DEFINE r == [call |-> "read"]
                   w == [call |-> "write", text |-> n.text]
        <5>1. r.call \in PasteWords /\ ~Presses(r) /\ w.call \in PasteWords /\ ~Presses(w)
          BY DEF PasteWords, Presses
        <5> HIDE DEF r, w
        <5>2. Still(<<r>>, PasteWords) /\ Still(<<w>>, PasteWords)
          BY <5>1, StillOnes
        <5> QED
          BY <5>2 DEF r, w
      <4> QED
        BY <4>1, PlainStroke, StillAlone
    <3>3. KeepsAlone(s3, PasteWords, LeftDown(n))
      <4>1. Still(Check, Others(PasteWords)) /\ Still(<<[call |-> "put back"]>>, Others(PasteWords))
        BY PlainStills, StillOnes DEF PasteWords, Others, Presses
      <4>2. Still(after, Others(PasteWords))
        BY <4>1, StillJoined
      <4>3. <<"ctrl", "v">> \in Seq(KeyNames)
        <5>1. "ctrl" \in KeyNames /\ "v" \in KeyNames
          BY DEF KeyNames, Modifiers, Letters
        <5> QED
          BY <5>1
      <4>4. {"input", "check"} \subseteq PasteWords
        BY DEF PasteWords
      <4> HIDE DEF after
      <4> QED
        BY <1>2, <4>2, <4>3, <4>4, WindowTap, StillAlone
    <3> HIDE DEF s1, s2, s3
    <3>4. ListOf(<<s1, s2, s3>>, 3)
      BY DEF ListOf
    <3>5. \A i \in DOMAIN <<s1, s2, s3>> :
             i \in Int /\ KeepsAlone(<<s1, s2, s3>>[i], PasteWords, LeftDown(n))
      BY <3>2, <3>3
    <3>6. Keeps(<<s1, s2, s3>>, PasteWords, LeftDown(n))
      BY <3>5, AloneKeeps
    <3> QED
      BY <1>4, <2>4, <3>1, <3>4, <3>6
  <2> QED
    BY <1>2, <2>1, <2>2, <2>3, <2>4
<1>7. Still(InputTarget(n), words)
  BY <1>1, TargetStill
<1>8. Keeps(Strokes(n), words, LeftDown(n))
  BY <1>6, <1>7, PlainAhead DEF Strokes
<1> QED
  BY <1>8 DEF words

\* A button that is pressed last of its stroke and released by the next one.
LEMMA PressThenRelease ==
    ASSUME NEW words, NEW lasting, NEW at, NEW b, {"input", "check"} \subseteq words,
           NEW body, NEW m \in Nat, ListOf(body, m + 1), body[m + 1] = Hit(at, b, TRUE),
           \A k \in 1..m : body[k].call \in words /\ ~Presses(body[k]),
           NEW then, \A k \in DOMAIN then : k \in Int /\ then[k].call \in words /\ ~Presses(then[k]),
           NEW last, KeepsAlone(last, words, lasting)
    PROVE  LET s == Plainly(body)
               r == Stroke(then, <<Hit(at, b, FALSE)>>, <<>>, <<>>)
           IN  Keeps(<<s, r>>, words, lasting) /\ Keeps(<<s, r, last>>, words, lasting)
<1> DEFINE up == Hit(at, b, FALSE)
           s == Plainly(body)
           r == Stroke(then, <<up>>, <<>>, <<>>)
<1>1. s.body = body /\ s.tidy = <<>> /\ s.undo = <<>> /\ s.final = <<>>
  BY DEF Plainly, Stroke
<1>2. r.body = then /\ r.tidy = <<up>> /\ r.undo = <<>> /\ r.final = <<>>
  BY DEF Stroke
<1>3. DOMAIN body = 1..(m + 1)
  BY ListLen
<1>4. /\ up.call = "input" /\ ~Presses(up) /\ Releases(up, <<at, b>>)
      /\ body[m + 1].call = "input" /\ body[m + 1].at = at /\ body[m + 1].code = b
  BY DEF Hit, Presses, Releases
<1>5. Still(<<>>, Others(words)) /\ Still(<<up>>, Others(words))
  <2>1. "input" \in Others(words)
    BY DEF Others
  <2> HIDE DEF up
  <2> QED
    BY <1>4, <2>1, StillOnes
<1>6. GoodStroke(s, words)
  <2>1. \A k \in DOMAIN body : k \in Int /\ (k \in 1..m \/ k = m + 1)
    BY <1>3
  <2> HIDE DEF s
  <2> QED
    BY <1>1, <1>4, <1>5, <2>1 DEF GoodStroke
<1>7. GoodStroke(r, words)
  <2> HIDE DEF r, up
  <2> QED
    BY <1>2, <1>5 DEF GoodStroke
<1>8. Tidies(r, <<at, b>>)
  <2>1. DOMAIN <<up>> = {1} /\ <<up>>[1] = up
    OBVIOUS
  <2> HIDE DEF r, up
  <2> QED
    BY <1>2, <1>4, <2>1 DEF Tidies
<1>9. /\ DOMAIN s.tidy = {} /\ \A k \in DOMAIN s.body : Presses(s.body[k]) =>
            k = m + 1 /\ <<s.body[k].at, s.body[k].code>> = <<at, b>>
      /\ \A k \in DOMAIN s.body : k <= m + 1
  <2>1. \A k \in DOMAIN body : k <= m + 1 /\ (k \in 1..m \/ k = m + 1)
    BY <1>3
  <2>2. DOMAIN <<>> = {}
    OBVIOUS
  <2> HIDE DEF s
  <2> QED
    BY <1>1, <1>4, <2>1, <2>2
<1>10. \A k \in DOMAIN r.body : ~Presses(r.body[k])
  BY <1>2
<1> HIDE DEF s, r
<1>11. ASSUME NEW strokes, NEW n, n \in {2, 3}, DOMAIN strokes = 1..n, strokes[1] = s, strokes[2] = r,
              n = 3 => strokes[3] = last
       PROVE  Keeps(strokes, words, lasting)
  <2>1. ASSUME NEW i \in DOMAIN strokes
        PROVE  /\ i \in Int /\ GoodStroke(strokes[i], words)
               /\ \A k \in DOMAIN strokes[i].body : Presses(strokes[i].body[k]) =>
                    LET h == <<strokes[i].body[k].at, strokes[i].body[k].code>> IN
                    \/ h \in lasting
                    \/ Tidies(strokes[i], h)
                    \/ /\ i + 1 \in DOMAIN strokes /\ Tidies(strokes[i + 1], h)
                       /\ DOMAIN strokes[i].tidy = {} /\ \A j \in DOMAIN strokes[i].body : j <= k
    <3>1. i = 1 \/ i = 2 \/ (i = 3 /\ n = 3)
      BY <1>11
    <3>2. CASE i = 1
      <4>1. 2 \in DOMAIN strokes /\ i + 1 = 2
        BY <1>11, <3>2
      <4> QED
        BY <1>6, <1>8, <1>9, <1>11, <3>2, <4>1
    <3>3. CASE i = 2
      BY <1>7, <1>10, <1>11, <3>3
    <3>4. CASE i = 3 /\ n = 3
      BY <1>11, <3>4 DEF KeepsAlone
    <3> QED
      BY <3>1, <3>2, <3>3, <3>4
  <2> QED
    BY <2>1 DEF Keeps
<1>12. /\ DOMAIN <<s, r>> = 1..2 /\ <<s, r>>[1] = s /\ <<s, r>>[2] = r
       /\ DOMAIN <<s, r, last>> = 1..3 /\ <<s, r, last>>[1] = s /\ <<s, r, last>>[2] = r
       /\ <<s, r, last>>[3] = last
  OBVIOUS
<1>13. Keeps(<<s, r>>, words, lasting)
  BY <1>11, <1>12
<1>14. Keeps(<<s, r, last>>, words, lasting)
  BY <1>11, <1>12
<1> QED
  BY <1>13, <1>14 DEF s, r, up

LEMMA StillThen ==
    ASSUME NEW s, NEW words, Still(s, words), NEW x
    PROVE  \E m \in Nat : /\ ListOf(s \o <<x>>, m + 1) /\ (s \o <<x>>)[m + 1] = x
                          /\ \A k \in 1..m : /\ (s \o <<x>>)[k].call \in words
                                             /\ ~Presses((s \o <<x>>)[k])
<1>1. PICK m \in Nat : ListOf(s, m) /\ \A k \in 1..m : s[k].call \in words /\ ~Presses(s[k])
  BY DEF Still
<1>2. ListOf(<<x>>, 1) /\ <<x>>[1] = x
  BY DEF ListOf
<1> DEFINE r == s \o <<x>>
<1>3. Joins(r, s, m, <<x>>, 1)
  BY <1>1, <1>2, Joined
<1> HIDE DEF r
<1>4. /\ ListOf(r, m + 1) /\ r[m + 1] = x
      /\ \A k \in 1..m : r[k].call \in words /\ ~Presses(r[k])
  BY <1>1, <1>2, <1>3 DEF Joins
<1> QED
  BY <1>4 DEF r

LEMMA MovesStill ==
    ASSUME NEW n, NEW from, NEW to
    PROVE  \A k \in DOMAIN Moves(n, from, to) : /\ k \in Int
                                                /\ Moves(n, from, to)[k].call \in MouseWords
                                                /\ ~Presses(Moves(n, from, to)[k])
<1> DEFINE path == Path(from, to)
<1>0. /\ Check[1].call = "check" /\ ~Presses(Check[1])
      /\ \A w : Message(w)[1].call = "message" /\ ~Presses(Message(w)[1])
      /\ \A p : Cursor(p)[1].call = "cursor" /\ ~Presses(Cursor(p)[1])
      /\ \A w : DOMAIN Message(w) = {1}
  BY DEF Check, Message, Cursor, Presses
<1>w. {"check", "message", "cursor"} \subseteq MouseWords
  BY DEF MouseWords
<1>1. CASE n.background /\ from = to
  BY <1>0, <1>1, <1>w DEF Moves
<1>2. CASE ~(n.background /\ from = to)
  <2>1. Moves(n, from, to) = [k \in 1..(2 * Len(path)) |->
                                IF k % 2 = 1 THEN Check[1] ELSE Step(n, path[k \div 2])[1]]
    BY <1>2 DEF Moves, Steps
  <2>2. \A p : Step(n, p)[1].call \in {"message", "cursor"} /\ ~Presses(Step(n, p)[1])
    BY <1>0 DEF Step
  <2> HIDE DEF path
  <2> QED
    BY <1>0, <1>w, <2>1, <2>2
<1> QED
  BY <1>1, <1>2

LEMMA MouseWordFacts ==
    /\ {"check", "refuse", "message", "cursor", "put cursor", "input"} \subseteq MouseWords
    /\ Still(Check, MouseWords) /\ Still(Refuse, MouseWords) /\ Still(<<>>, MouseWords)
    /\ \A w : Still(Message(w), MouseWords)
    /\ \A p : Still(Cursor(p), MouseWords)
<1>1. {"check", "refuse", "message", "cursor", "put cursor", "input"} \subseteq MouseWords
  BY DEF MouseWords
<1> QED
  BY <1>1, PlainStills, StillOnes

LEMMA JumpStill ==
    ASSUME NEW n, NEW point
    PROVE  Still(Jump(n, point), MouseWords)
BY MouseWordFacts DEF Jump

LEMMA DragKeeps ==
    ASSUME NEW n, NEW b, NEW origin, NEW lasting
    PROVE  \E m : ListOf(Drag(n, b, origin), m) /\ Keeps(Drag(n, b, origin), MouseWords, lasting)
<1> DEFINE start == IF n.start = <<>> THEN origin ELSE n.start[1]
           end == ResolvePoint(start, n.point, n.relative)
           takeUp == IF n.background THEN Message(n.window)
                     ELSE IF start = origin THEN <<>> ELSE Cursor(start)
           refused == (IF n.background THEN <<>> ELSE takeUp) \o Refuse
           s == Plainly(takeUp \o <<Hit(At(n), b, TRUE)>>)
           r == Stroke(Moves(n, start, end[1]), <<Hit(At(n), b, FALSE)>>, <<>>, <<>>)
<1>1. Drag(n, b, origin) = IF end = <<>> THEN <<Plainly(refused)>> ELSE <<s, r>>
  BY DEF Drag
<1>2. Still(takeUp, MouseWords)
  BY MouseWordFacts
<1>3. Still(refused, MouseWords)
  <2>1. Still(IF n.background THEN <<>> ELSE takeUp, MouseWords) /\ Still(Refuse, MouseWords)
    BY <1>2, MouseWordFacts
  <2> QED
    BY <2>1, StillJoined
<1> HIDE DEF refused
<1>4. CASE end = <<>>
  <2>1. KeepsAlone(Plainly(refused), MouseWords, lasting)
    BY <1>3, PlainStroke, StillAlone
  <2>2. ListOf(<<Plainly(refused)>>, 1) /\ Keeps(<<Plainly(refused)>>, MouseWords, lasting)
    BY <2>1, OneStroke
  <2> QED
    BY <1>1, <1>4, <2>2
<1>5. CASE end # <<>>
  <2> DEFINE body == takeUp \o <<Hit(At(n), b, TRUE)>>
             then == Moves(n, start, end[1])
  <2>1. PICK m \in Nat : /\ ListOf(body, m + 1) /\ body[m + 1] = Hit(At(n), b, TRUE)
                         /\ \A k \in 1..m : body[k].call \in MouseWords /\ ~Presses(body[k])
    BY <1>2, StillThen
  <2>2. \A k \in DOMAIN then : k \in Int /\ then[k].call \in MouseWords /\ ~Presses(then[k])
    BY MovesStill
  <2>3. KeepsAlone(Plainly(Check), MouseWords, lasting)
    BY MouseWordFacts, PlainStroke, StillAlone
  <2> HIDE DEF body, then
  <2>4. Keeps(<<Plainly(body), Stroke(then, <<Hit(At(n), b, FALSE)>>, <<>>, <<>>)>>,
              MouseWords, lasting)
    BY <2>1, <2>2, <2>3, MouseWordFacts, PressThenRelease
  <2>5. Keeps(<<s, r>>, MouseWords, lasting)
    BY <2>4 DEF body, then
  <2>6. ListOf(<<s, r>>, 2)
    BY DEF ListOf
  <2> QED
    BY <1>1, <1>5, <2>5, <2>6
<1> QED
  BY <1>4, <1>5

LEMMA ClicksKeep ==
    ASSUME NEW n, ClicksOf(n) \in Nat, NEW b, NEW lasting
    PROVE  \E m : ListOf(Clicks(n, b), m) /\ Keeps(Clicks(n, b), MouseWords, lasting)
<1> DEFINE body == <<Hit(At(n), b, TRUE)>>
           s == Plainly(body)
           r == Stroke(Check, <<Hit(At(n), b, FALSE)>>, <<>>, <<>>)
           c == ClicksOf(n)
           rounds == [i \in 1..c |-> <<s, r, Pause(i, c)>>]
<1>1. ListOf(body, 0 + 1) /\ body[0 + 1] = Hit(At(n), b, TRUE)
  BY DEF ListOf
<1>2. \A k \in DOMAIN Check : k \in Int /\ Check[k].call \in MouseWords /\ ~Presses(Check[k])
  BY MouseWordFacts, StillItem
<1>3. \A i : KeepsAlone(Pause(i, c), MouseWords, lasting)
  BY MouseWordFacts, PausePlain, StillAlone
<1>4. ASSUME NEW i \in 1..c PROVE DOMAIN rounds[i] = 1..3 /\ Keeps(rounds[i], MouseWords, lasting)
  <2>1. rounds[i] = <<s, r, Pause(i, c)>> /\ DOMAIN rounds[i] = 1..3
    OBVIOUS
  <2> HIDE DEF rounds, body
  <2>2. \A k \in 1..0 : body[k].call \in MouseWords /\ ~Presses(body[k])
    OBVIOUS
  <2>3. Keeps(<<Plainly(body), Stroke(Check, <<Hit(At(n), b, FALSE)>>, <<>>, <<>>), Pause(i, c)>>,
              MouseWords, lasting)
    BY <1>1, <1>2, <1>3, <2>2, MouseWordFacts, PressThenRelease
  <2> QED
    BY <2>1, <2>3
<1>5. ListOf(rounds, c)
  BY DEF ListOf
<1>6. Clicks(n, b) = Rounds(rounds)
  BY DEF Clicks
<1> HIDE DEF rounds
<1>7. ListOf(Rounds(rounds), 3 * c) /\ Keeps(Rounds(rounds), MouseWords, lasting)
  BY <1>4, <1>5, RoundsKeep
<1> QED
  BY <1>6, <1>7

LEMMA JumpHit ==
    ASSUME NEW n, NEW point, NEW b, NEW down, NEW lasting, down => <<At(n), b>> \in lasting
    PROVE  KeepsAlone(Plainly(Jump(n, point) \o <<Hit(At(n), b, down)>>), MouseWords, lasting)
<1> DEFINE x == Hit(At(n), b, down)
           body == Jump(n, point) \o <<x>>
           s == Plainly(body)
<1>1. PICK m \in Nat : /\ ListOf(body, m + 1) /\ body[m + 1] = x
                       /\ \A k \in 1..m : body[k].call \in MouseWords /\ ~Presses(body[k])
  <2> HIDE DEF x
  <2> QED
    BY JumpStill, StillThen
<1>2. /\ x.call \in MouseWords
      /\ Presses(x) => <<x.at, x.code>> \in lasting
  BY MouseWordFacts DEF Hit, Presses
<1>3. \A k \in DOMAIN body : k \in Int /\ (k \in 1..m \/ k = m + 1)
  <2>1. DOMAIN body = 1..(m + 1)
    BY <1>1, ListLen
  <2> QED
    BY <2>1
<1>4. s.body = body /\ s.tidy = <<>> /\ s.undo = <<>> /\ s.final = <<>>
  BY DEF Plainly, Stroke
<1> HIDE DEF x, body, s
<1>5. Still(<<>>, Others(MouseWords))
  BY StillOnes
<1>6. GoodStroke(s, MouseWords)
  BY <1>1, <1>2, <1>3, <1>4, <1>5 DEF GoodStroke
<1>7. KeepsAlone(s, MouseWords, lasting)
  BY <1>1, <1>2, <1>3, <1>4, <1>6 DEF KeepsAlone
<1> QED
  BY <1>7 DEF s, body, x

LEMMA PointerKeeps ==
    ASSUME NEW n \in Nodes, n.type = "mouse", NEW origin
    PROVE  \E m : /\ ListOf(PointerStrokes(n, origin), m)
                  /\ Keeps(PointerStrokes(n, origin), MouseWords, LeftDown(n))
<1> DEFINE point == ResolvePoint(origin, n.point, n.relative)
           b == ButtonOf(n)[1]
           all == PointerStrokes(n, origin)
<1>1. n.action \in {"move", "click", "right_click", "middle_click", "double_click",
                               "down", "up", "drag"}
      /\ ClicksOf(n) \in Nat
  BY NodeFields DEF ClicksOf
<1>2. CASE ButtonOf(n) = <<>>
  <2>1. all = <<>>
    BY <1>2 DEF PointerStrokes
  <2>2. ListOf(<<>>, 0) /\ DOMAIN <<>> = {}
    BY DEF ListOf
  <2>3. Keeps(<<>>, MouseWords, LeftDown(n))
    BY <2>2 DEF Keeps
  <2> QED
    BY <2>1, <2>2, <2>3
<1>3. CASE ButtonOf(n) # <<>> /\ n.action = "drag"
  <2>1. all = Drag(n, b, origin)
    BY <1>3 DEF PointerStrokes
  <2> QED
    BY <2>1, DragKeeps
<1>4. CASE ButtonOf(n) # <<>> /\ n.action \in {"down", "up"}
  <2> DEFINE down == (n.action = "down")
             s == Plainly(Jump(n, point) \o <<Hit(At(n), b, down)>>)
  <2>1. all = <<s>>
    BY <1>4 DEF PointerStrokes
  <2>2. down => <<At(n), b>> \in LeftDown(n)
    BY DEF LeftDown
  <2> HIDE DEF down
  <2>3. KeepsAlone(s, MouseWords, LeftDown(n))
    BY <2>2, JumpHit
  <2> HIDE DEF s
  <2> QED
    BY <2>1, <2>3, OneStroke
<1>5. CASE ButtonOf(n) # <<>> /\ n.action \notin {"drag", "down", "up"}
  <2>1. all = <<Plainly(Jump(n, point))>> \o Clicks(n, b)
    BY <1>5 DEF PointerStrokes
  <2>2. PICK m : ListOf(Clicks(n, b), m) /\ Keeps(Clicks(n, b), MouseWords, LeftDown(n))
    BY <1>1, ClicksKeep
  <2>3. Still(Jump(n, point), MouseWords)
    BY JumpStill
  <2> HIDE DEF point, b
  <2>4. /\ GoodStroke(Plainly(Jump(n, point)), MouseWords)
        /\ Still(Plainly(Jump(n, point)).body, MouseWords)
    BY <2>3, PlainStroke
  <2> QED
    BY <2>1, <2>2, <2>4, StrokeAhead
<1> QED
  BY <1>2, <1>3, <1>4, <1>5

LEMMA MouseKeeps ==
    ASSUME NEW n \in Nodes, n.type = "mouse", NEW origin
    PROVE  Keeps(MouseStrokes(n, origin), MouseWords, LeftDown(n))
<1> DEFINE rest == PointerStrokes(n, origin)
           x == [call |-> "put cursor"]
           s == Stroke(<<>>, <<>>, <<>>, <<x>>)
<1>1. PICK m : ListOf(rest, m) /\ Keeps(rest, MouseWords, LeftDown(n))
  BY PointerKeeps
<1> HIDE DEF rest
<1>2. CASE n.background
  <2>1. x.call \in Others(MouseWords) /\ ~Presses(x)
    BY DEF MouseWords, Others, Presses
  <2>2. s.body = <<>> /\ s.tidy = <<>> /\ s.undo = <<>> /\ s.final = <<x>>
    BY DEF Stroke
  <2>3. MouseStrokes(n, origin) = <<s>> \o rest
    BY <1>2 DEF MouseStrokes, rest
  <2> HIDE DEF x, s
  <2>4. Still(<<x>>, Others(MouseWords)) /\ \A words : Still(<<>>, words)
    BY <2>1, StillOnes
  <2>5. GoodStroke(s, MouseWords) /\ Still(s.body, MouseWords)
    BY <2>2, <2>4, StillItem DEF GoodStroke
  <2>6. Keeps(<<s>> \o rest, MouseWords, LeftDown(n))
    BY <1>1, <2>5, StrokeAhead
  <2> QED
    BY <2>3, <2>6
<1>3. CASE ~n.background
  <2>1. MouseStrokes(n, origin) = <<>> \o rest
    BY <1>3 DEF MouseStrokes, rest
  <2>2. rest \in Seq({rest[i] : i \in 1..m})
    BY <1>1, ListIsSeq
  <2>3. <<>> \o rest = rest
    BY <2>2, ConcatEmptySeq
  <2> QED
    BY <1>1, <2>1, <2>3
<1> QED
  BY <1>2, <1>3

\* The other nodes: one stroke that presses nothing.
LEMMA SingleKeeps ==
    ASSUME NEW n, NEW body, NEW words, Still(body, words), Strokes(n) = <<Plainly(body)>>
    PROVE  Keeps(Strokes(n), words, LeftDown(n))
<1>1. KeepsAlone(Plainly(body), words, LeftDown(n))
  BY PlainStroke, StillAlone
<1> QED
  BY <1>1, OneStroke

LEMMA PlainNodeKeeps ==
    ASSUME NEW n \in Nodes, n.type \in {"focus", "wait", "command"}
    PROVE  Keeps(Strokes(n), PlainWords, LeftDown(n))
<1>1. {"check", "find", "focus", "watch", "command"} \subseteq PlainWords
  BY DEF PlainWords
<1>2. CASE n.type = "focus"
  <2> DEFINE x == [call |-> "find", at |-> n.window]
             y == [call |-> "focus", at |-> n.window]
  <2>1. x.call \in PlainWords /\ ~Presses(x) /\ y.call \in PlainWords /\ ~Presses(y)
    BY <1>1 DEF Presses
  <2>2. Strokes(n) = <<Plainly(<<x, y>>)>>
    BY <1>2 DEF Strokes
  <2> HIDE DEF x, y
  <2>3. ListOf(<<x, y>>, 2) /\ \A k \in 1..2 : <<x, y>>[k] = x \/ <<x, y>>[k] = y
    BY DEF ListOf
  <2>4. Still(<<x, y>>, PlainWords)
    BY <2>1, <2>3 DEF Still
  <2> QED
    BY <2>2, <2>4, SingleKeeps
<1>3. CASE n.type = "wait"
  <2> DEFINE x == [call |-> "watch", at |-> n.window]
  <2>1. x.call \in PlainWords /\ ~Presses(x)
    BY <1>1 DEF Presses
  <2>2. Strokes(n) = <<Plainly(<<x>>)>>
    BY <1>3 DEF Strokes
  <2> HIDE DEF x
  <2>3. Still(<<x>>, PlainWords)
    BY <2>1, StillOnes
  <2> QED
    BY <2>2, <2>3, SingleKeeps
<1>4. CASE n.type = "command"
  <2> DEFINE x == [call |-> "command"]
  <2>1. x.call \in PlainWords /\ ~Presses(x)
    BY <1>1 DEF Presses
  <2>2. Strokes(n) = <<Plainly(Check \o <<x>>)>>
    BY <1>4 DEF Strokes
  <2> HIDE DEF x
  <2>3. Still(<<x>>, PlainWords) /\ Still(Check, PlainWords)
    BY <1>1, <2>1, StillOnes, PlainStills
  <2>4. Still(Check \o <<x>>, PlainWords)
    BY <2>3, StillJoined
  <2> QED
    BY <2>2, <2>4, SingleKeeps
<1> QED
  BY <1>2, <1>3, <1>4

LEMMA ClipboardKeeps ==
    ASSUME NEW n \in Nodes, n.type = "clipboard"
    PROVE  Keeps(Strokes(n), PasteWords, LeftDown(n))
<1> DEFINE r == [call |-> "read"]
           w == [call |-> "write", text |-> n.text]
           body == IF n.action = "read" THEN <<r>> ELSE <<w>>
<1>1. r.call \in PasteWords /\ ~Presses(r) /\ w.call \in PasteWords /\ ~Presses(w)
  BY DEF PasteWords, Presses
<1>2. Strokes(n) = <<Plainly(body)>>
  BY DEF Strokes, ClipboardStrokes
<1> HIDE DEF r, w
<1>3. Still(body, PasteWords)
  BY <1>1, StillOnes
<1> HIDE DEF body
<1> QED
  BY <1>2, <1>3, SingleKeeps

LEMMA AimKeeps ==
    ASSUME NEW n \in Nodes, n.type = "mouse"
    PROVE  Keeps(Strokes(n), AimWords, LeftDown(n))
<1> DEFINE x == [call |-> "aim"]
           body == (Check \o InputTarget(n)) \o <<x>>
<1>1. {"refuse", "find", "focus"} \subseteq AimWords /\ "check" \in AimWords
      /\ x.call \in AimWords /\ ~Presses(x)
  BY DEF AimWords, Presses
<1>2. Strokes(n) = <<Plainly(body)>>
  BY DEF Strokes
<1> HIDE DEF x
<1>3. Still(Check, AimWords) /\ Still(InputTarget(n), AimWords) /\ Still(<<x>>, AimWords)
  BY <1>1, PlainStills, TargetStill, StillOnes
<1>4. Still(Check \o InputTarget(n), AimWords)
  BY <1>3, StillJoined
<1>5. Still(body, AimWords)
  BY <1>3, <1>4, StillJoined
<1> HIDE DEF body
<1> QED
  BY <1>2, <1>5, SingleKeeps

\* What a node calls to begin with, and a mouse node once it has taken aim.
LEMMA NodeKeeps ==
    ASSUME NEW n \in Nodes
    PROVE  \E words \in Vocabularies(n) :
              Lists(Calls(Strokes(n)), words) /\ Promised(Calls(Strokes(n)), LeftDown(n))
<1>1. \E words \in Vocabularies(n) : Keeps(Strokes(n), words, LeftDown(n))
  <2>1. CASE n.type = "keyboard"
    BY <2>1, KeyboardKeeps DEF Vocabularies, Pastes
  <2>2. CASE n.type = "text"
    BY <2>2, TextKeeps DEF Vocabularies
  <2>3. CASE n.type = "mouse"
    BY <2>3, AimKeeps DEF Vocabularies
  <2>4. CASE n.type = "clipboard"
    BY <2>4, ClipboardKeeps DEF Vocabularies, Pastes
  <2>5. CASE n.type \in {"focus", "wait", "command"}
    BY <2>5, PlainNodeKeeps DEF Vocabularies, Pastes
  <2> QED
    BY <2>1, <2>2, <2>3, <2>4, <2>5, NodeFields
<1> QED
  BY <1>1, CallsKeep

LEMMA AimedKeeps ==
    ASSUME NEW n \in Nodes, n.type = "mouse", NEW origin
    PROVE  /\ Lists(Calls(MouseStrokes(n, origin)), MouseWords)
           /\ Promised(Calls(MouseStrokes(n, origin)), LeftDown(n))
BY MouseKeeps, CallsKeep

\* The calls of the strokes of a paste: nothing behind the read can fail without
\* the closing call that puts the text back.
LEMMA PasteLayout ==
    ASSUME NEW n \in Nodes, n.type = "text", n.method = "clipboard"
    PROVE  ReadPending(Calls(Strokes(n)))
<1> DEFINE read == [call |-> "read"]
           write == [call |-> "write", text |-> n.text]
           back == [call |-> "put back"]
           after == Check \o <<back>>
           codes == <<"ctrl", "v">>
           s1 == Plainly(InputTarget(n))
           s2 == Plainly(<<read>>)
           s3 == Plainly(<<write>>)
           s4 == BackgroundType(n.window, codes, after)
           all == Strokes(n)
<1>1. /\ DOMAIN all = 1..4 /\ all[1] = s1 /\ all[2] = s2 /\ all[3] = s3 /\ all[4] = s4
  <2>1. all = <<s1>> \o <<s2, s3, s4>>
    BY DEF Strokes, TextStrokes, PasteStrokes
  <2> HIDE DEF s1, s2, s3, s4, all
  <2>2. ListOf(<<s1>>, 1) /\ ListOf(<<s2, s3, s4>>, 3)
    BY DEF ListOf
  <2>3. Joins(all, <<s1>>, 1, <<s2, s3, s4>>, 3)
    BY <2>1, <2>2, Joined
  <2>4. <<s1>>[1] = s1 /\ <<s2, s3, s4>>[1] = s2 /\ <<s2, s3, s4>>[2] = s3 /\ <<s2, s3, s4>>[3] = s4
    OBVIOUS
  <2>5. /\ ListOf(all, 1 + 3)
        /\ \A k \in 1..1 : all[k] = <<s1>>[k]
        /\ \A k \in 1..3 : all[1 + k] = <<s2, s3, s4>>[k]
    BY <2>3 DEF Joins
  <2>6. ListOf(all, 4) /\ 1 + 1 = 2 /\ 1 + 2 = 3 /\ 1 + 3 = 4
    BY <2>5
  <2>7. all[1] = s1
    BY <2>4, <2>5
  <2>8. all[1 + 1] = s2 /\ all[1 + 2] = s3 /\ all[1 + 3] = s4
    <3>1. 1 \in 1..3 /\ 2 \in 1..3 /\ 3 \in 1..3
      OBVIOUS
    <3> QED
      BY <2>4, <2>5, <3>1
  <2>9. all[2] = s2 /\ all[3] = s3 /\ all[4] = s4
    BY <2>6, <2>8
  <2>10. DOMAIN all = 1..4
    BY <2>6, ListLen
  <2> QED
    BY <2>7, <2>9, <2>10
<1>2. /\ read.call = "read" /\ write.call = "write" /\ back.call = "put back"
      /\ ~Presses(read) /\ ~Presses(write) /\ ~Presses(back)
  BY DEF Presses
<1>c. codes \in Seq(KeyNames) /\ Reverse(codes) \in Seq(KeyNames) /\ n.window # Host
  <2>1. "ctrl" \in KeyNames /\ "v" \in KeyNames
    BY DEF KeyNames, Modifiers, Letters
  <2>2. codes \in Seq(KeyNames)
    BY <2>1
  <2> HIDE DEF codes
  <2> QED
    BY <2>2, ReverseFacts, NodeFields, DesktopAssumption
<1> HIDE DEF read, write, back, codes
<1>3. /\ s1.body = InputTarget(n) /\ s1.tidy = <<>> /\ s1.final = <<>>
      /\ s2.body = <<read>> /\ s2.tidy = <<>> /\ s2.final = <<>> /\ s2.undo = <<>>
      /\ s3.body = <<write>> /\ s3.tidy = <<>> /\ s3.final = <<>>
  BY DEF Plainly, Stroke
<1> DEFINE hits == Hits(n.window, codes, Struck) \o Check
           ups == Muted(Hits(n.window, Reverse(codes), LetGo))
<1>4. s4.body = hits /\ s4.tidy = ups /\ s4.final = after
  BY DEF BackgroundType, Stroke
<1> HIDE DEF s1, s2, s3, s4, all
<1> DEFINE quiet == {"check", "refuse", "find", "focus", "input", "put back"}
<1>5. Still(hits, quiet) /\ Still(ups, quiet)
  <2>1. "input" \in quiet /\ "check" \in quiet
    OBVIOUS
  <2> HIDE DEF quiet
  <2>2. Still(Hits(n.window, codes, Struck), quiet) /\ Still(ups, quiet)
    BY <1>c, <2>1, HitsStill
  <2>3. Still(Check, quiet)
    BY <2>1, PlainStills
  <2> QED
    BY <2>2, <2>3, StillJoined
<1>6. Still(after, quiet) /\ \E k \in DOMAIN after : after[k] = back
  <2>1. "check" \in quiet /\ back.call \in quiet
    BY <1>2
  <2> HIDE DEF quiet
  <2>2. Still(Check, quiet) /\ Still(<<back>>, quiet)
    BY <1>2, <2>1, PlainStills, StillOnes
  <2>3. PICK m \in Nat : /\ ListOf(after, m + 1) /\ after[m + 1] = back
                         /\ \A k \in 1..m : after[k].call \in quiet /\ ~Presses(after[k])
    BY <2>2, StillThen
  <2>4. Still(after, quiet)
    BY <2>2, StillJoined
  <2>5. DOMAIN after = 1..(m + 1)
    BY <2>3, ListLen
  <2> HIDE DEF after
  <2>6. m + 1 \in 1..(m + 1)
    OBVIOUS
  <2> QED
    BY <2>3, <2>4, <2>5, <2>6
<1>7. Still(InputTarget(n), quiet)
  <2>1. {"refuse", "find", "focus"} \subseteq quiet
    OBVIOUS
  <2> HIDE DEF quiet
  <2> QED
    BY <2>1, TargetStill
<1> HIDE DEF hits, ups, after, quiet
\* Where each call of the node is.
<1>8. ASSUME NEW c \in Calls(all)
      PROVE  \/ c.stroke \in {1, 4} /\ c.do.call \in quiet /\ (c.stroke = 1 => c.role = "body")
             \/ c = [do |-> read, role |-> "body", stroke |-> 2, nr |-> 1, undo |-> Marked(<<>>, "undo", 2, {})]
             \/ c.stroke = 3 /\ c.do.call = "write"
  <2>1. PICK i \in DOMAIN all :
              \/ /\ c.role = "body" /\ c.nr \in DOMAIN all[i].body
                 /\ c = [do |-> all[i].body[c.nr], role |-> "body", stroke |-> i, nr |-> c.nr,
                         undo |-> Marked(all[i].undo, "undo", i, {})]
              \/ /\ c.role = "tidy" /\ c.nr \in DOMAIN all[i].tidy
                 /\ c = [do |-> all[i].tidy[c.nr], role |-> "tidy", stroke |-> i, nr |-> c.nr,
                         undo |-> {}]
              \/ /\ c.role = "final" /\ c.nr \in DOMAIN all[i].final
                 /\ c = [do |-> all[i].final[c.nr], role |-> "final", stroke |-> i, nr |-> c.nr,
                         undo |-> {}]
    BY CallsCases
  <2>2. /\ c.stroke = i
        /\ \/ c.role = "body" /\ c.nr \in DOMAIN all[i].body /\ c.do = all[i].body[c.nr]
              /\ c.undo = Marked(all[i].undo, "undo", i, {})
           \/ c.role = "tidy" /\ c.nr \in DOMAIN all[i].tidy /\ c.do = all[i].tidy[c.nr]
           \/ c.role = "final" /\ c.nr \in DOMAIN all[i].final /\ c.do = all[i].final[c.nr]
    BY <2>1
  <2>3. i = 1 \/ i = 2 \/ i = 3 \/ i = 4
    BY <1>1
  <2>e. DOMAIN <<>> = {} /\ DOMAIN <<read>> = {1} /\ <<read>>[1] = read
        /\ DOMAIN <<write>> = {1} /\ <<write>>[1] = write
    OBVIOUS
  <2>4. CASE i = 1
    BY <1>1, <1>3, <1>7, <2>2, <2>4, <2>e, StillItem
  <2>5. CASE i = 2
    <3>1. c.role = "body" /\ c.nr = 1 /\ all[i].body[c.nr] = read
      BY <1>1, <1>3, <2>2, <2>5, <2>e
    <3>2. all[i].undo = <<>>
      BY <1>1, <1>3, <2>5
    <3> QED
      BY <2>1, <2>5, <3>1, <3>2
  <2>6. CASE i = 3
    BY <1>1, <1>2, <1>3, <2>2, <2>6, <2>e
  <2>7. CASE i = 4
    BY <1>1, <1>4, <1>5, <1>6, <2>2, <2>7, StillItem
  <2> QED
    BY <2>3, <2>4, <2>5, <2>6, <2>7
<1>9. \E p \in Calls(all) : PutsBack(p) /\ p.stroke = 4
  <2>1. PICK k \in DOMAIN after : after[k] = back
    BY <1>6
  <2> DEFINE p == [do |-> after[k], role |-> "final", stroke |-> 4, nr |-> k, undo |-> {}]
  <2>2. p \in Marked(all[4].final, "final", 4, {})
    BY <1>1, <1>4 DEF Marked
  <2>3. PutsBack(p) /\ p.stroke = 4
    BY <1>2, <2>1 DEF PutsBack, Closes
  <2> HIDE DEF p
  <2>4. p \in Calls(all)
    <3>1. 4 \in DOMAIN all
      BY <1>1
    <3> QED
      BY <2>2, <3>1 DEF Calls
  <2> QED
    BY <2>3, <2>4
<1>10. "read" \notin quiet
  BY DEF quiet
<1>11. ReadPending(Calls(all))
  <2> SUFFICES ASSUME NEW r \in Calls(all), r.do.call = "read"
               PROVE  \E p \in Calls(all) :
                         /\ PutsBack(p)
                         /\ \A e \in Calls(all) \ {r} :
                               /\ e.do.call # "read"
                               /\ \/ e.do.call = "write" \/ e.stroke >= p.stroke
                                  \/ ~Closes(e) /\ e.stroke < r.stroke
    BY DEF ReadPending
  <2> DEFINE it == [do |-> read, role |-> "body", stroke |-> 2, nr |-> 1,
                    undo |-> Marked(<<>>, "undo", 2, {})]
  <2>1. r = it /\ it.stroke = 2
    BY <1>2, <1>8, <1>10
  <2>2. PICK p \in Calls(all) : PutsBack(p) /\ p.stroke = 4
    BY <1>9
  <2>3. ASSUME NEW e \in Calls(all) \ {r}
        PROVE  /\ e.do.call # "read"
               /\ \/ e.do.call = "write" \/ e.stroke >= p.stroke
                  \/ ~Closes(e) /\ e.stroke < r.stroke
    <3>1. \/ e.stroke \in {1, 4} /\ e.do.call \in quiet /\ (e.stroke = 1 => e.role = "body")
          \/ e = it
          \/ e.stroke = 3 /\ e.do.call = "write"
      BY <1>8
    <3>2. e # it /\ r.stroke = 2
      BY <2>1
    <3> HIDE DEF it
    <3> QED
      BY <1>10, <2>2, <3>1, <3>2 DEF Closes
  <2> QED
    BY <2>2, <2>3
<1> QED
  BY <1>11 DEF all

-----------------------------------------------------------------------------
(***************************************************************************)
(* Steps.                                                                  *)
(***************************************************************************)

LEMMA BusyNode ==
    ASSUME WorkInv, NEW t \in Threads, turn[t] <= Len(plan[t])
    PROVE  Node(t) \in Nodes /\ turn[t] \in DOMAIN plan[t]
<1>1. plan \in [Threads -> Seq(Nodes)] /\ turn \in [Threads -> Nat \ {0}]
  BY DesktopAssumption DEF WorkInv
<1>2. plan[t] \in Seq(Nodes) /\ turn[t] \in Nat \ {0}
  BY <1>1
<1> QED
  BY <1>2 DEF Node

\* The new execution of a thread, the others' being what they were.
Becomes(t, d) ==
    /\ DOMAIN doing' = Threads /\ doing'[t] = d
    /\ \A u \in Threads \ {t} : doing'[u] = doing[u]

GoodWork(t, d, lasting) ==
    /\ DOMAIN d = Fields /\ d.busy
    /\ turn[t] <= Len(plan[t]) /\ LeftDown(Node(t)) \subseteq lasting
    /\ \E words \in Vocabularies(Node(t)) : Lists(d.todo, words)
    /\ Promised(d.todo, lasting)

LEMMA WorkStep ==
    ASSUME WorkInv, NEW t \in Threads, NEW d, Becomes(t, d), GoodWork(t, d, meant'),
           UNCHANGED <<plan, turn, open>>, meant \subseteq meant', lost' \in Nat
    PROVE  WorkInv'
<1>1. ASSUME NEW u \in Threads
      PROVE  /\ DOMAIN doing'[u] = Fields
             /\ IF doing'[u].busy
                THEN /\ turn[u] <= Len(plan[u]) /\ LeftDown(Node(u)) \subseteq meant'
                     /\ \E words \in Vocabularies(Node(u)) : Lists(doing'[u].todo, words)
                     /\ Promised(doing'[u].todo, meant')
                ELSE doing'[u] = Idle
  <2>1. CASE u = t
    BY <2>1 DEF Becomes, GoodWork
  <2>2. CASE u # t
    <3>1. doing'[u] = doing[u]
      BY <2>2 DEF Becomes
    <3>2. \A todo : Promised(todo, meant) => Promised(todo, meant')
      BY DEF Promised
    <3> QED
      BY <3>1, <3>2 DEF WorkInv
  <2> QED
    BY <2>1, <2>2
<1>2. \A u : Node(u)' = Node(u)
  BY DEF Node
<1>3. DOMAIN doing' = Threads
  BY DEF Becomes
<1> QED
  BY <1>1, <1>2, <1>3 DEF WorkInv

\* A call that is over leaves those behind it, or what its failure leaves.
Leaves(t, c, d) ==
    /\ Becomes(t, d) /\ DOMAIN d = Fields /\ d.busy = doing[t].busy
    /\ d.todo \in {Rest(t, c), Remaining(Rest(t, c), c)}

LEMMA Succeeds ==
    ASSUME WorkInv, NEW t \in Threads, NEW c, Succeed(t, c)
    PROVE  \E d : Leaves(t, c, d) /\ d.saved = doing[t].saved /\ d.todo = Rest(t, c)
<1> DEFINE d == [doing[t] EXCEPT !.todo = Rest(t, c)]
<1>1. DOMAIN doing = Threads /\ DOMAIN doing[t] = Fields
  BY DEF WorkInv
<1>2. Becomes(t, d)
  BY <1>1 DEF Becomes, Succeed
<1>3. DOMAIN d = Fields /\ d.busy = doing[t].busy /\ d.saved = doing[t].saved /\ d.todo = Rest(t, c)
  BY <1>1 DEF Fields
<1> HIDE DEF d
<1> QED
  BY <1>2, <1>3 DEF Leaves

LEMMA Fails ==
    ASSUME WorkInv, NEW t \in Threads, NEW c, NEW why, Fail(t, c, why)
    PROVE  \E d : Leaves(t, c, d) /\ d.saved = doing[t].saved
<1> DEFINE d == IF IsMute(c) THEN [doing[t] EXCEPT !.todo = Rest(t, c)]
                ELSE [doing[t] EXCEPT !.todo = Remaining(Rest(t, c), c), !.failed = First(t, why)]
<1>1. DOMAIN doing = Threads /\ DOMAIN doing[t] = Fields
  BY DEF WorkInv
<1>2. Becomes(t, d)
  <2>1. CASE IsMute(c)
    <3>1. doing' = [doing EXCEPT ![t] = [@ EXCEPT !.todo = Rest(t, c)]]
      BY <2>1 DEF Fail
    <3> QED
      BY <1>1, <2>1, <3>1 DEF Becomes
  <2>2. CASE ~IsMute(c)
    <3>1. doing' = [doing EXCEPT ![t] = [@ EXCEPT !.todo = Remaining(Rest(t, c), c),
                                                  !.failed = First(t, why)]]
      BY <2>2 DEF Fail
    <3> QED
      BY <1>1, <2>2, <3>1 DEF Becomes
  <2> QED
    BY <2>1, <2>2
<1>3. /\ DOMAIN d = Fields /\ d.busy = doing[t].busy /\ d.saved = doing[t].saved
      /\ d.todo \in {Rest(t, c), Remaining(Rest(t, c), c)}
  BY <1>1 DEF Fields
<1> HIDE DEF d
<1> QED
  BY <1>2, <1>3 DEF Leaves

\* What a call that is over means for what is left.
LEMMA LeavesGood ==
    ASSUME WorkInv, NEW t \in Threads, doing[t].busy, NEW c \in Due(t), NEW d, Leaves(t, c, d)
    PROVE  /\ GoodWork(t, d, meant)
           /\ \A e \in Rest(t, c) : Sure(doing[t].todo, e) => e \in d.todo /\ Sure(d.todo, e)
           /\ d.todo = Rest(t, c) /\ Presses(c.do) /\ <<c.do.at, c.do.code>> \notin meant
                 => \E e \in d.todo : Releases(e.do, <<c.do.at, c.do.code>>) /\ Sure(d.todo, e)
<1>1. PICK words \in Vocabularies(Node(t)) : Lists(doing[t].todo, words)
  BY DEF WorkInv
<1>2. /\ turn[t] <= Len(plan[t]) /\ LeftDown(Node(t)) \subseteq meant
      /\ Promised(doing[t].todo, meant)
  BY DEF WorkInv
<1>3. c \in doing[t].todo /\ \A e \in doing[t].todo \ {c} : Before(c, e)
  BY DEF Due
<1> DEFINE todo == doing[t].todo
           left == d.todo
<1>4. left = todo \ {c} \/ left = Remaining(todo \ {c}, c)
  BY DEF Leaves, Rest
<1>t. /\ Lists(todo, words) /\ Promised(todo, meant)
      /\ c \in todo /\ \A e \in todo \ {c} : Before(c, e)
  BY <1>1, <1>2, <1>3
<1> HIDE DEF todo, left
<1>5. /\ Lists(left, words) /\ Promised(left, meant)
      /\ \A e \in todo \ {c} : Sure(todo, e) => e \in left /\ Sure(left, e)
      /\ left = todo \ {c} /\ Presses(c.do) /\ <<c.do.at, c.do.code>> \notin meant
           => \E e \in left : Releases(e.do, <<c.do.at, c.do.code>>) /\ Sure(left, e)
  BY <1>t, <1>4, Leftover
<1>6. GoodWork(t, d, meant)
  BY <1>1, <1>2, <1>5 DEF GoodWork, Leaves, left
<1> QED
  BY <1>5, <1>6 DEF left, todo, Rest

-----------------------------------------------------------------------------
\* A call that is no input leaves what is down, and its releases, alone.
LEMMA HoldStep ==
    ASSUME WorkInv, HoldInv, NEW t \in Threads, doing[t].busy, NEW c \in Due(t),
           NEW d, Leaves(t, c, d), UNCHANGED <<meant, open>>, lost \in Nat, lost' \in Nat, lost' >= lost,
           \A h \in held' : \/ h \in held /\ ~Releases(c.do, h)
                            \/ /\ h[1] \in {Host} \cup open
                               /\ \/ Passes(h)'
                                  \/ h \in meant
                                  \/ d.todo = Rest(t, c) /\ Presses(c.do) /\ h = <<c.do.at, c.do.code>>
    PROVE  HoldInv'
<1> SUFFICES ASSUME NEW h \in held'
             PROVE  /\ h[1] \in {Host} \cup open
                    /\ \/ Passes(h)'
                       \/ h \in meant
                       \/ \E u \in Threads : \E e \in doing'[u].todo :
                             Releases(e.do, h) /\ Sure(doing'[u].todo, e)
  BY DEF HoldInv
<1>1. doing'[t] = d /\ \A u \in Threads \ {t} : doing'[u] = doing[u]
  BY DEF Leaves, Becomes
<1>2. CASE h \in held /\ ~Releases(c.do, h)
  <2>1. /\ h[1] \in {Host} \cup open
        /\ \/ Passes(h)
           \/ h \in meant
           \/ \E u \in Threads : \E e \in doing[u].todo :
                 Releases(e.do, h) /\ Sure(doing[u].todo, e)
    BY <1>2 DEF HoldInv
  <2>2. Passes(h) => Passes(h)'
    BY DEF Passes
  <2>3. ASSUME NEW u \in Threads, NEW e \in doing[u].todo,
               Releases(e.do, h), Sure(doing[u].todo, e)
        PROVE  e \in doing'[u].todo /\ Sure(doing'[u].todo, e)
    <3>1. CASE u # t
      BY <1>1, <2>3, <3>1
    <3>2. CASE u = t
      <4>1. e # c
        BY <1>2, <2>3
      <4>2. e \in Rest(t, c)
        BY <2>3, <3>2, <4>1 DEF Rest
      <4>3. e \in d.todo /\ Sure(d.todo, e)
        BY <2>3, <3>2, <4>2, LeavesGood
      <4> QED
        BY <1>1, <3>2, <4>3
    <3> QED
      BY <3>1, <3>2
  <2> QED
    BY <2>1, <2>2, <2>3
<1>3. CASE /\ h[1] \in {Host} \cup open
           /\ \/ Passes(h)'
              \/ h \in meant
              \/ d.todo = Rest(t, c) /\ Presses(c.do) /\ h = <<c.do.at, c.do.code>>
  <2>1. CASE d.todo = Rest(t, c) /\ Presses(c.do) /\ h = <<c.do.at, c.do.code>> /\ h \notin meant
    <3>1. \E e \in d.todo : Releases(e.do, h) /\ Sure(d.todo, e)
      BY <2>1, LeavesGood
    <3> QED
      BY <1>1, <1>3, <3>1
  <2> QED
    BY <1>3, <2>1
<1> QED
  BY <1>2, <1>3

-----------------------------------------------------------------------------
(***************************************************************************)
(* The clipboard of a paste.                                               *)
(***************************************************************************)

\* Two calls of an execution, one of which is due.
LEMMA DueFacts ==
    ASSUME WorkInv, NEW t \in Threads, doing[t].busy, NEW c \in Due(t)
    PROVE  /\ c \in doing[t].todo
           /\ \A e \in Rest(t, c) : /\ (Closes(c) => Closes(e))
                                    /\ Closes(c) = Closes(e) => c.stroke <= e.stroke
           /\ \A e \in doing[t].todo : /\ e.do.call \in {"read", "write"} => e.role = "body"
                                       /\ e.stroke \in Int
           /\ \A u \in c.undo : /\ u.do.call \notin {"read", "write"} /\ u.stroke = c.stroke
                                /\ ~Closes(u)
<1>1. PICK words : Lists(doing[t].todo, words)
  BY DEF WorkInv
<1>2. c \in doing[t].todo /\ \A e \in Rest(t, c) : Before(c, e) /\ e \in doing[t].todo
  BY DEF Due, Rest
<1>3. \A e \in doing[t].todo : Listed(e, words)
  BY <1>1 DEF Lists
<1>4. \A e \in Rest(t, c) : /\ (Closes(c) => Closes(e))
                            /\ Closes(c) = Closes(e) => c.stroke <= e.stroke
  BY <1>2, <1>3, BeforeFacts
<1>5. \A u \in c.undo : Listed(u, words) /\ u.role = "undo" /\ u.stroke = c.stroke
  BY <1>1, <1>2 DEF Lists
<1>6. \A u \in c.undo : u.do.call \notin {"read", "write"} /\ u.stroke = c.stroke /\ ~Closes(u)
  BY <1>5 DEF Listed, Closes
<1> QED
  BY <1>2, <1>3, <1>4, <1>6 DEF Listed

\* A call that leaves the clipboard alone.
LEMMA PasteQuiet ==
    ASSUME WorkInv, NEW t \in Threads, doing[t].busy, NEW c \in Due(t),
           NEW d, Leaves(t, c, d), d.saved = doing[t].saved,
           c.do.call \notin {"read", "write", "put back"},
           Pasting(doing[t], clipboard)
    PROVE  Pasting(d, clipboard)
<1> DEFINE todo == doing[t].todo
<1>1. /\ c \in todo
      /\ \A e \in todo \ {c} : /\ (Closes(c) => Closes(e))
                               /\ Closes(c) = Closes(e) => c.stroke <= e.stroke
      /\ \A e \in todo : /\ e.do.call \in {"read", "write"} => e.role = "body"
                         /\ e.stroke \in Int
      /\ \A u \in c.undo : /\ u.do.call \notin {"read", "write"} /\ u.stroke = c.stroke
                           /\ ~Closes(u)
  BY DueFacts DEF Rest
<1>2. d.todo = todo \ {c} \/ d.todo = Remaining(todo \ {c}, c)
  BY DEF Leaves, Rest
<1>3. \A e \in d.todo : \/ e \in todo \ {c}
                        \/ e \in c.undo /\ d.todo = Remaining(todo \ {c}, c)
  BY <1>2 DEF Remaining, Tidying, Closing
<1>4. CASE doing[t].saved = <<>>
  <2>1. ReadPending(todo)
    BY <1>4 DEF Pasting
  <2>2. CASE d.todo = Remaining(todo \ {c}, c)
    <3>1. \A e \in d.todo : e.do.call # "read"
      BY <1>1, <2>2 DEF Remaining, Tidying, Closing
    <3> QED
      BY <1>4, <3>1 DEF Pasting, ReadPending
  <2>3. CASE d.todo = todo \ {c}
    <3>1. ASSUME NEW r \in d.todo, r.do.call = "read"
          PROVE  \E p \in d.todo : /\ PutsBack(p)
                                   /\ \A e \in d.todo \ {r} :
                                         /\ e.do.call # "read"
                                         /\ \/ e.do.call = "write" \/ e.stroke >= p.stroke
                                            \/ ~Closes(e) /\ e.stroke < r.stroke
      <4>1. PICK p \in todo : /\ PutsBack(p)
                              /\ \A e \in todo \ {r} :
                                    /\ e.do.call # "read"
                                    /\ \/ e.do.call = "write" \/ e.stroke >= p.stroke
                                       \/ ~Closes(e) /\ e.stroke < r.stroke
        BY <2>1, <2>3, <3>1 DEF ReadPending
      <4>2. p # c
        BY <4>1 DEF PutsBack
      <4> QED
        BY <2>3, <4>1, <4>2
    <3> QED
      BY <1>4, <3>1 DEF Pasting, ReadPending
  <2> QED
    BY <1>2, <2>2, <2>3
<1>5. CASE doing[t].saved # <<>>
  <2>1. Never(todo, "read") /\ \/ BackPending(todo)
                               \/ clipboard = PutBack(doing[t].saved[1]) /\ Never(todo, "write")
    BY <1>5 DEF Pasting
  <2>2. Never(d.todo, "read")
    BY <1>1, <1>3, <2>1 DEF Never
  <2>3. CASE BackPending(todo)
    <3>1. PICK p \in todo : PutsBack(p) /\ \A e \in todo : e.do.call = "write" \/ e.stroke >= p.stroke
      BY <2>3 DEF BackPending
    <3>2. p # c /\ c.stroke >= p.stroke
      BY <1>1, <3>1 DEF PutsBack
    <3>3. p \in d.todo
      BY <1>1, <1>2, <3>1, <3>2 DEF Remaining, Closing, PutsBack, Closes
    <3>4. \A e \in d.todo : e.do.call = "write" \/ e.stroke >= p.stroke
      BY <1>1, <1>3, <3>1, <3>2
    <3>5. BackPending(d.todo)
      BY <3>1, <3>3, <3>4 DEF BackPending
    <3> QED
      BY <1>5, <2>2, <3>5 DEF Pasting
  <2>4. CASE clipboard = PutBack(doing[t].saved[1]) /\ Never(todo, "write")
    <3>1. Never(d.todo, "write")
      BY <1>1, <1>3, <2>4 DEF Never
    <3> QED
      BY <1>5, <2>2, <2>4, <3>1 DEF Pasting
  <2> QED
    BY <2>1, <2>3, <2>4
<1> QED
  BY <1>4, <1>5

\* The clipboard is read.
LEMMA PasteReads ==
    ASSUME WorkInv, NEW t \in Threads, doing[t].busy, NEW c \in Due(t), c.do.call = "read",
           NEW d, d.saved = <<clipboard>>, d.todo = Rest(t, c),
           Pasting(doing[t], clipboard)
    PROVE  Pasting(d, clipboard)
<1> DEFINE todo == doing[t].todo
<1>1. /\ c \in todo /\ d.todo = todo \ {c}
      /\ \A e \in todo \ {c} : Closes(c) = Closes(e) => c.stroke <= e.stroke
      /\ \A e \in todo : /\ e.do.call \in {"read", "write"} => e.role = "body"
                         /\ e.stroke \in Int
  BY DueFacts DEF Rest
<1>2. doing[t].saved = <<>>
  BY <1>1 DEF Pasting, Never
<1>3. PICK p \in todo : /\ PutsBack(p)
                        /\ \A e \in todo \ {c} :
                              /\ e.do.call # "read"
                              /\ \/ e.do.call = "write" \/ e.stroke >= p.stroke
                                 \/ ~Closes(e) /\ e.stroke < c.stroke
  BY <1>1, <1>2 DEF Pasting, ReadPending
<1>4. ~Closes(c) /\ p # c
  BY <1>1, <1>3 DEF PutsBack, Closes
<1>5. \A e \in todo \ {c} : e.do.call = "write" \/ e.stroke >= p.stroke
  <2> SUFFICES ASSUME NEW e \in todo \ {c}, ~Closes(e), e.stroke < c.stroke PROVE FALSE
    BY <1>3
  <2>1. Closes(c) = Closes(e)
    BY <1>4 DEF Closes
  <2> QED
    BY <1>1, <2>1
<1>6. BackPending(d.todo) /\ Never(d.todo, "read")
  BY <1>1, <1>3, <1>4, <1>5 DEF BackPending, Never
<1>7. d.saved # <<>>
  OBVIOUS
<1> QED
  BY <1>6, <1>7 DEF Pasting

\* The clipboard is written, or what was there is put back.
LEMMA PasteWrites ==
    ASSUME WorkInv, NEW t \in Threads, doing[t].busy, NEW c \in Due(t),
           c.do.call \in {"write", "put back"},
           NEW d, d.saved = doing[t].saved, d.todo = Rest(t, c), NEW text,
           c.do.call = "put back" => text = PutBack(doing[t].saved[1]),
           Pasting(doing[t], clipboard)
    PROVE  Pasting(d, text)
<1> DEFINE todo == doing[t].todo
<1>1. /\ c \in todo /\ d.todo = todo \ {c}
      /\ \A e \in todo \ {c} : (Closes(c) => Closes(e))
      /\ \A e \in todo : e.do.call \in {"read", "write"} => e.role = "body"
  BY DueFacts DEF Rest
<1>2. CASE doing[t].saved = <<>>
  <2>1. ASSUME NEW r \in d.todo, r.do.call = "read"
        PROVE  \E p \in d.todo : /\ PutsBack(p)
                                 /\ \A e \in d.todo \ {r} :
                                       /\ e.do.call # "read"
                                       /\ \/ e.do.call = "write" \/ e.stroke >= p.stroke
                                          \/ ~Closes(e) /\ e.stroke < r.stroke
    <3>1. PICK p \in todo : /\ PutsBack(p)
                            /\ \A e \in todo \ {r} :
                                  /\ e.do.call # "read"
                                  /\ \/ e.do.call = "write" \/ e.stroke >= p.stroke
                                     \/ ~Closes(e) /\ e.stroke < r.stroke
      BY <1>1, <1>2, <2>1 DEF Pasting, ReadPending
    <3>2. ~Closes(r)
      BY <1>1, <2>1 DEF Closes
    <3>3. p # c
      BY <1>1, <2>1, <3>1, <3>2 DEF PutsBack
    <3> QED
      BY <1>1, <3>1, <3>3
  <2> QED
    BY <1>2, <2>1 DEF Pasting, ReadPending
<1>3. CASE doing[t].saved # <<>>
  <2>1. Never(todo, "read") /\ \/ BackPending(todo)
                               \/ clipboard = PutBack(doing[t].saved[1]) /\ Never(todo, "write")
    BY <1>3 DEF Pasting
  <2>2. Never(d.todo, "read")
    BY <1>1, <2>1 DEF Never
  <2>3. CASE c.do.call = "write"
    <3>1. PICK p \in todo : PutsBack(p) /\ \A e \in todo : e.do.call = "write" \/ e.stroke >= p.stroke
      BY <1>1, <2>1, <2>3 DEF Never, BackPending
    <3>2. p # c
      BY <2>3, <3>1 DEF PutsBack
    <3>3. BackPending(d.todo)
      BY <1>1, <3>1, <3>2 DEF BackPending
    <3> QED
      BY <1>3, <2>2, <3>3 DEF Pasting
  <2>4. CASE c.do.call = "put back" /\ Closes(c)
    <3>1. Never(d.todo, "write")
      BY <1>1, <2>4 DEF Never, Closes
    <3> QED
      BY <1>3, <2>2, <2>4, <3>1 DEF Pasting
  <2>5. CASE c.do.call = "put back" /\ ~Closes(c)
    <3>1. CASE BackPending(todo)
      <4>1. PICK p \in todo : PutsBack(p) /\ \A e \in todo : e.do.call = "write" \/ e.stroke >= p.stroke
        BY <3>1 DEF BackPending
      <4>2. p # c
        BY <2>5, <4>1 DEF PutsBack
      <4>3. BackPending(d.todo)
        BY <1>1, <4>1, <4>2 DEF BackPending
      <4> QED
        BY <1>3, <2>2, <4>3 DEF Pasting
    <3>2. CASE Never(todo, "write")
      <4>1. Never(d.todo, "write")
        BY <1>1, <3>2 DEF Never
      <4> QED
        BY <1>3, <2>2, <2>5, <4>1 DEF Pasting
    <3> QED
      BY <2>1, <3>1, <3>2
  <2> QED
    BY <2>3, <2>4, <2>5
<1> QED
  BY <1>2, <1>3

\* Only a node that uses the clipboard writes it.
LEMMA WritersUse ==
    ASSUME WorkInv, NEW t \in Threads, doing[t].busy, NEW c \in doing[t].todo,
           c.do.call \in {"write", "put back"}
    PROVE  UsesClipboard(t)
<1>1. PICK words \in Vocabularies(Node(t)) : Lists(doing[t].todo, words)
  BY DEF WorkInv
<1>2. c.do.call \in words
  BY <1>1 DEF Lists, Listed
<1>3. Pastes(Node(t))
  BY <1>1, <1>2 DEF Vocabularies, AimWords, MouseWords, PlainWords
<1>4. turn[t] \in DOMAIN plan[t]
  BY BusyNode DEF WorkInv
<1> QED
  BY <1>3, <1>4 DEF Pastes, UsesClipboard, Node

\* One execution changes, and the clipboard only if that one uses it.
LEMMA PasteStep ==
    ASSUME PasteInv, NEW t \in Threads, NEW d, Becomes(t, d), UNCHANGED plan,
           \A u \in Threads \ {t} : turn'[u] = turn[u],
           lost \in Nat, lost' \in Nat, lost' >= lost,
           clipboard' = clipboard \/ UsesClipboard(t) \/ lost' > 0,
           d.busy /\ Node(t)'.type = "text" /\ Undisturbed(t)' => Pasting(d, clipboard')
    PROVE  PasteInv'
<1> SUFFICES ASSUME NEW u \in Threads,
                    doing'[u].busy, Node(u)'.type = "text", Undisturbed(u)'
             PROVE  Pasting(doing'[u], clipboard')
  BY DEF PasteInv
<1>1. CASE u = t
  BY <1>1 DEF Becomes
<1>2. CASE u # t
  <2>1. doing'[u] = doing[u] /\ Node(u)' = Node(u)
    BY <1>2 DEF Becomes, Node
  <2>2. lost = 0 /\ lost' = 0 /\ \A v \in Threads \ {u} : ~UsesClipboard(v)
    BY DEF Undisturbed, UsesClipboard
  <2>3. Pasting(doing[u], clipboard)
    BY <2>1, <2>2 DEF PasteInv, Undisturbed
  <2>4. clipboard' = clipboard
    BY <1>2, <2>2
  <2> QED
    BY <2>1, <2>3, <2>4
<1> QED
  BY <1>1, <1>2

-----------------------------------------------------------------------------
LEMMA DueBusy ==
    ASSUME DeskInv, NEW t \in Threads, NEW c \in Due(t)
    PROVE  /\ WorkInv /\ lost \in Nat /\ doing[t].busy /\ c \in doing[t].todo
           /\ DOMAIN doing = Threads /\ DOMAIN doing[t] = Fields
<1>1. c \in doing[t].todo /\ WorkInv
  BY DEF Due, DeskInv
<1>2. doing[t].busy
  BY <1>1 DEF WorkInv, Idle
<1>3. lost \in Nat /\ DOMAIN doing = Threads /\ DOMAIN doing[t] = Fields
  BY <1>1 DEF WorkInv
<1> QED
  BY <1>1, <1>2, <1>3

\* A call that is over: what each kind of call has to show.
LEMMA CallOver ==
    ASSUME DeskInv, NEW t \in Threads, NEW c \in Due(t), NEW d, Leaves(t, c, d),
           UNCHANGED <<plan, turn, meant, open>>, lost' \in Nat, lost' >= lost,
           \A h \in held' : \/ h \in held /\ ~Releases(c.do, h)
                            \/ /\ h[1] \in {Host} \cup open
                               /\ \/ Passes(h)'
                                  \/ h \in meant
                                  \/ d.todo = Rest(t, c) /\ Presses(c.do) /\ h = <<c.do.at, c.do.code>>,
           \/ lost' > 0
           \/ clipboard' = clipboard /\ (Pasting(doing[t], clipboard) => Pasting(d, clipboard))
           \/ UsesClipboard(t) /\ (Pasting(doing[t], clipboard) => Pasting(d, clipboard'))
    PROVE  DeskInv'
<1>1. WorkInv /\ HoldInv /\ PasteInv /\ lost \in Nat /\ doing[t].busy
  BY DueBusy DEF DeskInv
<1>2. Becomes(t, d) /\ GoodWork(t, d, meant)
  BY <1>1, LeavesGood DEF Leaves
<1>3. WorkInv'
  BY <1>1, <1>2, WorkStep
<1>4. HoldInv'
  BY <1>1, HoldStep
<1>5. PasteInv'
  <2>1. Node(t)' = Node(t)
    BY DEF Node
  <2>2. clipboard' = clipboard \/ UsesClipboard(t) \/ lost' > 0
    OBVIOUS
  <2>3. ASSUME Node(t)'.type = "text", Undisturbed(t)' PROVE Pasting(d, clipboard')
    <3>1. lost = 0 /\ lost' = 0 /\ Undisturbed(t)
      BY <1>1, <2>3 DEF Undisturbed, UsesClipboard
    <3>2. Pasting(doing[t], clipboard)
      BY <1>1, <2>1, <2>3, <3>1 DEF PasteInv
    <3> QED
      BY <3>1, <3>2
  <2> QED
    BY <1>1, <1>2, <2>2, <2>3, PasteStep
<1> QED
  BY <1>3, <1>4, <1>5 DEF DeskInv

LEMMA LostGrows ==
    ASSUME lost \in Nat, UNCHANGED lost \/ Lose
    PROVE  lost' \in Nat /\ lost' >= lost
BY DEF Lose

\* Most calls touch neither keys nor clipboard.
LEMMA QuietCall ==
    ASSUME DeskInv, NEW t \in Threads, NEW c \in Due(t), NEW d, Leaves(t, c, d),
           d.saved = doing[t].saved,
           UNCHANGED <<plan, turn, held, meant, open, clipboard>>, UNCHANGED lost \/ Lose,
           c.do.call \notin {"input", "read", "write", "put back"}
    PROVE  DeskInv'
<1>1. lost \in Nat /\ WorkInv /\ doing[t].busy
  BY DueBusy
<1>2. lost' \in Nat /\ lost' >= lost
  BY <1>1, LostGrows
<1>3. \A h \in held' : h \in held /\ ~Releases(c.do, h)
  BY DEF Releases
<1>4. Pasting(doing[t], clipboard) => Pasting(d, clipboard)
  BY <1>1, PasteQuiet
<1> QED
  BY <1>2, <1>3, <1>4, CallOver

LEMMA InputCall ==
    ASSUME DeskInv, NEW t \in Threads, NEW c \in Due(t), DoInput(t, c)
    PROVE  DeskInv'
<1>1. WorkInv /\ lost \in Nat /\ doing[t].busy /\ c.do.call = "input"
      /\ UNCHANGED <<plan, turn, meant, clipboard, open>>
  BY DueBusy DEF DoInput
<1> DEFINE h0 == <<c.do.at, c.do.code>>
<1>2. CASE /\ c.do.at \in {Host} \cup open
           /\ held' = IF c.do.down THEN held \cup {h0} ELSE held \ {h0}
           /\ Succeed(t, c) /\ UNCHANGED lost
  <2>1. PICK d : Leaves(t, c, d) /\ d.saved = doing[t].saved /\ d.todo = Rest(t, c)
    BY <1>1, <1>2, Succeeds
  <2>2. Pasting(doing[t], clipboard) => Pasting(d, clipboard)
    BY <1>1, <2>1, PasteQuiet
  <2>3. ASSUME NEW h \in held'
        PROVE  \/ h \in held /\ ~Releases(c.do, h)
               \/ /\ h[1] \in {Host} \cup open
                  /\ \/ Passes(h)'
                     \/ h \in meant
                     \/ d.todo = Rest(t, c) /\ Presses(c.do) /\ h = <<c.do.at, c.do.code>>
    <3>1. CASE c.do.down /\ h = h0
      <4>1. h[1] = c.do.at /\ h[2] = c.do.code
        BY <3>1
      <4>2. Presses(c.do) \/ Passes(h)'
        BY <1>1, <3>1, <4>1 DEF Presses, Passes
      <4> QED
        BY <1>2, <2>1, <3>1, <4>1, <4>2
    <3>2. CASE c.do.down /\ h # h0
      BY <1>2, <2>3, <3>2 DEF Releases
    <3>3. CASE ~c.do.down
      BY <1>2, <2>3, <3>3 DEF Releases
    <3> QED
      BY <3>1, <3>2, <3>3
  <2>4. lost' \in Nat /\ lost' >= lost
    BY <1>1, <1>2
  <2> QED
    BY <1>1, <2>1, <2>2, <2>3, <2>4, CallOver
<1>3. CASE /\ c.do.at # Host
           /\ Fail(t, c, "execution")
           /\ IF c.do.at \in open THEN Lose ELSE UNCHANGED lost
           /\ UNCHANGED held
  <2>1. PICK d : Leaves(t, c, d) /\ d.saved = doing[t].saved
    BY <1>1, <1>3, Fails
  <2>2. Pasting(doing[t], clipboard) => Pasting(d, clipboard)
    BY <1>1, <2>1, PasteQuiet
  <2>3. lost' \in Nat /\ lost' >= lost /\ (c.do.at \in open => lost' > 0)
    BY <1>1, <1>3 DEF Lose
  <2>4. ASSUME NEW h \in held'
        PROVE  \/ h \in held /\ ~Releases(c.do, h)
               \/ h[1] \in {Host} \cup open /\ Passes(h)'
    <3>1. h[1] \in {Host} \cup open
      BY <1>3 DEF DeskInv, HoldInv
    <3>2. CASE Releases(c.do, h)
      <4>1. h[1] = c.do.at
        BY <3>2 DEF Releases
      <4> QED
        BY <1>3, <2>3, <3>1, <4>1 DEF Passes
    <3> QED
      BY <1>3, <3>2
  <2> QED
    BY <1>1, <2>1, <2>2, <2>3, <2>4, CallOver
<1> QED
  BY <1>2, <1>3 DEF DoInput

LEMMA ClipboardCall ==
    ASSUME DeskInv, NEW t \in Threads, NEW c \in Due(t), DoRead(t, c) \/ DoWrite(t, c)
    PROVE  DeskInv'
<1>1. /\ WorkInv /\ lost \in Nat /\ doing[t].busy /\ c \in doing[t].todo
      /\ DOMAIN doing = Threads /\ DOMAIN doing[t] = Fields
      /\ UNCHANGED <<plan, turn, meant, held, open>>
      /\ c.do.call \in {"read", "write", "put back"}
  BY DueBusy DEF DoRead, DoWrite
<1>2. \A h \in held' : h \in held /\ ~Releases(c.do, h)
  BY <1>1 DEF Releases
<1>3. ASSUME NEW why, Fail(t, c, why), Lose PROVE DeskInv'
  <2>1. PICK d : Leaves(t, c, d) /\ d.saved = doing[t].saved
    BY <1>1, <1>3, Fails
  <2>2. lost' \in Nat /\ lost' >= lost /\ lost' > 0
    <3>1. lost \in Nat /\ lost' = lost + 1
      BY <1>1, <1>3 DEF Lose
    <3> QED
      BY <3>1
  <2> QED
    BY <1>1, <1>2, <2>1, <2>2, CallOver
<1>4. ASSUME c.do.call = "read", UNCHANGED <<clipboard, lost>>,
             doing' = [doing EXCEPT ![t].saved = <<clipboard>>, ![t].todo = Rest(t, c)]
      PROVE  DeskInv'
  <2> DEFINE d == [[doing[t] EXCEPT !.saved = <<clipboard>>] EXCEPT !.todo = Rest(t, c)]
  <2>1. Becomes(t, d)
    BY <1>1, <1>4 DEF Becomes
  <2>2. DOMAIN d = Fields /\ d.busy = doing[t].busy /\ d.saved = <<clipboard>> /\ d.todo = Rest(t, c)
    BY <1>1 DEF Fields
  <2> HIDE DEF d
  <2>3. Leaves(t, c, d)
    BY <2>1, <2>2 DEF Leaves
  <2>4. Pasting(doing[t], clipboard) => Pasting(d, clipboard)
    BY <1>1, <1>4, <2>2, PasteReads
  <2>5. lost' \in Nat /\ lost' >= lost
    BY <1>1, <1>4
  <2> QED
    BY <1>1, <1>2, <1>4, <2>3, <2>4, <2>5, CallOver
<1>5. ASSUME c.do.call \in {"write", "put back"}, Succeed(t, c), UNCHANGED lost,
             clipboard' = IF c.do.call = "write" THEN c.do.text ELSE PutBack(doing[t].saved[1])
      PROVE  DeskInv'
  <2>1. PICK d : Leaves(t, c, d) /\ d.saved = doing[t].saved /\ d.todo = Rest(t, c)
    BY <1>1, <1>5, Succeeds
  <2>2. c.do.call = "put back" => clipboard' = PutBack(doing[t].saved[1])
    BY <1>5
  <2>3. Pasting(doing[t], clipboard) => Pasting(d, clipboard')
    BY <1>1, <1>5, <2>1, <2>2, PasteWrites
  <2>4. UsesClipboard(t)
    BY <1>1, <1>5, WritersUse
  <2>5. lost' \in Nat /\ lost' >= lost
    <3>1. lost \in Nat /\ lost' = lost
      BY <1>1, <1>5
    <3> QED
      BY <3>1
  <2> QED
    BY <1>1, <1>2, <2>1, <2>3, <2>4, <2>5, CallOver
<1> QED
  BY <1>3, <1>4, <1>5 DEF DoRead, DoWrite

\* Every other call: a check, a refusal, one to a window or the cursor, a look, a
\* command.
LEMMA OtherCall ==
    ASSUME DeskInv, NEW t \in Threads, NEW c \in Due(t),
           \/ DoCheck(t, c) \/ DoRefuse(t, c) \/ DoWindow(t, c) \/ DoCursor(t, c)
           \/ DoWatch(t, c) \/ DoCommand(t, c)
    PROVE  DeskInv' \/ UNCHANGED inputVars
<1>1. /\ UNCHANGED <<plan, turn, held, meant, open, clipboard>>
      /\ UNCHANGED lost \/ Lose
      /\ c.do.call \notin {"input", "read", "write", "put back"}
  <2>1. UNCHANGED <<plan, turn, held, meant, open, clipboard>>
    BY DEF DoCheck, DoRefuse, DoWindow, DoCursor, DoWatch, DoCommand
  <2>2. UNCHANGED lost \/ Lose
    BY DEF DoCheck, DoRefuse, DoWindow, DoCursor, DoWatch, DoCommand
  <2>3. c.do.call \notin {"input", "read", "write", "put back"}
    BY DEF DoCheck, DoRefuse, DoWindow, DoCursor, DoWatch, DoCommand
  <2> QED
    BY <2>1, <2>2, <2>3
<1>2. Succeed(t, c) \/ (\E why : Fail(t, c, why)) \/ UNCHANGED inputVars
  BY DEF DoCheck, DoRefuse, DoWindow, DoCursor, DoWatch, DoCommand, inputVars
<1>3. CASE Succeed(t, c) \/ \E why : Fail(t, c, why)
  <2>1. PICK d : Leaves(t, c, d) /\ d.saved = doing[t].saved
    BY <1>3, DueBusy, Succeeds, Fails
  <2> QED
    BY <1>1, <2>1, QuietCall
<1> QED
  BY <1>2, <1>3

\* The mouse node takes aim: what it calls now releases what it presses.
LEMMA AimCall ==
    ASSUME DeskInv, NEW t \in Threads, NEW c \in Due(t), DoAim(t, c)
    PROVE  DeskInv'
<1>1. /\ WorkInv /\ lost \in Nat /\ doing[t].busy /\ c \in doing[t].todo
      /\ DOMAIN doing = Threads /\ DOMAIN doing[t] = Fields
      /\ UNCHANGED <<plan, turn, held, meant, open, clipboard>> /\ c.do.call = "aim"
  BY DueBusy DEF DoAim
<1>2. CASE Fail(t, c, "execution") /\ Lose
  <2>1. PICK d : Leaves(t, c, d) /\ d.saved = doing[t].saved
    BY <1>1, <1>2, Fails
  <2> QED
    BY <1>1, <1>2, <2>1, QuietCall
<1>3. ASSUME doing' = [doing EXCEPT ![t].back = cursor,
                                    ![t].todo = Calls(MouseStrokes(Node(t), cursor))],
             UNCHANGED lost
      PROVE  DeskInv'
  <2> DEFINE d == [[doing[t] EXCEPT !.back = cursor]
                      EXCEPT !.todo = Calls(MouseStrokes(Node(t), cursor))]
  <2>1. Becomes(t, d)
    BY <1>1, <1>3 DEF Becomes
  <2>2. DOMAIN d = Fields /\ d.busy = doing[t].busy /\ d.todo = Calls(MouseStrokes(Node(t), cursor))
    BY <1>1 DEF Fields
  <2> HIDE DEF d
  <2>3. turn[t] <= Len(plan[t]) /\ LeftDown(Node(t)) \subseteq meant
    BY <1>1 DEF WorkInv
  <2>4. PICK words \in Vocabularies(Node(t)) : Lists(doing[t].todo, words)
    BY <1>1 DEF WorkInv
  <2>5. Node(t).type = "mouse" /\ words = AimWords /\ Node(t) \in Nodes
    <3>1. "aim" \in words
      BY <1>1, <2>4 DEF Lists, Listed
    <3>w. "aim" \notin MouseWords /\ "aim" \notin PlainWords /\ "aim" \notin PasteWords
      BY DEF MouseWords, PlainWords, PasteWords
    <3>2. Node(t).type = "mouse" /\ words = AimWords
      BY <2>4, <3>1, <3>w DEF Vocabularies
    <3> QED
      BY <1>1, <2>3, <3>2, BusyNode
  <2>6. Lists(d.todo, MouseWords) /\ Promised(d.todo, LeftDown(Node(t)))
    BY <2>2, <2>5, AimedKeeps
  <2>7. GoodWork(t, d, meant)
    <3>1. MouseWords \in Vocabularies(Node(t))
      BY <2>5 DEF Vocabularies
    <3>2. Promised(d.todo, meant)
      BY <2>3, <2>6 DEF Promised
    <3> QED
      BY <1>1, <2>2, <2>3, <2>6, <3>1, <3>2 DEF GoodWork
  <2>8. lost' \in Nat /\ lost' >= lost
    BY <1>1, <1>3, LostGrows
  <2>9. WorkInv'
    BY <1>1, <2>1, <2>7, <2>8, WorkStep
  <2>10. HoldInv'
    <3> SUFFICES ASSUME NEW h \in held
                 PROVE  /\ h[1] \in {Host} \cup open
                        /\ \/ Passes(h)
                           \/ h \in meant
                           \/ \E u \in Threads : \E e \in doing'[u].todo :
                                 Releases(e.do, h) /\ Sure(doing'[u].todo, e)
      BY <1>1, <1>3 DEF HoldInv, Passes
    <3>1. /\ h[1] \in {Host} \cup open
          /\ \/ Passes(h)
             \/ h \in meant
             \/ \E u \in Threads : \E e \in doing[u].todo :
                   Releases(e.do, h) /\ Sure(doing[u].todo, e)
      BY DEF DeskInv, HoldInv
    <3>2. \A e \in doing[t].todo : ~Releases(e.do, h)
      BY <2>4, <2>5 DEF Lists, Listed, AimWords, Releases
    <3>3. \A u \in Threads \ {t} : doing'[u] = doing[u]
      BY <2>1 DEF Becomes
    <3> QED
      BY <3>1, <3>2, <3>3
  <2>11. PasteInv'
    <3>1. Node(t)' = Node(t)
      BY <1>1 DEF Node
    <3> QED
      BY <1>1, <2>1, <2>5, <2>8, <3>1, PasteStep DEF DeskInv
  <2> QED
    BY <2>9, <2>10, <2>11 DEF DeskInv
<1> QED
  BY <1>2, <1>3 DEF DoAim

\* What is down stays promised while no call is made.
LEMMA HoldAlone ==
    ASSUME HoldInv, UNCHANGED <<held, open, lost>>, meant \subseteq meant',
           \A u \in Threads : doing[u].todo # {} => doing'[u] = doing[u]
    PROVE  HoldInv'
<1> SUFFICES ASSUME NEW h \in held
             PROVE  /\ h[1] \in {Host} \cup open
                    /\ \/ Passes(h)
                       \/ h \in meant'
                       \/ \E u \in Threads : \E e \in doing'[u].todo :
                             Releases(e.do, h) /\ Sure(doing'[u].todo, e)
  BY DEF HoldInv, Passes
<1>1. /\ h[1] \in {Host} \cup open
      /\ \/ Passes(h)
         \/ h \in meant
         \/ \E u \in Threads : \E e \in doing[u].todo :
               Releases(e.do, h) /\ Sure(doing[u].todo, e)
  BY DEF HoldInv
<1> QED
  BY <1>1

LEMMA BeginKeeps ==
    ASSUME DeskInv, NEW t \in Threads, Begin(t)
    PROVE  DeskInv'
<1>1. /\ WorkInv /\ HoldInv /\ PasteInv /\ doing[t] = Idle /\ turn[t] <= Len(plan[t])
      /\ DOMAIN doing = Threads /\ meant' = meant \cup LeftDown(Node(t))
      /\ UNCHANGED <<plan, turn, held, clipboard, open, lost>>
  BY DEF DeskInv, WorkInv, Begin
<1> DEFINE d == [[Idle EXCEPT !.busy = TRUE] EXCEPT !.todo = Calls(Strokes(Node(t)))]
<1>2. Becomes(t, d)
  BY <1>1 DEF Begin, Becomes
<1>3. DOMAIN d = Fields /\ d.busy /\ d.todo = Calls(Strokes(Node(t))) /\ d.saved = <<>>
  BY DEF Idle, Fields
<1> HIDE DEF d
<1>4. Node(t) \in Nodes
  BY <1>1, BusyNode
<1>5. PICK words \in Vocabularies(Node(t)) :
         Lists(d.todo, words) /\ Promised(d.todo, LeftDown(Node(t)))
  BY <1>3, <1>4, NodeKeeps
<1>6. GoodWork(t, d, meant')
  <2>1. LeftDown(Node(t)) \subseteq meant'
    BY <1>1
  <2>2. Promised(d.todo, meant')
    BY <1>5, <2>1 DEF Promised
  <2> QED
    BY <1>1, <1>3, <1>5, <2>1, <2>2 DEF GoodWork
<1>7. lost \in Nat /\ lost' \in Nat /\ lost' >= lost
  <2>1. lost \in Nat
    BY <1>1 DEF WorkInv
  <2> QED
    BY <1>1, <2>1, LostGrows
<1>8. meant \subseteq meant'
  BY <1>1
<1>9. WorkInv'
  BY <1>1, <1>2, <1>6, <1>7, <1>8, WorkStep
<1>10. HoldInv'
  <2>1. \A u \in Threads : doing[u].todo # {} => doing'[u] = doing[u]
    BY <1>1, <1>2 DEF Becomes, Idle
  <2> QED
    BY <1>1, <1>8, <2>1, HoldAlone
<1>11. PasteInv'
  <2>1. ASSUME Node(t)'.type = "text" PROVE Pasting(d, clipboard')
    <3>1. Node(t).type = "text"
      BY <1>1, <2>1 DEF Node
    <3>2. ReadPending(d.todo)
      <4>1. CASE Node(t).method = "clipboard"
        BY <1>3, <1>4, <3>1, <4>1, PasteLayout
      <4>2. CASE Node(t).method # "clipboard"
        <5>1. words = PlainWords
          BY <3>1, <4>2 DEF Vocabularies, Pastes
        <5>2. \A c \in d.todo : c.do.call # "read"
          BY <1>5, <5>1 DEF Lists, Listed, PlainWords
        <5> QED
          BY <5>2 DEF ReadPending
      <4> QED
        BY <4>1, <4>2
    <3> QED
      BY <1>3, <3>2 DEF Pasting
  <2> QED
    BY <1>1, <1>2, <1>7, <2>1, PasteStep
<1> QED
  BY <1>9, <1>10, <1>11 DEF DeskInv

LEMMA AnswerKeeps ==
    ASSUME DeskInv, NEW t \in Threads, Finish(t)
    PROVE  DeskInv'
<1>1. /\ WorkInv /\ HoldInv /\ PasteInv /\ doing[t].busy /\ doing[t].todo = {}
      /\ turn[t] <= Len(plan[t])
      /\ UNCHANGED <<plan, held, meant, clipboard, open, lost>>
  BY DEF DeskInv, WorkInv, Finish
<1>2. /\ plan \in [Threads -> Seq(Nodes)] /\ turn \in [Threads -> Nat \ {0}]
      /\ DOMAIN doing = Threads /\ lost \in Nat
  BY <1>1, DesktopAssumption DEF WorkInv
<1>3. Becomes(t, Idle) /\ ~Idle.busy /\ DOMAIN Idle = Fields
  BY <1>2 DEF Finish, Becomes, Idle, Fields
<1>4. turn' \in [Threads -> Nat \ {0}] /\ \A u \in Threads \ {t} : turn'[u] = turn[u]
  <2>1. plan[t] \in Seq(Nodes) /\ turn[t] \in Nat \ {0}
    BY <1>2
  <2>2. turn[t] + 1 \in Nat \ {0} /\ Len(plan[t]) + 1 \in Nat \ {0}
    BY <2>1
  <2> DEFINE next == IF doing[t].failed = "none" THEN turn[t] + 1 ELSE Len(plan[t]) + 1
  <2>3. turn' = [turn EXCEPT ![t] = next] /\ next \in Nat \ {0}
    BY <2>2 DEF Finish
  <2> HIDE DEF next
  <2> QED
    BY <1>2, <2>3
<1>5. WorkInv'
  <2>1. ASSUME NEW u \in Threads
        PROVE  /\ DOMAIN doing'[u] = Fields
               /\ IF doing'[u].busy
                  THEN /\ turn'[u] <= Len(plan[u]) /\ LeftDown(Node(u)') \subseteq meant
                       /\ \E words \in Vocabularies(Node(u)') : Lists(doing'[u].todo, words)
                       /\ Promised(doing'[u].todo, meant)
                  ELSE doing'[u] = Idle
    <3>1. CASE u = t
      BY <1>3, <3>1 DEF Becomes
    <3>2. CASE u # t
      <4>1. doing'[u] = doing[u] /\ turn'[u] = turn[u] /\ Node(u)' = Node(u)
        BY <1>1, <1>3, <1>4, <3>2 DEF Becomes, Node
      <4> QED
        BY <1>1, <4>1 DEF WorkInv
    <3> QED
      BY <3>1, <3>2
  <2>2. DOMAIN doing' = Threads
    BY <1>3 DEF Becomes
  <2>3. /\ plan' \in Plans /\ lost' \in Nat /\ open' \subseteq Windows
    BY <1>1 DEF WorkInv
  <2>4. \A u \in Threads : LeftDown(Node(u))' = LeftDown(Node(u)')
                           /\ Vocabularies(Node(u))' = Vocabularies(Node(u)')
    OBVIOUS
  <2> QED
    BY <1>1, <1>4, <2>1, <2>2, <2>3, <2>4 DEF WorkInv
<1>6. HoldInv'
  <2>1. \A u \in Threads : doing[u].todo # {} => doing'[u] = doing[u]
    BY <1>1, <1>3 DEF Becomes
  <2>2. meant \subseteq meant'
    BY <1>1
  <2> QED
    BY <1>1, <2>1, <2>2, HoldAlone
<1>7. PasteInv'
  <2>1. lost' \in Nat /\ lost' >= lost
    BY <1>1, <1>2, LostGrows
  <2> QED
    BY <1>1, <1>2, <1>3, <1>4, <2>1, PasteStep
<1> QED
  BY <1>5, <1>6, <1>7 DEF DeskInv

\* Windows that come and go take with them what was down in them; a window that
\* opens has nothing down.
LEMMA WindowsKeep ==
    ASSUME DeskInv, NEW w \in Windows, WindowCloses(w) \/ WindowOpens(w)
    PROVE  DeskInv'
<1>1. /\ UNCHANGED <<plan, turn, doing, meant, clipboard, lost>>
      /\ held' \subseteq held /\ open' \subseteq Windows
      /\ \A h \in held' : h[1] \in {Host} \cup open => h[1] \in {Host} \cup open'
  <2>1. open \subseteq Windows
    BY DEF DeskInv, WorkInv
  <2>2. CASE WindowCloses(w)
    BY <2>1, <2>2 DEF WindowCloses
  <2>3. CASE WindowOpens(w)
    BY <2>1, <2>3 DEF WindowOpens
  <2> QED
    BY <2>2, <2>3
<1>2. \A t \in Threads : Node(t)' = Node(t)
  BY <1>1 DEF Node
<1>3. WorkInv'
  BY <1>1, <1>2 DEF DeskInv, WorkInv
<1>4. HoldInv'
  BY <1>1 DEF DeskInv, HoldInv, Passes
<1>5. PasteInv'
  BY <1>1, <1>2 DEF DeskInv, PasteInv, Undisturbed, UsesClipboard
<1> QED
  BY <1>3, <1>4, <1>5 DEF DeskInv

LEMMA DeskInductive == DeskInv /\ [Next]_vars => DeskInv'
<1> SUFFICES ASSUME DeskInv, [Next]_vars PROVE DeskInv'
  OBVIOUS
<1>1. CASE UNCHANGED inputVars
  <2>1. UNCHANGED <<plan, turn, doing, held, meant, clipboard, open, lost>>
    BY <1>1 DEF inputVars
  <2>2. \A t \in Threads : Node(t)' = Node(t)
    BY <2>1 DEF Node
  <2>3. WorkInv'
    BY <2>1, <2>2 DEF DeskInv, WorkInv
  <2>4. HoldInv'
    BY <2>1 DEF DeskInv, HoldInv, Passes
  <2>5. PasteInv'
    BY <2>1, <2>2 DEF DeskInv, PasteInv, Undisturbed, UsesClipboard
  <2> QED
    BY <2>3, <2>4, <2>5 DEF DeskInv
<1>2. ASSUME NEW t \in Threads, Begin(t) \/ Works(t) \/ CancelRun(t) \/ Program(t)
      PROVE  DeskInv'
  <2>1. CASE Begin(t)
    BY <2>1, BeginKeeps
  <2>2. CASE Finish(t)
    BY <2>2, AnswerKeeps
  <2>3. CASE CancelRun(t) \/ Program(t)
    BY <1>1, <2>3 DEF CancelRun, Program
  <2>4. ASSUME NEW c \in Due(t), DoInput(t, c) \/ DoAim(t, c) \/ DoRead(t, c) \/ DoWrite(t, c)
        PROVE  DeskInv'
    BY <2>4, InputCall, AimCall, ClipboardCall
  <2>5. ASSUME NEW c \in Due(t),
               \/ DoCheck(t, c) \/ DoRefuse(t, c) \/ DoWindow(t, c) \/ DoCursor(t, c)
               \/ DoWatch(t, c) \/ DoCommand(t, c)
        PROVE  DeskInv'
    BY <1>1, <2>5, OtherCall
  <2> QED
    BY <1>2, <2>1, <2>2, <2>3, <2>4, <2>5 DEF Works
<1>3. ASSUME NEW w \in Windows, WindowCloses(w) \/ WindowOpens(w)
      PROVE  DeskInv'
  BY <1>3, WindowsKeep
<1>4. CASE UNCHANGED vars
  BY <1>1, <1>4 DEF vars
<1> QED
  BY <1>2, <1>3, <1>4 DEF Next

LEMMA DeskBegins == Init => DeskInv
<1> SUFFICES ASSUME Init PROVE DeskInv
  OBVIOUS
<1>1. /\ plan \in Plans /\ turn = [t \in Threads |-> 1] /\ doing = [t \in Threads |-> Idle]
      /\ held = {} /\ open = Windows /\ lost = 0
  BY DEF Init
<1>2. \A t \in Threads : doing[t] = Idle
  BY <1>1
<1>3. DOMAIN Idle = Fields /\ Idle.busy = FALSE
  BY DEF Idle, Fields
<1>4. WorkInv
  BY <1>1, <1>2, <1>3 DEF WorkInv
<1>5. HoldInv /\ PasteInv
  BY <1>1, <1>2, <1>3 DEF HoldInv, PasteInv
<1> QED
  BY <1>4, <1>5 DEF DeskInv

\* Whatever is cancelled, refused or lost, and whoever else types or clicks: no key
\* of the host stays down that no Press left down, and no button anywhere unless a
\* call to a window failed.  tap, MouseExecutor::execute and execute_background_mouse
\* keep the error of the wait or the movement and release before they propagate it.
THEOREM NothingStaysHeld == Spec => []NothingLeftHeld
<1>1. DeskInv => NothingLeftHeld
  <2> SUFFICES ASSUME DeskInv, NEW h \in held
               PROVE  \/ h[1] # Host /\ (lost > 0 \/ h[2] \notin Buttons)
                      \/ h \in meant
                      \/ \E t \in Threads : h \in Owed(t)
    BY DEF NothingLeftHeld
  <2>1. \/ Passes(h)
        \/ h \in meant
        \/ \E t \in Threads : \E d \in doing[t].todo : Releases(d.do, h)
    BY DEF DeskInv, HoldInv
  <2>2. ASSUME NEW t \in Threads, NEW d \in doing[t].todo, Releases(d.do, h)
        PROVE  h \in Owed(t)
    BY <2>2 DEF Releases, Owed
  <2> QED
    BY <2>1, <2>2 DEF Passes
<1> QED
  BY <1>1, DeskBegins, DeskInductive, PTL DEF Spec

\* A paste puts the clipboard's text back, cancelled, refused by its window or done:
\* TextExecutor::execute restores before it looks at the error of the keys or the
\* wait, so that only another clipboard node, or a call that failed although nothing
\* was wrong with it, leaves the pasted text there.
THEOREM PastesRestore == Spec => []PasteRestores
<1>1. DeskInv => PasteRestores
  <2> SUFFICES ASSUME DeskInv, NEW t \in Threads,
                      doing[t].busy, doing[t].todo = {}, doing[t].saved # <<>>,
                      Node(t).type = "text", lost = 0,
                      \A u \in Threads \ {t} : ~UsesClipboard(u)
               PROVE  clipboard = PutBack(doing[t].saved[1])
    BY DEF PasteRestores
  <2>1. Pasting(doing[t], clipboard)
    BY DEF DeskInv, PasteInv, Undisturbed
  <2>2. ~BackPending(doing[t].todo)
    BY DEF BackPending
  <2> QED
    BY <2>1, <2>2 DEF Pasting
<1> QED
  BY <1>1, DeskBegins, DeskInductive, PTL DEF Spec
=============================================================================
