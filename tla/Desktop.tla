------------------------------ MODULE Desktop ------------------------------
(***************************************************************************)
(* The host desktop as the nodes of nodara-platform use it: two executions *)
(* of the plugin share one keyboard, one cursor and one clipboard          *)
(* (input.rs, clipboard.rs, window.rs, win32.rs), and each may run a       *)
(* command as well (Command).                                              *)
(*                                                                         *)
(* An executor is a set of host calls that are made in their order.  Those *)
(* of a stroke that must be made however the stroke went (the code keeps   *)
(* the error, makes them and only then propagates it) are its `tidy`       *)
(* calls; those made only if it failed are `undo` calls; the calls that    *)
(* close the whole node are `final`.  A call that fails drops the other    *)
(* calls of the node; a `mute` one is made with `let _ =` and cannot fail  *)
(* the node.                                                               *)
(***************************************************************************)
EXTENDS Command, SequencesExt

CONSTANTS Windows,      \* windows that may be open
          Plans,        \* what the executions are asked to do: Threads -> Seq(node)
          MaxLost       \* bound: host calls that fail although the window is there

VARIABLES plan,         \* the nodes each thread is asked to execute
          turn,         \* which of them is next, or under way
          doing,        \* the execution: calls left, first failure, clipboard text and
                        \* cursor position it means to put back
          held,         \* <<place, key>> the host or a window takes to be down
          meant,        \* history: what a Press or a Down node was told to hold
          clipboard, cursor, open,
          lost          \* host calls that failed

inputVars == <<plan, turn, doing, held, meant, clipboard, cursor, open, lost>>
vars == <<commandVars, inputVars>>

Host == "host"
NoText == "no text"
Idle == [busy |-> FALSE, todo |-> {}, failed |-> "none", saved |-> <<>>, back |-> 0]

-----------------------------------------------------------------------------
\* Host calls.

Hit(at, code, down) ==
    [call |-> "input", at |-> at, code |-> code, down |-> down, mute |-> FALSE]
Hits(at, codes, down) == [i \in DOMAIN codes |-> Hit(at, codes[i], down)]
Check == <<[call |-> "check"]>>
Refuse == <<[call |-> "refuse"]>>
Cursor(p) == <<[call |-> "cursor", to |-> p]>>
Message(w) == <<[call |-> "message", at |-> w]>>

\* A stroke: its calls, those that follow in any case, those of a failure, those
\* that close the node once this stroke was begun.
Stroke(body, tidy, undo, final) == [body |-> body, tidy |-> tidy, undo |-> undo,
                                    final |-> final]
Plainly(body) == Stroke(body, <<>>, <<>>, <<>>)

Muted(hits) == [k \in DOMAIN hits |-> [hits[k] EXCEPT !.mute = TRUE]]

\* The calls `does` of a stroke in one role, each with those that undo the stroke.
Marked(does, role, i, undo) ==
    {[do |-> does[k], role |-> role, stroke |-> i, nr |-> k, undo |-> undo] : k \in DOMAIN does}
Calls(strokes) ==
    UNION { Marked(strokes[i].body, "body", i, Marked(strokes[i].undo, "undo", i, {}))
            \cup Marked(strokes[i].tidy, "tidy", i, {})
            \cup Marked(strokes[i].final, "final", i, {}) : i \in DOMAIN strokes }

\* Their order: stroke by stroke, and after all strokes the closing calls.
Rank == [body |-> 1, undo |-> 2, tidy |-> 3, final |-> 4]
Closes(c) == c.role = "final"
Before(c, d) ==
    \/ ~Closes(c) /\ Closes(d)
    \/ /\ Closes(c) = Closes(d)
       /\ \/ c.stroke < d.stroke
          \/ /\ c.stroke = d.stroke
             /\ Rank[c.role] < Rank[d.role] \/ (c.role = d.role /\ c.nr < d.nr)

\* What is still called after call c failed.
Closing(rest, c) == {d \in rest : d.role = "final" /\ d.stroke <= c.stroke}
Tidying(rest, c) == {d \in rest : d.role = "tidy" /\ d.stroke = c.stroke}

\* Mutant: `?` on the wait, before the keys are released.
RemainingUntidied(rest, c) == Closing(rest, c)

Remaining(rest, c) == c.undo \cup Tidying(rest, c) \cup Closing(rest, c)

-----------------------------------------------------------------------------
\* Keys.  parse_chord and resolve_char (keys.rs): a chord is its modifiers, in
\* order, and a key; normalise strips blanks and underscores, so that no name is
\* left of the character that is one.

Normalise(c) == IF c \in {" ", "_"} THEN "" ELSE c
Letters == {"a", "v"}
Capital == [A |-> "a"]
Shifted == [c \in {"!"} |-> "1"]

\* The virtual key and whether Shift goes with it; no key at all for a name that
\* is not in the tables.
ResolveName(name) ==
    IF name \in Letters THEN <<name>>
    ELSE IF name \in DOMAIN Shifted THEN <<"shift", Shifted[name]>> ELSE <<>>
ResolveChar(c) == IF c \in DOMAIN Capital THEN <<"shift", Capital[c]>>
                  ELSE ResolveName(Normalise(c))

\* Everything a chord holds, in the order it goes down.
Chord(n) == n.mods \o ResolveName(Normalise(n.key))
KnownChord(n) == ResolveName(Normalise(n.key)) # <<>>

-----------------------------------------------------------------------------
\* windows.Input.Keyboard.

\* Rounds of three strokes each, and the pause that ends each round but the last.
Rounds(rounds) ==
    [k \in 1..(3 * Len(rounds)) |-> rounds[(k - 1) \div 3 + 1][((k - 1) % 3) + 1]]
Pause(i, n) == Plainly(IF i < n THEN Check ELSE <<>>)

\* In the foreground keybd_event is told whether the key goes up.
HostStroke(n) ==
    CASE n.action = "type" ->
           Stroke(Hits(Host, Chord(n), TRUE) \o Check,
                  Hits(Host, Reverse(Chord(n)), FALSE), <<>>, <<>>)
      [] n.action = "press" -> Plainly(Hits(Host, Chord(n), TRUE))
      [] n.action = "release" -> Plainly(Hits(Host, Reverse(Chord(n)), FALSE))

\* In the background send_key is told whether the key goes down, and
\* background_keyboard_action passes what keybd_event would take: FALSE to strike
\* and TRUE to let go.
Struck == FALSE
LetGo == TRUE

\* The last stroke of a paste carries on with the calls in `after`.
BackgroundType(w, codes, after) ==
    Stroke(Hits(w, codes, Struck) \o Check,
           Muted(Hits(w, Reverse(codes), LetGo)), <<>>, after)

BackgroundStroke(n) ==
    CASE n.action = "type" -> BackgroundType(n.window, Chord(n), <<>>)
      [] n.action = "press" ->
           Stroke(Hits(n.window, Chord(n), Struck), <<>>,
                  Muted(Hits(n.window, Reverse(Chord(n)), LetGo)), <<>>)
      [] n.action = "release" -> Plainly(Muted(Hits(n.window, Reverse(Chord(n)), LetGo)))

KeyboardStrokes(n) ==
    IF ~KnownChord(n) THEN <<Plainly(Refuse)>>
    ELSE Rounds([i \in 1..n.repeat |->
             << Plainly(Check),
                IF n.background THEN BackgroundStroke(n) ELSE HostStroke(n),
                Pause(i, n.repeat) >>])

-----------------------------------------------------------------------------
\* windows.Input.Text and system.Clipboard.

\* Mutant: the wait's error is propagated before the clipboard is put back.
PasteStrokesUnsafely(n) ==
    << Plainly(<<[call |-> "read"]>>),
       Plainly(<<[call |-> "write", text |-> n.text]>>),
       BackgroundType(n.window, <<"ctrl", "v">>, <<>>),
       Plainly(Check \o <<[call |-> "put back"]>>) >>

\* Reads what is there, writes the text, sends Ctrl+V and, however that went,
\* waits and puts back what was read.
PasteStrokes(n) ==
    << Plainly(<<[call |-> "read"]>>),
       Plainly(<<[call |-> "write", text |-> n.text]>>),
       BackgroundType(n.window, <<"ctrl", "v">>, Check \o <<[call |-> "put back"]>>) >>

HostCharacter(codes) ==
    IF codes = <<>> THEN Plainly(Refuse)
    ELSE Stroke(Hits(Host, codes, TRUE), Hits(Host, Reverse(codes), FALSE), <<>>, <<>>)

TextStrokes(n) ==
    CASE n.method = "host" ->
           Rounds([i \in DOMAIN n.chars |->
               << Plainly(Check), HostCharacter(ResolveChar(n.chars[i])), Plainly(Check) >>])
      [] n.method = "wm_char" ->
           [i \in DOMAIN n.chars |-> Plainly(Check \o Message(n.window) \o Check)]
      [] n.method = "set_text" -> <<Plainly(Message(n.window))>>
      [] n.method = "clipboard" -> PasteStrokes(n)

ClipboardStrokes(n) ==
    <<Plainly(IF n.action = "read" THEN <<[call |-> "read"]>>
              ELSE <<[call |-> "write", text |-> n.text]>>)>>

-----------------------------------------------------------------------------
\* windows.Input.Mouse.  A point is one coordinate, <<>> if none is configured.

Buttons == {"left", "right", "middle"}
UsualButton(action) == CASE action = "right_click" -> "right"
                         [] action = "middle_click" -> "middle"
                         [] OTHER -> "left"
ButtonOf(n) == IF n.action = "move" THEN <<>>
               ELSE <<IF n.button = "" THEN UsualButton(n.action) ELSE n.button>>
ClicksOf(n) == IF n.action = "double_click" THEN 2 ELSE n.count

ResolvePoint(origin, point, relative) ==
    IF relative /\ point # <<>> THEN <<point[1] + origin>> ELSE point

\* The points of a smooth movement after its start.
Path(from, to) == IF from <= to THEN [i \in 1..(to - from) |-> from + i]
                  ELSE [i \in 1..(from - to) |-> from - i]

\* move_cursor_smooth; in the background every point is a message to the window,
\* and so is a movement to where the pointer is.
Step(n, p) == IF n.background THEN Message(n.window) ELSE Cursor(p)
Steps(n, path) ==
    [k \in 1..(2 * Len(path)) |-> IF k % 2 = 1 THEN Check[1] ELSE Step(n, path[k \div 2])[1]]
Moves(n, from, to) == IF n.background /\ from = to THEN Message(n.window)
                      ELSE Steps(n, Path(from, to))

At(n) == IF n.background THEN n.window ELSE Host

\* The pointer goes to the configured point at once.  A window is told of it even
\* if no point is configured.
Jump(n, point) == IF n.background THEN Message(n.window)
                  ELSE IF point = <<>> THEN <<>> ELSE Cursor(point[1])

\* Pressing may fail and ends the node; once pressed, releasing follows.
Clicks(n, b) ==
    Rounds([i \in 1..ClicksOf(n) |->
        << Plainly(<<Hit(At(n), b, TRUE)>>),
           Stroke(Check, <<Hit(At(n), b, FALSE)>>, <<>>, <<>>),
           Pause(i, ClicksOf(n)) >>])

\* The start of a drag is taken up before a missing destination is noticed in the
\* foreground, after it in the background.
Drag(n, b, origin) ==
    LET start == IF n.start = <<>> THEN origin ELSE n.start[1]
        end == ResolvePoint(start, n.point, n.relative)
        takeUp == IF n.background THEN Message(n.window)
                  ELSE IF start = origin THEN <<>> ELSE Cursor(start)
    IN  IF end = <<>> THEN <<Plainly((IF n.background THEN <<>> ELSE takeUp) \o Refuse)>>
        ELSE << Plainly(takeUp \o <<Hit(At(n), b, TRUE)>>),
                Stroke(Moves(n, start, end[1]), <<Hit(At(n), b, FALSE)>>, <<>>, <<>>) >>

\* The `move` action has no button, and nothing is done without one.
PointerStrokes(n, origin) ==
    LET button == ButtonOf(n)
        point == ResolvePoint(origin, n.point, n.relative)
    IN  IF button = <<>> THEN <<>>
        ELSE CASE n.action = "drag" -> Drag(n, button[1], origin)
               [] n.action = "down" -> <<Plainly(Jump(n, point) \o <<Hit(At(n), button[1], TRUE)>>)>>
               [] n.action = "up" -> <<Plainly(Jump(n, point) \o <<Hit(At(n), button[1], FALSE)>>)>>
               [] OTHER -> <<Plainly(Jump(n, point))>> \o Clicks(n, button[1])

\* A background action puts the real cursor back in any case.
MouseStrokes(n, origin) ==
    (IF n.background
     THEN <<Stroke(<<>>, <<>>, <<>>, <<[call |-> "put cursor"]>>)>> ELSE <<>>)
    \o PointerStrokes(n, origin)

-----------------------------------------------------------------------------
\* input_target, the window nodes, and what each node begins with.

Targeted(n) == n.background \/ n.focus
InputTarget(n) ==
    IF n.background /\ n.focus THEN Refuse
    ELSE IF ~Targeted(n) THEN <<>>
    ELSE <<[call |-> "find", at |-> n.window]>>
         \o (IF n.focus THEN <<[call |-> "focus", at |-> n.window]>> ELSE <<>>)

Strokes(n) ==
    CASE n.type = "keyboard" ->
           <<Plainly((IF n.action # "type" /\ n.repeat # 1 THEN Refuse ELSE Check)
                     \o InputTarget(n))>> \o KeyboardStrokes(n)
      [] n.type = "text" -> <<Plainly(InputTarget(n))>> \o TextStrokes(n)
      [] n.type = "mouse" -> <<Plainly(Check \o InputTarget(n) \o <<[call |-> "aim"]>>)>>
      [] n.type = "clipboard" -> ClipboardStrokes(n)
      [] n.type = "focus" -> <<Plainly(<<[call |-> "find", at |-> n.window],
                                         [call |-> "focus", at |-> n.window]>>)>>
      [] n.type = "wait" -> <<Plainly(<<[call |-> "watch", at |-> n.window]>>)>>
      [] n.type = "command" -> <<Plainly(Check \o <<[call |-> "command"]>>)>>

-----------------------------------------------------------------------------
\* What a workflow can configure, as the executors read it.

Modifiers == {"ctrl", "shift", "alt", "win"}
Points == {p \in Seq(Int) : Len(p) <= 1}
Nodes ==
    [type : {"keyboard"}, action : {"type", "press", "release"}, mods : Seq(Modifiers),
     key : STRING, repeat : Nat \ {0}, background : BOOLEAN, focus : BOOLEAN, window : Windows]
    \cup
    [type : {"text"}, method : {"host", "wm_char", "set_text", "clipboard"},
     chars : Seq(STRING), text : STRING, background : BOOLEAN, focus : BOOLEAN, window : Windows]
    \cup
    [type : {"mouse"}, action : {"move", "click", "right_click", "middle_click", "double_click",
                                 "down", "up", "drag"},
     button : Buttons \cup {""}, point : Points, start : Points, relative : BOOLEAN,
     count : Nat \ {0}, background : BOOLEAN, focus : BOOLEAN, window : Windows]
    \cup
    [type : {"clipboard"}, action : {"read", "write"}, text : STRING]
    \cup [type : {"focus"}, window : Windows]
    \cup [type : {"wait"}, window : Windows, mode : {"appear", "disappear"}]
    \cup
    [type : {"command"}, stdin : {"none", "short", "long"}, wait : BOOLEAN, check : BOOLEAN,
     timeout : BOOLEAN]

ASSUME DesktopAssumption == /\ Host \notin Windows /\ MaxLost \in Nat
                            /\ \A p \in Plans : p \in [Threads -> Seq(Nodes)]

-----------------------------------------------------------------------------
Init ==
    /\ CommandInit
    /\ plan \in Plans
    /\ turn = [t \in Threads |-> 1]
    /\ doing = [t \in Threads |-> Idle]
    /\ held = {} /\ meant = {}
    /\ clipboard \in {"user", NoText}
    /\ cursor = 0
    /\ open = Windows
    /\ lost = 0

Node(t) == plan[t][turn[t]]

\* The call whose turn it is, and what is left without it.
Due(t) == {c \in doing[t].todo : \A d \in doing[t].todo \ {c} : Before(c, d)}
Rest(t, c) == doing[t].todo \ {c}

\* What a Press or a Down leaves behind on purpose.
LeftDown(n) ==
    CASE n.type = "keyboard" /\ n.action = "press" ->
           {<<IF n.background THEN n.window ELSE Host, k>> : k \in ToSet(Chord(n))}
      [] n.type = "mouse" /\ n.action = "down" -> {<<At(n), ButtonOf(n)[1]>>}
      [] OTHER -> {}

\* An execute request arrives.
Begin(t) ==
    /\ ~doing[t].busy /\ turn[t] <= Len(plan[t])
    /\ doing' = [doing EXCEPT ![t] = [Idle EXCEPT !.busy = TRUE, !.todo = Calls(Strokes(Node(t)))]]
    /\ meant' = meant \cup LeftDown(Node(t))
    /\ UNCHANGED <<commandVars, plan, turn, held, clipboard, cursor, open, lost>>

\* The call returned without an error.
Succeed(t, c) == doing' = [doing EXCEPT ![t].todo = Rest(t, c)]

\* The call failed: the first failure is the node's.
IsMute(c) == c.do.call = "input" /\ c.do.mute
First(t, why) == IF doing[t].failed = "none" THEN why ELSE doing[t].failed
Fail(t, c, why) ==
    doing' = [doing EXCEPT ![t] =
                IF IsMute(c) THEN [@ EXCEPT !.todo = Rest(t, c)]
                ELSE [@ EXCEPT !.todo = Remaining(Rest(t, c), c), !.failed = First(t, why)]]

\* A host call fails although nothing is wrong with its arguments.
Lose == lost < MaxLost /\ lost' = lost + 1

DoCheck(t, c) ==
    /\ c.do.call = "check"
    /\ IF cancelled[t] THEN Fail(t, c, "cancelled") ELSE Succeed(t, c)
    /\ UNCHANGED <<commandVars, plan, turn, held, meant, clipboard, cursor, open, lost>>

DoRefuse(t, c) ==
    /\ c.do.call = "refuse" /\ Fail(t, c, "invalid")
    /\ UNCHANGED <<commandVars, plan, turn, held, meant, clipboard, cursor, open, lost>>

\* keybd_event and mouse_event, or SendMessageTimeout, which fails for a window
\* that is gone or hung.
DoInput(t, c) ==
    /\ c.do.call = "input"
    /\ \/ /\ c.do.at \in {Host} \cup open
          /\ held' = IF c.do.down THEN held \cup {<<c.do.at, c.do.code>>}
                     ELSE held \ {<<c.do.at, c.do.code>>}
          /\ Succeed(t, c) /\ UNCHANGED lost
       \/ /\ c.do.at # Host
          /\ Fail(t, c, "execution")
          /\ IF c.do.at \in open THEN Lose ELSE UNCHANGED lost
          /\ UNCHANGED held
    /\ UNCHANGED <<commandVars, plan, turn, meant, clipboard, cursor, open>>

\* A message that leaves nothing down, a search for a window, the request to put
\* one in front.
DoWindow(t, c) ==
    /\ c.do.call \in {"message", "find", "focus"}
    /\ \/ c.do.at \in open /\ Succeed(t, c) /\ UNCHANGED lost
       \/ /\ Fail(t, c, "execution")
          /\ IF c.do.at \in open THEN c.do.call # "find" /\ Lose ELSE UNCHANGED lost
    /\ UNCHANGED <<commandVars, plan, turn, held, meant, clipboard, cursor, open>>

DoCursor(t, c) ==
    /\ c.do.call \in {"cursor", "put cursor"}
    /\ \/ /\ cursor' = IF c.do.call = "cursor" THEN c.do.to ELSE doing[t].back
          /\ Succeed(t, c) /\ UNCHANGED lost
       \/ Fail(t, c, "execution") /\ Lose /\ UNCHANGED cursor
    /\ UNCHANGED <<commandVars, plan, turn, held, meant, clipboard, open>>

\* The mouse node looks where the cursor is and then knows what to do.
DoAim(t, c) ==
    /\ c.do.call = "aim"
    /\ \/ /\ doing' = [doing EXCEPT ![t].back = cursor,
                                    ![t].todo = Calls(MouseStrokes(Node(t), cursor))]
          /\ UNCHANGED lost
       \/ Fail(t, c, "execution") /\ Lose
    /\ UNCHANGED <<commandVars, plan, turn, held, meant, clipboard, cursor, open>>

\* clipboard_read opens the clipboard only if it has text.
DoRead(t, c) ==
    /\ c.do.call = "read"
    /\ \/ /\ doing' = [doing EXCEPT ![t].saved = <<clipboard>>, ![t].todo = Rest(t, c)]
          /\ UNCHANGED lost
       \/ clipboard # NoText /\ Fail(t, c, "execution") /\ Lose
    /\ UNCHANGED <<commandVars, plan, turn, held, meant, clipboard, cursor, open>>

\* What is put back for a clipboard that had no text is the empty text.
PutBack(saved) == IF saved = NoText THEN "" ELSE saved

\* clipboard_write may fail before or after it emptied the clipboard.
DoWrite(t, c) ==
    /\ c.do.call \in {"write", "put back"}
    /\ \/ /\ clipboard' = IF c.do.call = "write" THEN c.do.text ELSE PutBack(doing[t].saved[1])
          /\ Succeed(t, c) /\ UNCHANGED lost
       \/ Fail(t, c, "execution") /\ Lose /\ clipboard' \in {clipboard, NoText}
    /\ UNCHANGED <<commandVars, plan, turn, held, meant, cursor, open>>

\* One round of windows.Window.Wait: the window is there or gone as wanted, or the
\* time is up, or the node looks again after a while.
Wanted(n) == (n.window \in open) = (n.mode = "appear")
DoWatch(t, c) ==
    /\ c.do.call = "watch"
    /\ IF cancelled[t] THEN Fail(t, c, "cancelled")
       ELSE IF Wanted(Node(t)) THEN Succeed(t, c)
       ELSE Fail(t, c, "timeout")
    /\ UNCHANGED <<commandVars, plan, turn, held, meant, clipboard, cursor, open, lost>>

\* system.Command: its call begins, or is over.
DoCommand(t, c) ==
    /\ c.do.call = "command"
    /\ \/ Spawn(t, Node(t)) /\ UNCHANGED doing
       \/ CommandStep(t) /\ UNCHANGED doing
       \/ /\ Returned(t)
          /\ IF call[t].end = "ok" THEN Succeed(t, c) ELSE Fail(t, c, call[t].end)
          /\ UNCHANGED commandVars
    /\ UNCHANGED <<plan, turn, held, meant, clipboard, cursor, open, lost>>

\* The node's answer; a run goes on to its next node only after a success.
Finish(t) ==
    /\ doing[t].busy /\ doing[t].todo = {}
    /\ turn' = [turn EXCEPT ![t] = IF doing[t].failed = "none" THEN @ + 1 ELSE Len(plan[t]) + 1]
    /\ doing' = [doing EXCEPT ![t] = Idle]
    /\ call' = [call EXCEPT ![t] = NoCall]
    /\ UNCHANGED <<proc, cancelled, plan, held, meant, clipboard, cursor, open, lost>>

-----------------------------------------------------------------------------
\* Around the executions.

\* plugin/cancel, or the run's cancellation of an in-process node.
CancelRun(t) ==
    /\ ~cancelled[t] /\ turn[t] <= Len(plan[t])
    /\ cancelled' = [cancelled EXCEPT ![t] = TRUE]
    /\ UNCHANGED <<proc, call, inputVars>>

\* Windows close, with what they took to be down, and open.
WindowCloses(w) ==
    /\ w \in open
    /\ open' = open \ {w}
    /\ held' = {h \in held : h[1] # w}
    /\ UNCHANGED <<commandVars, plan, turn, doing, meant, clipboard, cursor, lost>>

WindowOpens(w) ==
    /\ w \notin open
    /\ open' = open \cup {w}
    /\ UNCHANGED <<commandVars, plan, turn, doing, held, meant, clipboard, cursor, lost>>

Program(t) == ProgramStep(t) /\ UNCHANGED inputVars

\* What the plugin's thread does with the request it has.
Works(t) ==
    \/ Finish(t)
    \/ \E c \in Due(t) :
          \/ DoCheck(t, c)
          \/ DoRefuse(t, c)
          \/ DoInput(t, c)
          \/ DoWindow(t, c)
          \/ DoCursor(t, c)
          \/ DoAim(t, c)
          \/ DoRead(t, c)
          \/ DoWrite(t, c)
          \/ DoWatch(t, c)
          \/ DoCommand(t, c)

Next ==
    \/ \E t \in Threads : Begin(t) \/ Works(t) \/ CancelRun(t) \/ Program(t)
    \/ \E w \in Windows : WindowCloses(w) \/ WindowOpens(w)

Spec == Init /\ [][Next]_vars

\* Threads are scheduled; nothing is assumed of operator, windows and programs.
FairSpec == Spec /\ \A t \in Threads : WF_vars(Works(t))

-----------------------------------------------------------------------------
\* Properties.

\* The releases a thread has still to make.
Owed(t) == {<<c.do.at, c.do.code>> :
               c \in {d \in doing[t].todo : d.do.call = "input" /\ ~d.do.down}}

\* Whatever is down on the host (and any button in a window that answered so far)
\* was left down by a Press or a Down node, or is about to be released by the
\* execution that pressed it: a cancellation, a failing call and a second execution
\* in between notwithstanding.
NothingLeftHeld ==
    \A h \in held : \/ h[1] # Host /\ (lost > 0 \/ h[2] \notin Buttons)
                    \/ h \in meant
                    \/ \E t \in Threads : h \in Owed(t)

UsesClipboard(t) == \E i \in DOMAIN plan[t] :
    \/ plan[t][i].type = "clipboard"
    \/ plan[t][i].type = "text" /\ plan[t][i].method = "clipboard"

\* A paste that nobody else's clipboard node overlaps ends, cancelled, refused by
\* its window or done, with the clipboard text the user had.
PasteRestores ==
    \A t \in Threads :
        /\ doing[t].busy /\ doing[t].todo = {} /\ doing[t].saved # <<>>
        /\ Node(t).type = "text"
        /\ lost = 0 /\ \A u \in Threads \ {t} : ~UsesClipboard(u)
        => clipboard = PutBack(doing[t].saved[1])

\* A node that is cancelled answers, unless its thread sits in the write of a long
\* standard input or waits for pipes that a process nobody kills still holds.
Stuck(t) == \/ call[t].phase = "stdin" /\ call[t].stdin = "long"
            \/ call[t].phase = "join" /\ PipesHeld(t)
CancelledNodeAnswers ==
    \A t \in Threads :
        (doing[t].busy /\ cancelled[t]) ~> (~doing[t].busy \/ Stuck(t))

\* A Type action of the keyboard node taps and releases the chord (input.rs:478):
\* when it is over, no key of it is down where it was sent.  It fails for
\* background input.
TypeReleasesTheChord ==
    \A t \in Threads :
        /\ doing[t].busy /\ doing[t].todo = {}
        /\ Node(t).type = "keyboard" /\ Node(t).action = "type"
        /\ lost = 0 /\ meant = {}
        => \A k \in ToSet(Chord(Node(t))) :
              <<IF Node(t).background THEN Node(t).window ELSE Host, k>> \notin held
=============================================================================
