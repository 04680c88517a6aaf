----------------------------- MODULE MCDesktop -----------------------------
(***************************************************************************)
(* What two executions may be asked to do of one desktop.                  *)
(***************************************************************************)
EXTENDS Desktop

CONSTANTS a, b

Keyboard(action, mods, key) ==
    [type |-> "keyboard", action |-> action, mods |-> mods, key |-> key, repeat |-> 1,
     background |-> FALSE, focus |-> FALSE, window |-> "w"]
Text(method, chars) ==
    [type |-> "text", method |-> method, chars |-> chars, text |-> "mine",
     background |-> method # "host", focus |-> FALSE, window |-> "w"]
Mouse(action, point) ==
    [type |-> "mouse", action |-> action, button |-> "", point |-> point, start |-> <<>>,
     relative |-> FALSE, count |-> 1, background |-> FALSE, focus |-> FALSE, window |-> "w"]
Clip(action) == [type |-> "clipboard", action |-> action, text |-> "copied"]
Run(stdin, wait, check, timeout) ==
    [type |-> "command", stdin |-> stdin, wait |-> wait, check |-> check, timeout |-> timeout]
Watch(mode) == [type |-> "wait", window |-> "w", mode |-> mode]
Focus == [type |-> "focus", window |-> "w"]

Both(nodes) == nodes \cup {[n EXCEPT !.background = TRUE] : n \in nodes}

Keyboards ==
    Both({ Keyboard("type", <<"ctrl">>, "!"), Keyboard("press", <<"ctrl">>, "a"),
           Keyboard("release", <<"ctrl">>, "a") })
    \cup { [Keyboard("type", <<>>, "a") EXCEPT !.repeat = 2],
           [Keyboard("press", <<>>, "a") EXCEPT !.repeat = 2],
           [Keyboard("type", <<>>, "_") EXCEPT !.focus = TRUE],
           [Keyboard("type", <<>>, "a") EXCEPT !.focus = TRUE, !.background = TRUE] }

Texts == { Text("host", <<"A", "a">>), Text("host", <<"a", " ">>),
           Text("wm_char", <<"a">>), Text("set_text", <<"a">>), Text("clipboard", <<"a">>) }

Mice ==
    Both({ Mouse("move", <<2>>), Mouse("click", <<1>>), Mouse("double_click", <<>>),
           [Mouse("right_click", <<1>>) EXCEPT !.relative = TRUE],
           [Mouse("middle_click", <<>>) EXCEPT !.count = 2],
           Mouse("down", <<1>>), Mouse("up", <<>>), Mouse("drag", <<2>>),
           Mouse("drag", <<>>), [Mouse("drag", <<0>>) EXCEPT !.start = <<2>>] })

Commands == { Run(s, w, c, o) : s \in {"none", "short", "long"}, w, c, o \in BOOLEAN }

Others == { Clip("read"), Clip("write"), Watch("appear"), Watch("disappear"), Focus }

\* One execution of every node; two nodes one after the other; two at the same time.
Alone == { (a :> <<n>> @@ b :> <<>>) :
             n \in Keyboards \cup Texts \cup Mice \cup Others \cup Commands }
Contended == { (a :> <<m>> @@ b :> <<n>>) :
                 m \in { Keyboard("type", <<"ctrl">>, "a"), Text("clipboard", <<"a">>),
                         Mouse("drag", <<2>>) },
                 n \in { Keyboard("type", <<"ctrl">>, "!"), Text("host", <<"A">>),
                         Clip("write"), [Mouse("click", <<1>>) EXCEPT !.background = TRUE] } }
AfterPress == { (a :> <<Keyboard("press", <<>>, "a"), Keyboard("release", <<>>, "a"),
                        Text("host", <<"a">>)>> @@ b :> <<>>) }

MCPlans == (Alone \cup Contended) \cup AfterPress
OnePlan == { (a :> <<[Keyboard("type", <<"ctrl">>, "a") EXCEPT !.background = TRUE]>> @@ b :> <<>>) }
=============================================================================
