----------------------------- MODULE MCDocument -----------------------------
EXTENDS Dataflow

MCNodeNames == <<"node0", "node1", "node2", "node3">>
MCEdgeNames == <<"e1", "e2", "e3", "e4">>

\* Node and edge builders with the fields a document usually leaves out.
N(id, type, at) ==
    [id |-> id, type |-> type, legacy |-> FALSE, enabled |-> TRUE, cond |-> <<>>,
     config |-> [shape |-> "object", at |-> at], resultVar |-> "none",
     resultPort |-> "none"]
E(id, src, dst) ==
    [id |-> id, src |-> src, dst |-> dst, kind |-> "control", sport |-> "none",
     tport |-> "none", branch |-> "always", cond |-> <<>>]
Doc(schema, nodes, edges) ==
    [schema |-> schema, nodes |-> nodes, edges |-> edges,
     variables |-> [v |-> Number(3, 1), t |-> Text("word")]]
No == [x \in {} |-> Null]
Hello == [message |-> Text("hello")]
Start == N("a", "core.Start", No)
Log == N("b", "core.Log", Hello)
End == N("c", "core.End", No)
Chain == <<E("e1", "a", "b"), E("e2", "b", "c")>>

\* Every graph of three nodes, ids shared or not, and at most three edges.
Shapes ==
    {Doc("2.1", <<[Start EXCEPT !.id = i], [Log EXCEPT !.id = j, !.enabled = on], End>>,
         [k \in DOMAIN es |-> E(MCEdgeNames[k], es[k][1], es[k][2])]) :
        i \in {"a", "c"}, j \in {"a", "b"}, on \in BOOLEAN,
        es \in UNION {[1..k -> {"a", "b", "c"} \X {"a", "b", "c", "d"}] : k \in 0..2}
               \cup [1..3 -> {<<"a", "b">>, <<"b", "c">>, <<"c", "b">>, <<"c", "a">>,
                              <<"a", "c">>, <<"b", "b">>}]}

\* Every guard of at most three tokens, and some longer ones.
Tokens0 == {Num(0), Num(2), Id("v"), Id("t"), Sym("-"), Sym("!"), Sym("<"),
            Sym("=="), Sym("/"), Sym("^"), Sym("("), Sym(")"), Sym("&&"), Sym("||")}
Longer == {<<Num(7), Sym("-"), Num(4), Sym("-"), Id("v")>>,
           <<Num(1), Sym("||"), Num(0), Sym("&&"), Num(0)>>,
           <<Num(2), Sym("*"), Num(3), Sym("%"), Num(4), Sym("+"), Num(-2)>>,
           <<Num(1), Sym("||"), Num(1), Sym("/"), Num(0)>>,
           <<Sym("-"), Num(2), Sym("^"), Num(2), Sym("+"), Num(4)>>,
           <<Num(2), Sym("^"), Sym("-"), Num(1), Sym(">="), Num(1)>>,
           <<Sym("!"), Sym("!"), Sym("("), Id("v"), Sym("!="), Num(3), Sym(")")>>,
           <<Sym("("), Sym("("), Sym("("), Num(1), Sym(")"), Sym(")"), Sym(")")>>}
Guards ==
    {Doc("2.1", <<Start, Log, End>>,
         <<[E("e1", "a", "b") EXCEPT !.cond = g], E("e2", "b", "c")>>) :
        g \in (UNION {[1..k -> Tokens0] : k \in 1..3}) \cup Longer}

Of(name, tokens) == [name |-> name, of |-> Expression(tokens)]

\* What a node may hold: a value, a template, a failure, a guard of its own.
Middles ==
    {N("b", "core.Log", [message |-> m]) :
        m \in {Exact("v"), Mixed("t"), Exact("r"), Mixed("q"), Number(1, 1)}}
    \cup {N("b", "core.Log", No), N("b", "core.Log", [level |-> Text("info")]),
          N("b", "system.Delay", [duration_ms |-> Exact("v")]),
          N("b", "system.Delay", [duration_ms |-> Exact("t")]),
          N("b", "system.Delay", [duration_ms |-> Number(-5, 1)]),
          N("b", "core.SetVariable", [name |-> Text("r"), value |-> Mixed("v")]),
          N("b", "core.SetVariable", [name |-> Text("r"), value |-> Exact("last_error")]),
          N("b", "core.Calculate", [expression |-> Expression(<<Id("v"), Sym("/"), Num(2)>>),
                                    output_var |-> Text("r")]),
          N("b", "core.Calculate", [expression |-> Exact("v"), output_var |-> Text("r")]),
          N("b", "core.Calculate", [expression |-> Exact("t"), output_var |-> Exact("q")]),
          N("b", "core.Log", [message |-> Text("m"), output_var |-> Text("r")])}
    \cup {N("b", "core.CalculateMany", at) : at \in
            {[expressions |-> Named(<<Of("r", <<Id("v")>>), Of("q", <<Id("r"), Sym("+"), Num(1)>>)>>)],
             [expressions |-> Named(<<Of("r", <<Num(1)>>), Of("q", <<Id("t")>>)>>)],
             [expressions |-> Named(<<Of("r", <<Num(1)>>), Of("r", <<Num(2)>>)>>)],
             [expressions |-> Named(<<Of("r", <<Num(1)>>), [name |-> "q", of |-> Exact("r")]>>)],
             [expressions |-> Named(<<Of("q", <<Id("v")>>), Of("", <<Num(1)>>)>>),
              variables |-> Named(<<[name |-> "v", of |-> Number(8, 1)]>>)],
             [expressions |-> Named(<<Of("q", <<Id("p")>>)>>), output_var |-> Text("r"),
              variables |-> Named(<<[name |-> "p", of |-> Exact("v")]>>)],
             [expressions |-> Named(<<>>)]}}
Lasts == {N("d", "core.Log", [message |-> m]) : m \in {Exact("r"), Mixed("q"), Exact("last_error")}}
           \cup {N("d", "core.Log", No)}
Setting(rv, rp, c) == [resultVar |-> rv, resultPort |-> rp, cond |-> c]
Settings == {Setting("none", "none", c) : c \in {<<>>, <<Id("t")>>, <<Id("q")>>,
                                                 <<Id("v"), Sym("<"), Num(1)>>}}
              \cup {Setting(rv, "none", <<>>) : rv \in {"", "q"}}
              \cup {Setting("r", rp, <<>>) : rp \in {"none", "out", "result"}}
DataEdge(s, p, d) == [E("e9", s, d) EXCEPT !.kind = "data", !.sport = p, !.tport = "in"]
Runs ==
    {Doc("2.1", <<Start, [m EXCEPT !.resultVar = x.resultVar, !.resultPort = x.resultPort,
                                   !.cond = x.cond], l, End>>,
         <<E("e1", "a", "b"), [E("e2", "b", "d") EXCEPT !.branch = br], E("e3", "d", "c")>>
             \o extra) :
        m \in Middles, l \in Lasts, x \in Settings, br \in {"always", "success", "failure"},
        extra \in {<<>>, <<DataEdge("b", "out", "d")>>, <<DataEdge("d", "out", "b")>>}}

\* Documents of every schema with the fields of older formats, and broken ones.
OldNodes == {[N(i, t, at) EXCEPT !.legacy = lg, !.enabled = FALSE] :
               i \in {"b", "none", "node0", ""},
               t \in {"log", "delay", "core.Log", "my.Node", "none", ""}, lg \in BOOLEAN,
               at \in {No, [text |-> Text("m")], [seconds |-> Number(1, 2)],
                       [seconds |-> Exact("v")]}}
OldShapes == {[Log EXCEPT !.config = [shape |-> sh, at |-> No]] :
                sh \in {"text", "scalar", "absent"}}
OldEdges == {[E("none", "b", "c") EXCEPT !.id = i, !.kind = k, !.sport = p, !.tport = q,
                                         !.branch = br] :
               i \in {"none", "e1", ""}, k \in {"none", "control", "data"},
               p \in {"none", "out"}, q \in {"none", "in"}, br \in {"always", "other"}}
Old ==
    {Doc(v, <<[Start EXCEPT !.id = i], n, End>>, Chain) :
        v \in {"absent", "1", "2.0", "2.1"}, i \in {"a", "none"}, n \in OldNodes \cup OldShapes}
    \cup {Doc(v, <<Start, Log, End>>, <<E("e1", "a", "b"), e>>) :
            v \in {"absent", "1", "2.0", "2.1"}, e \in OldEdges}
    \cup {Doc(v, <<>>, <<>>) : v \in {"1", "2.1"}}

MCDocuments == Shapes \cup Guards \cup Runs \cup Old
=============================================================================
