----------------------------- MODULE Documents -----------------------------
(***************************************************************************)
(* A workflow document on its way to the engine: `nodara-cli migrate`      *)
(* (migration.rs), loading it from disk or from a request body, the static *)
(* validation (validation.rs) and what create_run and WorkflowEngine::run  *)
(* decide from it and from the graph before a node runs.                   *)
(*                                                                         *)
(* A document is [schema, nodes, edges, variables]; "none" is an absent    *)
(* field and "" a blank one.  Labels, positions and metadata are left out, *)
(* and a diagnostic is <<code, where>>.                                    *)
(***************************************************************************)
EXTENDS Values, WorkflowGraph

CONSTANTS Documents,   \* the documents on disk, legacy ones among them
          NodeNames,   \* the names a migration makes up for nodes without an id,
          EdgeNames    \* and for edges, by position

VARIABLES
    file,       \* the document on disk
    stage,      \* how far it got
    wf,         \* the parsed workflow
    report,     \* the diagnostics of its last validation
    plan,       \* the steps `nodara-cli simulate` printed
    \* History variables
    origin,     \* the document before the first migration
    migrations  \* migrations done, at most 2

documentVars == <<file, stage, wf, report, plan, origin, migrations>>

NoWorkflow == [schema |-> "none", nodes |-> <<>>, edges |-> <<>>,
               variables |-> [x \in {} |-> Null]]

Present(field) == field # "none"
Blank(field) == field = ""

\* The fields of a document; `config` is what the node holds, by key.
IsNode(n) == n = [id |-> n.id, type |-> n.type, legacy |-> n.legacy,
                  enabled |-> n.enabled, cond |-> n.cond, config |-> n.config,
                  resultVar |-> n.resultVar, resultPort |-> n.resultPort]
IsEdge(e) == e = [id |-> e.id, src |-> e.src, dst |-> e.dst, kind |-> e.kind,
                  sport |-> e.sport, tport |-> e.tport, branch |-> e.branch,
                  cond |-> e.cond]
IsDocument(d) ==
    /\ d = [schema |-> d.schema, nodes |-> d.nodes, edges |-> d.edges,
            variables |-> d.variables]
    /\ d.nodes \in Seq(ToSet(d.nodes)) /\ d.edges \in Seq(ToSet(d.edges))
    /\ \A i \in DOMAIN d.nodes : IsNode(d.nodes[i])
    /\ \A i \in DOMAIN d.edges : IsEdge(d.edges[i])

\* Values by name are a list.
IsConfig(c) ==
    /\ c = [shape |-> c.shape, at |-> c.at]
    /\ \A k \in DOMAIN c.at : c.at[k].t = "named" => c.at[k].e \in Seq(ToSet(c.at[k].e))

\* Every document is one, and a made-up name is a name.
ASSUME DocumentsAssumption ==
    \A d \in Documents :
        /\ IsDocument(d) /\ \A i \in DOMAIN d.nodes : IsConfig(d.nodes[i].config)
        /\ \A i \in DOMAIN d.nodes : Present(NodeNames[i])
        /\ \A i \in DOMAIN d.edges : Present(EdgeNames[i])

-----------------------------------------------------------------------------
\* The descriptors of the built-in node types (builtin.rs).
Described(inputs, outputs, required, properties) ==
    [inputs |-> inputs, outputs |-> outputs, required |-> required,
     properties |-> properties]
NoPorts == [p \in {} |-> "any"]
Descriptor ==
    [t \in {"core.Start", "core.End", "core.Log", "core.Calculate",
            "core.CalculateMany", "system.Delay", "core.SetVariable"} |->
       CASE t = "core.Start" -> Described(NoPorts, [out |-> "any"], {}, {})
         [] t = "core.End" -> Described([in |-> "any"], NoPorts, {}, {"code"})
         [] t = "core.Log" -> Described([in |-> "any"], [out |-> "string"],
                                        {"message"}, {"message", "level"})
         [] t = "core.Calculate" ->
              Described([in |-> "any"], [result |-> "number"],
                        {"expression", "output_var"}, {"expression", "output_var"})
         [] t = "core.CalculateMany" ->
              Described([in |-> "any"], [out |-> "object"], {"expressions"},
                        {"expressions", "variables", "output_var"})
         [] t = "system.Delay" -> Described([in |-> "any"], [out |-> "any"],
                                            {"duration_ms"}, {"duration_ms"})
         [] t = "core.SetVariable" -> Described([in |-> "any"], [out |-> "any"],
                                                {"name"}, {"name", "value"})]
KnownTypes == DOMAIN Descriptor
\* ValueType::is_compatible_with
Compatible(source, target) ==
    \/ source = target \/ "any" \in {source, target}
    \/ {source, target} = {"string", "path"}

-----------------------------------------------------------------------------
\* validation.rs
Warnings == {"WF114", "WF131", "WF132", "WF143", "WF150", "WF151", "WF152"}
IsValid(diagnostics) == \A d \in diagnostics : d[1] \in Warnings

\* The diagnostics of code `code` at the places that satisfy Bad.
Flag(code, places, Bad(_)) == {<<code, p>> : p \in {q \in places : Bad(q)}}

SchemaDiagnostics(w) ==
    Flag("WF100", {w.schema}, LAMBDA v : v = "1")
        \cup Flag("WF118", {w.schema}, LAMBDA v : v = "2.0")

\* Mutant of NodeDiagnostics: node ids are not compared.
BlankNodesOnly(w) ==
    UNION {Flag("WF102", Positions(w), LAMBDA i : Blank(w.nodes[i].id)),
           Flag("WF104", Positions(w), LAMBDA i : Blank(w.nodes[i].type))}

NodeDiagnostics(w) ==
    LET n(i) == w.nodes[i] IN
    UNION {Flag("WF102", Positions(w), LAMBDA i : Blank(n(i).id)),
           Flag("WF103", Positions(w), LAMBDA i :
                   ~Blank(n(i).id) /\ \E j \in 1..(i - 1) : n(j).id = n(i).id),
           Flag("WF104", Positions(w), LAMBDA i : Blank(n(i).type))}

\* A data edge without both ports is looked at no further.
PortsKnown(w, e) == /\ e.kind = "data" /\ Present(e.sport) /\ Present(e.tport)
                    /\ e.src \in Ids(w) /\ e.dst \in Ids(w)
Outputs(w, e) == LET t == NodeOf(w, e.src).type IN
                 IF t \in KnownTypes THEN Descriptor[t].outputs ELSE NoPorts
Inputs(w, e) == LET t == NodeOf(w, e.dst).type IN
                IF t \in KnownTypes THEN Descriptor[t].inputs ELSE NoPorts
Guarded(e) == e.branch # "always" \/ e.cond # <<>>

EdgeDiagnostics(w) ==
    LET e(i) == w.edges[i] IN
    UNION {Flag("WF110", DOMAIN w.edges, LAMBDA i : Blank(e(i).id)),
           Flag("WF111", DOMAIN w.edges, LAMBDA i :
                   ~Blank(e(i).id) /\ \E j \in 1..(i - 1) : e(j).id = e(i).id),
           Flag("WF112", DOMAIN w.edges, LAMBDA i : e(i).src \notin Ids(w)),
           Flag("WF113", DOMAIN w.edges, LAMBDA i : e(i).dst \notin Ids(w)),
           Flag("WF114", DOMAIN w.edges, LAMBDA i : e(i).src = e(i).dst),
           Flag("WF147", DOMAIN w.edges, LAMBDA i : /\ e(i).kind = "control"
                   /\ (Present(e(i).sport) \/ Present(e(i).tport))),
           Flag("WF146", DOMAIN w.edges, LAMBDA i : /\ e(i).kind = "data"
                   /\ ~(Present(e(i).sport) /\ Present(e(i).tport))),
           Flag("WF148", DOMAIN w.edges, LAMBDA i : /\ e(i).kind = "data"
                   /\ Present(e(i).sport) /\ Present(e(i).tport) /\ Guarded(e(i)))}

PortDiagnostics(w) ==
    LET e(i) == w.edges[i]
        edges == {i \in DOMAIN w.edges : PortsKnown(w, e(i))}
        known(id) == NodeOf(w, id).type \in KnownTypes
    IN UNION {Flag("WF115", edges, LAMBDA i :
                 known(e(i).src) /\ e(i).sport \notin DOMAIN Outputs(w, e(i))),
              Flag("WF116", edges, LAMBDA i :
                 known(e(i).dst) /\ e(i).tport \notin DOMAIN Inputs(w, e(i))),
              Flag("WF117", edges, LAMBDA i :
                 /\ e(i).sport \in DOMAIN Outputs(w, e(i))
                 /\ e(i).tport \in DOMAIN Inputs(w, e(i))
                 /\ ~Compatible(Outputs(w, e(i))[e(i).sport],
                                Inputs(w, e(i))[e(i).tport]))}

TopologyDiagnostics(w) ==
    LET reachable == IF Starts(w) = {} THEN Ids(w) ELSE ReachableFrom(w, EntryNode(w).id)
    IN UNION {Flag("WF120", {0}, LAMBDA x : Starts(w) = {}),
              Flag("WF121", {0}, LAMBDA x : Cardinality(Starts(w)) > 1),
              Flag("WF122", {0}, LAMBDA x :
                      \A i \in Positions(w) : w.nodes[i].type # "core.End"),
              Flag("WF130", {0}, LAMBDA x : FindCycle(w) # <<>>),
              Flag("WF131", Positions(w), LAMBDA i :
                      w.nodes[i].id \notin reachable),
              Flag("WF132", Positions(w), LAMBDA i :
                      /\ w.nodes[i].type \notin {"core.End", "core.Start"}
                      /\ EdgesFrom(w, w.nodes[i].id) = {})}

Keys(n) == IF n.config.shape = "object" THEN DOMAIN n.config.at ELSE {}

\* validate_config: a data edge into the node waives every required key.
CapabilityDiagnostics(w) ==
    LET n(i) == w.nodes[i]
        known == {i \in Positions(w) : n(i).type \in KnownTypes}
        objects == {i \in known : n(i).config.shape = "object"}
    IN UNION {Flag("WF140", Positions(w), LAMBDA i : n(i).type \notin KnownTypes),
              Flag("WF141", known, LAMBDA i : n(i).config.shape # "object"),
              Flag("WF142", objects, LAMBDA i :
                 /\ ~(Descriptor[n(i).type].required \subseteq Keys(n(i)))
                 /\ DataEdgesTo(w, n(i).id) = {}),
              Flag("WF145", objects, LAMBDA i : Blank(n(i).resultVar)),
              Flag("WF144", objects, LAMBDA i :
                 /\ Present(n(i).resultPort)
                 /\ n(i).resultPort \notin DOMAIN Descriptor[n(i).type].outputs),
              Flag("WF143", objects, LAMBDA i :
                 ~(Keys(n(i)) \subseteq Descriptor[n(i).type].properties))}

\* The names a document declares, wherever in it they are written.
Items(v) == IF v.t = "named" THEN ToSet(v.e) ELSE {}
NamesIn(n, key) == {n.config.at[k].s : k \in {j \in Keys(n) :
                        j = key /\ n.config.at[j].t = "string"}} \ {""}
Declares(n) ==
    UNION {{n.resultVar} \ {"none", ""}, NamesIn(n, "output_var"),
           IF n.type = "core.SetVariable" THEN NamesIn(n, "name") ELSE {},
           IF n.type = "core.CalculateMany" /\ "expressions" \in Keys(n)
           THEN {x.name : x \in Items(n.config.at["expressions"])} \ {""} ELSE {}}
Declared(w) == UNION {DOMAIN w.variables, {"last_error"},
                      UNION {Declares(w.nodes[i]) : i \in Positions(w)}}

ConfigValues(n) ==
    LET top == {n.config.at[k] : k \in Keys(n)}
    IN top \cup UNION {{x.of : x \in Items(v)} : v \in top}
TemplateRefs(n) == {v.s : v \in {u \in ConfigValues(n) : u.t \in {"exact", "mixed"}}}
Identifiers(tokens) ==
    {tokens[i].s : i \in {j \in DOMAIN tokens : tokens[j].k = "ident"}} \ {"true", "false"}

ReferenceDiagnostics(w) ==
    LET missing(code, i, names) == {<<code, <<i, x>>>> : x \in names \ Declared(w)}
    IN UNION {UNION {missing("WF150", i, TemplateRefs(w.nodes[i])) : i \in Positions(w)},
              UNION {missing("WF151", i, Identifiers(w.nodes[i].cond)) : i \in Positions(w)},
              UNION {missing("WF152", i, Identifiers(w.edges[i].cond)) :
                        i \in {j \in DOMAIN w.edges : w.edges[j].kind = "control"}}}

Diagnostics(w) ==
    UNION {SchemaDiagnostics(w), NodeDiagnostics(w), EdgeDiagnostics(w),
           PortDiagnostics(w), TopologyDiagnostics(w), CapabilityDiagnostics(w),
           ReferenceDiagnostics(w)}

-----------------------------------------------------------------------------
\* migration.rs and version.rs
Canonical(t) == CASE t \in {"Start", "core.Start"} -> "core.Start"
                  [] t \in {"End", "core.End"} -> "core.End"
                  [] t \in {"log", "core.Log"} -> "core.Log"
                  [] t \in {"delay", "system.Delay"} -> "system.Delay"
                  [] OTHER -> t

EmptyConfig == [shape |-> "object", at |-> [k \in {} |-> Null]]
\* `seconds` is taken out of a delay before it is known to be a number.
NormaliseLegacyConfig(t, at) ==
    LET without(k) == [j \in DOMAIN at \ {k} |-> at[j]]
        with(f, k, v) == [j \in DOMAIN f \cup {k} |-> IF j = k THEN v ELSE f[j]]
    IN CASE t = "system.Delay" /\ "seconds" \in DOMAIN at /\ "duration_ms" \notin DOMAIN at
              -> IF at["seconds"].t = "number"
                 THEN with(without("seconds"), "duration_ms",
                           Times(at["seconds"], Number(1000, 1)))
                 ELSE without("seconds")
         [] t = "core.Log" /\ "text" \in DOMAIN at /\ "message" \notin DOMAIN at
              -> with(without("text"), "message", at["text"])
         [] OTHER -> at
NormaliseConfig(t, config) ==
    CASE config.shape = "object" ->
            [config EXCEPT !.at = NormaliseLegacyConfig(t, config.at)]
      [] config.shape \in {"text", "absent"} -> EmptyConfig
      [] OTHER -> [shape |-> "object", at |-> [value |-> Null]]

\* Node::new and Edge::new: everything the migration does not carry over.
MigratedNode(n, i) ==
    [n EXCEPT !.id = IF Present(n.id) THEN n.id ELSE NodeNames[i],
              !.type = Canonical(n.type), !.legacy = FALSE,
              !.config = NormaliseConfig(Canonical(n.type), n.config),
              !.enabled = TRUE, !.cond = <<>>,
              !.resultVar = "none", !.resultPort = "none"]
\* Mutant of MigratedEdge: the data port mapping is kept.
KeepPorts(e, i) ==
    [e EXCEPT !.id = IF Present(e.id) THEN e.id ELSE EdgeNames[i],
              !.kind = IF Present(e.sport) THEN "data" ELSE "control"]
MigratedEdge(e, i) ==
    [e EXCEPT !.id = IF Present(e.id) THEN e.id ELSE EdgeNames[i],
              !.kind = "control", !.sport = "none", !.tport = "none"]

\* serde_json::from_value::<Workflow>: the fields a workflow must have, and the
\* defaults of those it may leave out.
Parses(doc) ==
    /\ \A i \in DOMAIN doc.nodes : LET n == doc.nodes[i] IN
          Present(n.id) /\ ~n.legacy /\ Present(n.type)
    /\ \A i \in DOMAIN doc.edges : LET e == doc.edges[i] IN
          Present(e.id) /\ Present(e.src) /\ Present(e.dst) /\ e.branch # "other"
ParsedNode(n) == [n EXCEPT !.config = IF n.config.shape = "absent" THEN EmptyConfig
                                      ELSE n.config]
ParsedEdge(e) == [e EXCEPT !.kind = IF Present(e.kind) THEN e.kind ELSE "control"]
Parsed(doc) ==
    [doc EXCEPT
       !.schema = IF doc.schema = "absent" THEN "2.1" ELSE doc.schema,
       !.nodes = [i \in DOMAIN doc.nodes |-> ParsedNode(doc.nodes[i])],
       !.edges = [i \in DOMAIN doc.edges |-> ParsedEdge(doc.edges[i])]]

\* migrate: a result and whether there is one.
IsCurrent(doc) == doc.schema = "2.1"
Migrates(doc) ==
    IF IsCurrent(doc) THEN Parses(doc)
    ELSE /\ doc.nodes # <<>>
         /\ \A i \in DOMAIN doc.nodes : Present(doc.nodes[i].type)
         /\ \A i \in DOMAIN doc.edges : LET e == doc.edges[i] IN
               Present(e.src) /\ Present(e.dst) /\ e.branch # "other"
Migrated(doc) ==
    IF IsCurrent(doc) THEN Parsed(doc)
    ELSE [doc EXCEPT
            !.schema = "2.1",
            !.nodes = [i \in DOMAIN doc.nodes |-> MigratedNode(doc.nodes[i], i)],
            !.edges = [i \in DOMAIN doc.edges |-> MigratedEdge(doc.edges[i], i)]]

-----------------------------------------------------------------------------
DocumentInit ==
    /\ file \in Documents /\ origin = file /\ migrations = 0
    /\ stage = "file" /\ wf = NoWorkflow /\ report = {} /\ plan = <<>>

\* `nodara-cli migrate`, written over the file.
Migrate ==
    /\ stage = "file" /\ migrations < 2
    /\ IF Migrates(file) THEN /\ file' = Migrated(file) /\ stage' = stage
                              /\ migrations' = migrations + 1
       ELSE stage' = "refused" /\ UNCHANGED <<file, migrations>>
    /\ UNCHANGED <<wf, report, plan, origin>>

\* workflow_io::load looks at schema_version alone before it parses; a request
\* body is parsed straight away.
ParseFile(checked) ==
    /\ stage = "file"
    /\ LET ok == Parses(file) /\ (checked => file.schema \in {"absent", "2.1"})
       IN /\ stage' = IF ok THEN "loaded" ELSE "refused"
          /\ wf' = IF ok THEN Parsed(file) ELSE wf
    /\ UNCHANGED <<file, report, plan, origin, migrations>>
Load == ParseFile(TRUE)
Receive == ParseFile(FALSE)

\* `nodara-cli validate`, POST /workflows/validate
Validate ==
    /\ stage = "loaded" /\ stage' = "validated" /\ report' = Diagnostics(wf)
    /\ UNCHANGED <<file, wf, plan, origin, migrations>>

\* The elements of s that are in S, in their order.
Kept(s, S) ==
    LET kept[k \in Nat] == IF k = 0 THEN <<>>
                           ELSE IF s[k] \in S THEN Append(kept[k - 1], s[k])
                           ELSE kept[k - 1]
    IN kept[Len(s)]

\* `nodara-cli simulate`: the plan is the reachable part of the order, if any.
Simulate ==
    /\ stage = "loaded" /\ stage' = "simulated" /\ report' = Diagnostics(wf)
    /\ LET topo == TopologicalOrder(wf)
           reachable == IF EntryNodes(wf) = {} THEN {}
                        ELSE ReachableFrom(wf, EntryNode(wf).id)
       IN plan' = IF topo.ok THEN Kept(topo.order, reachable) ELSE <<>>
    /\ UNCHANGED <<file, wf, origin, migrations>>

\* create_run validates unless the request says not to; the engine validates
\* always, then looks for an entry point and an order.
Submit(check) ==
    /\ stage = "loaded" /\ report' = Diagnostics(wf)
    /\ stage' = CASE ~IsValid(report') /\ check -> "rejected"
                  [] ~IsValid(report') /\ ~check -> "failedFast"
                  [] IsValid(report') /\ EntryNodes(wf) = {} -> "noEntry"
                  [] OTHER -> IF TopologicalOrder(wf).ok THEN "accepted"
                              ELSE "graphError"
    /\ UNCHANGED <<file, wf, plan, origin, migrations>>

DocumentNext == Migrate \/ Load \/ Receive \/ Validate \/ Simulate
                    \/ \E check \in BOOLEAN : Submit(check)
DocumentSpec == DocumentInit /\ [][DocumentNext]_documentVars

-----------------------------------------------------------------------------
\* What validation lets through, the engine can run: the two checks it makes
\* afterwards cannot fail any more, and in the order it will walk every node
\* stands once and every control edge leads forward, with one start and an end.
\* (Engine.tla assumes this of the workflows it is given.)
AcceptedIsRunnable ==
    /\ stage \notin {"noEntry", "graphError"}
    /\ stage = "accepted" =>
         LET order == TopologicalOrder(wf).order
             at(id) == CHOOSE i \in DOMAIN order : order[i] = id
         IN /\ Len(order) = Len(wf.nodes) /\ ToSet(order) = Ids(wf)
            /\ \A link \in Links(wf) : at(link[1]) < at(link[2])
            /\ \A i \in DOMAIN wf.edges : {wf.edges[i].src, wf.edges[i].dst} \subseteq Ids(wf)
            /\ Cardinality(Starts(wf)) = 1 /\ EntryNodes(wf) = Starts(wf)

\* The depth-first search reports a cycle exactly when the control edges have
\* one, what it reports is one, and the order is refused in the same cases
\* unless two nodes share an id.  (The workflow is what it was when it was loaded.)
Distinct(w) == Cardinality(Ids(w)) = Len(w.nodes)
CycleIsReal ==
    stage = "loaded" =>
        LET cycle == FindCycle(wf)
        IN
        /\ (cycle # <<>>) <=> \E id \in Ids(wf) : id \in Onward(wf, id)
        /\ cycle # <<>> => /\ cycle[1] = cycle[Len(cycle)]
                           /\ \A i \in 1..(Len(cycle) - 1) :
                                 <<cycle[i], cycle[i + 1]>> \in Links(wf)
        /\ Distinct(wf) => (TopologicalOrder(wf).ok <=> cycle = <<>>)

\* The simulated plan names what a run can reach from its entry, once each and
\* after everything that leads to it, and with one start it is the complement
\* of the unreachable-node warnings.  (Two nodes with one id are listed twice.)
PlanIsASchedule ==
    stage = "simulated" /\ plan # <<>> /\ Distinct(wf) =>
        LET entry == EntryNode(wf).id
        IN /\ ToSet(plan) = {entry} \cup Onward(wf, entry)
           /\ \A i \in DOMAIN plan : LET later == Onward(wf, plan[i])
                                   IN \A j \in DOMAIN plan : plan[j] \in later => i < j
           /\ \A i, j \in DOMAIN plan : plan[i] = plan[j] => i = j
           /\ Starts(wf) # {} => \A i \in Positions(wf) :
                 <<"WF131", i>> \in report <=> wf.nodes[i].id \notin ToSet(plan)

\* What the graph algorithms answer is true of the graph (graph.rs:150-290).
GraphAnswers == CycleIsReal /\ PlanIsASchedule

\* A migration is done once: its result loads, a second one changes nothing, no
\* node or edge is lost or rewired, and no edge is left that transfers data
\* without being declared to.
MigrationSettles ==
    migrations > 0 =>
        /\ IsCurrent(file) /\ Parses(file) /\ Migrated(file) = Parsed(file)
        /\ Len(file.nodes) = Len(origin.nodes) /\ Len(file.edges) = Len(origin.edges)
        /\ \A i \in DOMAIN file.edges :
              /\ file.edges[i].src = origin.edges[i].src
              /\ file.edges[i].dst = origin.edges[i].dst
              /\ ~IsCurrent(origin) => file.edges[i].kind = "control"
        /\ ~IsCurrent(origin) => \A d \in EdgeDiagnostics(Parsed(file)) :
              d[1] \notin {"WF146", "WF147", "WF148"}

\* "Legacy edges without this field are rejected with WF118 until migrated"
\* (docs/schema.md).
MissingKindIsRefused ==
    stage \in {"validated", "simulated"} /\ migrations = 0
        /\ (\E i \in DOMAIN file.edges : ~Present(file.edges[i].kind))
    => \E d \in report : d[1] = "WF118"

\* "`seconds` becomes `duration_ms`" (docs/schema.md).
SecondsBecomeDuration ==
    migrations > 0 /\ ~IsCurrent(origin) => \A i \in DOMAIN origin.nodes :
        /\ origin.nodes[i].config.shape = "object"
        /\ Canonical(origin.nodes[i].type) = "system.Delay"
        /\ "seconds" \in DOMAIN origin.nodes[i].config.at
        => "duration_ms" \in Keys(file.nodes[i])
=============================================================================
