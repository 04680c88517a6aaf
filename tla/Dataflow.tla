------------------------------ MODULE Dataflow ------------------------------
(***************************************************************************)
(* The values of a run: the scope of variables (context.rs), the inputs    *)
(* collected from data edges, the configuration resolved from templates,   *)
(* what the built-in nodes compute (builtin.rs) and which edges their      *)
(* outcome activates (engine.rs).  It runs the documents that Documents    *)
(* accepts; Engine.tla has the same loop with its control (pause, cancel,  *)
(* approval, retry) and free choices in place of the values.               *)
(*                                                                         *)
(* Secrets, dotted paths and object ports are left out.                    *)
(***************************************************************************)
EXTENDS Documents, Expressions

VARIABLES
    outcome,    \* "none" before the run, then "running", "completed", "failed"
    order,      \* the topological order
    pos,        \* position in it
    activated,  \* ids of the nodes an edge has activated
    scope,      \* the run's variables
    outputs,    \* node_outputs: output ports of the nodes that succeeded
    \* History variables
    dangling    \* <<node, name, who had succeeded>> of unresolved templates

runVars == <<outcome, order, pos, activated, scope, outputs, dangling>>
vars == <<documentVars, runVars>>

Current == NodeOf(wf, order[pos])
Put(f, k, v) == [x \in DOMAIN f \cup {k} |-> IF x = k THEN v ELSE f[x]]

\* Booleans and null are not used as variable values.
IsString(v) == v.t \in {"string", "exact", "mixed", "expression"}
IsInteger(v) == v.t = "number" /\ v.n % v.d = 0

\* coerce_value_for_schema, for the types the built-in schemas ask for.
SchemaType(key) == CASE key \in {"message", "expression", "output_var", "name"} -> "string"
                     [] key = "duration_ms" -> "integer"
                     [] OTHER -> "any"
Coerce(v, type) ==
    CASE type = "string" /\ v.t = "number" -> Digits(v)
      [] type = "string" /\ v.t = "object" -> Text("json")
      [] type = "integer" /\ v.t = "string" /\ v.s = "digits" /\ v.n % v.d = 0
            -> Number(v.n, v.d)
      [] OTHER -> v
\* resolve_config_value: a template no variable resolves stays as it is.
ResolveText(v, key) ==
    CASE v.t = "exact" /\ v.s \in DOMAIN scope -> Coerce(scope[v.s], SchemaType(key))
      [] v.t = "mixed" /\ v.s \in DOMAIN scope -> Text("rendered")
      [] OTHER -> v
ResolveItem(x, key) == [name |-> x.name, of |-> ResolveText(x.of, key)]
Resolve(v, key) ==
    IF v.t # "named" THEN ResolveText(v, key)
    ELSE LET inner == IF key = "expressions" THEN "expression" ELSE "any"
         IN Named([i \in DOMAIN v.e |-> ResolveItem(v.e[i], inner)])
Resolved(n) == [k \in Keys(n) |-> Resolve(n.config.at[k], k)]

ControlFrom(n) == {wf.edges[i] : i \in EdgesFrom(wf, n.id)}

\* An input port receives what the source produced, or null; of two edges into
\* one port the last counts.
InputValue(e) ==
    IF e.src \in DOMAIN outputs /\ e.sport \in DOMAIN outputs[e.src]
    THEN outputs[e.src][e.sport] ELSE Null
InputsOf(n) ==
    LET into(p) == {i \in DataEdgesTo(wf, n.id) : wf.edges[i].tport = p}
        last(p) == CHOOSE i \in into(p) : \A j \in into(p) : j <= i
    IN [p \in {wf.edges[i].tport : i \in DataEdgesTo(wf, n.id)} |->
           InputValue(wf.edges[last(p)])]
\* with_input_fallback: explicit configuration wins.
Fallback(config, inputs, key) ==
    IF key \notin DOMAIN config /\ "in" \in DOMAIN inputs
    THEN Put(config, key, inputs["in"]) ELSE config

Tokens(v) == CASE v.t = "expression" -> v.e
               [] v.t = "string" /\ v.s = "digits" /\ IsInteger(Number(v.n, v.d))
                    -> <<Num(v.n \div v.d)>>
               [] v.t = "string" -> <<Id(v.s)>>
               [] OTHER -> <<Sym("{")>>

Done(ports, published) == [ok |-> TRUE, ports |-> ports, published |-> published]
Nothing == [x \in {} |-> Null]
Publish(published) == [x \in DOMAIN scope \cup DOMAIN published |->
                          IF x \in DOMAIN published THEN published[x] ELSE scope[x]]
InvalidConfig == [ok |-> FALSE, ports |-> Nothing, published |-> Nothing]

\* The executors, on a resolved configuration and the input ports.
ExecuteLog(config, inputs) ==
    LET c == Fallback(config, inputs, "message") IN
    IF "message" \in DOMAIN c /\ IsString(c["message"])
    THEN Done([out |-> c["message"]], Nothing) ELSE InvalidConfig
Calculated(name, value) ==
    IF value.ok THEN Done([result |-> value.v], Put(Nothing, name, value.v))
    ELSE InvalidConfig
ExecuteCalculate(config, inputs) ==
    IF /\ {"expression", "output_var"} \subseteq DOMAIN config
       /\ IsString(config["expression"]) /\ IsString(config["output_var"])
    THEN Calculated(config["output_var"].s, Evaluate(Tokens(config["expression"]), scope))
    ELSE InvalidConfig
\* Each result is published before the next expression is looked at, and stays
\* published when a later one fails; seed variables hide the run's own.
Extended(so, name, value) ==
    IF so.ok /\ name \notin DOMAIN so.published \cup {""} /\ value.ok
    THEN [so EXCEPT !.scope = Put(so.scope, name, value.v),
                    !.published = Put(so.published, name, value.v)]
    ELSE [so EXCEPT !.ok = FALSE]
Collected(config, all) ==
    IF ~all.ok THEN [InvalidConfig EXCEPT !.published = all.published]
    ELSE Done([out |-> Object],
              IF "output_var" \in DOMAIN config /\ config["output_var"].s # ""
              THEN Put(all.published, config["output_var"].s, Object) ELSE all.published)
Results(seeded, items) ==
    LET soFar[n \in Nat] ==
            IF n = 0 THEN [ok |-> TRUE, scope |-> seeded, published |-> Nothing]
            ELSE Extended(soFar[n - 1], items[n].name,
                          Evaluate(Tokens(items[n].of), soFar[n - 1].scope))
    IN soFar
ExecuteCalculateMany(config) ==
    LET IsNamed(key) == key \in DOMAIN config /\ config[key].t = "named"
        seeds == IF IsNamed("variables") THEN config["variables"].e ELSE <<>>
        seeded == FoldLeft(LAMBDA s, x : Put(s, x.name, x.of), scope, seeds)
        items == config["expressions"].e
    IN IF /\ IsNamed("expressions") /\ items # <<>>
          /\ \A x \in Items(config["expressions"]) : IsString(x.of)
          /\ "output_var" \in DOMAIN config => IsString(config["output_var"])
       THEN Collected(config, Results(seeded, items)[Len(items)])
       ELSE InvalidConfig
ExecuteDelay(config, inputs) ==
    LET c == Fallback(config, inputs, "duration_ms") IN
    IF "duration_ms" \in DOMAIN c /\ IsInteger(c["duration_ms"])
    THEN Done([out |-> IF c["duration_ms"].n >= 0 THEN c["duration_ms"]
                       ELSE Number(0, 1)], Nothing)
    ELSE InvalidConfig
ExecuteSetVariable(config, inputs) ==
    LET c == Fallback(config, inputs, "value")
        value == IF "value" \in DOMAIN c THEN c["value"] ELSE Null
    IN IF "name" \in DOMAIN c /\ IsString(c["name"])
       THEN Done([out |-> value], Put(Nothing, c["name"].s, value)) ELSE InvalidConfig

Execute(n) ==
    LET c == Resolved(n) in == InputsOf(n) IN
    CASE n.type = "core.Start" -> Done([out |-> Null], Nothing)
      [] n.type = "core.End" -> Done(Nothing, Nothing)
      [] n.type = "core.Log" -> ExecuteLog(c, in)
      [] n.type = "core.Calculate" -> ExecuteCalculate(c, in)
      [] n.type = "core.CalculateMany" -> ExecuteCalculateMany(c)
      [] n.type = "system.Delay" -> ExecuteDelay(c, in)
      [] n.type = "core.SetVariable" -> ExecuteSetVariable(c, in)

\* result_var names a variable for one output port, "out" unless told otherwise.
Captured(n, ports) ==
    CASE Present(n.resultPort) ->
            IF n.resultPort \in DOMAIN ports THEN ports[n.resultPort] ELSE Null
      [] "out" \in DOMAIN ports -> ports["out"]
      [] OTHER -> IF ports = Nothing THEN Null ELSE ports["result"]
\* Mutant of Capture: a result that names its port is not published.
CaptureOut(n, published, ports) ==
    IF Present(n.resultVar) /\ ~Present(n.resultPort)
    THEN Put(scope, n.resultVar, Captured(n, ports))
    ELSE Publish(published)
Capture(n, published, ports) ==
    IF Present(n.resultVar) THEN Put(Publish(published), n.resultVar, Captured(n, ports))
    ELSE Publish(published)

\* edge_is_taken: a guard that cannot be evaluated counts as false.
Holds(value) == value.ok /\ Truthy(value.v)
Taken(e, result, s) ==
    /\ e.branch \in {"always", result}
    /\ e.cond # <<>> => Holds(Evaluate(e.cond, s))
Route(n, result, s) ==
    activated \cup {e.dst : e \in {f \in ControlFrom(n) : Taken(f, result, s)}}

-----------------------------------------------------------------------------
RunInit ==
    /\ outcome = "none" /\ order = <<>> /\ pos = 0 /\ activated = {} /\ outputs = [x \in {} |-> Nothing]
    /\ scope = Nothing /\ dangling = {}
Init == DocumentInit /\ RunInit

Begin ==
    /\ stage = "accepted" /\ outcome = "none"
    /\ outcome' = "running" /\ pos' = 1 /\ scope' = wf.variables
    /\ order' = TopologicalOrder(wf).order /\ activated' = {EntryNode(wf).id}
    /\ UNCHANGED <<documentVars, outputs, dangling>>

AtNode == outcome = "running" /\ pos <= Len(order)
Guard == Evaluate(Current.cond, scope)
Ready == /\ AtNode /\ Current.id \in activated /\ Current.enabled
         /\ Current.cond # <<>> => Holds(Guard)

\* The run is over when the order is.
Finish ==
    /\ outcome = "running" /\ pos > Len(order) /\ outcome' = "completed"
    /\ UNCHANGED <<documentVars, order, pos, activated, scope, outputs, dangling>>

\* A node no edge activated, or whose condition is false, is passed over.
PassOver ==
    /\ AtNode
    /\ \/ Current.id \notin activated
       \/ Current.enabled /\ Current.cond # <<>> /\ Guard.ok /\ ~Truthy(Guard.v)
    /\ pos' = pos + 1
    /\ UNCHANGED <<documentVars, outcome, order, activated, scope, outputs, dangling>>

\* A disabled node hands its activation on as if it had succeeded.
PassThrough ==
    /\ AtNode /\ Current.id \in activated /\ ~Current.enabled
    /\ activated' = Route(Current, "success", scope) /\ pos' = pos + 1
    /\ UNCHANGED <<documentVars, outcome, order, scope, outputs, dangling>>

BrokenCondition ==
    /\ AtNode /\ Current.id \in activated /\ Current.enabled
    /\ Current.cond # <<>> /\ ~Guard.ok
    /\ outcome' = "failed"
    /\ UNCHANGED <<documentVars, order, pos, activated, scope, outputs, dangling>>

\* What the node reads before it is executed.
Read(n) ==
    dangling' = dangling \cup
        {<<n.id, x, DOMAIN outputs>> : x \in TemplateRefs(n) \ DOMAIN scope}

Succeed(n, result) ==
    /\ result.ok
    /\ scope' = Capture(n, result.published, result.ports)
    /\ outputs' = Put(outputs, n.id, result.ports)
    /\ activated' = Route(n, "success", scope')
    /\ outcome' = IF n.type = "core.End" THEN "completed" ELSE outcome
    /\ pos' = pos + 1

\* What an executor published before it failed stays.  A failure is published
\* as last_error and handled by a failure edge, if one is taken; otherwise it
\* is the run's.
Fail(n, result) ==
    /\ ~result.ok
    /\ LET after == Put(Publish(result.published), "last_error", Object)
           handled == \E e \in ControlFrom(n) :
                         /\ \E f \in ControlFrom(n) : f.branch = "failure"
                         /\ Taken(e, "failure", after)
       IN /\ scope' = after
          /\ IF handled THEN /\ activated' = Route(n, "failure", after)
                             /\ pos' = pos + 1 /\ outcome' = outcome
             ELSE outcome' = "failed" /\ UNCHANGED <<activated, pos>>
    /\ UNCHANGED outputs

ExecuteNode ==
    /\ Ready
    /\ \E n \in {Current} : \E result \in {Execute(n)} :
          Read(n) /\ (Succeed(n, result) \/ Fail(n, result))
    /\ UNCHANGED <<documentVars, order>>

RunNext == Begin \/ Finish \/ PassOver \/ PassThrough \/ BrokenCondition
              \/ ExecuteNode

Next == (DocumentNext /\ UNCHANGED runVars) \/ RunNext
Spec == Init /\ [][Next]_vars

-----------------------------------------------------------------------------
\* Every edge is taken exactly when its guard, read by the documented grammar,
\* is true in the scope the node left behind.
GuardsMeanWhatTheySay ==
    [][LET n == Current
           Means(e) == e.cond # <<>> => LET m == Meaning(e.cond, scope')
                                        IN m.ok /\ Truthy(m.v)
           result == IF n.id \in DOMAIN outputs' \/ ~n.enabled THEN "success" ELSE "failure"
       IN outcome = "running" /\ activated' # activated =>
             activated' = activated \cup
                {e.dst : e \in {f \in ControlFrom(n) :
                                   f.branch \in {"always", result} /\ Means(f)}}]_vars

\* A template the validator does not warn about stays unresolved only as long
\* as no node that publishes the name has succeeded (or nothing has failed).
DanglingHasAWriter ==
    \A d \in dangling :
        LET writers == {i \in Positions(wf) : /\ d[2] \in Declares(wf.nodes[i])
                                              /\ <<"WF143", i>> \notin report}
        IN \/ <<"WF150", <<PositionOf(wf, d[1]), d[2]>>>> \in report
           \/ d[2] = "last_error"
           \/ /\ \E i \in Positions(wf) : d[2] \in Declares(wf.nodes[i])
              /\ \A j \in writers : wf.nodes[j].id \notin d[3]

\* A run stays inside what validation and simulation call reachable.
RunStaysReachable ==
    activated # {} =>
        /\ activated \subseteq ReachableFrom(wf, EntryNode(wf).id)
        /\ \A id \in activated : <<"WF131", PositionOf(wf, id)>> \notin report

\* What static validation concluded about names and reachability holds in the run
\* (validation.rs:508-540, 587-705; engine.rs:557-727).
ValidationForetells == DanglingHasAWriter /\ RunStaysReachable
=============================================================================
