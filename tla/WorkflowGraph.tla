--------------------------- MODULE WorkflowGraph ---------------------------
(***************************************************************************)
(* The graph of a workflow (graph.rs): who leads where, the entry point,   *)
(* and the three traversals.  A traversal is a loop, given by its step and *)
(* run for as many rounds as it can need; at rest a step changes nothing.  *)
(* A queue is never shortened here: what has been taken from it is counted *)
(* by `done`, so that it ends as the list of what went through it.         *)
(* `edge` and `next` count the edges looked at, `root` the nodes.          *)
(***************************************************************************)
EXTENDS Integers, Sequences, FiniteSets, SequencesExt

Positions(w) == DOMAIN w.nodes
Ids(w) == {w.nodes[i].id : i \in Positions(w)}
\* Of two nodes with one id the first counts.
PositionOf(w, id) == CHOOSE i \in Positions(w) :
                         /\ w.nodes[i].id = id
                         /\ \A j \in Positions(w) : w.nodes[j].id = id => i <= j
NodeOf(w, id) == w.nodes[PositionOf(w, id)]

\* Edges by their positions.
EdgesOf(w, kind) == {i \in DOMAIN w.edges : w.edges[i].kind = kind}
EdgesFrom(w, id) == {i \in EdgesOf(w, "control") : w.edges[i].src = id}
EdgesTo(w, id) == {i \in EdgesOf(w, "control") : w.edges[i].dst = id}
DataEdgesTo(w, id) == {i \in EdgesOf(w, "data") : w.edges[i].dst = id}

Roots(w) == {i \in Positions(w) : EdgesTo(w, w.nodes[i].id) = {}}
Starts(w) == {i \in Positions(w) : w.nodes[i].type = "core.Start"}
\* entry_node: the first core.Start, else the first root, else none.
EntryNodes(w) == IF Starts(w) # {} THEN Starts(w) ELSE Roots(w)
EntryNode(w) == w.nodes[CHOOSE i \in EntryNodes(w) : \A j \in EntryNodes(w) : i <= j]

Rounds(w) == Len(w.nodes) * (Len(w.edges) + 2)
\* Edge i leads from `id` to a node there is.
Leads(w, i, id) == LET e == w.edges[i] IN
                   e.kind = "control" /\ e.src = id /\ e.dst \in Ids(w)

-----------------------------------------------------------------------------
\* reachable_from: breadth first; `visited` behind `done` is the queue.
VisitEdge(w, s) ==
    LET target == w.edges[s.edge + 1].dst
        new == Leads(w, s.edge + 1, s.visited[s.done + 1]) /\ target \notin ToSet(s.visited)
    IN [s EXCEPT !.edge = @ + 1, !.visited = IF new THEN Append(@, target) ELSE @]
VisitStep(w, s) ==
    CASE s.done = Len(s.visited) -> s
      [] s.done < Len(s.visited) /\ s.edge = Len(w.edges) ->
            [s EXCEPT !.done = @ + 1, !.edge = 0]
      [] s.done < Len(s.visited) /\ s.edge < Len(w.edges) -> VisitEdge(w, s)
Visits(w, id) ==
    LET run[n \in Nat] == IF n = 0 THEN [visited |-> <<id>>, done |-> 0, edge |-> 0]
                          ELSE VisitStep(w, run[n - 1])
    IN run
ReachableFrom(w, id) ==
    IF id \in Ids(w) THEN ToSet(Visits(w, id)[Rounds(w)].visited) ELSE {}

-----------------------------------------------------------------------------
\* topological_order: Kahn's algorithm; `order` behind `done` is the ready queue.
InDegree(w) == [id \in Ids(w) |->
                   Cardinality({i \in EdgesTo(w, id) : w.edges[i].src \in Ids(w)})]
FindReady(w, s) ==
    LET id == w.nodes[s.root + 1].id
    IN [s EXCEPT !.root = @ + 1, !.order = IF s.degree[id] = 0 THEN Append(@, id) ELSE @]
ReleaseEdge(w, s) ==
    LET target == w.edges[s.edge + 1].dst
        counts == Leads(w, s.edge + 1, s.order[s.done + 1]) /\ s.degree[target] > 0
    IN [s EXCEPT !.edge = @ + 1,
                 !.degree = IF counts THEN [s.degree EXCEPT ![target] = s.degree[target] - 1]
                            ELSE s.degree,
                 !.order = IF counts /\ s.degree[target] = 1 THEN Append(@, target) ELSE @]
KahnStep(w, s) ==
    CASE s.root < Len(w.nodes) -> FindReady(w, s)
      [] s.root = Len(w.nodes) /\ s.done = Len(s.order) -> s
      [] s.root = Len(w.nodes) /\ s.done < Len(s.order) /\ s.edge = Len(w.edges) ->
            [s EXCEPT !.done = @ + 1, !.edge = 0]
      [] s.root = Len(w.nodes) /\ s.done < Len(s.order) /\ s.edge < Len(w.edges) ->
            ReleaseEdge(w, s)
Kahn(w) ==
    LET run[n \in Nat] ==
            IF n = 0 THEN [root |-> 0, order |-> <<>>, done |-> 0, edge |-> 0,
                           degree |-> InDegree(w)]
            ELSE KahnStep(w, run[n - 1])
    IN run

\* Mutant of TopologicalOrder: the declaration order, whatever the edges say.
DeclarationOrder(w) ==
    [ok |-> TRUE, order |-> [i \in Positions(w) |-> w.nodes[i].id]]

TopologicalOrder(w) ==
    LET order == Kahn(w)[Rounds(w)].order
    IN [ok |-> Len(order) = Cardinality(Ids(w)), order |-> order]

-----------------------------------------------------------------------------
\* find_cycle and dfs_cycle: depth first; the call stack is `stack` with what each
\* call has seen of its edges in `next`.  A cycle that was found ends the walk.
Enter(s, id) == [s EXCEPT !.colour = [s.colour EXCEPT ![id] = "grey"],
                          !.stack = Append(@, id)]
Leave(s, id) == [s EXCEPT !.colour = [s.colour EXCEPT ![id] = "black"],
                          !.stack = Front(@)]
TryRoot(w, s) ==
    LET id == w.nodes[s.root + 1].id
        after == [s EXCEPT !.root = @ + 1]
    IN IF s.colour[id] = "white" THEN Enter(after, id) ELSE after
FollowEdge(w, s, id) ==
    LET i == s.next[id] + 1
        target == w.edges[i].dst
        first == CHOOSE k \in DOMAIN s.stack : s.stack[k] = target
        after == [s EXCEPT !.next = [s.next EXCEPT ![id] = i]]
    IN CASE ~Leads(w, i, id) -> after
         [] Leads(w, i, id) /\ s.colour[target] = "black" -> after
         [] Leads(w, i, id) /\ s.colour[target] = "white" -> Enter(after, target)
         [] Leads(w, i, id) /\ s.colour[target] = "grey" ->
               [after EXCEPT !.cycle =
                    Append(SubSeq(s.stack, first, Len(s.stack)), target)]
DfsStep(w, s) ==
    LET id == s.stack[Len(s.stack)] IN
    CASE s.cycle # <<>> -> s
      [] s.cycle = <<>> /\ s.stack = <<>> ->
            IF s.root < Len(w.nodes) THEN TryRoot(w, s) ELSE s
      [] s.cycle = <<>> /\ s.stack # <<>> ->
            IF s.next[id] < Len(w.edges) THEN FollowEdge(w, s, id) ELSE Leave(s, id)
Dfs(w) ==
    LET run[n \in Nat] ==
            IF n = 0 THEN [root |-> 0, stack |-> <<>>, cycle |-> <<>>,
                           colour |-> [id \in Ids(w) |-> "white"],
                           next |-> [id \in Ids(w) |-> 0]]
            ELSE DfsStep(w, run[n - 1])
    IN run
FindCycle(w) == Dfs(w)[Rounds(w)].cycle

-----------------------------------------------------------------------------
(***************************************************************************)
(* What the traversals are about, without an algorithm.  A path of control *)
(* edges leads from `id` to x unless a set without x has the targets of    *)
(* `id` and is closed: an edge out of it does not leave it.                *)
(***************************************************************************)
Inside(w) == {i \in EdgesOf(w, "control") : {w.edges[i].src, w.edges[i].dst} \subseteq Ids(w)}
Links(w) == {<<w.edges[i].src, w.edges[i].dst>> : i \in Inside(w)}
Closed(w, S) == \A i \in Inside(w) : w.edges[i].src \in S => w.edges[i].dst \in S
HasTargets(w, id, S) == \A i \in Inside(w) : w.edges[i].src = id => w.edges[i].dst \in S
Onward(w, id) == {x \in Ids(w) : ~\E S \in SUBSET (Ids(w) \ {x}) :
                                     Closed(w, S) /\ HasTargets(w, id, S)}
=============================================================================
