------------------------------ MODULE MCEngine ------------------------------
(***************************************************************************)
(* Workflows for model-checking Engine.                                    *)
(***************************************************************************)
EXTENDS EngineInvariant

Plain == [enabled |-> TRUE, conditional |-> FALSE, breakpoint |-> FALSE,
          known |-> TRUE, gate |-> "allow", retry |-> 0,
          continueOnError |-> FALSE, last |-> FALSE]

Edge(s, d, b, g) == [src |-> s, dst |-> d, branch |-> b, guarded |-> g]

Workflow(nodes, edges, paused) ==
    [size |-> Len(nodes), entry |-> 1, node |-> nodes, edges |-> edges,
     startPaused |-> paused, valid |-> TRUE]

\* The node variants that matter to the walk, each in the second position.
Variants ==
    { Plain,
      [Plain EXCEPT !.enabled = FALSE],
      [Plain EXCEPT !.conditional = TRUE],
      [Plain EXCEPT !.breakpoint = TRUE, !.gate = "approve"],
      [Plain EXCEPT !.gate = "deny"],
      [Plain EXCEPT !.known = FALSE],
      [Plain EXCEPT !.retry = 1],
      [Plain EXCEPT !.continueOnError = TRUE],
      [Plain EXCEPT !.gate = "approve", !.retry = 1, !.continueOnError = TRUE] }

\* A diamond-like triple: 1 leads to 2, 2 to 3 over each kind of edge, and 3 is
\* also reached from 1 or from nowhere else.
Triples ==
    { Workflow(<<Plain, v, [Plain EXCEPT !.last = l]>>, edges, FALSE) :
         v \in Variants, l \in BOOLEAN,
         edges \in { {Edge(1, 2, "always", FALSE), Edge(2, 3, b, g)} :
                        b \in Branches, g \in BOOLEAN }
                   \cup { {Edge(1, 2, "success", TRUE), Edge(1, 3, "failure", FALSE)} } }

\* The entry point comes after another root, and one submission is rejected.
Odd == { [Workflow(<<Plain, Plain>>, {}, FALSE) EXCEPT !.entry = 2],
         [Workflow(<<Plain>>, {}, TRUE) EXCEPT !.valid = FALSE] }

\* Started paused, with waiting, retrying and gated nodes.
Paused ==
    { Workflow(<<v, Plain>>, {Edge(1, 2, "always", FALSE)}, TRUE) : v \in Variants }

WalkWorkflows == Triples \cup Odd \cup Paused
=============================================================================
