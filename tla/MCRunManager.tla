---------------------------- MODULE MCRunManager ----------------------------
(***************************************************************************)
(* Small workflows, API threads and call budgets for RunManager.           *)
(***************************************************************************)
EXTENDS RunManagerInvariant, TLC

CONSTANTS engine, c1, c2

Plain == [enabled |-> TRUE, conditional |-> FALSE, breakpoint |-> FALSE,
          known |-> TRUE, gate |-> "allow", retry |-> 0,
          continueOnError |-> FALSE, last |-> FALSE]

Chain(nodes, paused) ==
    [size |-> Len(nodes), entry |-> 1, node |-> nodes,
     edges |-> {[src |-> i, dst |-> i + 1, branch |-> "always", guarded |-> FALSE] :
                   i \in 1..(Len(nodes) - 1)},
     startPaused |-> paused, valid |-> TRUE]

\* A run that goes ahead, one that is created paused and stepped, one rejected.
Small == { Chain(<<Plain>>, FALSE), Chain(<<Plain, Plain>>, TRUE),
           [Chain(<<Plain>>, FALSE) EXCEPT !.valid = FALSE] }

TwoCallers == {c1, c2}
Threads == TwoCallers \cup {engine}
CallerSymmetry == Permutations(TwoCallers)
=============================================================================
