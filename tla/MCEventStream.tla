---------------------------- MODULE MCEventStream ----------------------------
(***************************************************************************)
(* Model values and symmetry for EventStream.                              *)
(***************************************************************************)
EXTENDS EventStream, TLC

CONSTANTS engine, caller, s1, s2

TwoThreads == {engine, caller}
OneClient == {s1}
TwoClients == {s1, s2}

ClientSymmetry == Permutations(TwoClients)
=============================================================================
