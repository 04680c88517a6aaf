---------------------------- MODULE MCPluginLink ----------------------------
(* Model values for PluginLink: one run and one thread that cancels it. *)
EXTENDS PluginLink

CONSTANTS r1, k1
=============================================================================
