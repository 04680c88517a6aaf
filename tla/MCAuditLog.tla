----------------------------- MODULE MCAuditLog -----------------------------
(* Model values and symmetry for checking AuditLog. *)
EXTENDS AuditLog, TLC

CONSTANTS t1, t2

ThreadSymmetry == Permutations({t1, t2})
=============================================================================
