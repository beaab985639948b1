----------------------------- MODULE MCSessions -----------------------------
(* Sessions on small instances, for TLC. *)
EXTENDS SessionsProps, TLC

Symmetry == Permutations(SessionId) \cup Permutations(Request)
=============================================================================
