----------------------------- MODULE MCSessions -----------------------------
(* Instances of the browser sessions for TLC. *)
EXTENDS Sessions, TLC

Symmetry == Permutations(Procs)
=============================================================================
