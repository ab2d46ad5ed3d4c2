----------------------------- MODULE MCAppScan -----------------------------
(* Small instances of AppScan for TLC. *)
EXTENDS AppScan, TLC

Symmetry == Permutations(Files) \cup Permutations(Invocations)
=============================================================================
