--------------------------- MODULE MCScanPipeline ---------------------------
(* Small instances of ScanPipeline for TLC. *)
EXTENDS ScanPipeline, TLC

(* Every file has a cost of its own, so that the two orders differ. *)
MCCost == [f \in Files |-> CASE f = "a" -> 1 [] f = "b" -> 2 [] OTHER -> 3]

(* The workers are alike; for the runs that check safety only. *)
Symmetry == Permutations(Workers)
=============================================================================
