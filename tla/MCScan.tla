------------------------------- MODULE MCScan -------------------------------
(***************************************************************************)
(* One instance for the journal by itself, whatever calls scan and resume, *)
(* and for app::scan::run on top of it.                                    *)
(***************************************************************************)
EXTENDS AppScan, TLC

VARIABLE client   \* who uses the journal: anybody, or app::scan::run

Symmetry == Permutations(Files) \cup Permutations(Invocations)

(* By themselves the calls of the journal overlap as they like. *)
Start ==
  \/ client = "any" /\ AppIdle /\ overlapped = TRUE
  \/ client = "app" /\ AppInit

Steps ==
  \/ client = "any" /\ Next /\ UNCHANGED <<caseVars, appVars, overlapped>>
  \/ client = "app" /\ AppNext

Both == Start /\ [][Steps /\ UNCHANGED client]_<<allVars, client>>
=============================================================================
