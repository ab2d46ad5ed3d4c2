----------------------------- MODULE ScanLedger -----------------------------
(***************************************************************************)
(* What the durable scan journal promises to whoever reads it: the ledger  *)
(* of one scan run.  Every file the walk admits becomes an entry that is   *)
(* owed a result, a result is written once and never replaced, the list of *)
(* entries is closed once, and the run is called complete only when the    *)
(* list is closed and nothing is owed.  Which process does it, how often   *)
(* it was interrupted and who was superseded do not appear here.           *)
(***************************************************************************)
CONSTANTS Files, NoResult

VARIABLES
  entry,    \* entry[f]: "unknown" until the walk admits f, then "owed", then "recorded"
  result,   \* result[f]: the stored result of f, or NoResult
  closed,   \* TRUE once the list of entries is complete
  verdict   \* "open", or "complete" when the run is reported as finished

vars == <<entry, result, closed, verdict>>

Init ==
  /\ entry = [f \in Files |-> "unknown"]
  /\ result = [f \in Files |-> NoResult]
  /\ closed = FALSE
  /\ verdict = "open"

Admit(f) ==
  /\ ~closed
  /\ verdict = "open"
  /\ entry[f] = "unknown"
  /\ entry' = [entry EXCEPT ![f] = "owed"]
  /\ UNCHANGED <<result, closed, verdict>>

(* A transaction records a whole batch of results. *)
Record(batch) ==
  /\ verdict = "open"
  /\ \A f \in batch : entry[f] = "owed"
  /\ entry' = [f \in Files |-> IF f \in batch THEN "recorded" ELSE entry[f]]
  /\ \A f \in Files : IF f \in batch THEN result'[f] # NoResult
                                     ELSE result'[f] = result[f]
  /\ DOMAIN result' = Files
  /\ UNCHANGED <<closed, verdict>>

Close ==
  /\ verdict = "open"
  /\ closed' = TRUE
  /\ UNCHANGED <<entry, result, verdict>>

Complete ==
  /\ closed
  /\ \A f \in Files : entry[f] # "owed"
  /\ verdict' = "complete"
  /\ UNCHANGED <<entry, result, closed>>

(* A complete run may be opened again: there is then nothing left to do,    *)
(* but the report is withdrawn until it is made again.                      *)
Reopen ==
  /\ verdict' = "open"
  /\ UNCHANGED <<entry, result, closed>>

Next ==
  \/ \E f \in Files : Admit(f)
  \/ \E batch \in SUBSET Files : Record(batch)
  \/ Close
  \/ Complete
  \/ Reopen

Spec == Init /\ [][Next]_vars
=============================================================================
