------------------------------ MODULE AppScan ------------------------------
(***************************************************************************)
(* app::scan::run (metaxtract-app, scan.rs): one scan of a case, whose     *)
(* progress lives in two databases.  The journal (ScanJournal) knows the   *)
(* tasks and results, the case workspace (metaxtract-storage) the scan's   *)
(* status, its records and the receipts that say which of them are in.     *)
(* No transaction spans the two: run orders its steps so that a scan that  *)
(* was killed, paused or superseded anywhere can be picked up again.       *)
(*                                                                         *)
(* The model follows one scan of a case.  Each invocation is one call of   *)
(* run for it: the first begins the scan, the others resume it.            *)
(***************************************************************************)
EXTENDS ScanJournal

CONSTANTS
  NoFile,       \* stands for no file at all
  CatchUpPage,  \* tasks per page of the catch-up loop (128 in the code)
  MaxOverlapped \* bound: the highest generation of a scan whose calls overlap

ASSUME AppAssumption ==
  /\ NoFile \notin Files
  /\ CatchUpPage \in Nat \ {0}
  /\ MaxOverlapped \in Nat

VARIABLES
  caseStatus,   \* scans.status of the scan in the case; "none" before it begins
  session,      \* whether the application.session receipt is stored
  receipts,     \* the files with an application.file.<id> receipt
  records,      \* how often the records of each file were appended
  app,          \* where each call of run is
  saved,        \* run's flag: the session receipt need not be stored (again)
  cursor,       \* the catch-up loop's position in the journal's tasks
  due,          \* results to be ingested: of a catch-up page or of a batch
  ingesting,    \* the file whose receipt was just found missing
  outcome,      \* the status run will give the case scan
  overlapped    \* history: whether calls ever overlapped

caseVars == <<caseStatus, session, receipts, records>>
appVars == <<app, saved, cursor, due, ingesting, outcome>>
allVars == <<vars, caseVars, appVars, overlapped>>

Places == {"out", "begun", "resuming", "catchup", "resume", "forward", "ending", "failing"}
Final == {"completed", "cancelled"}

(* No call of run is under way, and there is no scan. *)
AppIdle ==
  /\ Init
  /\ caseStatus = "none" /\ session = FALSE /\ receipts = {}
  /\ records = [f \in Files |-> 0]
  /\ app = [i \in Invocations |-> "out"]
  /\ saved = [i \in Invocations |-> FALSE]
  /\ cursor = [i \in Invocations |-> 0]
  /\ due = [i \in Invocations |-> {}]
  /\ ingesting = [i \in Invocations |-> NoFile]
  /\ outcome = [i \in Invocations |-> "none"]

AppInit == AppIdle /\ overlapped = FALSE

Go(i, from, to) == app[i] = from /\ app' = [app EXCEPT ![i] = to]

(* The call ends one way or another, and its local state with it. *)
Drop(i, to) ==
  /\ app' = [app EXCEPT ![i] = to]
  /\ saved' = [saved EXCEPT ![i] = FALSE]
  /\ cursor' = [cursor EXCEPT ![i] = 0]
  /\ due' = [due EXCEPT ![i] = {}]
  /\ ingesting' = [ingesting EXCEPT ![i] = NoFile]
  /\ outcome' = [outcome EXCEPT ![i] = "none"]

-----------------------------------------------------------------------------
(* A new scan: begin_scan in the case, then ScanStore::scan. *)
BeginScan(i) ==
  /\ Go(i, "out", "begun")
  /\ caseStatus = "none"
  /\ caseStatus' = "running"
  /\ UNCHANGED <<vars, session, receipts, records, saved, cursor, due, ingesting, outcome>>

StoreScan(i) ==
  /\ Go(i, "begun", "forward")
  /\ Create(i)
  /\ UNCHANGED <<caseVars, saved, cursor, due, ingesting, outcome>>

(* ScanStore::scan may refuse before it stores anything: options that do    *)
(* not validate, an output that overlaps the evidence.                      *)
StoreRefuses(i) ==
  /\ app[i] = "begun"
  /\ Drop(i, "failing")
  /\ UNCHANGED <<vars, caseVars>>

Alone == \A j \in Invocations : app[j] = "out"
MayStart ==
  /\ Alone \/ generation < MaxOverlapped
  /\ overlapped' = (overlapped \/ ~Alone)

(* Broken variant of CheckResume: an interrupted scan needs no catching up. *)
CheckResumeUncaught(i) ==
  /\ app[i] = "out"
  /\ MayStart
  /\ session
  /\ \/ caseStatus = "running" /\ app' = [app EXCEPT ![i] = "resume"]
     \/ caseStatus = "paused" /\ app' = [app EXCEPT ![i] = "resuming"]
  /\ saved' = [saved EXCEPT ![i] = TRUE]
  /\ UNCHANGED <<vars, caseVars, cursor, due, ingesting, outcome>>

(* A resume is refused without the session receipt and unless the scan is   *)
(* paused or running: running is taken to mean interrupted.                 *)
CheckResume(i) ==
  /\ app[i] = "out"
  /\ MayStart
  /\ session
  /\ \/ caseStatus = "running" /\ app' = [app EXCEPT ![i] = "catchup"]
     \/ caseStatus = "paused" /\ app' = [app EXCEPT ![i] = "resuming"]
  /\ saved' = [saved EXCEPT ![i] = TRUE]
  /\ UNCHANGED <<vars, caseVars, cursor, due, ingesting, outcome>>

(* resume_scan is a transaction of its own, and fails if the scan is no     *)
(* longer paused; then run returns its error and leaves the case alone.     *)
ResumeScan(i) ==
  /\ app[i] = "resuming"
  /\ IF caseStatus = "paused"
       THEN /\ caseStatus' = "running"
            /\ app' = [app EXCEPT ![i] = "catchup"]
            /\ UNCHANGED <<saved, cursor, due, ingesting, outcome>>
       ELSE Drop(i, "out") /\ UNCHANGED caseStatus
  /\ UNCHANGED <<vars, session, receipts, records>>

(* The catch-up loop pages through the journal's tasks in the order of      *)
(* their ids and ingests the results of those that are done.                *)
ReadPage(i) ==
  /\ app[i] = "catchup"
  /\ due[i] = {} /\ ingesting[i] = NoFile
  /\ LET beyond == {f \in Known : id[f] > cursor[i]} IN
     IF beyond = {}
       THEN /\ app' = [app EXCEPT ![i] = "resume"]
            /\ UNCHANGED <<cursor, due>>
       ELSE \E rows \in SUBSET beyond, last \in beyond :
              /\ last \in rows
              /\ \A f \in rows : id[f] <= id[last]
              /\ \A f \in rows, g \in beyond \ rows : id[f] < id[g]
              /\ Cardinality(rows) = CatchUpPage
                   \/ (rows = beyond /\ Cardinality(rows) < CatchUpPage)
              /\ cursor' = [cursor EXCEPT ![i] = id[last]]
              /\ due' = [due EXCEPT ![i] = rows \cap In("done")]
              /\ UNCHANGED app
  /\ UNCHANGED <<vars, caseVars, saved, ingesting, outcome>>

(* Then ScanStore::resume: the checkpoint is read, and the run taken over.  *)
StoreReads(i) ==
  /\ app[i] = "resume"
  /\ ReadCheckpoint(i)
  /\ UNCHANGED <<caseVars, appVars>>

StoreResumes(i) ==
  /\ overlapped => generation < MaxOverlapped
  /\ Go(i, "resume", "forward")
  /\ Supersede(i)
  /\ UNCHANGED <<caseVars, saved, cursor, due, ingesting, outcome>>

(* resume may still refuse: another engine, another root, a control that    *)
(* was paused in the meantime.                                              *)
ResumeRefused(i) ==
  /\ app[i] = "resume"
  /\ Crash(i)
  /\ Drop(i, "failing")
  /\ UNCHANGED caseVars

-----------------------------------------------------------------------------
(* ingest: a look at the receipt, then one transaction that appends the     *)
(* records and stores the receipt.  A live event's dispatch has compared    *)
(* the generation before.                                                   *)
MayIngest(i, f) ==
  /\ ingesting[i] = NoFile
  /\ f \in due[i]
  /\ app[i] = "catchup" \/ (app[i] = "forward" /\ Current(i))

LookUp(i, f) ==
  /\ MayIngest(i, f)
  /\ due' = [due EXCEPT ![i] = @ \ {f}]
  /\ ingesting' = [ingesting EXCEPT ![i] = IF f \in receipts THEN NoFile ELSE f]
  /\ UNCHANGED <<vars, caseVars, app, saved, cursor, outcome>>

(* Broken variant of Accepts: nothing keeps a receipt from being stored     *)
(* again after ingest has looked for it.                                    *)
AcceptsTwice(f) == caseStatus = "running"

(* insert_record wants a running scan, and the receipt is a primary key.    *)
Accepts(f) == caseStatus = "running" /\ f \notin receipts

AppendRecords(i) ==
  /\ ingesting[i] # NoFile
  /\ Accepts(ingesting[i])
  /\ receipts' = receipts \cup {ingesting[i]}
  /\ records' = [records EXCEPT ![ingesting[i]] = @ + 1]
  /\ ingesting' = [ingesting EXCEPT ![i] = NoFile]
  /\ UNCHANGED <<vars, caseStatus, session, app, saved, cursor, due, outcome>>

(* An error while catching up is returned as it is; one in the sink ends    *)
(* the pipeline.                                                            *)
AppendRefused(i) ==
  /\ ingesting[i] # NoFile
  /\ ~Accepts(ingesting[i])
  /\ IF app[i] = "catchup"
       THEN Drop(i, "out") /\ UNCHANGED vars
       ELSE Drop(i, "failing") /\ (Fail(i) \/ Refused(i))
  /\ UNCHANGED caseVars

-----------------------------------------------------------------------------
(* The pipeline under forward.  Whatever the threads do to the journal goes *)
(* on while the coordinator is busy with the sink; the coordinator's own    *)
(* steps wait for the results it is showing.                                *)
Threads(i) ==
  /\ app[i] = "forward"
  /\ \/ TakePending(i) \/ EndPending(i) \/ CheckDiscovery(i) \/ Halt(i)
     \/ FinishDiscovery(i)
     \/ \E f \in Files : Schedule(i, f) \/ Started(i, f)
     \/ \E reason \in StopReasons : Request(i, reason)
  /\ UNCHANGED <<caseVars, appVars>>

Idle(i) == app[i] = "forward" /\ due[i] = {} /\ ingesting[i] = NoFile

(* The first event, whichever it is, stores the session receipt first. *)
SaveSession(i) ==
  /\ Idle(i)
  /\ Running(i) /\ Current(i)
  /\ ~saved[i]
  /\ saved' = [saved EXCEPT ![i] = TRUE]
  /\ session' = TRUE
  /\ UNCHANGED <<vars, caseStatus, receipts, records, app, cursor, due, ingesting, outcome>>

(* A flush: the batch is in the journal, and due to be shown.  Its files    *)
(* were announced before, so the session has been saved.                    *)
Flush(i, batch) ==
  /\ Idle(i)
  /\ saved[i]
  /\ PersistBatch(i, batch)
  /\ due' = [due EXCEPT ![i] = batch]
  /\ UNCHANGED <<caseVars, app, saved, cursor, ingesting, outcome>>

(* What run makes of the status that the journal reports. *)
OutcomeOf(reported) == IF reported \in Final THEN reported ELSE "paused"

PipelineFinished(i) ==
  /\ Idle(i)
  /\ Finished(i)
  /\ outcome' = [outcome EXCEPT ![i] = OutcomeOf(status')]
  /\ UNCHANGED <<caseVars, app, saved, cursor, due, ingesting>>

(* Finished may be the first event. *)
PipelineReturns(i) ==
  /\ Go(i, "forward", "ending")
  /\ Return(i)
  /\ session' = TRUE
  /\ UNCHANGED <<caseStatus, receipts, records, saved, cursor, due, ingesting, outcome>>

(* The pipeline returns an error: a stale generation, an I/O error, the     *)
(* caller's sink, or control.begin on a control that is stopped already.    *)
PipelineFails(i) ==
  /\ app[i] \in {"forward", "resume"}
  /\ Fail(i) \/ Refused(i)
  /\ Drop(i, "failing")
  /\ UNCHANGED caseVars

-----------------------------------------------------------------------------
(* finish_scan_with_summary, or finish_scan(Paused) after an error; neither *)
(* touches a scan that is final, and the error of the latter is ignored.    *)
FinishCase(i) ==
  /\ app[i] = "ending"
  /\ caseStatus' = IF caseStatus \in {"running", "paused"} THEN outcome[i] ELSE caseStatus
  /\ Drop(i, "out")
  /\ UNCHANGED <<vars, session, receipts, records>>

(* Broken variant of PauseCase: a final scan is paused as well. *)
PauseCaseAlways(i) ==
  /\ app[i] = "failing"
  /\ caseStatus' = "paused"
  /\ Drop(i, "out")
  /\ UNCHANGED <<vars, session, receipts, records>>

PauseCase(i) ==
  /\ app[i] = "failing"
  /\ caseStatus' = IF caseStatus \in {"running", "paused"} THEN "paused" ELSE caseStatus
  /\ Drop(i, "out")
  /\ UNCHANGED <<vars, session, receipts, records>>

(* The process dies between any two transactions, or run returns an error   *)
(* before it has taken the journal over, and leaves the case as it is.      *)
Die(i) ==
  /\ app[i] # "out"
  /\ Drop(i, "out")
  /\ Crash(i) \/ (phase[i] = "idle" /\ UNCHANGED vars)
  /\ UNCHANGED caseVars

-----------------------------------------------------------------------------
OtherStep(i) ==
  \/ BeginScan(i) \/ StoreScan(i) \/ StoreRefuses(i)
  \/ ResumeScan(i) \/ ReadPage(i)
  \/ StoreReads(i) \/ StoreResumes(i) \/ ResumeRefused(i)
  \/ (\E f \in Files : LookUp(i, f)) \/ AppendRecords(i) \/ AppendRefused(i)
  \/ Threads(i) \/ SaveSession(i) \/ (\E batch \in SUBSET Files : Flush(i, batch))
  \/ PipelineFinished(i) \/ PipelineReturns(i) \/ PipelineFails(i)
  \/ FinishCase(i) \/ PauseCase(i) \/ Die(i)

AppStep(i) == CheckResume(i) \/ (OtherStep(i) /\ UNCHANGED overlapped)

AppNext == \E i \in Invocations : AppStep(i)

AppSpec == AppInit /\ [][AppNext]_allVars

-----------------------------------------------------------------------------
AppTypeOK ==
  /\ TypeOK
  /\ caseStatus \in {"none", "running", "paused"} \cup Final
  /\ session \in BOOLEAN
  /\ receipts \subseteq Files
  /\ records \in [Files -> Nat]
  /\ app \in [Invocations -> Places]
  /\ saved \in [Invocations -> BOOLEAN]
  /\ cursor \in [Invocations -> Nat]
  /\ due \in [Invocations -> SUBSET Files]
  /\ ingesting \in [Invocations -> Files \cup {NoFile}]
  /\ outcome \in [Invocations -> {"none", "paused"} \cup Final]
  /\ overlapped \in BOOLEAN

(* No file's records are ever appended twice, however many calls of run     *)
(* ingest the same result, and a record implies a result in the journal.    *)
RecordsOnce ==
  \A f \in Files : /\ records[f] = IF f \in receipts THEN 1 ELSE 0
                   /\ f \in receipts => job[f] = "done"

(* A completed or cancelled scan is final: neither its status nor its       *)
(* records change any more, whatever calls are still under way.             *)
FinalIsFinal ==
  [][(caseStatus \in Final) => caseStatus' = caseStatus /\ records' = records]_allVars

(* A scan the case calls completed has the records of every task the        *)
(* journal knows.                                                           *)
CompletedHasAll == caseStatus = "completed" => Known = In("done") /\ receipts = Known

(* While the invocation that owns the journal runs, nobody else takes the   *)
(* case scan away from it: it can store what it finds.                      *)
LiveScanRuns ==
  \A i \in Invocations : Running(i) /\ Current(i) => caseStatus = "running"

(* Both hold as long as one call at a time works on the scan, whatever ends *)
(* the calls and wherever.                                                  *)
TrueAlone == overlapped \/ (CompletedHasAll /\ LiveScanRuns)

(* A scan that was paused, and that nobody works on, can be resumed. *)
PausedCanResume ==
  caseStatus = "paused" /\ (\A i \in Invocations : app[i] = "out") => session

(* The case and the journal fit together: records are stored once, of files *)
(* that are done, whatever ends a call between the two databases.           *)
AppSound == AppTypeOK /\ RecordsOnce
=============================================================================
