----------------------------- MODULE ScanJournal -----------------------------
(***************************************************************************)
(* The durable journal of one scan run (scan/checkpoint.rs, scan/storage.rs*)
(* of metaxtract-core) and the invocations that use it.                    *)
(*                                                                         *)
(* The journal is an SQLite file: every operation below that names a       *)
(* transaction in the code is one step.  An invocation is one call of      *)
(* ScanStore::scan or ScanStore::resume, in any process that has the file  *)
(* open; several may be running, and each may be killed between any two    *)
(* of its transactions.  What an invocation's threads do between two       *)
(* transactions is left to chance here and spelt out in ScanPipeline.      *)
(***************************************************************************)
EXTENDS Naturals, FiniteSets

CONSTANTS
  Files,          \* the files a walk of the evidence root can yield
  Invocations,    \* the calls of scan/resume that may be under way at once
  PageSize,       \* tasks handed out by one call of pending (64 in the code)
  MaxFiles,       \* options.walk.max_files: the durable limit on tasks
  MaxGeneration   \* bound on the generation counter, for model checking

ASSUME JournalAssumption ==
  /\ PageSize \in Nat \ {0}
  /\ MaxFiles \in Nat
  /\ MaxGeneration \in Nat

VARIABLES
  generation,     \* scan_runs.generation; 0 before the row exists
  status,         \* scan_runs.status
  discoveryDone,  \* scan_runs.discovery_done
  id,             \* scan_jobs.id of each file's task; 0 when it has no row
  job,            \* scan_jobs.state; "absent" when the file has no row
  result,         \* the generation whose result row is stored; 0 when none
  phase,          \* where each invocation is
  gen,            \* RunJournal.generation of each invocation
  after,          \* the producer's cursor over pending tasks
  walked,         \* files the invocation's walk has yielded
  held,           \* tasks scheduled by the invocation, not yet started
  working,        \* tasks started by the invocation, result not yet stored
  stop            \* ScanControl of the invocation, as reason() reports it

durable == <<generation, status, discoveryDone, id, job, result>>
local == <<phase, gen, after, walked, held, working, stop>>
vars == <<durable, local>>

TaskStates == {"pending", "queued", "running", "done"}
StopReasons == {"paused", "cancelled", "deadline"}
Statuses == {"none", "running", "completed", "failed"} \cup StopReasons
RunningPhases == {"pending", "check", "walk", "drained", "halted"}
Phases == {"idle", "opened", "closing"} \cup RunningPhases

In(state) == {f \in Files : job[f] = state}
Known == {f \in Files : job[f] # "absent"}

(* The pipeline's threads are up; from "closing" on they have joined. *)
Running(i) == phase[i] \in RunningPhases
Active(i) == Running(i) \/ phase[i] = "closing"
(* check_generation: the row still carries the generation of this invocation. *)
Current(i) == generation = gen[i]

Init ==
  /\ generation = 0
  /\ status = "none"
  /\ discoveryDone = FALSE
  /\ id = [f \in Files |-> 0]
  /\ job = [f \in Files |-> "absent"]
  /\ result = [f \in Files |-> 0]
  /\ phase = [i \in Invocations |-> "idle"]
  /\ gen = [i \in Invocations |-> 0]
  /\ after = [i \in Invocations |-> 0]
  /\ walked = [i \in Invocations |-> {}]
  /\ held = [i \in Invocations |-> {}]
  /\ working = [i \in Invocations |-> {}]
  /\ stop = [i \in Invocations |-> "none"]

-----------------------------------------------------------------------------
(* Starting, superseding and ending an invocation.                          *)

(* The local state of a pipeline: of one that begins under generation g in  *)
(* phase "pending", and of none at all.                                     *)
Enter(i, to, g) ==
  /\ phase' = [phase EXCEPT ![i] = to]
  /\ gen' = [gen EXCEPT ![i] = g]
  /\ after' = [after EXCEPT ![i] = 0]
  /\ walked' = [walked EXCEPT ![i] = {}]
  /\ held' = [held EXCEPT ![i] = {}]
  /\ working' = [working EXCEPT ![i] = {}]
  /\ stop' = [stop EXCEPT ![i] = "none"]

Launch(i, g) == Enter(i, "pending", g)
Leave(i) == Enter(i, "idle", 0)

(* ScanStore::scan inserts the run and starts its first invocation. *)
Create(i) ==
  /\ phase[i] = "idle"
  /\ generation = 0
  /\ generation' = 1
  /\ status' = "running"
  /\ Launch(i, 1)
  /\ UNCHANGED <<discoveryDone, id, job, result>>

(* resume first reads the checkpoint, on its own. *)
ReadCheckpoint(i) ==
  /\ phase[i] = "idle"
  /\ generation > 0
  /\ generation < MaxGeneration
  /\ Enter(i, "opened", generation)
  /\ UNCHANGED durable

(* Broken variants of Supersede: the generation is not raised; tasks that    *)
(* were queued but not started are forgotten; an unknown state is stored.   *)
SupersedeUnfenced(i) ==
  /\ phase[i] = "opened"
  /\ Current(i)
  /\ status' = "running"
  /\ job' = [f \in Files |-> IF job[f] \in {"queued", "running"} THEN "pending" ELSE job[f]]
  /\ Launch(i, gen[i])
  /\ UNCHANGED <<generation, discoveryDone, id, result>>

SupersedeRequeue(i, from, to) ==
  /\ phase[i] = "opened"
  /\ Current(i)
  /\ generation' = gen[i] + 1
  /\ status' = "running"
  /\ job' = [f \in Files |-> IF job[f] \in from THEN to ELSE job[f]]
  /\ Launch(i, gen[i] + 1)
  /\ UNCHANGED <<discoveryDone, id, result>>

SupersedeRunningOnly(i) == SupersedeRequeue(i, {"running"}, "pending")
SupersedeInterrupted(i) == SupersedeRequeue(i, {"queued", "running"}, "interrupted")

(* Broken variant of Supersede: what is unfinished is dropped and found     *)
(* again.                                                                   *)
SupersedeDeletes(i) ==
  /\ phase[i] = "opened"
  /\ Current(i)
  /\ generation' = gen[i] + 1
  /\ status' = "running"
  /\ job' = [f \in Files |-> IF job[f] \in {"queued", "running"} THEN "absent" ELSE job[f]]
  /\ id' = [f \in Files |-> IF job[f] \in {"queued", "running"} THEN 0 ELSE id[f]]
  /\ Launch(i, gen[i] + 1)
  /\ UNCHANGED <<discoveryDone, result>>

(* Then one transaction fences the run off and requeues what is unfinished. *)
Supersede(i) ==
  /\ phase[i] = "opened"
  /\ Current(i)
  /\ generation' = gen[i] + 1
  /\ status' = "running"
  /\ job' = [f \in Files |-> IF job[f] \in {"queued", "running"} THEN "pending" ELSE job[f]]
  /\ Launch(i, gen[i] + 1)
  /\ UNCHANGED <<discoveryDone, id, result>>

(* Any transaction of an invocation that was superseded is refused: its     *)
(* error ends the invocation, and fail_generation finds no row to mark.     *)
Refused(i) ==
  /\ phase[i] # "idle"
  /\ ~Current(i)
  /\ Leave(i)
  /\ UNCHANGED durable

(* The process dies. *)
Crash(i) ==
  /\ phase[i] # "idle"
  /\ Leave(i)
  /\ UNCHANGED durable

(* The pipeline returned an error (a sink, a store or an I/O failure):      *)
(* fail_generation marks the run, if it still is this invocation's.         *)
Fail(i) ==
  /\ Active(i)
  /\ Current(i)
  /\ status' = "failed"
  /\ Leave(i)
  /\ UNCHANGED <<generation, discoveryDone, id, job, result>>

(* ScanControl: a pause or a deadline only takes a scan that is running, a  *)
(* cancellation takes precedence over both.                                 *)
Request(i, reason) ==
  /\ Running(i)
  /\ \/ stop[i] = "none"
     \/ stop[i] = "deadline" /\ reason = "paused"
     \/ stop[i] # "cancelled" /\ reason = "cancelled"
  /\ stop' = [stop EXCEPT ![i] = reason]
  /\ UNCHANGED <<durable, phase, gen, after, walked, held, working>>

-----------------------------------------------------------------------------
(* The producer's transactions.                                             *)

(* pending(after, limit) on a run with pending tasks beyond the cursor: the *)
(* first PageSize of them by id become queued.                              *)
TakePending(i) ==
  /\ phase[i] = "pending"
  /\ Current(i)
  /\ LET beyond == {f \in In("pending") : id[f] > after[i]} IN
     \E page \in SUBSET beyond :
       /\ page # {}
       /\ \A f \in page : \A g \in beyond \ page : id[f] < id[g]
       /\ Cardinality(page) = PageSize \/ (page = beyond /\ Cardinality(page) < PageSize)
       /\ job' = [f \in Files |-> IF f \in page THEN "queued" ELSE job[f]]
       /\ held' = [held EXCEPT ![i] = @ \cup page]
       /\ \E last \in page :
            /\ \A f \in page : id[f] <= id[last]
            /\ after' = [after EXCEPT ![i] = id[last]]
  /\ UNCHANGED <<generation, status, discoveryDone, id, result,
                 phase, gen, walked, working, stop>>

(* pending returned an empty page. *)
EndPending(i) ==
  /\ phase[i] = "pending"
  /\ Current(i)
  /\ \A f \in In("pending") : id[f] <= after[i]
  /\ phase' = [phase EXCEPT ![i] = "check"]
  /\ UNCHANGED <<durable, gen, after, walked, held, working, stop>>

(* Broken variant of CheckDiscovery: it walks in any case. *)
CheckDiscoveryWalks(i) ==
  /\ phase[i] = "check"
  /\ Current(i)
  /\ phase' = [phase EXCEPT ![i] = "walk"]
  /\ UNCHANGED <<durable, gen, after, walked, held, working, stop>>

(* discovery_done: a complete discovery is not walked again. *)
CheckDiscovery(i) ==
  /\ phase[i] = "check"
  /\ Current(i)
  /\ phase' = [phase EXCEPT ![i] = IF discoveryDone THEN "drained" ELSE "walk"]
  /\ UNCHANGED <<durable, gen, after, walked, held, working, stop>>

(* schedule, for a file this invocation's walk has not yielded yet.  A file *)
(* without a row gets the next id, one with a pending row keeps its task.   *)
Take(i, f) ==
  /\ job[f] = "pending" \/ (job[f] = "absent" /\ Cardinality(Known) < MaxFiles)
  /\ \E next \in 1..MaxFiles + 1 :
       /\ \A g \in Files : id[g] < next
       /\ next = 1 \/ \E g \in Files : id[g] = next - 1
       /\ id' = [id EXCEPT ![f] = IF job[f] = "pending" THEN @ ELSE next]
  /\ job' = [job EXCEPT ![f] = "queued"]
  /\ held' = [held EXCEPT ![i] = @ \cup {f}]

(* A row that is queued, running or done is left to whoever has it. *)
Skip(f) ==
  /\ job[f] \in {"queued", "running", "done"}
  /\ UNCHANGED <<id, job, held>>

Schedule(i, f) ==
  /\ phase[i] = "walk"
  /\ Current(i)
  /\ f \notin walked[i]
  /\ walked' = [walked EXCEPT ![i] = @ \cup {f}]
  /\ Take(i, f) \/ Skip(f)
  /\ UNCHANGED <<generation, status, discoveryDone, result,
                 phase, gen, after, working, stop>>

(* Any of the producer's calls may fail, and schedule does at the durable   *)
(* file limit.  The error ends the producer; unless a stop was requested    *)
(* already it then reports a notice and cancels the scan (a Request).       *)
Halt(i) ==
  /\ phase[i] \in {"pending", "check", "walk"}
  /\ phase' = [phase EXCEPT ![i] = "halted"]
  /\ UNCHANGED <<durable, gen, after, walked, held, working, stop>>

(* Broken variant of FinishDiscovery: a stale invocation may still close it. *)
FinishDiscoveryUnfenced(i) ==
  /\ phase[i] = "walk"
  /\ discoveryDone' = TRUE
  /\ phase' = [phase EXCEPT ![i] = "drained"]
  /\ UNCHANGED <<generation, status, id, job, result,
                 gen, after, walked, held, working, stop>>

(* The walk may end anywhere: files come and go between two walks. *)
FinishDiscovery(i) ==
  /\ phase[i] = "walk"
  /\ Current(i)
  /\ discoveryDone' = TRUE
  /\ phase' = [phase EXCEPT ![i] = "drained"]
  /\ UNCHANGED <<generation, status, id, job, result,
                 gen, after, walked, held, working, stop>>

-----------------------------------------------------------------------------
(* The workers' and the coordinator's transactions.                         *)

Started(i, f) ==
  /\ Running(i)
  /\ Current(i)
  /\ f \in held[i]
  /\ job[f] = "queued"
  /\ job' = [job EXCEPT ![f] = "running"]
  /\ held' = [held EXCEPT ![i] = @ \ {f}]
  /\ working' = [working EXCEPT ![i] = @ \cup {f}]
  /\ UNCHANGED <<generation, status, discoveryDone, id, result,
                 phase, gen, after, walked, stop>>

(* Broken variant of PersistBatch: a stale invocation may still write. *)
PersistBatchUnfenced(i, batch) ==
  /\ Running(i)
  /\ batch # {}
  /\ batch \subseteq working[i]
  /\ \A f \in batch : job[f] # "absent"
  /\ result' = [f \in Files |-> IF f \in batch THEN gen[i] ELSE result[f]]
  /\ job' = [f \in Files |-> IF f \in batch THEN "done" ELSE job[f]]
  /\ working' = [working EXCEPT ![i] = @ \ batch]
  /\ UNCHANGED <<generation, status, discoveryDone, id,
                 phase, gen, after, walked, held, stop>>

(* persist_batch: insert-or-replace each result and mark its task done,     *)
(* whatever state the task was in.                                          *)
PersistBatch(i, batch) ==
  /\ Running(i)
  /\ Current(i)
  /\ batch # {}
  /\ batch \subseteq working[i]
  /\ \A f \in batch : job[f] # "absent"
  /\ result' = [f \in Files |-> IF f \in batch THEN gen[i] ELSE result[f]]
  /\ job' = [f \in Files |-> IF f \in batch THEN "done" ELSE job[f]]
  /\ working' = [working EXCEPT ![i] = @ \ batch]
  /\ UNCHANGED <<generation, status, discoveryDone, id,
                 phase, gen, after, walked, held, stop>>

(* Broken variant of Joined: nothing in hand is taken for nothing left. *)
JoinedIdle(i) ==
  \/ stop[i] # "none"
  \/ held[i] = {} /\ working[i] = {}

(* The threads have joined.  With a stop requested, whatever they held was  *)
(* dropped; without one they only end when nothing is left.                 *)
Joined(i) ==
  \/ stop[i] # "none"
  \/ /\ phase[i] = "drained"
     /\ held[i] = {}
     /\ working[i] = {}

(* dispatch of Finished stores the run's status. *)
Finished(i) ==
  /\ Running(i)
  /\ Current(i)
  /\ Joined(i)
  /\ status' = IF stop[i] = "none" THEN "completed" ELSE stop[i]
  /\ Enter(i, "closing", gen[i])
  /\ UNCHANGED <<generation, discoveryDone, id, job, result>>

(* The caller's own sink accepted Finished, and the call returns.  (Had it  *)
(* failed, Fail would mark the finished run as failed.)                     *)
Return(i) ==
  /\ phase[i] = "closing"
  /\ Leave(i)
  /\ UNCHANGED durable

-----------------------------------------------------------------------------
Step(i) ==
  \/ Create(i) \/ ReadCheckpoint(i) \/ Supersede(i)
  \/ Refused(i) \/ Crash(i) \/ Fail(i)
  \/ \E reason \in StopReasons : Request(i, reason)
  \/ TakePending(i) \/ EndPending(i) \/ CheckDiscovery(i)
  \/ \E f \in Files : Schedule(i, f)
  \/ Halt(i) \/ FinishDiscovery(i)
  \/ \E f \in Files : Started(i, f)
  \/ \E batch \in SUBSET Files : PersistBatch(i, batch)
  \/ Finished(i) \/ Return(i)

Next == \E i \in Invocations : Step(i)

Spec == Init /\ [][Next]_vars

-----------------------------------------------------------------------------
TypeOK ==
  /\ generation \in Nat
  /\ status \in Statuses
  /\ discoveryDone \in BOOLEAN
  /\ id \in [Files -> Nat]
  /\ job \in [Files -> TaskStates \cup {"absent"}]
  /\ result \in [Files -> Nat]
  /\ phase \in [Invocations -> Phases]
  /\ gen \in [Invocations -> Nat]
  /\ after \in [Invocations -> Nat]
  /\ walked \in [Invocations -> SUBSET Files]
  /\ held \in [Invocations -> SUBSET Files]
  /\ working \in [Invocations -> SUBSET Files]
  /\ stop \in [Invocations -> StopReasons \cup {"none"}]

(* At most one invocation can still write: whoever raised the generation    *)
(* last.  All others were fenced off by check_generation.                   *)
OneWriter ==
  \A i, j \in Invocations :
    Active(i) /\ Active(j) /\ Current(i) /\ Current(j) => i = j

(* Every task the journal calls queued or running is in the hands of the    *)
(* invocation that may write, and it holds no other: nothing is forgotten   *)
(* by a resume, and nothing is processed twice.                             *)
Owned ==
  \A i \in Invocations :
    Running(i) /\ Current(i) =>
      /\ held[i] = In("queued")
      /\ working[i] = In("running")

(* A run reported as completed has a closed task list and no unfinished     *)
(* task, however often it was interrupted, stopped or superseded before.    *)
CompletedMeansDone ==
  status = "completed" => discoveryDone /\ Known = In("done")

(* A stored result is never replaced, although persist says INSERT OR       *)
(* REPLACE and does not look at the task's state.                           *)
ResultsImmutable ==
  [][\A f \in Files : result[f] # 0 => result'[f] = result[f]]_vars

(* Once discovery is recorded as finished no task is ever added: a resume   *)
(* only replays what is pending.                                            *)
DiscoveryCloses ==
  [][discoveryDone => Known' = Known /\ discoveryDone']_vars

(* A file has an id from its row's insertion on, and no two have the same.  *)
IdsDistinct ==
  /\ \A f, g \in Files : id[f] = id[g] /\ id[f] # 0 => f = g
  /\ \A f \in Files : id[f] = 0 <=> job[f] = "absent"

(* Task ids are never reused or changed: through stops, crashes and         *)
(* takeovers an id that was once given to a file stays its id, and no other *)
(* file gets it, so that a receipt named after it (checkpoint.rs:114) keeps *)
(* naming the same file.                                                    *)
IdsStable ==
  /\ []IdsDistinct
  /\ [][\A f \in Files : id[f] # 0 =>
          id'[f] = id[f] /\ \A g \in Files : id'[g] = id[f] => g = f]_vars

(* How the journal is read as a ledger. *)
LedgerEntry == [f \in Files |-> CASE job[f] = "absent" -> "unknown"
                                   [] job[f] = "done"   -> "recorded"
                                   [] OTHER             -> "owed"]
LedgerVerdict == IF status = "completed" THEN "complete" ELSE "open"

Ledger == INSTANCE ScanLedger WITH
  NoResult <- 0,
  entry <- LedgerEntry,
  closed <- discoveryDone,
  verdict <- LedgerVerdict

(* The journal keeps the ledger's promise: through all its interruptions an *)
(* admitted file stays owed until its result is recorded once, and the run  *)
(* is called complete only with a closed list on which nothing is owed.     *)
KeepsLedger == Ledger!Spec
=============================================================================
