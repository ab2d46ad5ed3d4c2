---------------------------- MODULE ScanPipeline ----------------------------
(***************************************************************************)
(* One invocation of run_pipeline (metaxtract-core, scan/pipeline.rs): a   *)
(* producer that walks the evidence root, a pool of workers, and the       *)
(* coordinator on the calling thread, joined by two bounded channels, a    *)
(* memory budget, a shared ScanControl and the durable journal.            *)
(*                                                                         *)
(* A step is what a thread does between two points at which another        *)
(* thread can be noticed: a channel operation, a journal transaction, a    *)
(* look at the control, a memory reservation.  Hashing and extraction are  *)
(* one step: process always ends, by its own deadline if by nothing else.  *)
(***************************************************************************)
EXTENDS Naturals, Sequences, FiniteSets

CONSTANTS
  Files,        \* the files the walk can yield
  NoFile,       \* stands for no file at all
  Cost,         \* file_cost of each file
  Workers,      \* the worker threads
  JobCap,       \* capacity of the jobs channel (queue_capacity)
  EventCap,     \* capacity of the events channel (queue_capacity)
  PageSize,     \* tasks per call of pending (64)
  Window,       \* scheduling_window
  BatchMax,     \* results per transaction (16)
  MaxMemory,    \* max_memory_bytes
  Reservation,  \* options.reservation(), per file being processed
  HashBuffer,   \* hash.buffer_bytes, per worker
  MaxFiles,     \* walk.max_files, the durable limit on tasks
  MaxNotices,   \* bound: entries the walk skips with a notice
  MaxEntries,   \* bound: those and the files it yields
  Requests,     \* which of "paused", "cancelled", "deadline" may arrive
  Faults        \* which calls may fail: "sink", "persist", "started", "producer"

(* ScanOptions::validate; the sizes are usize or u64. *)
ASSUME PipelineAssumption ==
  /\ IsFiniteSet(Files) /\ NoFile \notin Files
  /\ IsFiniteSet(Workers) /\ Workers # {}
  /\ {JobCap, EventCap, PageSize, Window, BatchMax} \subseteq Nat \ {0}
  /\ {MaxMemory, Reservation, HashBuffer, MaxFiles, MaxNotices, MaxEntries} \subseteq Nat
  /\ Reservation + Cardinality(Workers) * HashBuffer <= MaxMemory
  /\ Cost \in [Files -> Nat]

VARIABLES
  stop, late,                             \* ScanControl
  id, job, discoveryDone, status,         \* the journal
  reach, after, walked,                   \* the producer's progress through it
  ppc, page, unseen, skips, window, heavy, pfile,   \* the producer
  jobs, events,                           \* the channels
  wpc, wfile, used,                       \* the workers and the memory budget
  cpc, batch, envelope, then,             \* the coordinator
  seen                                    \* how far the sink was told of a file

control == <<stop, late>>
journal == <<id, job, discoveryDone, status>>
producer == <<reach, after, walked, ppc, page, unseen, skips, window, heavy, pfile>>
worker == <<wpc, wfile>>
coordinator == <<cpc, batch, envelope, then, seen>>
vars == <<control, journal, producer, jobs, events, worker, used, coordinator>>

Reason == IF stop # "none" THEN stop ELSE IF late THEN "deadline" ELSE "none"
Stopping == Reason # "none"

Event(kind, f) == [kind |-> kind, file |-> f]
Send(event) == Len(events) < EventCap /\ events' = Append(events, event)

In(state) == {f \in Files : job[f] = state}
Known == {f \in Files : job[f] # "absent"}

(* A run that is new, or one that earlier invocations left behind: every    *)
(* unfinished task was made pending by resume.                              *)
Init ==
  /\ stop = "none" /\ late = FALSE
  /\ job \in [Files -> {"absent", "pending", "done"}]
  /\ Cardinality(Known) <= MaxFiles
  /\ id \in [Files -> 0..Cardinality(Known)]
  /\ \A f \in Files : id[f] = 0 <=> job[f] = "absent"
  /\ \A f, g \in Known : id[f] = id[g] => f = g
  /\ discoveryDone \in BOOLEAN
  /\ status = "running"
  /\ reach = "pending" /\ after = 0 /\ walked = {}
  /\ ppc = "pages" /\ page = <<>> /\ window = {} /\ heavy = FALSE /\ pfile = NoFile
  /\ unseen \in SUBSET Files
  /\ skips \in 0..MaxNotices /\ Cardinality(unseen) + skips <= MaxEntries
  /\ jobs = <<>> /\ events = <<>>
  /\ wpc = [w \in Workers |-> "buffer"] /\ wfile = [w \in Workers |-> NoFile]
  /\ used = 0
  /\ cpc = "begin" /\ batch = <<>> /\ envelope = Event("none", NoFile) /\ then = "recv"
  /\ seen = [f \in Files |-> 0]

-----------------------------------------------------------------------------
(* ScanControl, driven by the caller and by the clock.  cancel stores, so   *)
(* it overrides a pause; pause only replaces "none".                        *)
Pause ==
  /\ "paused" \in Requests /\ cpc # "returned"
  /\ stop = "none"
  /\ stop' = "paused"
  /\ UNCHANGED <<late, journal, producer, jobs, events, worker, used, coordinator>>

Cancel ==
  /\ "cancelled" \in Requests /\ cpc # "returned"
  /\ stop' = "cancelled"
  /\ UNCHANGED <<late, journal, producer, jobs, events, worker, used, coordinator>>

(* begin sets the deadline, which can pass at any later time. *)
Expire ==
  /\ "deadline" \in Requests /\ cpc \notin {"begin", "returned"}
  /\ late' = TRUE
  /\ UNCHANGED <<stop, journal, producer, jobs, events, worker, used, coordinator>>

Control == Pause \/ Cancel \/ Expire

-----------------------------------------------------------------------------
(* The producer.  It runs once the coordinator has spawned the threads.     *)

Spawned == cpc # "begin"
Produce(from, to) == Spawned /\ ppc = from /\ ppc' = to

(* Broken variant of AtCheckpoint: send_job waits for room and nothing else. *)
AtCheckpointUnlessFull ==
  \/ ppc \in {"pages", "finish"}
  \/ ppc = "walk" /\ (unseen # {} \/ skips > 0)
  \/ ppc = "dispatch" /\ window # {}

(* Where the producer looks at the control before it goes on; send_job does *)
(* so too, for as long as the jobs channel has no room.  Looking and then   *)
(* acting is one step: a stop that arrives in between changes nothing that  *)
(* the action reads.                                                        *)
AtCheckpoint ==
  \/ ppc \in {"pages", "resumeJob", "job", "finish"}
  \/ ppc = "walk" /\ (unseen # {} \/ skips > 0)
  \/ ppc = "dispatch" /\ window # {}

ProducerStops ==
  /\ Spawned
  /\ AtCheckpoint
  /\ Stopping
  /\ ppc' = "done"
  /\ UNCHANGED <<control, journal, reach, after, walked, page, unseen, skips, window,
                 heavy, pfile, jobs, events, worker, used, coordinator>>

(* pending: the next page of pending tasks, all marked queued at once. *)
Beyond == {f \in In("pending") : id[f] > after}

FetchPage ==
  /\ ~Stopping
  /\ Produce("pages", "resume")
  /\ Beyond # {}
  /\ \E n \in 1..PageSize : \E tasks \in [1..n -> Beyond] :
       /\ \A j, k \in 1..n : j < k => id[tasks[j]] < id[tasks[k]]
       /\ LET taken == {tasks[k] : k \in 1..n} IN
          /\ \A f \in taken, g \in Beyond \ taken : id[f] < id[g]
          /\ n = PageSize \/ taken = Beyond
          /\ job' = [f \in Files |-> IF f \in taken THEN "queued" ELSE job[f]]
       /\ page' = tasks
       /\ after' = id[tasks[n]]
  /\ UNCHANGED <<control, id, discoveryDone, status, reach, walked, unseen, skips, window,
                 heavy, pfile, jobs, events, worker, used, coordinator>>

NoPage ==
  /\ ~Stopping
  /\ Produce("pages", "check")
  /\ Beyond = {}
  /\ reach' = "check"
  /\ UNCHANGED <<control, journal, after, walked, page, unseen, skips, window,
                 heavy, pfile, jobs, events, worker, used, coordinator>>

(* A task of the page is announced (a blocking send), then handed out.      *)
AnnounceResumed ==
  /\ Produce("resume", "resumeJob")
  /\ Send(Event("resumed", Head(page)))
  /\ UNCHANGED <<control, journal, reach, after, walked, page, unseen, skips, window,
                 heavy, pfile, jobs, worker, used, coordinator>>

(* Broken variant of HandOutResumed: the page is not advanced. *)
HandOutResumedAgain ==
  /\ ~Stopping
  /\ Produce("resumeJob", IF Len(page) > 1 THEN "resume" ELSE "pages")
  /\ Len(jobs) < JobCap
  /\ jobs' = Append(jobs, Head(page))
  /\ UNCHANGED <<control, journal, reach, after, walked, page, unseen, skips, window,
                 heavy, pfile, events, worker, used, coordinator>>

HandOutResumed ==
  /\ ~Stopping
  /\ Produce("resumeJob", IF Len(page) > 1 THEN "resume" ELSE "pages")
  /\ Len(jobs) < JobCap
  /\ jobs' = Append(jobs, Head(page))
  /\ page' = Tail(page)
  /\ UNCHANGED <<control, journal, reach, after, walked, unseen, skips, window,
                 heavy, pfile, events, worker, used, coordinator>>

CheckDiscovery ==
  /\ Produce("check", IF discoveryDone THEN "done" ELSE "walk")
  /\ reach' = IF discoveryDone THEN "drained" ELSE "walk"
  /\ UNCHANGED <<control, journal, after, walked, page, unseen, skips, window,
                 heavy, pfile, jobs, events, worker, used, coordinator>>

(* The walk yields a file; a full window is dispatched. *)
WalkFile ==
  /\ ~Stopping
  /\ Spawned /\ ppc = "walk"
  /\ \E f \in unseen :
       /\ unseen' = unseen \ {f}
       /\ window' = window \cup {f}
       /\ ppc' = IF Cardinality(window \cup {f}) >= Window THEN "dispatch" ELSE "walk"
  /\ UNCHANGED <<control, journal, reach, after, walked, page, skips,
                 heavy, pfile, jobs, events, worker, used, coordinator>>

(* The walk skips an entry; its notice is a blocking send. *)
WalkSkip ==
  /\ ~Stopping
  /\ Produce("walk", "skip")
  /\ skips > 0
  /\ skips' = skips - 1
  /\ UNCHANGED <<control, journal, reach, after, walked, page, unseen, window,
                 heavy, pfile, jobs, events, worker, used, coordinator>>

WalkNotice ==
  /\ Produce("skip", "walk")
  /\ Send(Event("notice", NoFile))
  /\ UNCHANGED <<control, journal, reach, after, walked, page, unseen, skips, window,
                 heavy, pfile, jobs, worker, used, coordinator>>

(* What is left in the window goes out heaviest first. *)
WalkEnds ==
  /\ Produce("walk", "dispatch")
  /\ unseen = {} /\ skips = 0
  /\ heavy' = TRUE
  /\ UNCHANGED <<control, journal, reach, after, walked, page, unseen, skips, window,
                 pfile, jobs, events, worker, used, coordinator>>

FirstOut(f) == \A g \in window : IF heavy THEN Cost[f] >= Cost[g] ELSE Cost[f] <= Cost[g]

(* dispatch_window takes the cheapest or the heaviest file of the window;   *)
(* schedule gives it a queued row, or nothing when it has one already.      *)
Schedule(f) ==
  IF job[f] \in {"queued", "running", "done"}
    THEN /\ ppc' = "dispatch"
         /\ UNCHANGED <<id, job, pfile>>
    ELSE /\ job[f] = "pending" \/ Cardinality(Known) < MaxFiles
         /\ ppc' = "announce"
         /\ id' = [id EXCEPT ![f] = IF job[f] = "pending" THEN @ ELSE Cardinality(Known) + 1]
         /\ job' = [job EXCEPT ![f] = "queued"]
         /\ pfile' = f

Dispatch ==
  /\ ~Stopping
  /\ Spawned /\ ppc = "dispatch"
  /\ \E f \in window :
       /\ FirstOut(f)
       /\ window' = window \ {f}
       /\ walked' = walked \cup {f}
       /\ Schedule(f)
  /\ UNCHANGED <<control, discoveryDone, status, reach, after, page, unseen, skips,
                 heavy, jobs, events, worker, used, coordinator>>

WindowEmpty ==
  /\ Produce("dispatch", IF heavy THEN "finish" ELSE "walk")
  /\ window = {}
  /\ UNCHANGED <<control, journal, reach, after, walked, page, unseen, skips, window,
                 heavy, pfile, jobs, events, worker, used, coordinator>>

AnnounceDiscovered ==
  /\ Produce("announce", "job")
  /\ Send(Event("discovered", pfile))
  /\ UNCHANGED <<control, journal, reach, after, walked, page, unseen, skips, window,
                 heavy, pfile, jobs, worker, used, coordinator>>

HandOut ==
  /\ ~Stopping
  /\ Produce("job", "dispatch")
  /\ Len(jobs) < JobCap
  /\ jobs' = Append(jobs, pfile)
  /\ pfile' = NoFile
  /\ UNCHANGED <<control, journal, reach, after, walked, page, unseen, skips, window,
                 heavy, events, worker, used, coordinator>>

FinishDiscovery ==
  /\ ~Stopping
  /\ Produce("finish", "close")
  /\ discoveryDone' = TRUE
  /\ reach' = "drained"
  /\ UNCHANGED <<control, id, job, status, after, walked, page, unseen, skips, window,
                 heavy, pfile, jobs, events, worker, used, coordinator>>

AnnounceDiscoveryFinished ==
  /\ Produce("close", "done")
  /\ Send(Event("closed", NoFile))
  /\ UNCHANGED <<control, journal, reach, after, walked, page, unseen, skips, window,
                 heavy, pfile, jobs, worker, used, coordinator>>

(* schedule refuses a new file at max_files; the other calls the producer   *)
(* makes may fail as well.                                                  *)
AtLimit ==
  /\ ppc = "dispatch"
  /\ Cardinality(Known) >= MaxFiles
  /\ \E f \in window : FirstOut(f) /\ job[f] = "absent"

ProducerFails ==
  /\ ~Stopping
  /\ Spawned
  /\ AtLimit \/ ("producer" \in Faults /\ ppc \in {"pages", "check", "finish"})
  /\ ppc' = "erred"
  /\ reach' = "halted"
  /\ UNCHANGED <<control, journal, after, walked, page, unseen, skips, window,
                 heavy, pfile, jobs, events, worker, used, coordinator>>

(* An error that comes with a stop is that stop, and is not reported. *)
JudgeError ==
  /\ Produce("erred", IF Stopping THEN "done" ELSE "complain")
  /\ UNCHANGED <<control, journal, reach, after, walked, page, unseen, skips, window,
                 heavy, pfile, jobs, events, worker, used, coordinator>>

(* The notice goes out first, the cancellation follows. *)
Complain ==
  /\ Produce("complain", "giveUp")
  /\ Send(Event("notice", NoFile))
  /\ UNCHANGED <<control, journal, reach, after, walked, page, unseen, skips, window,
                 heavy, pfile, jobs, worker, used, coordinator>>

GiveUp ==
  /\ Produce("giveUp", "done")
  /\ stop' = "cancelled"
  /\ UNCHANGED <<late, journal, reach, after, walked, page, unseen, skips, window,
                 heavy, pfile, jobs, events, worker, used, coordinator>>

Producer ==
  \/ ProducerStops \/ FetchPage \/ NoPage \/ AnnounceResumed \/ HandOutResumed
  \/ CheckDiscovery \/ WalkFile \/ WalkSkip \/ WalkNotice \/ WalkEnds \/ Dispatch \/ WindowEmpty
  \/ AnnounceDiscovered \/ HandOut \/ FinishDiscovery \/ AnnounceDiscoveryFinished
  \/ ProducerFails \/ JudgeError \/ Complain \/ GiveUp

-----------------------------------------------------------------------------
(* The workers.  wpc names what the worker does next; between "start" and   *)
(* "deliver" it holds a reservation, and from "recv" on its hash buffer.    *)

Working(w, from, to) == Spawned /\ wpc[w] = from /\ wpc' = [wpc EXCEPT ![w] = to]
Leasing == {"start", "announce", "process", "deliver", "complain", "giveUp"}

(* Broken variant of Exit: a reservation is released with its result only. *)
ExitLeaking(w, from) ==
  /\ Working(w, from, "exit")
  /\ wfile' = [wfile EXCEPT ![w] = NoFile]
  /\ used' = used - (IF from = "buffer" THEN 0 ELSE HashBuffer)

(* The thread ends and drops what it holds: a task that was not delivered   *)
(* stays in the journal as it is.                                           *)
Exit(w, from) ==
  /\ Working(w, from, "exit")
  /\ wfile' = [wfile EXCEPT ![w] = NoFile]
  /\ used' = used - (IF from = "buffer" THEN 0 ELSE HashBuffer)
                  - (IF from \in Leasing THEN Reservation ELSE 0)

(* MemoryBudget::acquire looks at the control each time it looks at the     *)
(* budget, and so does the worker before it takes a job and after process.  *)
WorkerStops(w) ==
  /\ Stopping
  /\ \E from \in {"buffer", "idle", "lease", "process"} : Exit(w, from)
  /\ UNCHANGED <<control, journal, producer, jobs, events, coordinator>>

AcquireBuffer(w) ==
  /\ ~Stopping
  /\ Working(w, "buffer", "idle")
  /\ MaxMemory - used >= HashBuffer
  /\ used' = used + HashBuffer
  /\ UNCHANGED <<control, journal, producer, jobs, events, wfile, coordinator>>

LookForWork(w) ==
  /\ ~Stopping
  /\ Working(w, "idle", "recv")
  /\ UNCHANGED <<control, journal, producer, jobs, events, wfile, used, coordinator>>

(* The receiver is behind a mutex that is held while recv blocks: whichever *)
(* worker has it gets the next job, so any worker in "recv" may.            *)
Receive(w) ==
  /\ Working(w, "recv", "lease")
  /\ jobs # <<>>
  /\ wfile' = [wfile EXCEPT ![w] = Head(jobs)]
  /\ jobs' = Tail(jobs)
  /\ UNCHANGED <<control, journal, producer, events, used, coordinator>>

(* recv fails once the producer is gone and the channel is empty. *)
NoMoreWork(w) ==
  /\ jobs = <<>>
  /\ ppc = "done"
  /\ Exit(w, "recv")
  /\ UNCHANGED <<control, journal, producer, jobs, events, coordinator>>

AcquireReservation(w) ==
  /\ ~Stopping
  /\ Working(w, "lease", "start")
  /\ MaxMemory - used >= Reservation
  /\ used' = used + Reservation
  /\ UNCHANGED <<control, journal, producer, jobs, events, wfile, coordinator>>

Started(w) ==
  /\ Working(w, "start", "announce")
  /\ job[wfile[w]] = "queued"
  /\ job' = [job EXCEPT ![wfile[w]] = "running"]
  /\ UNCHANGED <<control, id, discoveryDone, status, producer, jobs, events,
                 wfile, used, coordinator>>

(* started fails: the store does, or the task is not queued. *)
StartRefused(w) ==
  /\ Working(w, "start", "complain")
  /\ job[wfile[w]] # "queued" \/ "started" \in Faults
  /\ UNCHANGED <<control, journal, producer, jobs, events, wfile, used, coordinator>>

AnnounceStarted(w) ==
  /\ Working(w, "announce", "process")
  /\ Send(Event("started", wfile[w]))
  /\ UNCHANGED <<control, journal, producer, jobs, wfile, used, coordinator>>

(* A result, failed or not, is sent only if no stop was requested so far. *)
Process(w) ==
  /\ ~Stopping
  /\ Working(w, "process", "deliver")
  /\ UNCHANGED <<control, journal, producer, jobs, events, wfile, used, coordinator>>

(* The reservation travels with the result. *)
Deliver(w) ==
  /\ Working(w, "deliver", "idle")
  /\ Send(Event("completed", wfile[w]))
  /\ wfile' = [wfile EXCEPT ![w] = NoFile]
  /\ UNCHANGED <<control, journal, producer, jobs, used, coordinator>>

WorkerComplains(w) ==
  /\ Working(w, "complain", "giveUp")
  /\ Send(Event("notice", wfile[w]))
  /\ UNCHANGED <<control, journal, producer, jobs, wfile, used, coordinator>>

WorkerGivesUp(w) ==
  /\ Exit(w, "giveUp")
  /\ stop' = "cancelled"
  /\ UNCHANGED <<late, journal, producer, jobs, events, coordinator>>

Worker(w) ==
  \/ WorkerStops(w) \/ AcquireBuffer(w) \/ LookForWork(w) \/ Receive(w) \/ NoMoreWork(w)
  \/ AcquireReservation(w) \/ Started(w) \/ StartRefused(w) \/ AnnounceStarted(w)
  \/ Process(w) \/ Deliver(w) \/ WorkerComplains(w) \/ WorkerGivesUp(w)

-----------------------------------------------------------------------------
(* The coordinator, on the thread that called run_pipeline. *)

Coordinate(from, to) == cpc = from /\ cpc' = to
Free(n) == used' = used - n * Reservation
ThreadsJoined == ppc = "done" /\ \A w \in Workers : wpc[w] = "exit"

(* control.begin: a control that was stopped before starts no thread. *)
Begin ==
  /\ Coordinate("begin", IF Stopping THEN "failed" ELSE "recv")
  /\ ppc' = IF Stopping THEN "done" ELSE ppc
  /\ wpc' = IF Stopping THEN [w \in Workers |-> "exit"] ELSE wpc
  /\ UNCHANGED <<control, journal, reach, after, walked, page, unseen, skips, window, heavy,
                 pfile, jobs, events, wfile, used, batch, envelope, then, seen>>

(* A result joins the batch, and a full batch is flushed. *)
ReceiveResult ==
  /\ cpc = "recv"
  /\ events # <<>> /\ Head(events).kind = "completed"
  /\ events' = Tail(events)
  /\ batch' = Append(batch, Head(events).file)
  /\ cpc' = IF Len(batch) + 1 >= BatchMax THEN "persist" ELSE "recv"
  /\ then' = "recv"
  /\ UNCHANGED <<control, journal, producer, jobs, worker, used, envelope, seen>>

(* Any other event goes to the sink, after the batch that came before it. *)
ReceiveEvent ==
  /\ cpc = "recv"
  /\ events # <<>> /\ Head(events).kind # "completed"
  /\ events' = Tail(events)
  /\ envelope' = Head(events)
  /\ cpc' = IF batch = <<>> THEN "sink" ELSE "persist"
  /\ then' = "sink"
  /\ UNCHANGED <<control, journal, producer, jobs, worker, used, batch, seen>>

(* Broken variant of IdleFlush: only the end of all senders flushes. *)
FlushAtEnd ==
  /\ Coordinate("recv", "persist")
  /\ events = <<>> /\ batch # <<>>
  /\ ThreadsJoined
  /\ then' = "join"
  /\ UNCHANGED <<control, journal, producer, jobs, events, worker, used,
                 batch, envelope, seen>>

(* 25 ms without an event: what there is of a batch is flushed. *)
IdleFlush ==
  /\ Coordinate("recv", "persist")
  /\ events = <<>> /\ batch # <<>>
  /\ then' = IF ThreadsJoined THEN "join" ELSE "recv"
  /\ UNCHANGED <<control, journal, producer, jobs, events, worker, used,
                 batch, envelope, seen>>

(* All senders are gone and the channel is empty. *)
Disconnected ==
  /\ Coordinate("recv", "join")
  /\ events = <<>> /\ batch = <<>>
  /\ ThreadsJoined
  /\ UNCHANGED <<control, journal, producer, jobs, events, worker, used,
                 batch, envelope, then, seen>>

(* Broken variant of Persist: only the first of the batch is stored. *)
PersistFirst ==
  /\ Coordinate("persist", "deliver")
  /\ job' = [job EXCEPT ![Head(batch)] = "done"]
  /\ UNCHANGED <<control, id, discoveryDone, status, producer, jobs, events, worker, used,
                 batch, envelope, then, seen>>

(* persist_batch: one transaction for the whole batch, before any of it is  *)
(* shown to the sink.                                                       *)
Persist ==
  /\ Coordinate("persist", "deliver")
  /\ job' = [f \in Files |-> IF \E n \in DOMAIN batch : batch[n] = f THEN "done" ELSE job[f]]
  /\ UNCHANGED <<control, id, discoveryDone, status, producer, jobs, events, worker, used,
                 batch, envelope, then, seen>>

SinkResult ==
  /\ cpc = "deliver"
  /\ batch' = Tail(batch)
  /\ seen' = [seen EXCEPT ![Head(batch)] = 3]
  /\ Free(1)
  /\ cpc' = IF Len(batch) = 1 THEN then ELSE "deliver"
  /\ UNCHANGED <<control, journal, producer, jobs, events, worker, envelope, then>>

SinkEvent ==
  /\ Coordinate("sink", "recv")
  /\ seen' = CASE envelope.kind \in {"resumed", "discovered"} -> [seen EXCEPT ![envelope.file] = 1]
               [] envelope.kind = "started" -> [seen EXCEPT ![envelope.file] = 2]
               [] OTHER -> seen
  /\ envelope' = Event("none", NoFile)
  /\ UNCHANGED <<control, journal, producer, jobs, events, worker, used, batch, then>>

(* The store or the sink fails: the scan is cancelled and the closure       *)
(* returns, dropping the batch; the events channel lives on until           *)
(* run_pipeline returns, and nobody reads it any more.                      *)
CoordinatorFails ==
  /\ \/ "persist" \in Faults /\ cpc = "persist"
     \/ "sink" \in Faults /\ cpc \in {"deliver", "sink"}
  /\ cpc' = "failed"
  /\ stop' = "cancelled"
  /\ Free(Len(batch))
  /\ batch' = <<>>
  /\ UNCHANGED <<late, journal, producer, jobs, events, worker, envelope, then, seen>>

(* Broken variant of Finish: it takes the end of the threads for success. *)
FinishCompleted ==
  /\ Coordinate("join", "closing")
  /\ status' = "completed"
  /\ UNCHANGED <<control, id, job, discoveryDone, producer, jobs, events, worker, used,
                 batch, envelope, then, seen>>

(* thread::scope has joined every thread: Finished is stored with the       *)
(* reason the control gives now, and passed to the sink.                    *)
Finish ==
  /\ Coordinate("join", "closing")
  /\ status' = IF Stopping THEN Reason ELSE "completed"
  /\ UNCHANGED <<control, id, job, discoveryDone, producer, jobs, events, worker, used,
                 batch, envelope, then, seen>>

ReturnOk ==
  /\ Coordinate("closing", "returned")
  /\ UNCHANGED <<control, journal, producer, jobs, events, worker, used,
                 batch, envelope, then, seen>>

(* The error is returned when every thread has been joined; the store then  *)
(* marks the run as failed.                                                 *)
ReturnErr ==
  /\ \/ cpc = "failed" /\ ThreadsJoined
     \/ cpc = "closing" /\ "sink" \in Faults
  /\ cpc' = "returned"
  /\ status' = "failed"
  /\ UNCHANGED <<control, id, job, discoveryDone, producer, jobs, events, worker, used,
                 batch, envelope, then, seen>>

Coordinator ==
  \/ Begin \/ ReceiveResult \/ ReceiveEvent \/ IdleFlush \/ Disconnected \/ Persist
  \/ SinkResult \/ SinkEvent \/ CoordinatorFails \/ Finish \/ ReturnOk \/ ReturnErr

-----------------------------------------------------------------------------
Next ==
  \/ Control
  \/ Producer
  \/ \E w \in Workers : Worker(w)
  \/ Coordinator

Spec == Init /\ [][Next]_vars

(* The threads are scheduled: each takes its next step if it stays possible.*)
(* Nobody has to stop the scan.                                             *)
Fairness ==
  /\ WF_vars(Producer)
  /\ \A w \in Workers : WF_vars(Worker(w))
  /\ WF_vars(Coordinator)

FairSpec == Spec /\ Fairness

-----------------------------------------------------------------------------
(* The results waiting in the events channel, each with its lease. *)
Undelivered == {n \in DOMAIN events : events[n].kind = "completed"}

TypeOK ==
  /\ stop \in {"none", "paused", "cancelled"} /\ late \in BOOLEAN
  /\ id \in [Files -> Nat]
  /\ job \in [Files -> {"absent", "pending", "queued", "running", "done"}]
  /\ discoveryDone \in BOOLEAN
  /\ reach \in {"pending", "check", "walk", "drained", "halted"}
  /\ window \subseteq Files /\ walked \subseteq Files /\ unseen \subseteq Files
  /\ Cardinality(window) <= Window
  /\ pfile \in Files \cup {NoFile}
  /\ Len(jobs) <= JobCap /\ Len(events) <= EventCap /\ Len(batch) <= BatchMax
  /\ wfile \in [Workers -> Files \cup {NoFile}]
  /\ seen \in [Files -> 0..3]

(* MemoryBudget.used is exactly what the living leases add up to, wherever  *)
(* they are: with a worker, with a result in the channel, in the batch.     *)
(* It never exceeds the budget, and no lease is released twice or leaked.   *)
MemoryAccounted ==
  /\ used = HashBuffer * Cardinality({w \in Workers : wpc[w] \notin {"buffer", "exit"}})
            + Reservation * (Cardinality({w \in Workers : wpc[w] \in Leasing})
                             + Cardinality(Undelivered) + Len(batch))
  /\ used <= MaxMemory

(* What the sink was shown as completed is already in the journal. *)
StoredBeforeShown == \A f \in Files : seen[f] = 3 => job[f] = "done"

(* The sink sees each file's events in order and once each: announced, then *)
(* started, then completed, although two threads send them.                 *)
ShownInOrder ==
  [][\A f \in Files : seen'[f] # seen[f] => seen'[f] = seen[f] + 1]_vars

(* A pipeline that ends without a stop has stored and shown a result for    *)
(* every task of the run it was given or found.                             *)
NothingLost ==
  cpc \in {"closing", "returned"} /\ status = "completed" =>
    /\ discoveryDone
    /\ \A f \in Files : job[f] \in {"absent", "done"}
    /\ \A f \in Files : seen[f] \in {0, 3}

(* Finished is stored: what the threads held is no longer the invocation's. *)
Over == cpc \in {"closing", "returned"}
Phase == IF cpc = "returned" THEN "idle" ELSE IF cpc = "closing" THEN "closing" ELSE reach
Result == [f \in Files |-> IF job[f] = "done" THEN 1 ELSE 0]
ByRun(value) == [i \in {"run"} |-> value]
Journal == INSTANCE ScanJournal WITH
  Invocations <- {"run"},
  MaxGeneration <- 1,
  generation <- 1,
  result <- Result,
  phase <- ByRun(Phase),
  gen <- ByRun(IF cpc = "returned" THEN 0 ELSE 1),
  after <- ByRun(IF Over THEN 0 ELSE after),
  walked <- ByRun(IF Over THEN {} ELSE walked),
  held <- ByRun(IF Over THEN {} ELSE In("queued")),
  working <- ByRun(IF Over THEN {} ELSE In("running")),
  stop <- ByRun(IF Over THEN "none" ELSE Reason)

(* The threads use the journal the way ScanJournal says an invocation does: *)
(* each step of a thread is a step of the invocation, or none.              *)
FollowsJournal == [][Journal!Next]_(Journal!vars)

(* run_pipeline returns, whoever stops it and whenever. *)
Returns == <>(cpc = "returned")

(* A scan that nobody stops and in which nothing fails completes. *)
Completes == []~Stopping => <>(status = "completed")

(* What the threads may not get wrong together: the queues stay within      *)
(* their bounds, nothing is shown before the journal has it, and nothing is *)
(* lost on the way.                                                         *)
PipelineSound == TypeOK /\ StoredBeforeShown /\ NothingLost
=============================================================================
