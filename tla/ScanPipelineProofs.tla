-------------------------- MODULE ScanPipelineProofs --------------------------
(***************************************************************************)
(* Proofs about ScanPipeline.                                              *)
(*                                                                         *)
(* First the types of its variables, with the bounds of its queues, and    *)
(* the memory budget.  Then what the two threads say of a file reaches the *)
(* sink in order, nothing is shown before it is stored, nothing of a run   *)
(* that completes is lost, and the threads together are the one invocation *)
(* that ScanJournal describes.                                             *)
(*                                                                         *)
(* The argument follows one file.  The events channel, the event or the    *)
(* batch the coordinator has in hand and what the sink has seen make up    *)
(* one history, 1 announced, 2 started, 3 completed: it has no gap and no  *)
(* repetition (Stages), because the file is in one place at a time (Apart) *)
(* and each place says how much of the history its thread has sent.        *)
(***************************************************************************)
EXTENDS ScanPipeline, FiniteSetTheorems, SequenceTheorems, TLAPS

Kinds == {"none", "resumed", "discovered", "started", "completed", "notice", "closed"}

(* How far an event takes the sink's view of its file; 0 for one that says  *)
(* nothing of a file.                                                       *)
Level(kind) ==
  IF kind \in {"resumed", "discovered"} THEN 1
  ELSE IF kind = "started" THEN 2 ELSE IF kind = "completed" THEN 3 ELSE 0

Events ==
  {e \in [kind : Kinds, file : Files \cup {NoFile}] : Level(e.kind) > 0 => e.file \in Files}

ProducerPlaces ==
  {"pages", "resume", "resumeJob", "check", "walk", "skip", "dispatch", "announce",
   "job", "finish", "close", "done", "erred", "complain", "giveUp"}
WorkerPlaces ==
  {"buffer", "idle", "recv", "lease", "exit",
   "start", "announce", "process", "deliver", "complain", "giveUp"}
CoordinatorPlaces ==
  {"begin", "recv", "persist", "deliver", "sink", "join", "closing", "failed", "returned"}

-----------------------------------------------------------------------------
(* The type invariant is inductive only with the places the threads are at: *)
(* the page, the window, the batch and a worker's task are read where they  *)
(* hold something, and a full batch or window is never added to.            *)
ControlType == stop \in {"none", "paused", "cancelled"} /\ late \in BOOLEAN

JournalType ==
  /\ id \in [Files -> Nat]
  /\ job \in [Files -> {"absent", "pending", "queued", "running", "done"}]
  /\ discoveryDone \in BOOLEAN

PageType ==
  /\ page \in Seq(Files)
  /\ ppc \in {"resume", "resumeJob"} => page # << >>

WindowType ==
  /\ window \subseteq Files /\ Cardinality(window) <= Window
  /\ ppc \in {"walk", "skip", "pages", "check", "resume", "resumeJob"} =>
       Cardinality(window) < Window

WalkType ==
  /\ reach \in {"pending", "check", "walk", "drained", "halted"}
  /\ after \in Nat
  /\ walked \subseteq Files /\ unseen \subseteq Files
  /\ skips \in Nat /\ heavy \in BOOLEAN
  /\ ppc \in ProducerPlaces
  /\ pfile \in Files \cup {NoFile}
  /\ ppc \in {"announce", "job"} => pfile \in Files

ProducerType == PageType /\ WindowType /\ WalkType

ChannelType ==
  /\ jobs \in Seq(Files) /\ Len(jobs) <= JobCap
  /\ events \in Seq(Events) /\ Len(events) <= EventCap

WorkerType ==
  /\ wpc \in [Workers -> WorkerPlaces]
  /\ wfile \in [Workers -> Files \cup {NoFile}]
  /\ \A w \in Workers : wfile[w] \in Files <=> wpc[w] \in Leasing \cup {"lease"}

CoordinatorType ==
  /\ cpc \in CoordinatorPlaces
  /\ batch \in Seq(Files) /\ Len(batch) <= BatchMax
  /\ cpc \in {"persist", "deliver"} => batch # << >>
  /\ cpc = "recv" => Len(batch) < BatchMax
  /\ cpc \in {"begin", "sink", "join", "closing"} => batch = << >>
  /\ envelope \in Events /\ then \in {"recv", "sink", "join"}
  /\ seen \in [Files -> 0..3]
  /\ cpc = "begin" => \A w \in Workers : wpc[w] = "buffer"

TypeInv ==
  /\ ControlType /\ JournalType /\ ProducerType /\ ChannelType /\ WorkerType /\ CoordinatorType

-----------------------------------------------------------------------------
LEMMA Sizes ==
  /\ JobCap \in Nat /\ EventCap \in Nat /\ PageSize \in Nat /\ Window \in Nat /\ BatchMax \in Nat
  /\ JobCap > 0 /\ EventCap > 0 /\ PageSize > 0 /\ Window > 0 /\ BatchMax > 0
  /\ MaxMemory \in Nat /\ Reservation \in Nat /\ HashBuffer \in Nat /\ MaxFiles \in Nat
  /\ NoFile \notin Files /\ IsFiniteSet(Files) /\ IsFiniteSet(Workers)
BY PipelineAssumption

(* A file set of the pipeline has a size, which one file changes by one. *)
LEMMA Counted ==
  ASSUME NEW S, S \subseteq Files, NEW f
  PROVE  /\ IsFiniteSet(S) /\ Cardinality(S) \in Nat
         /\ Cardinality(S \cup {f}) <= Cardinality(S) + 1
         /\ Cardinality(S \ {f}) <= Cardinality(S)
BY FS_Subset, FS_CardinalityType, FS_AddElement, FS_RemoveElement, Sizes

LEMMA TypeInit == Init => TypeInv
<1> SUFFICES ASSUME Init PROVE TypeInv
  OBVIOUS
<1>1. Cardinality({}) = 0
  BY FS_EmptySet
<1>2. JournalType
  <2>1. id \in [Files -> Nat]
    <3>1. Cardinality(Known) \in Nat
      BY Counted DEF Known
    <3>2. 0..Cardinality(Known) \subseteq Nat
      BY <3>1
    <3> QED BY <3>2 DEF Init
  <2> QED BY <2>1 DEF Init, JournalType
<1>3. ProducerType
  <2>1. PageType /\ WindowType
    BY <1>1, Sizes DEF Init, PageType, WindowType
  <2>2. skips \in Nat
    BY Sizes DEF Init
  <2>3. WalkType
    BY <2>2, Sizes DEF Init, WalkType, ProducerPlaces
  <2> QED BY <2>1, <2>3 DEF ProducerType
<1>4. ChannelType
  BY Sizes DEF Init, ChannelType
<1>5. WorkerType
  BY Sizes DEF Init, WorkerType, WorkerPlaces, Leasing
<1>6. CoordinatorType
  BY Sizes DEF Init, CoordinatorType, CoordinatorPlaces, Event, Events, Kinds, Level
<1> QED BY <1>2, <1>3, <1>4, <1>5, <1>6 DEF Init, TypeInv, ControlType

(* What a channel holds when its first message is taken. *)
LEMMA TakeType ==
  ASSUME NEW S, NEW s \in Seq(S), s # << >>
  PROVE  /\ Head(s) \in S /\ Head(s) = s[1] /\ 1 \in DOMAIN s
         /\ Tail(s) \in Seq(S) /\ Len(Tail(s)) = Len(s) - 1 /\ Len(s) \in Nat
         /\ DOMAIN s = 1..Len(s) /\ DOMAIN Tail(s) = 1..Len(s) - 1
         /\ \A n \in DOMAIN Tail(s) : n + 1 \in DOMAIN s /\ Tail(s)[n] = s[n + 1]
         /\ \A n \in DOMAIN s : n # 1 => n - 1 \in DOMAIN Tail(s) /\ Tail(s)[n - 1] = s[n]
<1>1. Len(s) \in Nat /\ Len(s) # 0 /\ DOMAIN s = 1..Len(s)
  OBVIOUS
<1>2. Tail(s) \in Seq(S) /\ Len(Tail(s)) = Len(s) - 1 /\ \A n \in 1..Len(Tail(s)) : Tail(s)[n] = s[n + 1]
  BY HeadTailProperties
<1>3. Head(s) = s[1] /\ Head(s) \in S
  OBVIOUS
<1> QED BY <1>1, <1>2, <1>3

(* And when one is added. *)
LEMMA AddType ==
  ASSUME NEW S, NEW s \in Seq(S), NEW x \in S
  PROVE  /\ Append(s, x) \in Seq(S) /\ Len(s) \in Nat /\ Len(Append(s, x)) = Len(s) + 1
         /\ DOMAIN s = 1..Len(s) /\ DOMAIN Append(s, x) = 1..Len(s) + 1
         /\ \A n \in 1..Len(s) : Append(s, x)[n] = s[n]
         /\ Append(s, x)[Len(s) + 1] = x
BY AppendProperties

(* What a thread sends is an event. *)
LEMMA SendType ==
  ASSUME ChannelType, NEW e \in Events, Send(e), UNCHANGED jobs
  PROVE  ChannelType'
BY Sizes, AppendProperties DEF ChannelType, Send

LEMMA TypeControl == TypeInv /\ Control => TypeInv'
<1> SUFFICES ASSUME TypeInv, Control PROVE TypeInv'
  OBVIOUS
<1>1. ControlType' /\ UNCHANGED <<journal, producer, jobs, events, worker, coordinator>>
  BY DEF TypeInv, Control, Pause, Cancel, Expire, ControlType
<1> QED
  BY <1>1 DEF TypeInv, journal, producer, worker, coordinator, JournalType, ProducerType,
              PageType, WindowType, WalkType, ChannelType, WorkerType, CoordinatorType

(* The producer: one step per variable group an action may disturb. *)
LEMMA TypeProducer == TypeInv /\ Producer => TypeInv'
<1> SUFFICES ASSUME TypeInv, Producer PROVE TypeInv'
  OBVIOUS
<1> USE DEF Produce, Spawned
<1>1. ControlType'
  BY DEF TypeInv, ControlType, Producer, control, ProducerStops, FetchPage, NoPage, AnnounceResumed,
     HandOutResumed, CheckDiscovery, WalkFile, WalkSkip, WalkNotice, WalkEnds, Dispatch, WindowEmpty,
     AnnounceDiscovered, HandOut, FinishDiscovery, AnnounceDiscoveryFinished, ProducerFails,
     JudgeError, Complain, GiveUp
<1>2. WorkerType' /\ CoordinatorType'
  <2>1. UNCHANGED <<worker, coordinator>> /\ cpc # "begin"
    BY DEF Producer, ProducerStops, FetchPage, NoPage, AnnounceResumed,
       HandOutResumed, CheckDiscovery, WalkFile, WalkSkip, WalkNotice, WalkEnds, Dispatch, WindowEmpty,
       AnnounceDiscovered, HandOut, FinishDiscovery, AnnounceDiscoveryFinished, ProducerFails,
       JudgeError, Complain, GiveUp
  <2> QED BY <2>1 DEF TypeInv, WorkerType, CoordinatorType, worker, coordinator
<1>3. JournalType'
  <2>1. CASE FetchPage
    BY <2>1 DEF TypeInv, JournalType, FetchPage, Beyond, In
  <2>2. CASE Dispatch
    <3>1. Cardinality(Known) \in Nat
      BY Counted DEF Known
    <3> QED BY <2>2, <3>1 DEF TypeInv, JournalType, Dispatch, Schedule
  <2>3. CASE FinishDiscovery
    BY <2>3 DEF TypeInv, JournalType, FinishDiscovery
  <2>4. CASE ~FetchPage /\ ~Dispatch /\ ~FinishDiscovery
    BY <2>4 DEF TypeInv, JournalType, journal, Producer, ProducerStops, NoPage, AnnounceResumed,
       HandOutResumed, CheckDiscovery, WalkFile, WalkSkip, WalkNotice, WalkEnds, WindowEmpty,
       AnnounceDiscovered, HandOut, AnnounceDiscoveryFinished, ProducerFails,
       JudgeError, Complain, GiveUp
  <2> QED BY <2>1, <2>2, <2>3, <2>4
<1>4. ChannelType'
  <2>1. CASE HandOutResumed
    <3>1. Head(page) \in Files
      BY <2>1 DEF TypeInv, ProducerType, PageType, HandOutResumed
    <3> QED BY <2>1, <3>1, Sizes, AppendProperties DEF TypeInv, ChannelType, HandOutResumed
  <2>2. CASE HandOut
    <3>1. pfile \in Files
      BY <2>2 DEF TypeInv, ProducerType, WalkType, HandOut
    <3> QED BY <2>2, <3>1, Sizes, AppendProperties DEF TypeInv, ChannelType, HandOut
  <2>3. CASE AnnounceResumed
    <3>1. Head(page) \in Files
      BY <2>3 DEF TypeInv, ProducerType, PageType, AnnounceResumed
    <3>2. Event("resumed", Head(page)) \in Events
      BY <3>1 DEF Event, Events, Kinds, Level
    <3> QED BY <2>3, <3>2, SendType DEF TypeInv, AnnounceResumed
  <2>4. CASE AnnounceDiscovered
    <3>1. Event("discovered", pfile) \in Events
      BY <2>4 DEF TypeInv, ProducerType, WalkType, AnnounceDiscovered, Event, Events, Kinds, Level
    <3> QED BY <2>4, <3>1, SendType DEF TypeInv, AnnounceDiscovered
  <2>5. CASE WalkNotice \/ Complain
    <3>1. Event("notice", NoFile) \in Events
      BY DEF Event, Events, Kinds, Level
    <3> QED BY <2>5, <3>1, SendType DEF TypeInv, WalkNotice, Complain
  <2>6. CASE AnnounceDiscoveryFinished
    <3>1. Event("closed", NoFile) \in Events
      BY DEF Event, Events, Kinds, Level
    <3> QED BY <2>6, <3>1, SendType DEF TypeInv, AnnounceDiscoveryFinished
  <2>7. CASE UNCHANGED <<jobs, events>>
    BY <2>7 DEF TypeInv, ChannelType
  <2> QED
    BY <2>1, <2>2, <2>3, <2>4, <2>5, <2>6, <2>7
       DEF Producer, ProducerStops, FetchPage, NoPage, CheckDiscovery, WalkFile, WalkSkip, WalkEnds,
           Dispatch, WindowEmpty, FinishDiscovery, ProducerFails, JudgeError, GiveUp
<1>5. PageType'
  <2>1. CASE FetchPage
    <3>1. Beyond \subseteq Files
      BY DEF Beyond, In
    <3>2. PICK n \in 1..PageSize : page' \in [1..n -> Beyond]
      BY <2>1 DEF FetchPage
    <3>3. page' \in Seq(Files) /\ Len(page') = n
      BY <3>1, <3>2, Sizes
    <3> QED BY <3>3 DEF PageType
  <2>2. CASE HandOutResumed
    <3>1. page \in Seq(Files) /\ page # << >>
      BY <2>2 DEF TypeInv, ProducerType, PageType, HandOutResumed
    <3>2. page' \in Seq(Files) /\ Len(page') = Len(page) - 1
      BY <2>2, <3>1, HeadTailProperties DEF HandOutResumed
    <3>3. ppc' \in {"resume", "resumeJob"} => Len(page) > 1
      BY <2>2 DEF HandOutResumed
    <3> QED BY <3>1, <3>2, <3>3 DEF PageType
  <2>3. CASE ~FetchPage /\ ~HandOutResumed
    <3>1. page' = page /\ (ppc' \in {"resume", "resumeJob"} => ppc \in {"resume", "resumeJob"})
      BY <2>3 DEF Producer, ProducerStops, NoPage, AnnounceResumed,
         CheckDiscovery, WalkFile, WalkSkip, WalkNotice, WalkEnds, Dispatch, Schedule, WindowEmpty,
         AnnounceDiscovered, HandOut, FinishDiscovery, AnnounceDiscoveryFinished, ProducerFails,
         JudgeError, Complain, GiveUp
    <3> QED BY <3>1 DEF TypeInv, ProducerType, PageType
  <2> QED BY <2>1, <2>2, <2>3
<1>6. WindowType'
  <2>0. window \subseteq Files /\ unseen \subseteq Files /\ Cardinality(window) <= Window
    BY DEF TypeInv, ProducerType, WindowType, WalkType
  <2>1. CASE WalkFile
    <3>1. PICK f \in unseen : /\ window' = window \cup {f}
                              /\ ppc' = IF Cardinality(window') >= Window THEN "dispatch" ELSE "walk"
      BY <2>1 DEF WalkFile
    <3>2. Cardinality(window) < Window
      BY <2>1 DEF WalkFile, TypeInv, ProducerType, WindowType
    <3>3. window' \subseteq Files
      BY <2>0, <3>1
    <3>4. Cardinality(window') \in Nat /\ Cardinality(window) \in Nat
      BY <2>0, <3>3, Counted
    <3>5. Cardinality(window') <= Cardinality(window) + 1
      BY <2>0, <3>1, Counted
    <3>6. Cardinality(window') <= Window /\ (ppc' # "dispatch" => Cardinality(window') < Window)
      BY <3>1, <3>2, <3>4, <3>5, Sizes
    <3> QED BY <3>1, <3>3, <3>6 DEF WindowType
  <2>2. CASE Dispatch
    <3>1. PICK f \in window : window' = window \ {f}
      BY <2>2 DEF Dispatch
    <3>2. window' \subseteq Files /\ Cardinality(window') <= Cardinality(window)
      BY <2>0, <3>1, Counted
    <3>3. Cardinality(window') \in Nat /\ Cardinality(window) \in Nat
      BY <2>0, <3>2, Counted
    <3>4. ppc' \in {"dispatch", "announce"}
      BY <2>2 DEF Dispatch, Schedule
    <3> QED BY <2>0, <3>2, <3>3, <3>4, Sizes DEF WindowType
  <2>3. CASE WindowEmpty
    <3>1. Cardinality(window) = 0
      BY <2>3, FS_EmptySet DEF WindowEmpty
    <3> QED BY <2>0, <2>3, <3>1, Sizes DEF WindowEmpty, WindowType
  <2>4. CASE ~WalkFile /\ ~Dispatch /\ ~WindowEmpty
    <3> DEFINE walking == {"walk", "skip", "pages", "check", "resume", "resumeJob"}
    <3>1. window' = window /\ (ppc' \in walking => ppc \in walking)
      BY <2>4 DEF Producer, ProducerStops, FetchPage, NoPage, AnnounceResumed,
         HandOutResumed, CheckDiscovery, WalkSkip, WalkNotice, WalkEnds,
         AnnounceDiscovered, HandOut, FinishDiscovery, AnnounceDiscoveryFinished, ProducerFails,
         JudgeError, Complain, GiveUp
    <3> QED BY <3>1 DEF TypeInv, ProducerType, WindowType
  <2> QED BY <2>1, <2>2, <2>3, <2>4
<1>7. WalkType'
  <2>0. WalkType
    BY DEF TypeInv, ProducerType
  <2>1. CASE FetchPage
    <3>1. PICK n \in 1..PageSize : page' \in [1..n -> Beyond] /\ after' = id[page'[n]]
      BY <2>1 DEF FetchPage
    <3>2. page'[n] \in Files
      BY <3>1, Sizes DEF Beyond, In
    <3>3. after' \in Nat
      BY <3>1, <3>2 DEF TypeInv, JournalType
    <3> QED BY <2>0, <2>1, <3>3 DEF WalkType, FetchPage, ProducerPlaces
  <2>2. CASE Dispatch
    <3>1. window \subseteq Files
      BY DEF TypeInv, ProducerType, WindowType
    <3> QED BY <2>0, <2>2, <3>1 DEF WalkType, Dispatch, Schedule, ProducerPlaces
  <2>3. CASE WalkFile
    BY <2>0, <2>3 DEF WalkType, WalkFile, ProducerPlaces
  <2>7. CASE WalkSkip
    BY <2>0, <2>7 DEF WalkType, WalkSkip, ProducerPlaces
  <2>8. CASE WalkNotice \/ WalkEnds \/ WindowEmpty
    BY <2>0, <2>8 DEF WalkType, WalkNotice, WalkEnds, WindowEmpty, ProducerPlaces
  <2>4. CASE ProducerStops \/ NoPage \/ AnnounceResumed \/ HandOutResumed \/ CheckDiscovery
    BY <2>0, <2>4 DEF WalkType, ProducerStops, NoPage, AnnounceResumed, HandOutResumed,
                      CheckDiscovery, ProducerPlaces
  <2>5. CASE AnnounceDiscovered \/ HandOut \/ FinishDiscovery \/ AnnounceDiscoveryFinished
    BY <2>0, <2>5 DEF WalkType, AnnounceDiscovered, HandOut, FinishDiscovery,
                      AnnounceDiscoveryFinished, ProducerPlaces
  <2>6. CASE ProducerFails \/ JudgeError \/ Complain \/ GiveUp
    BY <2>0, <2>6 DEF WalkType, ProducerFails, JudgeError, Complain, GiveUp, ProducerPlaces
  <2> QED BY <2>1, <2>2, <2>3, <2>4, <2>5, <2>6, <2>7, <2>8 DEF Producer
<1> QED BY <1>1, <1>2, <1>3, <1>4, <1>5, <1>6, <1>7 DEF TypeInv, ProducerType

(* A worker. *)
LEMMA TypeWorker == ASSUME TypeInv, NEW w \in Workers, Worker(w) PROVE TypeInv'
<1> USE DEF Working, Spawned
<1>0. UNCHANGED <<producer, coordinator>> /\ cpc # "begin"
  BY DEF Worker, WorkerStops, AcquireBuffer, LookForWork, Receive, NoMoreWork, AcquireReservation,
     Started, StartRefused, AnnounceStarted, Process, Deliver, WorkerComplains, WorkerGivesUp, Exit
<1>1. ControlType'
  BY DEF TypeInv, ControlType, Worker, control, WorkerStops, AcquireBuffer, LookForWork, Receive,
     NoMoreWork, AcquireReservation, Started, StartRefused, AnnounceStarted, Process, Deliver,
     WorkerComplains, WorkerGivesUp
<1>2. ProducerType'
  BY <1>0 DEF TypeInv, producer, ProducerType, PageType, WindowType, WalkType
<1>3. CoordinatorType'
  BY <1>0 DEF TypeInv, coordinator, CoordinatorType
<1>4. JournalType'
  <2>1. CASE Started(w)
    BY <2>1 DEF TypeInv, JournalType, Started
  <2>2. CASE ~Started(w)
    BY <2>2 DEF TypeInv, JournalType, journal, Worker, WorkerStops, AcquireBuffer, LookForWork, Receive,
       NoMoreWork, AcquireReservation, StartRefused, AnnounceStarted, Process, Deliver,
       WorkerComplains, WorkerGivesUp
  <2> QED BY <2>1, <2>2
<1>5. ChannelType'
  <2>1. CASE Receive(w)
    <3>1. jobs' \in Seq(Files) /\ Len(jobs') = Len(jobs) - 1 /\ Len(jobs) \in Nat
      BY <2>1, TakeType DEF TypeInv, ChannelType, Receive
    <3> QED BY <2>1, <3>1, Sizes DEF TypeInv, ChannelType, Receive
  <2>2. CASE AnnounceStarted(w)
    <3>1. Event("started", wfile[w]) \in Events
      BY <2>2 DEF AnnounceStarted, TypeInv, WorkerType, Leasing, Event, Events, Kinds, Level
    <3> QED BY <2>2, <3>1, SendType DEF TypeInv, AnnounceStarted
  <2>3. CASE Deliver(w)
    <3>1. Event("completed", wfile[w]) \in Events
      BY <2>3 DEF Deliver, TypeInv, WorkerType, Leasing, Event, Events, Kinds, Level
    <3> QED BY <2>3, <3>1, SendType DEF TypeInv, Deliver
  <2>4. CASE WorkerComplains(w)
    <3>1. Event("notice", wfile[w]) \in Events
      BY <2>4 DEF WorkerComplains, TypeInv, WorkerType, Event, Events, Kinds, Level
    <3> QED BY <2>4, <3>1, SendType DEF TypeInv, WorkerComplains
  <2>5. CASE UNCHANGED <<jobs, events>>
    BY <2>5 DEF TypeInv, ChannelType
  <2> QED
    BY <2>1, <2>2, <2>3, <2>4, <2>5
       DEF Worker, WorkerStops, AcquireBuffer, LookForWork, NoMoreWork, AcquireReservation,
           Started, StartRefused, Process, WorkerGivesUp
<1>6. WorkerType'
  <2>0. WorkerType /\ NoFile \notin Files
    BY Sizes DEF TypeInv
  <2>1. CASE Receive(w)
    <3>1. Head(jobs) \in Files
      BY <2>1, HeadTailProperties DEF Receive, TypeInv, ChannelType
    <3> QED BY <2>0, <2>1, <3>1 DEF WorkerType, Receive, WorkerPlaces, Leasing
  <2>2. CASE \E from \in WorkerPlaces : Exit(w, from)
    BY <2>0, <2>2 DEF WorkerType, Exit, WorkerPlaces, Leasing
  <2>3. CASE Deliver(w)
    BY <2>0, <2>3 DEF WorkerType, Deliver, WorkerPlaces, Leasing
  <2>4. CASE AcquireBuffer(w) \/ LookForWork(w)
    BY <2>0, <2>4 DEF WorkerType, AcquireBuffer, LookForWork, WorkerPlaces, Leasing
  <2>5. CASE AcquireReservation(w) \/ Started(w) \/ StartRefused(w)
    BY <2>0, <2>5 DEF WorkerType, AcquireReservation, Started, StartRefused, WorkerPlaces, Leasing
  <2>6. CASE AnnounceStarted(w) \/ Process(w) \/ WorkerComplains(w)
    BY <2>0, <2>6 DEF WorkerType, AnnounceStarted, Process, WorkerComplains, WorkerPlaces, Leasing
  <2>7. CASE WorkerStops(w) \/ NoMoreWork(w) \/ WorkerGivesUp(w)
    BY <2>2, <2>7 DEF WorkerStops, NoMoreWork, WorkerGivesUp, WorkerPlaces
  <2> QED BY <2>1, <2>3, <2>4, <2>5, <2>6, <2>7 DEF Worker
<1> QED BY <1>1, <1>2, <1>3, <1>4, <1>5, <1>6 DEF TypeInv

(* The coordinator. *)
LEMMA TypeCoordinator == TypeInv /\ Coordinator => TypeInv'
<1> SUFFICES ASSUME TypeInv, Coordinator PROVE TypeInv'
  OBVIOUS
<1> USE DEF Coordinate
<1>1. ControlType'
  BY DEF TypeInv, ControlType, control, Coordinator, Begin, ReceiveResult, ReceiveEvent, IdleFlush,
     Disconnected, Persist, SinkResult, SinkEvent, CoordinatorFails, Finish, ReturnOk, ReturnErr
<1>2. JournalType'
  <2>1. CASE Persist
    BY <2>1 DEF TypeInv, JournalType, Persist
  <2>2. CASE ~Persist
    BY <2>2 DEF TypeInv, JournalType, journal, Coordinator, Begin, ReceiveResult, ReceiveEvent,
       IdleFlush, Disconnected, SinkResult, SinkEvent, CoordinatorFails, Finish, ReturnOk, ReturnErr
  <2> QED BY <2>1, <2>2
<1>3. ProducerType'
  <2>1. CASE Begin
    BY <2>1 DEF Begin, TypeInv, ProducerType, PageType, WindowType, WalkType, ProducerPlaces
  <2>2. CASE ~Begin
    <3>1. UNCHANGED producer
      BY <2>2 DEF Coordinator, ReceiveResult, ReceiveEvent, IdleFlush,
         Disconnected, Persist, SinkResult, SinkEvent, CoordinatorFails, Finish, ReturnOk, ReturnErr
    <3> QED BY <3>1 DEF TypeInv, producer, ProducerType, PageType, WindowType, WalkType
  <2> QED BY <2>1, <2>2
<1>4. ChannelType'
  <2>1. CASE ReceiveResult \/ ReceiveEvent
    <3>1. events' \in Seq(Events) /\ Len(events') = Len(events) - 1 /\ Len(events) \in Nat
      BY <2>1, TakeType DEF TypeInv, ChannelType, ReceiveResult, ReceiveEvent
    <3> QED BY <2>1, <3>1, Sizes DEF TypeInv, ChannelType, ReceiveResult, ReceiveEvent
  <2>2. CASE ~ReceiveResult /\ ~ReceiveEvent
    BY <2>2 DEF TypeInv, ChannelType, Coordinator, Begin, IdleFlush,
       Disconnected, Persist, SinkResult, SinkEvent, CoordinatorFails, Finish, ReturnOk, ReturnErr
  <2> QED BY <2>1, <2>2
<1>5. WorkerType'
  <2>1. CASE Begin
    <3>1. \A w \in Workers : wpc[w] = "buffer"
      BY <2>1 DEF Begin, TypeInv, CoordinatorType
    <3> QED BY <2>1, <3>1 DEF Begin, TypeInv, WorkerType, WorkerPlaces, Leasing
  <2>2. CASE ~Begin
    BY <2>2 DEF TypeInv, WorkerType, worker, Coordinator, ReceiveResult, ReceiveEvent, IdleFlush,
       Disconnected, Persist, SinkResult, SinkEvent, CoordinatorFails, Finish, ReturnOk, ReturnErr
  <2> QED BY <2>1, <2>2
<1>6. CoordinatorType'
  <2>0. CoordinatorType /\ ChannelType
    BY DEF TypeInv
  <2>1. CASE ReceiveResult \/ ReceiveEvent
    <3>1. Head(events) \in Events
      BY <2>0, <2>1, HeadTailProperties DEF ChannelType, ReceiveResult, ReceiveEvent
    <3>2. CASE ReceiveResult
      <4>1. Head(events).file \in Files
        BY <3>1, <3>2 DEF ReceiveResult, Events, Level
      <4>2. batch' \in Seq(Files) /\ batch' # << >> /\ Len(batch') = Len(batch) + 1
        BY <2>0, <3>2, <4>1, AppendProperties DEF ReceiveResult, CoordinatorType
      <4>3. Len(batch) \in Nat /\ Len(batch) < BatchMax
        BY <2>0, <3>2 DEF ReceiveResult, CoordinatorType
      <4> QED BY <2>0, <3>2, <4>2, <4>3, Sizes DEF ReceiveResult, CoordinatorType, CoordinatorPlaces
    <3>3. CASE ReceiveEvent
      BY <2>0, <3>1, <3>3 DEF ReceiveEvent, CoordinatorType, CoordinatorPlaces
    <3> QED BY <2>1, <3>2, <3>3
  <2>2. CASE SinkResult
    <3>1. batch \in Seq(Files) /\ batch # << >>
      BY <2>0, <2>2 DEF SinkResult, CoordinatorType
    <3>2. /\ batch' \in Seq(Files) /\ Len(batch') = Len(batch) - 1 /\ Len(batch) \in Nat
          /\ Head(batch) \in Files
      BY <2>2, <3>1, TakeType DEF SinkResult
    <3>3. Len(batch) = 1 <=> batch' = << >>
      BY <3>1, <3>2
    <3>4. seen' \in [Files -> 0..3]
      BY <2>0, <2>2, <3>2 DEF SinkResult, CoordinatorType
    <3>5. Len(batch') < BatchMax
      <4>1. Len(batch) <= BatchMax /\ BatchMax \in Nat
        BY <2>0, Sizes DEF CoordinatorType
      <4> QED BY <3>2, <4>1
    <3>6. /\ cpc' = IF batch' = << >> THEN then ELSE "deliver"
          /\ UNCHANGED <<wpc, envelope, then>> /\ then \in {"recv", "sink", "join"}
      BY <2>0, <2>2, <3>3 DEF SinkResult, CoordinatorType, worker
    <3>7. Len(batch') \in Nat /\ BatchMax \in Nat
      BY <3>2, Sizes
    <3> QED BY <2>0, <3>2, <3>4, <3>5, <3>6, <3>7 DEF CoordinatorType, CoordinatorPlaces
  <2>3. CASE SinkEvent
    <3>1. Event("none", NoFile) \in Events
      BY DEF Event, Events, Kinds, Level
    <3>2. seen' \in [Files -> 0..3]
      <4>1. CASE envelope.kind \in {"resumed", "discovered"}
        BY <2>0, <2>3, <4>1 DEF SinkEvent, CoordinatorType, Events, Level
      <4>2. CASE envelope.kind = "started"
        BY <2>0, <2>3, <4>2 DEF SinkEvent, CoordinatorType, Events, Level
      <4>3. CASE envelope.kind \notin {"resumed", "discovered", "started"}
        BY <2>0, <2>3, <4>3 DEF SinkEvent, CoordinatorType
      <4> QED BY <4>1, <4>2, <4>3
    <3> QED BY <2>0, <2>3, <3>1, <3>2, Sizes DEF SinkEvent, CoordinatorType, CoordinatorPlaces
  <2>4. CASE CoordinatorFails
    BY <2>0, <2>4, Sizes DEF CoordinatorFails, CoordinatorType, CoordinatorPlaces, worker
  <2>5. CASE Begin
    BY <2>0, <2>5, Sizes DEF Begin, CoordinatorType, CoordinatorPlaces
  <2>6. CASE IdleFlush \/ Disconnected \/ Persist
    BY <2>0, <2>6 DEF IdleFlush, Disconnected, Persist, CoordinatorType, CoordinatorPlaces
  <2>7. CASE Finish \/ ReturnOk \/ ReturnErr
    BY <2>0, <2>7 DEF Finish, ReturnOk, ReturnErr, CoordinatorType, CoordinatorPlaces
  <2> QED BY <2>1, <2>2, <2>3, <2>4, <2>5, <2>6, <2>7 DEF Coordinator
<1> QED BY <1>1, <1>2, <1>3, <1>4, <1>5, <1>6 DEF TypeInv

LEMMA TypeStep == TypeInv /\ [Next]_vars => TypeInv'
<1>1. TypeInv /\ UNCHANGED vars => TypeInv'
  BY DEF vars, control, journal, producer, worker, coordinator, TypeInv, ControlType, JournalType,
         ProducerType, PageType, WindowType, WalkType, ChannelType, WorkerType, CoordinatorType
<1> QED BY <1>1, TypeControl, TypeProducer, TypeWorker, TypeCoordinator DEF Next

(* The types, and the bounds of the queues, the window and the batch. *)
THEOREM PipelineTyped == Spec => []TypeInv
<1> QED BY TypeInit, TypeStep, PTL DEF Spec

-----------------------------------------------------------------------------
(* The memory budget. *)
Buffered == {w \in Workers : wpc[w] \notin {"buffer", "exit"}}
Leased == {w \in Workers : wpc[w] \in Leasing}

(* A worker that goes from one place to another enters a set of places,     *)
(* leaves it or stays where it was.                                         *)
LEMMA OneMoves ==
  ASSUME NEW S, S \subseteq Workers, NEW T, T \subseteq Workers, NEW w \in Workers,
         \A x \in Workers \ {w} : x \in S <=> x \in T
  PROVE  /\ Cardinality(S) \in Nat /\ Cardinality(T) \in Nat
         /\ (w \in S <=> w \in T) => Cardinality(T) = Cardinality(S)
         /\ w \notin S /\ w \in T => Cardinality(T) = Cardinality(S) + 1
         /\ w \in S /\ w \notin T => Cardinality(T) = Cardinality(S) - 1
<1>1. IsFiniteSet(S) /\ IsFiniteSet(T)
  BY FS_Subset, Sizes
<1>2. Cardinality(S) \in Nat /\ Cardinality(T) \in Nat
  BY <1>1, FS_CardinalityType
<1>3. CASE w \in S <=> w \in T
  <2>1. S = T
    BY <1>3
  <2> QED BY <1>2, <1>3, <2>1
<1>4. CASE w \notin S /\ w \in T
  <2>1. T = S \cup {w}
    BY <1>4
  <2> QED BY <1>1, <1>2, <1>4, <2>1, FS_AddElement
<1>5. CASE w \in S /\ w \notin T
  <2>1. T = S \ {w}
    BY <1>5
  <2> QED BY <1>1, <1>2, <1>5, <2>1, FS_RemoveElement
<1> QED BY <1>3, <1>4, <1>5

LEMMA WorkerMoves ==
  ASSUME WorkerType, NEW w \in Workers, NEW to \in WorkerPlaces, wpc' = [wpc EXCEPT ![w] = to]
  PROVE  /\ Cardinality(Buffered) \in Nat /\ Cardinality(Leased) \in Nat
         /\ Cardinality(Buffered)' = Cardinality(Buffered)
              + (IF to \in {"buffer", "exit"} THEN 0 ELSE 1)
              - (IF wpc[w] \in {"buffer", "exit"} THEN 0 ELSE 1)
         /\ Cardinality(Leased)' = Cardinality(Leased)
              + (IF to \in Leasing THEN 1 ELSE 0) - (IF wpc[w] \in Leasing THEN 1 ELSE 0)
<1>0. \A x \in Workers : wpc'[x] = IF x = w THEN to ELSE wpc[x]
  BY DEF WorkerType
<1>1. /\ Buffered \subseteq Workers /\ Buffered' \subseteq Workers
      /\ \A x \in Workers \ {w} : x \in Buffered <=> x \in Buffered'
      /\ w \in Buffered <=> wpc[w] \notin {"buffer", "exit"}
      /\ w \in Buffered' <=> to \notin {"buffer", "exit"}
  BY <1>0 DEF Buffered
<1>2. /\ Leased \subseteq Workers /\ Leased' \subseteq Workers
      /\ \A x \in Workers \ {w} : x \in Leased <=> x \in Leased'
      /\ w \in Leased <=> wpc[w] \in Leasing
      /\ w \in Leased' <=> to \in Leasing
  BY <1>0 DEF Leased
<1> HIDE DEF Buffered, Leased
<1>3. Cardinality(Buffered)' = Cardinality(Buffered') /\ Cardinality(Leased)' = Cardinality(Leased')
  OBVIOUS
<1>4. /\ Cardinality(Buffered) \in Nat /\ Cardinality(Buffered') \in Nat
      /\ (w \in Buffered <=> w \in Buffered') => Cardinality(Buffered') = Cardinality(Buffered)
      /\ w \notin Buffered /\ w \in Buffered' => Cardinality(Buffered') = Cardinality(Buffered) + 1
      /\ w \in Buffered /\ w \notin Buffered' => Cardinality(Buffered') = Cardinality(Buffered) - 1
  BY <1>1, OneMoves
<1>5. /\ Cardinality(Leased) \in Nat /\ Cardinality(Leased') \in Nat
      /\ (w \in Leased <=> w \in Leased') => Cardinality(Leased') = Cardinality(Leased)
      /\ w \notin Leased /\ w \in Leased' => Cardinality(Leased') = Cardinality(Leased) + 1
      /\ w \in Leased /\ w \notin Leased' => Cardinality(Leased') = Cardinality(Leased) - 1
  BY <1>2, OneMoves
<1> QED BY <1>1, <1>2, <1>3, <1>4, <1>5

(* The results in a log of events. *)
Results(log) == {n \in DOMAIN log : log[n].kind = "completed"}

LEMMA ResultsFinite ==
  ASSUME NEW log \in Seq(Events)
  PROVE  IsFiniteSet(Results(log)) /\ Cardinality(Results(log)) \in Nat
<1>1. Len(log) \in Nat /\ DOMAIN log = 1..Len(log)
  OBVIOUS
<1>2. Results(log) \subseteq DOMAIN log
  BY DEF Results
<1>3. IsFiniteSet(1..Len(log))
  BY <1>1, FS_Interval
<1> QED BY <1>1, <1>2, <1>3, FS_Subset, FS_CardinalityType

LEMMA ResultSent ==
  ASSUME NEW log \in Seq(Events), NEW e \in Events
  PROVE  Cardinality(Results(Append(log, e))) =
           Cardinality(Results(log)) + (IF e.kind = "completed" THEN 1 ELSE 0)
<1> DEFINE longer == Append(log, e)
           last == Len(log) + 1
<1>1. /\ last \in Nat /\ DOMAIN log = 1..Len(log) /\ DOMAIN longer = 1..last /\ longer[last] = e
      /\ \A n \in 1..Len(log) : longer[n] = log[n]
  BY AddType
<1>2. CASE e.kind = "completed"
  <2>1. Results(longer) = Results(log) \cup {last} /\ last \notin Results(log)
    BY <1>1, <1>2 DEF Results
  <2> QED BY <1>2, <2>1, ResultsFinite, FS_AddElement
<1>3. CASE e.kind # "completed"
  <2>1. Results(longer) = Results(log)
    BY <1>1, <1>3 DEF Results
  <2> QED BY <1>3, <2>1, ResultsFinite
<1> QED BY <1>2, <1>3

LEMMA ResultTaken ==
  ASSUME NEW log \in Seq(Events), log # << >>
  PROVE  Cardinality(Results(Tail(log))) =
           Cardinality(Results(log)) - (IF Head(log).kind = "completed" THEN 1 ELSE 0)
<1> DEFINE rest == Results(log) \ {1}
           shift == [n \in rest |-> n - 1]
<1>1. /\ Head(log) = log[1] /\ 1 \in DOMAIN log /\ DOMAIN log = 1..Len(log) /\ Len(log) \in Nat
      /\ DOMAIN Tail(log) = 1..Len(log) - 1
      /\ \A n \in DOMAIN Tail(log) : n + 1 \in DOMAIN log /\ Tail(log)[n] = log[n + 1]
      /\ \A n \in DOMAIN log : n # 1 => n - 1 \in DOMAIN Tail(log) /\ Tail(log)[n - 1] = log[n]
  BY TakeType
<1>2. shift \in Bijection(rest, Results(Tail(log)))
  <2>1. \A n \in rest : shift[n] = n - 1 /\ n \in Nat /\ shift[n] \in Results(Tail(log))
    BY <1>1 DEF Results
  <2>2. \A m, n \in rest : shift[m] = shift[n] => m = n
    BY <2>1
  <2>3. \A m \in Results(Tail(log)) : m \in Nat /\ m + 1 \in rest
    BY <1>1 DEF Results
  <2>5. \A m \in Results(Tail(log)) : \E n \in rest : shift[n] = m
    <3> TAKE m \in Results(Tail(log))
    <3>1. m \in Nat /\ m + 1 \in rest
      BY <2>3
    <3>2. shift[m + 1] = m + 1 - 1
      BY <3>1, <2>1
    <3> QED BY <3>1, <3>2
  <2>4. shift \in [rest -> Results(Tail(log))]
    BY <2>1
  <2> HIDE DEF shift, rest
  <2> QED BY <2>2, <2>4, <2>5 DEF Bijection, Injection, Surjection, IsInjective
<1>3. IsFiniteSet(rest) /\ Cardinality(rest) =
        IF 1 \in Results(log) THEN Cardinality(Results(log)) - 1 ELSE Cardinality(Results(log))
  BY ResultsFinite, FS_RemoveElement
<1>4. Cardinality(Results(Tail(log))) = Cardinality(rest)
  BY <1>2, <1>3, FS_Bijection DEF ExistsBijection
<1>5. 1 \in Results(log) <=> Head(log).kind = "completed"
  BY <1>1 DEF Results
<1> QED BY <1>3, <1>4, <1>5, ResultsFinite

(* What the leases add up to.  Every grant is checked against the budget,   *)
(* every release gives back what its holder was granted.                    *)
Granted == HashBuffer * Cardinality(Buffered)
           + Reservation * (Cardinality(Leased) + Cardinality(Results(events)) + Len(batch))

MemoryInv == used = Granted /\ used <= MaxMemory

LEMMA MemoryMeaning == MemoryAccounted <=> MemoryInv
BY DEF MemoryAccounted, MemoryInv, Granted, Buffered, Leased, Results, Undelivered

(* The terms of the sum. *)
LEMMA Terms ==
  TypeInv => /\ Cardinality(Buffered) \in Nat /\ Cardinality(Leased) \in Nat
             /\ Cardinality(Results(events)) \in Nat /\ Len(batch) \in Nat
             /\ HashBuffer \in Nat /\ Reservation \in Nat /\ MaxMemory \in Nat
<1> SUFFICES ASSUME TypeInv
             PROVE  /\ Cardinality(Buffered) \in Nat /\ Cardinality(Leased) \in Nat
                    /\ Cardinality(Results(events)) \in Nat /\ Len(batch) \in Nat
                    /\ HashBuffer \in Nat /\ Reservation \in Nat /\ MaxMemory \in Nat
  OBVIOUS
<1>1. Buffered \subseteq Workers /\ Leased \subseteq Workers
  BY DEF Buffered, Leased
<1>2. IsFiniteSet(Buffered) /\ IsFiniteSet(Leased)
  BY <1>1, Sizes, FS_Subset
<1>3. Len(batch) \in Nat
  BY DEF TypeInv, CoordinatorType
<1> QED BY <1>2, <1>3, ResultsFinite, FS_CardinalityType, Sizes DEF TypeInv, ChannelType

LEMMA TermsNext ==
  TypeInv' => (/\ Cardinality(Buffered) \in Nat /\ Cardinality(Leased) \in Nat
               /\ Cardinality(Results(events)) \in Nat /\ Len(batch) \in Nat
               /\ HashBuffer \in Nat /\ Reservation \in Nat /\ MaxMemory \in Nat)'
BY Terms, PTL

LEMMA Linear ==
  ASSUME NEW a \in Nat, NEW m \in Nat
  PROVE  a * m \in Nat /\ a * (m + 1) = a * m + a /\ (m > 0 => a * (m - 1) = a * m - a)
         /\ a * 0 = 0
<1>1. a * m \in Nat /\ a * (m + 1) = a * m + a /\ a * (m - 1) = a * m - a /\ a * 0 = 0
  OBVIOUS
<1> QED BY <1>1

(* A sum in which every count is what it was. *)
LEMMA SumSame ==
  ASSUME MemoryInv, UNCHANGED <<wpc, events, batch, used>>
  PROVE  MemoryInv'
BY DEF MemoryInv, Granted, Buffered, Leased, Results

LEMMA MemoryInit == Init => MemoryInv
<1> SUFFICES ASSUME Init PROVE MemoryInv
  OBVIOUS
<1>1. Buffered = {} /\ Leased = {} /\ Results(events) = {} /\ Len(batch) = 0 /\ used = 0
  BY DEF Init, Buffered, Leased, Leasing, Results
<1>2. Cardinality({}) = 0
  BY FS_EmptySet
<1>3. HashBuffer * 0 = 0 /\ Reservation * 0 = 0
  BY Linear, Sizes
<1>4. Granted = 0
  BY <1>1, <1>2, <1>3 DEF Granted
<1> QED BY <1>1, <1>4, Sizes DEF MemoryInv

LEMMA MemoryControl ==
  MemoryInv /\ Control => MemoryInv'
BY SumSame DEF Control, Pause, Cancel, Expire, worker, coordinator

LEMMA MemoryProducer ==
  ASSUME TypeInv, MemoryInv, Producer
  PROVE  MemoryInv'
<1>1. UNCHANGED <<wpc, batch, used>>
  BY DEF Producer, ProducerStops, FetchPage, NoPage, AnnounceResumed, worker, coordinator,
     HandOutResumed, CheckDiscovery, WalkFile, WalkSkip, WalkNotice, WalkEnds, Dispatch, WindowEmpty,
     AnnounceDiscovered, HandOut, FinishDiscovery, AnnounceDiscoveryFinished, ProducerFails,
     JudgeError, Complain, GiveUp
<1>2. CASE UNCHANGED events
  BY <1>1, <1>2, SumSame
<1>3. CASE AnnounceResumed \/ AnnounceDiscovered \/ WalkNotice \/ Complain \/ AnnounceDiscoveryFinished
  <2>1. PICK e : e \in Events /\ e.kind # "completed" /\ events' = Append(events, e)
    <3>1. CASE AnnounceResumed
      <4>1. Head(page) \in Files
        BY <3>1 DEF TypeInv, ProducerType, PageType, AnnounceResumed, Produce
      <4> QED BY <3>1, <4>1 DEF AnnounceResumed, Send, Event, Events, Kinds, Level
    <3>2. CASE AnnounceDiscovered
      <4>1. pfile \in Files
        BY <3>2 DEF TypeInv, ProducerType, WalkType, AnnounceDiscovered, Produce
      <4> QED BY <3>2, <4>1 DEF AnnounceDiscovered, Send, Event, Events, Kinds, Level
    <3>3. CASE WalkNotice \/ Complain \/ AnnounceDiscoveryFinished
      BY <3>3 DEF WalkNotice, Complain, AnnounceDiscoveryFinished, Send, Event, Events, Kinds, Level
    <3> QED BY <1>3, <3>1, <3>2, <3>3
  <2>2. Cardinality(Results(events')) = Cardinality(Results(events))
    BY <2>1, ResultSent, ResultsFinite DEF TypeInv, ChannelType
  <2> QED BY <1>1, <2>2 DEF MemoryInv, Granted, Buffered, Leased
<1> QED
  BY <1>2, <1>3 DEF Producer, ProducerStops, FetchPage, NoPage,
     HandOutResumed, CheckDiscovery, WalkFile, WalkSkip, WalkEnds, Dispatch, WindowEmpty,
     HandOut, FinishDiscovery, ProducerFails, JudgeError, GiveUp

(* A step accounts for its memory when the counts change by d and e and     *)
(* the budget by as much.                                                   *)
LEMMA Balanced ==
  ASSUME TypeInv, TypeInv', MemoryInv, NEW d \in {-1, 0, 1}, NEW e \in {-1, 0, 1},
         Cardinality(Buffered)' = Cardinality(Buffered) + d,
         (Cardinality(Leased) + Cardinality(Results(events)) + Len(batch))'
            = Cardinality(Leased) + Cardinality(Results(events)) + Len(batch) + e,
         used' = used + (IF d = 1 THEN HashBuffer ELSE IF d = 0 THEN 0 ELSE -HashBuffer)
                      + (IF e = 1 THEN Reservation ELSE IF e = 0 THEN 0 ELSE -Reservation),
         used' <= MaxMemory
  PROVE  MemoryInv'
<1> DEFINE b == Cardinality(Buffered)
           c == Cardinality(Leased) + Cardinality(Results(events)) + Len(batch)
<1>1. b \in Nat /\ c \in Nat
  BY Terms
<1>2. b' \in Nat /\ c' \in Nat
  <2>1. /\ Cardinality(Buffered)' \in Nat /\ Cardinality(Leased)' \in Nat
        /\ Cardinality(Results(events))' \in Nat /\ Len(batch)' \in Nat
    BY TermsNext
  <2> QED BY <2>1
<1>3. b' = b + d /\ c' = c + e
  OBVIOUS
<1>4. used = HashBuffer * b + Reservation * c
  BY DEF MemoryInv, Granted
<1> HIDE DEF b, c
<1>5. HashBuffer * b' + Reservation * c' =
           HashBuffer * b + Reservation * c
             + (IF d = 1 THEN HashBuffer ELSE IF d = 0 THEN 0 ELSE -HashBuffer)
             + (IF e = 1 THEN Reservation ELSE IF e = 0 THEN 0 ELSE -Reservation)
  <2>1. PICK b1 \in Nat, c1 \in Nat, b2 \in Nat, c2 \in Nat : b1 = b /\ c1 = c /\ b2 = b' /\ c2 = c'
    BY <1>1, <1>2
  <2>2. b2 = b1 + d /\ c2 = c1 + e
    BY <2>1, <1>3
  <2>3. HashBuffer \in Nat /\ Reservation \in Nat
    BY Sizes
  <2>4. HashBuffer * b2 =
          HashBuffer * b1 + (IF d = 1 THEN HashBuffer ELSE IF d = 0 THEN 0 ELSE -HashBuffer)
    BY <2>2, <2>3
  <2>5. Reservation * c2 =
          Reservation * c1 + (IF e = 1 THEN Reservation ELSE IF e = 0 THEN 0 ELSE -Reservation)
    BY <2>2, <2>3
  <2>6. /\ HashBuffer * b1 \in Int /\ Reservation * c1 \in Int
        /\ HashBuffer * b2 \in Int /\ Reservation * c2 \in Int
    BY <2>3
  <2>7. HashBuffer * b2 + Reservation * c2 =
           HashBuffer * b1 + Reservation * c1
             + (IF d = 1 THEN HashBuffer ELSE IF d = 0 THEN 0 ELSE -HashBuffer)
             + (IF e = 1 THEN Reservation ELSE IF e = 0 THEN 0 ELSE -Reservation)
    <3> DEFINE p1 == HashBuffer * b1
               p2 == HashBuffer * b2
               q1 == Reservation * c1
               q2 == Reservation * c2
    <3>1. p1 \in Int /\ p2 \in Int /\ q1 \in Int /\ q2 \in Int
      BY <2>6
    <3>2. p2 = p1 + (IF d = 1 THEN HashBuffer ELSE IF d = 0 THEN 0 ELSE -HashBuffer)
      BY <2>4
    <3>3. q2 = q1 + (IF e = 1 THEN Reservation ELSE IF e = 0 THEN 0 ELSE -Reservation)
      BY <2>5
    <3> HIDE DEF p1, p2, q1, q2
    <3>4. p2 + q2 = p1 + q1 + (IF d = 1 THEN HashBuffer ELSE IF d = 0 THEN 0 ELSE -HashBuffer)
                            + (IF e = 1 THEN Reservation ELSE IF e = 0 THEN 0 ELSE -Reservation)
      BY <2>3, <3>1, <3>2, <3>3
    <3> QED BY <3>4 DEF p1, p2, q1, q2
  <2> QED BY <2>1, <2>7
<1>6. used' = HashBuffer * b' + Reservation * c'
  BY <1>4, <1>5
<1> QED BY <1>6 DEF MemoryInv, Granted, b, c

LEMMA MemoryWorker ==
  ASSUME TypeInv, MemoryInv, NEW w \in Workers, Worker(w)
  PROVE  MemoryInv'
<1> DEFINE b == Cardinality(Buffered)
           l == Cardinality(Leased)
           r == Cardinality(Results(events))
           n == Len(batch)
<1>0. /\ b \in Nat /\ l \in Nat /\ r \in Nat /\ n \in Nat
      /\ HashBuffer \in Nat /\ Reservation \in Nat /\ MaxMemory \in Nat
      /\ used \in Int /\ used <= MaxMemory
  <2>1. /\ b \in Nat /\ l \in Nat /\ r \in Nat /\ n \in Nat
        /\ HashBuffer \in Nat /\ Reservation \in Nat /\ MaxMemory \in Nat
    BY Terms
  <2>2. used = HashBuffer * b + Reservation * (l + r + n) /\ used <= MaxMemory
    BY DEF MemoryInv, Granted
  <2>3. l + r + n \in Nat
    BY <2>1
  <2>4. HashBuffer * b \in Nat /\ Reservation * (l + r + n) \in Nat
    BY <2>1, <2>3, Linear
  <2> QED BY <2>1, <2>2, <2>4
<1>1. n' = n
  BY DEF Worker, WorkerStops, AcquireBuffer, LookForWork, Receive, NoMoreWork, AcquireReservation, Exit,
     Started, StartRefused, AnnounceStarted, Process, Deliver, WorkerComplains, WorkerGivesUp, coordinator
<1>2. TypeInv' /\ WorkerType /\ ChannelType
  BY TypeWorker DEF TypeInv
<1>3. ASSUME NEW from \in WorkerPlaces, NEW to \in WorkerPlaces, Working(w, from, to)
      PROVE  /\ b' = b + (IF to \in {"buffer", "exit"} THEN 0 ELSE 1)
                      - (IF from \in {"buffer", "exit"} THEN 0 ELSE 1)
             /\ l' = l + (IF to \in Leasing THEN 1 ELSE 0) - (IF from \in Leasing THEN 1 ELSE 0)
  BY <1>2, <1>3, WorkerMoves DEF Working
<1>4. ASSUME UNCHANGED events PROVE r' = r
  BY <1>4
<1>5. ASSUME NEW d \in {-1, 0, 1}, NEW e \in {-1, 0, 1}, b' = b + d, l' + r' = l + r + e,
             used' = used + (IF d = 1 THEN HashBuffer ELSE IF d = 0 THEN 0 ELSE -HashBuffer)
                          + (IF e = 1 THEN Reservation ELSE IF e = 0 THEN 0 ELSE -Reservation),
             used' <= MaxMemory
      PROVE  MemoryInv'
  <2>1. (l + r + n)' = l + r + n + e
    BY <1>0, <1>1, <1>5
  <2> QED BY <1>2, <1>5, <2>1, Balanced
<1> HIDE DEF b, l, r, n
<1>6. CASE AcquireBuffer(w)
  <2>1. b' = b + 1 /\ l' = l
    BY <1>0, <1>3, <1>6 DEF AcquireBuffer, WorkerPlaces, Leasing
  <2>2. r' = r /\ used' = used + HashBuffer /\ used' <= MaxMemory
    BY <1>0, <1>4, <1>6 DEF AcquireBuffer
  <2> QED BY <1>0, <1>5, <2>1, <2>2
<1>7. CASE AcquireReservation(w)
  <2>1. b' = b /\ l' = l + 1
    BY <1>0, <1>3, <1>7 DEF AcquireReservation, WorkerPlaces, Leasing
  <2>2. r' = r /\ used' = used + Reservation /\ used' <= MaxMemory
    BY <1>0, <1>4, <1>7 DEF AcquireReservation
  <2> QED BY <1>0, <1>5, <2>1, <2>2
<1>8. ASSUME NEW from \in {"buffer", "idle", "lease", "recv", "process", "giveUp"}, Exit(w, from),
             UNCHANGED events
      PROVE  MemoryInv'
  <2>0. r' = r /\ Working(w, from, "exit")
    BY <1>4, <1>8 DEF Exit
  <2>1. CASE from = "buffer"
    <3>1. b' = b /\ l' = l
      BY <1>0, <1>3, <2>0, <2>1 DEF WorkerPlaces, Leasing
    <3>2. used' = used
      BY <1>0, <1>8, <2>1 DEF Exit, Leasing
    <3> QED BY <1>0, <1>5, <2>0, <3>1, <3>2
  <2>2. CASE from \in {"idle", "lease", "recv"}
    <3>1. b' = b - 1 /\ l' = l
      BY <1>0, <1>3, <2>0, <2>2 DEF WorkerPlaces, Leasing
    <3>2. used' = used - HashBuffer
      BY <1>0, <1>8, <2>2 DEF Exit, Leasing
    <3> QED BY <1>0, <1>5, <2>0, <3>1, <3>2
  <2>3. CASE from \in {"process", "giveUp"}
    <3>1. b' = b - 1 /\ l' = l - 1
      BY <1>0, <1>3, <2>0, <2>3 DEF WorkerPlaces, Leasing
    <3>2. used' = used - HashBuffer - Reservation
      BY <1>0, <1>8, <2>3 DEF Exit, Leasing
    <3> QED BY <1>0, <1>5, <2>0, <3>1, <3>2
  <2> QED BY <1>8, <2>1, <2>2, <2>3
<1>9. CASE WorkerStops(w) \/ NoMoreWork(w) \/ WorkerGivesUp(w)
  BY <1>8, <1>9 DEF WorkerStops, NoMoreWork, WorkerGivesUp
<1>10. CASE Deliver(w)
  <2>1. b' = b /\ l' = l - 1
    BY <1>0, <1>3, <1>10 DEF Deliver, WorkerPlaces, Leasing
  <2>2. Event("completed", wfile[w]) \in Events
    BY <1>2, <1>10 DEF Deliver, Working, WorkerType, Leasing, Event, Events, Kinds, Level
  <2>3. r' = r + 1
    BY <1>2, <1>10, <2>2, ResultSent DEF Deliver, Send, ChannelType, Event, r
  <2> QED BY <1>0, <1>5, <1>10, <2>1, <2>3 DEF Deliver
<1>11. CASE AnnounceStarted(w) \/ WorkerComplains(w)
  <2>1. b' = b /\ l' = l
    BY <1>0, <1>3, <1>11 DEF AnnounceStarted, WorkerComplains, WorkerPlaces, Leasing
  <2>2. PICK e \in Events : e.kind # "completed" /\ events' = Append(events, e)
    BY <1>2, <1>11 DEF AnnounceStarted, WorkerComplains, Send, Working, WorkerType, Leasing,
                       Event, Events, Kinds, Level
  <2>3. r' = r
    BY <1>0, <1>2, <2>2, ResultSent DEF ChannelType, r
  <2> QED BY <1>0, <1>5, <1>11, <2>1, <2>3 DEF AnnounceStarted, WorkerComplains
<1>12. CASE LookForWork(w) \/ Receive(w) \/ Started(w) \/ StartRefused(w) \/ Process(w)
  <2>1. b' = b /\ l' = l
    BY <1>0, <1>3, <1>12 DEF LookForWork, Receive, Started, StartRefused, Process, WorkerPlaces, Leasing
  <2>2. r' = r /\ used' = used
    BY <1>4, <1>12 DEF LookForWork, Receive, Started, StartRefused, Process
  <2> QED BY <1>0, <1>5, <2>1, <2>2
<1> QED BY <1>6, <1>7, <1>9, <1>10, <1>11, <1>12 DEF Worker

LEMMA MemoryCoordinator ==
  ASSUME TypeInv, MemoryInv, Coordinator
  PROVE  MemoryInv'
<1> DEFINE b == Cardinality(Buffered)
           l == Cardinality(Leased)
           r == Cardinality(Results(events))
           n == Len(batch)
<1>0. /\ b \in Nat /\ l \in Nat /\ r \in Nat /\ n \in Nat
      /\ HashBuffer \in Nat /\ Reservation \in Nat /\ MaxMemory \in Nat
  BY Terms
<1>1. used = HashBuffer * b + Reservation * (l + r + n) /\ used <= MaxMemory
  BY DEF MemoryInv, Granted
<1>2. TypeInv'
  BY TypeCoordinator
<1>3. used \in Int
  <2>1. l + r + n \in Nat
    BY <1>0
  <2>2. HashBuffer * b \in Nat /\ Reservation * (l + r + n) \in Nat
    BY <1>0, <2>1, Linear
  <2> QED BY <1>1, <2>2
<1>4. ASSUME UNCHANGED wpc PROVE b' = b /\ l' = l
  BY <1>4 DEF Buffered, Leased
<1>5. CASE ReceiveResult \/ ReceiveEvent
  <2>1. r' = r - (IF ReceiveResult THEN 1 ELSE 0)
    <3>1. r' = r - (IF Head(events).kind = "completed" THEN 1 ELSE 0)
      BY <1>5, ResultTaken DEF ReceiveResult, ReceiveEvent, TypeInv, ChannelType
    <3>2. ReceiveResult <=> Head(events).kind = "completed"
      BY <1>5 DEF ReceiveResult, ReceiveEvent
    <3> QED BY <3>1, <3>2
  <2>2. n' = n + (IF ReceiveResult THEN 1 ELSE 0)
    <3>1. CASE ReceiveResult
      <4>1. Head(events).file \in Files
        <5>1. Head(events) \in Events
          BY <3>1, TakeType DEF ReceiveResult, TypeInv, ChannelType
        <5> QED BY <3>1, <5>1 DEF ReceiveResult, Events, Level
      <4> QED BY <3>1, <4>1, AddType DEF ReceiveResult, TypeInv, CoordinatorType
    <3>2. CASE ~ReceiveResult
      BY <1>0, <1>5, <3>2 DEF ReceiveEvent
    <3> QED BY <3>1, <3>2
  <2>3. b' = b /\ l' = l /\ used' = used
    BY <1>4, <1>5 DEF ReceiveResult, ReceiveEvent, worker
  <2> HIDE DEF b, l, r, n
  <2>4. l' + r' + n' = l + r + n
    BY <1>0, <2>1, <2>2, <2>3
  <2> QED BY <1>1, <2>3, <2>4 DEF MemoryInv, Granted, b, l, r, n
<1>6. CASE SinkResult
  <2>1. n' = n - 1
    BY <1>6, TakeType DEF SinkResult, TypeInv, CoordinatorType
  <2>2. b' = b /\ l' = l /\ r' = r
    BY <1>4, <1>6 DEF SinkResult, worker
  <2>3. used' = used - Reservation
    BY <1>0, <1>6 DEF SinkResult, Free
  <2> HIDE DEF b, l, r, n
  <2>4. (l + r + n)' = l + r + n + (-1) /\ used' <= MaxMemory /\ b' = b + 0
    BY <1>0, <1>1, <1>3, <2>1, <2>2, <2>3
  <2> QED BY <1>0, <1>2, <1>3, <2>3, <2>4, Balanced DEF b, l, r, n
<1>7. CASE CoordinatorFails
  <2>1. n' = 0 /\ used' = used - n * Reservation
    BY <1>7 DEF CoordinatorFails, Free
  <2>2. b' = b /\ l' = l /\ r' = r
    BY <1>4, <1>7 DEF CoordinatorFails, worker
  <2> HIDE DEF b, l, r, n
  <2>3. /\ Reservation * (l + r + n) = Reservation * (l + r) + n * Reservation
        /\ n * Reservation \in Nat /\ Reservation * (l + r) \in Nat /\ HashBuffer * b \in Nat
    BY <1>0
  <2>4. l' + r' + n' = l + r
    BY <1>0, <2>1, <2>2
  <2>5. used' = HashBuffer * b' + Reservation * (l' + r' + n') /\ used' <= MaxMemory
    BY <1>0, <1>1, <2>1, <2>2, <2>3, <2>4
  <2> QED BY <2>5 DEF MemoryInv, Granted, b, l, r, n
<1>8. CASE Begin
  <2>1. CASE Stopping
    <3>1. \A w \in Workers : wpc[w] = "buffer" /\ wpc'[w] = "exit"
      BY <1>8, <2>1 DEF Begin, Coordinate, TypeInv, CoordinatorType
    <3>2. Buffered = {} /\ Leased = {} /\ Buffered' = {} /\ Leased' = {}
      BY <3>1 DEF Buffered, Leased, Leasing
    <3> QED BY <1>8, <3>2 DEF Begin, MemoryInv, Granted
  <2>2. CASE ~Stopping
    BY <1>8, <2>2, SumSame DEF Begin
  <2> QED BY <2>1, <2>2
<1>9. CASE IdleFlush \/ Disconnected \/ Persist \/ SinkEvent \/ Finish \/ ReturnOk \/ ReturnErr
  BY <1>9, SumSame DEF IdleFlush, Disconnected, Persist, SinkEvent, Finish, ReturnOk, ReturnErr, worker
<1> QED BY <1>5, <1>6, <1>7, <1>8, <1>9 DEF Coordinator

LEMMA MemoryStep == TypeInv /\ MemoryInv /\ [Next]_vars => MemoryInv'
<1>1. MemoryInv /\ UNCHANGED vars => MemoryInv'
  BY SumSame DEF vars, worker, coordinator
<1> QED BY <1>1, MemoryControl, MemoryProducer, MemoryWorker, MemoryCoordinator DEF Next

(* The memory budget is what its living leases add up to, wherever they     *)
(* went, and is never exceeded: for any number of workers and files.        *)
THEOREM MemoryIsAccounted == Spec => []MemoryAccounted
<1>1. Init => TypeInv /\ MemoryInv
  BY TypeInit, MemoryInit
<1>2. TypeInv /\ MemoryInv /\ [Next]_vars => TypeInv' /\ MemoryInv'
  BY TypeStep, MemoryStep
<1>3. TypeInv /\ MemoryInv => MemoryAccounted
  BY MemoryMeaning
<1> QED BY <1>1, <1>2, <1>3, PTL DEF Spec

-----------------------------------------------------------------------------
(* An event tells something of a file. *)
About(e, f) == e.file = f /\ Level(e.kind) > 0

(* The log takes a file from one level to another, one by one. *)
Told(log, f, from, to) ==
  /\ from <= to
  /\ \A n \in DOMAIN log : About(log[n], f) => from < Level(log[n].kind) /\ Level(log[n].kind) <= to
  /\ \A level \in from + 1..to :
       \E n \in DOMAIN log : About(log[n], f) /\ Level(log[n].kind) = level
  /\ \A m, n \in DOMAIN log :
       m < n /\ About(log[m], f) /\ About(log[n], f) => Level(log[m].kind) < Level(log[n].kind)

InBatch(f) == \E n \in DOMAIN batch : batch[n] = f
InPage(f) == ppc \in {"resume", "resumeJob"} /\ \E n \in DOMAIN page : page[n] = f
InJobs(f) == \E n \in DOMAIN jobs : jobs[n] = f

(* What has left the channel of a file's history, and what its threads have *)
(* sent of it.                                                              *)
Out(f) == IF InBatch(f) THEN 3 ELSE IF About(envelope, f) THEN Level(envelope.kind) ELSE seen[f]
Sent(f, k) == Told(events, f, Out(f), k)

Injective(s) == \A m, n \in DOMAIN s : s[m] = s[n] => m = n

(* The coordinator's hands. *)
Passing ==
  /\ \A f \in Files : InBatch(f) => seen[f] = 2 /\ ~About(envelope, f)
  /\ \A f \in Files : About(envelope, f) => seen[f] = Level(envelope.kind) - 1
  /\ Injective(batch)
  /\ Level(envelope.kind) > 0 =>
       cpc = "sink" \/ (cpc \in {"persist", "deliver"} /\ then = "sink")
  /\ cpc = "deliver" => \A f \in Files : InBatch(f) => job[f] = "done"
  /\ envelope.kind # "completed"

(* A worker at a place with a file. *)
Claim(place, f) ==
  /\ place \in {"lease", "start", "complain", "giveUp"} => job[f] = "queued" /\ Sent(f, 1)
  /\ place = "announce" => job[f] = "running" /\ Sent(f, 1)
  /\ place \in {"process", "deliver"} => job[f] = "running" /\ Sent(f, 2)

Stages ==
  /\ \A f \in Files : \E k \in 0..3 : Sent(f, k)
  /\ \A f \in Files : job[f] \in {"absent", "pending"} => Sent(f, 0)
  /\ \A f \in Files : job[f] = "done" => Sent(f, 0) \/ Sent(f, 3)
  /\ ppc \in {"resume", "resumeJob"} =>
       \A n \in DOMAIN page : /\ job[page[n]] = "queued"
                              /\ Sent(page[n], IF n = 1 /\ ppc = "resumeJob" THEN 1 ELSE 0)
  /\ ppc = "announce" => job[pfile] = "queued" /\ Sent(pfile, 0)
  /\ ppc = "job" => job[pfile] = "queued" /\ Sent(pfile, 1)
  /\ \A n \in DOMAIN jobs : job[jobs[n]] = "queued" /\ Sent(jobs[n], 1)
  /\ \A w \in Workers : Claim(wpc[w], wfile[w])

(* No file is in two places. *)
Apart ==
  /\ ppc \in {"resume", "resumeJob"} => Injective(page)
  /\ Injective(jobs)
  /\ \A w, x \in Workers : wfile[w] \in Files /\ wfile[w] = wfile[x] => w = x
  /\ \A w \in Workers : wfile[w] \in Files => ~InPage(wfile[w]) /\ ~InJobs(wfile[w])
  /\ \A f \in Files : ~(InPage(f) /\ InJobs(f))
  /\ ppc \in {"announce", "job"} =>
       ~InPage(pfile) /\ ~InJobs(pfile) /\ \A w \in Workers : wfile[w] # pfile

OrderInv == cpc \notin {"failed", "returned"} => Passing /\ Stages /\ Apart

-----------------------------------------------------------------------------
(* A file's history: a message of it extends it, one of another file leaves *)
(* it, the message at the head is its next.                                 *)
LEMMA Levels ==
  ASSUME NEW e \in Events
  PROVE  /\ Level(e.kind) \in 0..3
         /\ e.kind = "completed" <=> Level(e.kind) = 3
         /\ e.kind = "started" <=> Level(e.kind) = 2
         /\ e.kind \in {"resumed", "discovered"} <=> Level(e.kind) = 1
         /\ Level(e.kind) > 0 => e.file \in Files
BY DEF Events, Level, Kinds

LEMMA ToldEmpty ==
  ASSUME NEW f, NEW a \in 0..3, NEW b \in 0..3
  PROVE  Told(<< >>, f, a, b) <=> a = b
BY DEF Told

LEMMA ToldAppend ==
  ASSUME NEW log \in Seq(Events), NEW e \in Events, NEW f, NEW a \in 0..3, NEW b \in 0..3,
         Told(log, f, a, b)
  PROVE  /\ ~About(e, f) => Told(Append(log, e), f, a, b)
         /\ About(e, f) /\ Level(e.kind) = b + 1 => Told(Append(log, e), f, a, b + 1)
<1> DEFINE longer == Append(log, e)
           last == Len(log) + 1
<1>1. /\ Len(log) \in Nat /\ last \in Nat /\ last = Len(log) + 1
      /\ DOMAIN log = 1..Len(log) /\ DOMAIN longer = 1..last /\ longer[last] = e
      /\ \A n \in 1..Len(log) : longer[n] = log[n]
  BY AddType
<1>2. \A n \in DOMAIN log : log[n] \in Events
  OBVIOUS
<1>3. /\ a <= b
      /\ \A n \in DOMAIN log : About(log[n], f) => a < Level(log[n].kind) /\ Level(log[n].kind) <= b
      /\ \A level \in a + 1..b : \E n \in DOMAIN log : About(log[n], f) /\ Level(log[n].kind) = level
      /\ \A m, n \in DOMAIN log :
           m < n /\ About(log[m], f) /\ About(log[n], f) => Level(log[m].kind) < Level(log[n].kind)
  BY DEF Told
<1>4. \A n \in DOMAIN longer : (n \in DOMAIN log /\ longer[n] = log[n]) \/ (n = last /\ longer[n] = e)
  BY <1>1
<1>5. \A n \in DOMAIN log : n \in DOMAIN longer /\ longer[n] = log[n] /\ n < last /\ n \in Nat
  BY <1>1
<1>6. \A n \in DOMAIN log : Level(log[n].kind) \in 0..3
  BY <1>2, Levels
<1>7. last \in DOMAIN longer /\ longer[last] = e /\ Level(e.kind) \in 0..3
  BY <1>1, Levels
<1> HIDE DEF longer, last
<1>8. CASE ~About(e, f)
  <2>1. \A level \in a + 1..b : \E n \in DOMAIN longer : About(longer[n], f) /\ Level(longer[n].kind) = level
    BY <1>3, <1>5
  <2>2. \A n \in DOMAIN longer :
          About(longer[n], f) => a < Level(longer[n].kind) /\ Level(longer[n].kind) <= b
    BY <1>3, <1>4, <1>8
  <2>3. \A m, n \in DOMAIN longer :
          m < n /\ About(longer[m], f) /\ About(longer[n], f)
            => Level(longer[m].kind) < Level(longer[n].kind)
    BY <1>3, <1>4, <1>8
  <2>4. Told(longer, f, a, b)
    BY <1>3, <2>1, <2>2, <2>3 DEF Told
  <2> QED BY <1>8, <2>4 DEF longer
<1>9. CASE About(e, f) /\ Level(e.kind) = b + 1
  <2>1. \A level \in a + 1..b + 1 :
          \E n \in DOMAIN longer : About(longer[n], f) /\ Level(longer[n].kind) = level
    <3> TAKE level \in a + 1..b + 1
    <3>1. CASE level = b + 1
      BY <1>7, <1>9, <3>1
    <3>2. CASE level \in a + 1..b
      BY <1>3, <1>5, <3>2
    <3> QED BY <3>1, <3>2
  <2>2. \A n \in DOMAIN longer :
          About(longer[n], f) => a < Level(longer[n].kind) /\ Level(longer[n].kind) <= b + 1
    BY <1>3, <1>4, <1>6, <1>9
  <2>3. \A m, n \in DOMAIN longer :
          m < n /\ About(longer[m], f) /\ About(longer[n], f)
            => Level(longer[m].kind) < Level(longer[n].kind)
    <3> SUFFICES ASSUME NEW m \in DOMAIN longer, NEW n \in DOMAIN longer, m < n,
                        About(longer[m], f), About(longer[n], f)
                 PROVE  Level(longer[m].kind) < Level(longer[n].kind)
      OBVIOUS
    <3>1. m \in DOMAIN log /\ longer[m] = log[m]
      BY <1>1, <1>4, <1>5 DEF longer, last
    <3>2. CASE n \in DOMAIN log
      BY <1>3, <1>5, <3>1, <3>2
    <3>3. CASE n = last
      BY <1>3, <1>6, <1>7, <1>9, <3>1, <3>3
    <3> QED BY <1>4, <3>2, <3>3
  <2>4. Told(longer, f, a, b + 1)
    BY <1>3, <2>1, <2>2, <2>3 DEF Told
  <2> QED BY <1>9, <2>4 DEF longer
<1> QED BY <1>8, <1>9

LEMMA ToldTail ==
  ASSUME NEW log \in Seq(Events), log # << >>, NEW f, NEW a \in 0..3, NEW b \in 0..3,
         Told(log, f, a, b)
  PROVE  /\ ~About(Head(log), f) => Told(Tail(log), f, a, b)
         /\ About(Head(log), f) => Level(Head(log).kind) = a + 1 /\ a + 1 <= b
                                   /\ Told(Tail(log), f, a + 1, b)
<1> DEFINE rest == Tail(log)
<1>1. /\ Head(log) = log[1] /\ 1 \in DOMAIN log /\ DOMAIN log \subseteq Nat /\ DOMAIN rest \subseteq Nat
      /\ \A n \in DOMAIN rest : n + 1 \in DOMAIN log /\ rest[n] = log[n + 1] /\ 1 < n + 1
      /\ \A n \in DOMAIN log : n # 1 => n - 1 \in DOMAIN rest /\ rest[n - 1] = log[n] /\ 1 < n
  BY TakeType
<1>2. \A n \in DOMAIN log : Level(log[n].kind) \in 0..3
  BY Levels
<1>3. /\ a <= b
      /\ \A n \in DOMAIN log : About(log[n], f) => a < Level(log[n].kind) /\ Level(log[n].kind) <= b
      /\ \A level \in a + 1..b : \E n \in DOMAIN log : About(log[n], f) /\ Level(log[n].kind) = level
      /\ \A m, n \in DOMAIN log :
           m < n /\ About(log[m], f) /\ About(log[n], f) => Level(log[m].kind) < Level(log[n].kind)
  BY DEF Told
<1> HIDE DEF rest
<1>4. \A m, n \in DOMAIN rest :
        m < n /\ About(rest[m], f) /\ About(rest[n], f) => Level(rest[m].kind) < Level(rest[n].kind)
  <2> SUFFICES ASSUME NEW m \in DOMAIN rest, NEW n \in DOMAIN rest, m < n,
                      About(rest[m], f), About(rest[n], f)
               PROVE  Level(rest[m].kind) < Level(rest[n].kind)
    OBVIOUS
  <2>1. m + 1 < n + 1 /\ m + 1 \in DOMAIN log /\ n + 1 \in DOMAIN log
    BY <1>1
  <2> QED BY <1>1, <1>3, <2>1
<1>5. CASE ~About(Head(log), f)
  <2>1. \A n \in DOMAIN rest : About(rest[n], f) => a < Level(rest[n].kind) /\ Level(rest[n].kind) <= b
    BY <1>1, <1>3
  <2>2. \A level \in a + 1..b : \E n \in DOMAIN rest : About(rest[n], f) /\ Level(rest[n].kind) = level
    <3> TAKE level \in a + 1..b
    <3>1. PICK n \in DOMAIN log : About(log[n], f) /\ Level(log[n].kind) = level
      BY <1>3
    <3>2. n # 1
      BY <1>1, <1>5, <3>1
    <3> QED BY <1>1, <3>1, <3>2
  <2> QED BY <1>3, <1>4, <1>5, <2>1, <2>2 DEF Told, rest
<1>6. CASE About(Head(log), f)
  <2>1. a < Level(log[1].kind) /\ Level(log[1].kind) <= b
    BY <1>1, <1>3, <1>6
  <2>2. \A n \in DOMAIN log : n # 1 /\ About(log[n], f) => Level(log[1].kind) < Level(log[n].kind)
    BY <1>1, <1>3, <1>6
  <2>3. a + 1 \in a + 1..b
    BY <1>1, <1>2, <2>1
  <2>4. PICK n \in DOMAIN log : About(log[n], f) /\ Level(log[n].kind) = a + 1
    BY <1>3, <2>3
  <2>5. Level(log[1].kind) = a + 1
    <3>1. n = 1 \/ Level(log[1].kind) < Level(log[n].kind)
      BY <2>2, <2>4
    <3>2. Level(log[1].kind) \in 0..3
      BY <1>1, <1>2
    <3> QED BY <2>1, <2>4, <3>1, <3>2
  <2>6. \A m \in DOMAIN rest :
          About(rest[m], f) => a + 1 < Level(rest[m].kind) /\ Level(rest[m].kind) <= b
    <3> SUFFICES ASSUME NEW m \in DOMAIN rest, About(rest[m], f)
                 PROVE  a + 1 < Level(rest[m].kind) /\ Level(rest[m].kind) <= b
      OBVIOUS
    <3>1. m + 1 \in DOMAIN log /\ rest[m] = log[m + 1] /\ m + 1 # 1
      BY <1>1
    <3> QED BY <1>3, <2>2, <2>5, <3>1
  <2>7. \A level \in a + 1 + 1..b : \E m \in DOMAIN rest : About(rest[m], f) /\ Level(rest[m].kind) = level
    <3> TAKE level \in a + 1 + 1..b
    <3>1. level \in a + 1..b /\ level # a + 1
      OBVIOUS
    <3>2. PICK m \in DOMAIN log : About(log[m], f) /\ Level(log[m].kind) = level
      BY <1>3, <3>1
    <3>3. m # 1
      BY <2>5, <3>1, <3>2
    <3> QED BY <1>1, <3>2, <3>3
  <2>8. a + 1 <= b
    BY <2>3
  <2> QED BY <1>1, <1>4, <1>6, <2>5, <2>6, <2>7, <2>8 DEF Told, rest
<1> QED BY <1>5, <1>6

-----------------------------------------------------------------------------
(* What a step does to the histories. *)
LEMMA OutType == ASSUME TypeInv, NEW f \in Files PROVE Out(f) \in 0..3
<1>1. envelope \in Events /\ seen[f] \in 0..3
  BY DEF TypeInv, CoordinatorType
<1>2. Level(envelope.kind) \in 0..3
  BY <1>1, Levels
<1> QED BY <1>1, <1>2 DEF Out

LEMMA SentQuiet ==
  ASSUME UNCHANGED <<events, batch, envelope, seen>>, NEW f, NEW k
  PROVE  Sent(f, k)' <=> Sent(f, k)
BY DEF Sent, Out, InBatch

LEMMA SentSend ==
  ASSUME TypeInv, NEW e \in Events, Send(e), UNCHANGED <<batch, envelope, seen>>,
         NEW f \in Files, NEW k \in 0..3, Sent(f, k)
  PROVE  /\ ~About(e, f) => Sent(f, k)'
         /\ About(e, f) /\ Level(e.kind) = k + 1 => Sent(f, k + 1)'
<1>1. Out(f)' = Out(f) /\ Out(f) \in 0..3
  BY OutType DEF Out, InBatch
<1>2. events' = Append(events, e) /\ events \in Seq(Events)
  BY DEF Send, TypeInv, ChannelType
<1>3. Told(events, f, Out(f), k)
  BY DEF Sent
<1>4. /\ ~About(e, f) => Told(Append(events, e), f, Out(f), k)
      /\ About(e, f) /\ Level(e.kind) = k + 1 => Told(Append(events, e), f, Out(f), k + 1)
  BY <1>1, <1>2, <1>3, ToldAppend
<1> QED BY <1>1, <1>2, <1>4 DEF Sent

LEMMA SentBound ==
  ASSUME TypeInv, NEW f \in Files, NEW k \in 0..3, Sent(f, k)
  PROVE  Out(f) <= k /\ (k < 3 => ~InBatch(f))
<1>1. Out(f) <= k
  BY DEF Sent, Told
<1> QED BY <1>1 DEF Out

(* The files the threads hold. *)
LEMMA HeldFiles ==
  ASSUME TypeInv
  PROVE  /\ \A n \in DOMAIN page : page[n] \in Files
         /\ \A n \in DOMAIN jobs : jobs[n] \in Files
         /\ \A n \in DOMAIN batch : batch[n] \in Files
         /\ ppc \in {"announce", "job"} => pfile \in Files
         /\ \A w \in Workers : wpc[w] \in Leasing \cup {"lease"} => wfile[w] \in Files
         /\ \A w \in Workers : wfile[w] \in Files => wpc[w] \in Leasing \cup {"lease"}
BY DEF TypeInv, ProducerType, PageType, WalkType, ChannelType, WorkerType, CoordinatorType

LEMMA ClaimKept ==
  ASSUME NEW place, NEW f, Claim(place, f), job'[f] = job[f], \A k \in 0..3 : Sent(f, k) => Sent(f, k)'
  PROVE  Claim(place, f)'
BY DEF Claim

(* Where a worker may be is of no consequence to a claim without a file. *)
LEMMA NoClaim ==
  ASSUME NEW place, place \notin Leasing \cup {"lease"}, NEW f
  PROVE  Claim(place, f) /\ Claim(place, f)'
BY DEF Claim, Leasing

(* A step that changes no history, no task and no place. *)
LEMMA StagesFrame ==
  ASSUME TypeInv, Stages, UNCHANGED <<job, ppc, page, pfile, jobs, wpc, wfile>>,
         \A f \in Files, k \in 0..3 : Sent(f, k) => Sent(f, k)'
  PROVE  Stages'
<1>1. \A w \in Workers : Claim(wpc[w], wfile[w])'
  <2> SUFFICES ASSUME NEW w \in Workers PROVE Claim(wpc[w], wfile[w])'
    OBVIOUS
  <2>1. Claim(wpc[w], wfile[w])
    BY DEF Stages
  <2>2. CASE wfile[w] \in Files
    BY <2>1, <2>2, ClaimKept
  <2>3. CASE wfile[w] \notin Files
    <3>1. wpc[w] \notin Leasing \cup {"lease"}
      BY <2>3, HeldFiles
    <3> QED BY <3>1, NoClaim
  <2> QED BY <2>2, <2>3
<1> HIDE DEF Claim, Sent
<1>2. \A n \in DOMAIN page : page[n] \in Files
  BY HeldFiles
<1>3. \A n \in DOMAIN jobs : jobs[n] \in Files
  BY HeldFiles
<1>4. ppc \in {"announce", "job"} => pfile \in Files
  BY HeldFiles
<1> QED BY <1>1, <1>2, <1>3, <1>4 DEF Stages

LEMMA ApartFrame ==
  ASSUME Apart, UNCHANGED <<ppc, page, pfile, jobs, wfile>>
  PROVE  Apart'
BY DEF Apart, InPage, InJobs

LEMMA PassingFrame ==
  ASSUME TypeInv, Passing, UNCHANGED <<cpc, then, batch, envelope, seen>>,
         \A f \in Files : job[f] = "done" => job'[f] = "done"
  PROVE  Passing'
<1>1. \A f : InBatch(f)' <=> InBatch(f)
  BY DEF InBatch
<1>2. \A e, f : About(e, f)' <=> About(e, f)
  BY DEF About
<1> QED BY <1>1, <1>2 DEF Passing, About, Level, Injective

(* A producer step that hands nothing on. *)
LEMMA QuietProducer ==
  ASSUME TypeInv, Stages, Apart, UNCHANGED <<job, jobs, wpc, wfile>>,
         ppc' \notin {"resume", "resumeJob", "announce", "job"},
         \A f \in Files, k \in 0..3 : Sent(f, k) => Sent(f, k)'
  PROVE  Stages' /\ Apart'
<1>1. \A w \in Workers : Claim(wpc[w], wfile[w])'
  <2> SUFFICES ASSUME NEW w \in Workers PROVE Claim(wpc[w], wfile[w])'
    OBVIOUS
  <2>1. Claim(wpc[w], wfile[w])
    BY DEF Stages
  <2>2. CASE wfile[w] \in Files
    BY <2>1, <2>2, ClaimKept
  <2>3. CASE wfile[w] \notin Files
    <3>1. wpc[w] \notin Leasing \cup {"lease"}
      BY <2>3, HeldFiles
    <3> QED BY <3>1, NoClaim
  <2> QED BY <2>2, <2>3
<1>2. \A n \in DOMAIN jobs : jobs[n] \in Files
  BY HeldFiles
<1>3. Stages'
  BY <1>1, <1>2 DEF Stages
<1>4. Apart'
  BY DEF Apart, InPage, InJobs
<1> QED BY <1>3, <1>4

(* A step that moves one file on: what it leaves as it was. *)
LEMMA OthersKept ==
  ASSUME TypeInv, Stages, NEW g \in Files,
         \A f \in Files : f # g => job'[f] = job[f],
         \A f \in Files, k \in 0..3 : f # g /\ Sent(f, k) => Sent(f, k)',
         job'[g] \in {"queued", "running"}, \E k \in 0..3 : Sent(g, k)'
  PROVE  /\ \A f \in Files : \E k \in 0..3 : Sent(f, k)'
         /\ \A f \in Files : job'[f] \in {"absent", "pending"} => Sent(f, 0)'
         /\ \A f \in Files : job'[f] = "done" => Sent(f, 0)' \/ Sent(f, 3)'
         /\ \A f \in Files : InJobs(f) /\ f # g => job'[f] = "queued" /\ Sent(f, 1)'
         /\ \A w \in Workers :
              wfile[w] # g /\ wpc'[w] = wpc[w] /\ wfile'[w] = wfile[w] => Claim(wpc[w], wfile[w])'
<1>1. \A f \in Files : \E k \in 0..3 : Sent(f, k)'
  BY DEF Stages
<1>2. \A f \in Files : job'[f] \in {"absent", "pending"} => Sent(f, 0)'
  BY DEF Stages
<1>3. \A f \in Files : job'[f] = "done" => Sent(f, 0)' \/ Sent(f, 3)'
  BY DEF Stages
<1>4. \A f \in Files : InJobs(f) /\ f # g => job'[f] = "queued" /\ Sent(f, 1)'
  BY DEF Stages, InJobs
<1>5. ASSUME NEW w \in Workers, wfile[w] # g, wpc'[w] = wpc[w], wfile'[w] = wfile[w]
      PROVE  Claim(wpc[w], wfile[w])'
  <2>1. Claim(wpc[w], wfile[w])
    BY DEF Stages
  <2>2. CASE wfile[w] \in Files
    BY <1>5, <2>1, <2>2, ClaimKept
  <2>3. CASE wfile[w] \notin Files
    <3>1. wpc[w] \notin Leasing \cup {"lease"}
      BY <2>3, HeldFiles
    <3> QED BY <1>5, <3>1, NoClaim
  <2> QED BY <2>2, <2>3
<1> QED BY <1>1, <1>2, <1>3, <1>4, <1>5

(* An announcement is about the file that is announced. *)
LEMMA Announcing ==
  ASSUME TypeInv, NEW g \in Files, NEW kind \in Kinds, NEW k \in 0..2, Level(kind) = k + 1,
         Send(Event(kind, g)), UNCHANGED <<batch, envelope, seen>>, Sent(g, k)
  PROVE  /\ \A f \in Files, l \in 0..3 : f # g /\ Sent(f, l) => Sent(f, l)'
         /\ Sent(g, Level(kind))'
<1> DEFINE e == Event(kind, g)
<1>1. e \in Events /\ Level(e.kind) = Level(kind) /\ \A f : About(e, f) <=> f = g
  BY DEF Event, Events, About
<1> HIDE DEF e
<1>2. Send(e)
  BY DEF e
<1>3. Sent(g, k + 1)'
  BY <1>1, <1>2, SentSend
<1> QED BY <1>1, <1>2, <1>3, SentSend

LEMMA OrderAnnounceResumed == ASSUME TypeInv, Stages, Apart, AnnounceResumed PROVE Stages' /\ Apart'
<1>0. page \in Seq(Files) /\ page # << >>
  BY DEF TypeInv, ProducerType, PageType, AnnounceResumed, Produce
<1>1. PICK g \in Files :
        /\ Head(page) = g /\ page[1] = g /\ 1 \in DOMAIN page
        /\ ppc = "resume" /\ ppc' = "resumeJob" /\ Send(Event("resumed", g))
        /\ UNCHANGED <<job, page, pfile, jobs, wpc, wfile, batch, envelope, seen>>
  <2>1. Head(page) = page[1] /\ page[1] \in Files /\ 1 \in DOMAIN page
    BY <1>0, TakeType
  <2> QED BY <1>0, <2>1 DEF AnnounceResumed, Produce, journal, worker, coordinator
<1>2. InPage(g) /\ job[g] = "queued" /\ Sent(g, 0)
  BY <1>1 DEF InPage, Stages
<1>3. /\ \A f \in Files, k \in 0..3 : f # g /\ Sent(f, k) => Sent(f, k)'
      /\ Sent(g, 1)'
  <2>1. "resumed" \in Kinds /\ Level("resumed") = 1
    BY DEF Kinds, Level
  <2>2. Level("resumed") = 0 + 1 /\ 0 \in 0..2
    BY <2>1
  <2> QED BY <1>1, <1>2, <2>1, <2>2, Announcing
<1>4. /\ \A f \in Files : \E k \in 0..3 : Sent(f, k)'
      /\ \A f \in Files : job'[f] \in {"absent", "pending"} => Sent(f, 0)'
      /\ \A f \in Files : job'[f] = "done" => Sent(f, 0)' \/ Sent(f, 3)'
      /\ \A f \in Files : InJobs(f) /\ f # g => job'[f] = "queued" /\ Sent(f, 1)'
      /\ \A w \in Workers :
           wfile[w] # g /\ wpc'[w] = wpc[w] /\ wfile'[w] = wfile[w] => Claim(wpc[w], wfile[w])'
  <2>1. \E k \in 0..3 : Sent(g, k)'
    BY <1>3
  <2>2. job'[g] \in {"queued", "running"} /\ \A f \in Files : f # g => job'[f] = job[f]
    BY <1>1, <1>2
  <2> QED BY <1>1, <1>3, <2>1, <2>2, OthersKept
<1>5. ~InJobs(g) /\ \A w \in Workers : wfile[w] # g
  BY <1>1, <1>2 DEF Apart
<1>6. \A n \in DOMAIN page : page[n] \in Files /\ (n # 1 => page[n] # g)
  BY <1>1, HeldFiles DEF Apart, Injective
<1>7. \A n \in DOMAIN page : job[page[n]] = "queued" /\ (n # 1 => Sent(page[n], 0))
  BY <1>1 DEF Stages
<1>8. \A n \in DOMAIN jobs : jobs[n] \in Files /\ InJobs(jobs[n])
  BY HeldFiles DEF InJobs
<1>9. Stages'
  BY <1>1, <1>3, <1>4, <1>5, <1>6, <1>7, <1>8 DEF Stages
<1>10. Apart'
  BY <1>1 DEF Apart, InPage, InJobs
<1> QED BY <1>9, <1>10

LEMMA OrderAnnounceDiscovered ==
  ASSUME TypeInv, Stages, Apart, AnnounceDiscovered PROVE Stages' /\ Apart'
<1>1. PICK g \in Files :
        /\ pfile = g /\ ppc = "announce" /\ ppc' = "job" /\ Send(Event("discovered", g))
        /\ UNCHANGED <<job, page, pfile, jobs, wpc, wfile, batch, envelope, seen>>
  BY DEF TypeInv, ProducerType, WalkType, AnnounceDiscovered, Produce, journal, worker, coordinator
<1>2. job[g] = "queued" /\ Sent(g, 0)
  BY <1>1 DEF Stages
<1>3. /\ \A f \in Files, k \in 0..3 : f # g /\ Sent(f, k) => Sent(f, k)'
      /\ Sent(g, 1)'
  <2>1. "discovered" \in Kinds /\ Level("discovered") = 1
    BY DEF Kinds, Level
  <2>2. Level("discovered") = 0 + 1 /\ 0 \in 0..2
    BY <2>1
  <2> QED BY <1>1, <1>2, <2>1, <2>2, Announcing
<1>4. /\ \A f \in Files : \E k \in 0..3 : Sent(f, k)'
      /\ \A f \in Files : job'[f] \in {"absent", "pending"} => Sent(f, 0)'
      /\ \A f \in Files : job'[f] = "done" => Sent(f, 0)' \/ Sent(f, 3)'
      /\ \A f \in Files : InJobs(f) /\ f # g => job'[f] = "queued" /\ Sent(f, 1)'
      /\ \A w \in Workers :
           wfile[w] # g /\ wpc'[w] = wpc[w] /\ wfile'[w] = wfile[w] => Claim(wpc[w], wfile[w])'
  <2>1. \E k \in 0..3 : Sent(g, k)'
    BY <1>3
  <2>2. job'[g] \in {"queued", "running"} /\ \A f \in Files : f # g => job'[f] = job[f]
    BY <1>1, <1>2
  <2> QED BY <1>1, <1>3, <2>1, <2>2, OthersKept
<1>5. ~InJobs(g) /\ \A w \in Workers : wfile[w] # g
  BY <1>1, <1>2 DEF Apart
<1>6. \A n \in DOMAIN jobs : jobs[n] \in Files /\ InJobs(jobs[n])
  BY HeldFiles DEF InJobs
<1>7. Stages'
  BY <1>1, <1>2, <1>3, <1>4, <1>5, <1>6 DEF Stages
<1>8. Apart'
  BY <1>1 DEF Apart, InPage, InJobs
<1> QED BY <1>7, <1>8

(* A task is handed out: it leaves the producer and is in the channel.      *)
LEMMA OrderHandOut == ASSUME TypeInv, Stages, Apart, HandOut PROVE Stages' /\ Apart'
<1>1. PICK g \in Files :
        /\ pfile = g /\ ppc = "job" /\ ppc' = "dispatch" /\ jobs' = Append(jobs, g)
        /\ UNCHANGED <<job, wpc, wfile, events, batch, envelope, seen>>
  BY DEF TypeInv, ProducerType, WalkType, HandOut, Produce, journal, worker, coordinator
<1>2. job[g] = "queued" /\ Sent(g, 1) /\ ~InJobs(g) /\ \A w \in Workers : wfile[w] # g
  BY <1>1 DEF Stages, Apart
<1>3. \A f \in Files, k \in 0..3 : Sent(f, k)' <=> Sent(f, k)
  BY <1>1, SentQuiet
<1>4. /\ DOMAIN jobs' = 1..Len(jobs) + 1 /\ Len(jobs) \in Nat /\ DOMAIN jobs = 1..Len(jobs)
      /\ \A n \in DOMAIN jobs : jobs'[n] = jobs[n]
      /\ jobs'[Len(jobs) + 1] = g
  BY <1>1, AddType DEF TypeInv, ChannelType
<1>5. \A n \in DOMAIN jobs' :
        (n \in DOMAIN jobs /\ jobs'[n] = jobs[n] /\ n # Len(jobs) + 1)
          \/ (n = Len(jobs) + 1 /\ jobs'[n] = g)
  BY <1>4
<1>6. \A n \in DOMAIN jobs : jobs[n] \in Files /\ jobs[n] # g
  BY <1>2, HeldFiles DEF InJobs
<1>7. \A w \in Workers : Claim(wpc[w], wfile[w])'
  <2> SUFFICES ASSUME NEW w \in Workers PROVE Claim(wpc[w], wfile[w])'
    OBVIOUS
  <2>1. Claim(wpc[w], wfile[w])
    BY DEF Stages
  <2>2. CASE wfile[w] \in Files
    BY <1>1, <1>3, <2>1, <2>2, ClaimKept
  <2>3. CASE wfile[w] \notin Files
    <3>1. wpc[w] \notin Leasing \cup {"lease"}
      BY <2>3, HeldFiles
    <3> QED BY <1>1, <3>1, NoClaim
  <2> QED BY <2>2, <2>3
<1>8. \A n \in DOMAIN jobs' : job[jobs'[n]] = "queued" /\ Sent(jobs'[n], 1)
  BY <1>2, <1>5 DEF Stages
<1>9. Stages'
  <2>1. /\ \A f \in Files : \E k \in 0..3 : Sent(f, k)'
        /\ \A f \in Files : job'[f] \in {"absent", "pending"} => Sent(f, 0)'
        /\ \A f \in Files : job'[f] = "done" => Sent(f, 0)' \/ Sent(f, 3)'
    BY <1>1, <1>3 DEF Stages
  <2>2. \A n \in DOMAIN jobs' : jobs'[n] \in Files
    BY <1>5, <1>6
  <2>3. \A n \in DOMAIN jobs' : job'[jobs'[n]] = "queued" /\ Sent(jobs[n], 1)'
    BY <1>1, <1>3, <1>8, <2>2
  <2> QED BY <1>1, <1>7, <2>1, <2>3 DEF Stages
<1>10. Injective(jobs)'
  BY <1>5, <1>6 DEF Apart, Injective
<1>11. \A f : InJobs(f)' <=> InJobs(f) \/ f = g
  BY <1>4, <1>5 DEF InJobs
<1>12. \A f : ~InPage(f)'
  BY <1>1 DEF InPage
<1>13. Apart'
  BY <1>1, <1>2, <1>10, <1>11, <1>12 DEF Apart
<1> QED BY <1>9, <1>13

LEMMA OrderHandOutResumed == ASSUME TypeInv, Stages, Apart, HandOutResumed PROVE Stages' /\ Apart'
<1>0. page \in Seq(Files) /\ page # << >>
  BY DEF TypeInv, ProducerType, PageType, HandOutResumed, Produce
<1>1. PICK g \in Files :
        /\ page[1] = g /\ 1 \in DOMAIN page /\ jobs' = Append(jobs, g) /\ page' = Tail(page)
        /\ ppc = "resumeJob" /\ ppc' \in {"resume", "pages"}
        /\ UNCHANGED <<job, wpc, wfile, events, batch, envelope, seen>>
  <2>1. Head(page) = page[1] /\ page[1] \in Files /\ 1 \in DOMAIN page
    BY <1>0, TakeType
  <2> QED BY <2>1 DEF HandOutResumed, Produce, journal, worker, coordinator
<1>2. \A n \in DOMAIN page' : n + 1 \in DOMAIN page /\ page'[n] = page[n + 1] /\ n + 1 # 1
  <2>1. \A n \in DOMAIN Tail(page) :
          n + 1 \in DOMAIN page /\ Tail(page)[n] = page[n + 1] /\ n \in 1..Len(page) - 1
    BY <1>0, TakeType
  <2> QED BY <1>1, <2>1
<1>3. job[g] = "queued" /\ Sent(g, 1) /\ ~InJobs(g) /\ \A w \in Workers : wfile[w] # g
  <2>1. InPage(g)
    BY <1>1 DEF InPage
  <2> QED BY <1>1, <2>1 DEF Stages, Apart
<1>4. \A f \in Files, k \in 0..3 : Sent(f, k)' <=> Sent(f, k)
  BY <1>1, SentQuiet
<1>5. /\ DOMAIN jobs' = 1..Len(jobs) + 1 /\ Len(jobs) \in Nat /\ DOMAIN jobs = 1..Len(jobs)
      /\ \A n \in DOMAIN jobs : jobs'[n] = jobs[n]
      /\ jobs'[Len(jobs) + 1] = g
  BY <1>1, AddType DEF TypeInv, ChannelType
<1>6. \A n \in DOMAIN jobs' :
        (n \in DOMAIN jobs /\ jobs'[n] = jobs[n] /\ n # Len(jobs) + 1)
          \/ (n = Len(jobs) + 1 /\ jobs'[n] = g)
  BY <1>5
<1>7. \A n \in DOMAIN jobs : jobs[n] \in Files /\ jobs[n] # g
  BY <1>3, HeldFiles DEF InJobs
<1>8. \A w \in Workers : Claim(wpc[w], wfile[w])'
  <2> SUFFICES ASSUME NEW w \in Workers PROVE Claim(wpc[w], wfile[w])'
    OBVIOUS
  <2>1. Claim(wpc[w], wfile[w])
    BY DEF Stages
  <2>2. CASE wfile[w] \in Files
    BY <1>1, <1>4, <2>1, <2>2, ClaimKept
  <2>3. CASE wfile[w] \notin Files
    <3>1. wpc[w] \notin Leasing \cup {"lease"}
      BY <2>3, HeldFiles
    <3> QED BY <1>1, <3>1, NoClaim
  <2> QED BY <2>2, <2>3
<1>9. \A n \in DOMAIN jobs' : job[jobs'[n]] = "queued" /\ Sent(jobs'[n], 1)
  BY <1>3, <1>6 DEF Stages
<1>10. \A n \in DOMAIN page' : page'[n] \in Files /\ job[page'[n]] = "queued" /\ Sent(page'[n], 0)
  BY <1>1, <1>2, HeldFiles DEF Stages
<1>11. Stages'
  <2>1. /\ \A f \in Files : \E k \in 0..3 : Sent(f, k)'
        /\ \A f \in Files : job'[f] \in {"absent", "pending"} => Sent(f, 0)'
        /\ \A f \in Files : job'[f] = "done" => Sent(f, 0)' \/ Sent(f, 3)'
    BY <1>1, <1>4 DEF Stages
  <2>2. \A n \in DOMAIN jobs' : jobs'[n] \in Files
    BY <1>6, <1>7
  <2>3. \A n \in DOMAIN jobs' : job'[jobs'[n]] = "queued" /\ Sent(jobs[n], 1)'
    BY <1>1, <1>4, <1>9, <2>2
  <2>4. \A n \in DOMAIN page' : job'[page'[n]] = "queued" /\ Sent(page[n], 0)'
    BY <1>1, <1>4, <1>10
  <2> QED BY <1>1, <1>8, <2>1, <2>3, <2>4 DEF Stages
<1>12. Injective(jobs)'
  BY <1>6, <1>7 DEF Apart, Injective
<1>13. \A f : InJobs(f)' <=> InJobs(f) \/ f = g
  BY <1>5, <1>6 DEF InJobs
<1>14. Injective(page)'
  <2> SUFFICES ASSUME NEW m \in DOMAIN page', NEW n \in DOMAIN page', page'[m] = page'[n] PROVE m = n
    BY DEF Injective
  <2>1. m + 1 = n + 1
    BY <1>1, <1>2 DEF Apart, Injective
  <2>2. m \in Nat /\ n \in Nat
    BY <1>0, <1>1, TakeType
  <2> QED BY <2>1, <2>2
<1>15. \A f : InPage(f)' => InPage(f) /\ f # g
  BY <1>1, <1>2 DEF Apart, Injective, InPage
<1>16. Apart'
  BY <1>1, <1>3, <1>12, <1>13, <1>14, <1>15 DEF Apart
<1> QED BY <1>11, <1>16

(* A page of pending tasks, none of which any thread has. *)
LEMMA OrderFetchPage == ASSUME TypeInv, Stages, Apart, FetchPage PROVE Stages' /\ Apart'
<1>1. /\ ppc = "pages" /\ ppc' = "resume"
      /\ UNCHANGED <<jobs, wpc, wfile, events, batch, envelope, seen>>
  BY DEF FetchPage, Produce, worker, coordinator
<1>2. PICK n \in 1..PageSize :
        /\ page' \in [1..n -> Beyond]
        /\ \A j, k \in 1..n : j < k => id[page'[j]] < id[page'[k]]
        /\ job' = [f \in Files |-> IF f \in {page'[k] : k \in 1..n} THEN "queued" ELSE job[f]]
  BY DEF FetchPage
<1>3. \A f \in Beyond : f \in Files /\ job[f] = "pending"
  BY DEF Beyond, In
<1>4. DOMAIN page' = 1..n /\ \A k \in 1..n : page'[k] \in Files /\ job[page'[k]] = "pending"
  BY <1>2, <1>3
<1>5. \A f \in Files : job'[f] = IF \E k \in 1..n : page'[k] = f THEN "queued" ELSE job[f]
  BY <1>2
<1>6. \A f \in Files : (job[f] # "pending" => job'[f] = job[f])
                       /\ (job'[f] # "queued" => job'[f] = job[f])
  BY <1>4, <1>5
<1>7. \A f \in Files, k \in 0..3 : Sent(f, k)' <=> Sent(f, k)
  BY <1>1, SentQuiet
<1>8. \A w \in Workers : Claim(wpc[w], wfile[w])'
  <2> SUFFICES ASSUME NEW w \in Workers PROVE Claim(wpc[w], wfile[w])'
    OBVIOUS
  <2>1. Claim(wpc[w], wfile[w])
    BY DEF Stages
  <2>2. CASE wfile[w] \in Files
    <3>1. wpc[w] \in Leasing \cup {"lease"}
      BY <2>2, HeldFiles
    <3>2. job[wfile[w]] # "pending"
      BY <2>1, <3>1 DEF Claim, Leasing
    <3> QED BY <1>1, <1>6, <1>7, <2>1, <2>2, <3>2, ClaimKept
  <2>3. CASE wfile[w] \notin Files
    <3>1. wpc[w] \notin Leasing \cup {"lease"}
      BY <2>3, HeldFiles
    <3> QED BY <1>1, <3>1, NoClaim
  <2> QED BY <2>2, <2>3
<1>9. Stages'
  <2>1. /\ \A f \in Files : \E k \in 0..3 : Sent(f, k)'
        /\ \A f \in Files : job'[f] \in {"absent", "pending"} => Sent(f, 0)'
        /\ \A f \in Files : job'[f] = "done" => Sent(f, 0)' \/ Sent(f, 3)'
    BY <1>6, <1>7 DEF Stages
  <2>2. \A m \in DOMAIN jobs : jobs[m] \in Files /\ job[jobs[m]] = "queued" /\ Sent(jobs[m], 1)
    BY HeldFiles DEF Stages
  <2>3. \A m \in DOMAIN jobs' : job'[jobs'[m]] = "queued" /\ Sent(jobs[m], 1)'
    BY <1>1, <1>6, <1>7, <2>2
  <2>4. \A m \in DOMAIN page' : job'[page'[m]] = "queued" /\ Sent(page[m], 0)'
    <3>1. \A m \in DOMAIN page' : Sent(page'[m], 0)
      BY <1>4 DEF Stages
    <3> QED BY <1>4, <1>5, <1>7, <3>1
  <2> QED BY <1>1, <1>8, <2>1, <2>3, <2>4 DEF Stages
<1>10. Injective(page)'
  <2> SUFFICES ASSUME NEW j \in 1..n, NEW k \in 1..n, page'[j] = page'[k] PROVE j = k
    BY <1>4 DEF Injective
  <2>1. id[page'[j]] \in Nat /\ id[page'[k]] \in Nat
    BY <1>4 DEF TypeInv, JournalType
  <2> QED BY <1>2, <2>1
<1>11. \A f \in Files : InPage(f)' => job[f] = "pending"
  BY <1>4 DEF InPage
<1>12. \A f \in Files : InJobs(f) => job[f] = "queued"
  BY DEF InJobs, Stages
<1>13. \A w \in Workers : wfile[w] \in Files => job[wfile[w]] # "pending"
  <2> SUFFICES ASSUME NEW w \in Workers, wfile[w] \in Files PROVE job[wfile[w]] # "pending"
    OBVIOUS
  <2>1. wpc[w] \in Leasing \cup {"lease"} /\ Claim(wpc[w], wfile[w])
    BY HeldFiles DEF Stages
  <2> QED BY <2>1 DEF Claim, Leasing
<1>14. \A f : InJobs(f)' <=> InJobs(f)
  BY <1>1 DEF InJobs
<1>15. Apart'
  <2> HIDE DEF InPage, InJobs
  <2>1. Injective(jobs)' /\ \A w, x \in Workers : wfile'[w] \in Files /\ wfile'[w] = wfile'[x] => w = x
    BY <1>1 DEF Apart, Injective
  <2>2. \A w \in Workers : wfile[w] \in Files => ~InPage(wfile[w])' /\ ~InJobs(wfile[w])'
    BY <1>1, <1>11, <1>13, <1>14 DEF Apart
  <2>3. \A f \in Files : ~(InPage(f)' /\ InJobs(f)')
    BY <1>11, <1>12, <1>14
  <2> QED BY <1>1, <1>10, <2>1, <2>2, <2>3 DEF Apart
<1> QED BY <1>9, <1>15

(* schedule takes a file no thread has, or leaves everything alone. *)
LEMMA OrderDispatch == ASSUME TypeInv, Stages, Apart, Dispatch PROVE Stages' /\ Apart'
<1>1. PICK g \in window : Schedule(g)
  BY DEF Dispatch
<1>2. /\ g \in Files /\ ppc = "dispatch"
      /\ UNCHANGED <<jobs, wpc, wfile, events, batch, envelope, seen>>
  BY DEF TypeInv, ProducerType, WindowType, Dispatch, worker, coordinator
<1>3. \A f \in Files, k \in 0..3 : Sent(f, k)' <=> Sent(f, k)
  BY <1>2, SentQuiet
<1>4. CASE job[g] \in {"queued", "running", "done"}
  <2>1. UNCHANGED job /\ ppc' = "dispatch"
    BY <1>1, <1>4 DEF Schedule
  <2> QED BY <1>2, <1>3, <2>1, QuietProducer
<1>5. CASE job[g] \notin {"queued", "running", "done"}
  <2>1. /\ ppc' = "announce" /\ pfile' = g /\ job' = [job EXCEPT ![g] = "queued"]
        /\ job[g] \in {"absent", "pending"} /\ job \in [Files -> {"absent", "pending", "queued", "running", "done"}]
    BY <1>1, <1>2, <1>5 DEF Schedule, TypeInv, JournalType
  <2>2. job'[g] = "queued" /\ \A f \in Files : f # g => job'[f] = job[f]
    BY <1>2, <2>1
  <2>3. Sent(g, 0)
    BY <1>2, <2>1 DEF Stages
  <2>4. /\ \A f \in Files : \E k \in 0..3 : Sent(f, k)'
        /\ \A f \in Files : job'[f] \in {"absent", "pending"} => Sent(f, 0)'
        /\ \A f \in Files : job'[f] = "done" => Sent(f, 0)' \/ Sent(f, 3)'
        /\ \A f \in Files : InJobs(f) /\ f # g => job'[f] = "queued" /\ Sent(f, 1)'
        /\ \A w \in Workers :
             wfile[w] # g /\ wpc'[w] = wpc[w] /\ wfile'[w] = wfile[w] => Claim(wpc[w], wfile[w])'
    <3>1. \E k \in 0..3 : Sent(g, k)'
      BY <1>2, <1>3, <2>3
    <3> QED BY <1>2, <1>3, <2>2, <3>1, OthersKept
  <2>5. ~InJobs(g)
    BY <1>2, <2>1 DEF InJobs, Stages
  <2>6. \A w \in Workers : wfile[w] # g
    <3> SUFFICES ASSUME NEW w \in Workers, wfile[w] = g PROVE FALSE
      OBVIOUS
    <3>1. wpc[w] \in Leasing \cup {"lease"} /\ Claim(wpc[w], wfile[w])
      BY <1>2, HeldFiles DEF Stages
    <3> QED BY <2>1, <3>1 DEF Claim, Leasing
  <2>7. \A n \in DOMAIN jobs : jobs[n] \in Files /\ InJobs(jobs[n]) /\ jobs[n] # g
    BY <2>5, HeldFiles DEF InJobs
  <2>8. Stages'
    <3>1. \A w \in Workers : Claim(wpc[w], wfile[w])'
      BY <1>2, <2>4, <2>6
    <3>2. \A n \in DOMAIN jobs' : job'[jobs'[n]] = "queued" /\ Sent(jobs[n], 1)'
      BY <1>2, <2>4, <2>7
    <3>3. job'[pfile'] = "queued" /\ Sent(pfile, 0)'
      BY <1>2, <1>3, <2>1, <2>2, <2>3
    <3> QED BY <2>1, <2>4, <3>1, <3>2, <3>3 DEF Stages
  <2>9. Apart'
    <3>1. \A f : InJobs(f)' <=> InJobs(f)
      BY <1>2 DEF InJobs
    <3>2. \A f : ~InPage(f)'
      BY <2>1 DEF InPage
    <3> QED BY <1>2, <2>1, <2>5, <2>6, <3>1, <3>2 DEF Apart, Injective
  <2> QED BY <2>8, <2>9
<1> QED BY <1>4, <1>5

LEMMA OrderProducer == ASSUME TypeInv, Stages, Apart, Producer PROVE Stages' /\ Apart'
<1>1. CASE AnnounceResumed \/ AnnounceDiscovered \/ HandOut \/ HandOutResumed \/ FetchPage \/ Dispatch
  BY <1>1, OrderAnnounceResumed, OrderAnnounceDiscovered, OrderHandOut, OrderHandOutResumed,
     OrderFetchPage, OrderDispatch
<1>2. CASE WalkNotice \/ Complain \/ AnnounceDiscoveryFinished
  <2>1. PICK e \in Events : Level(e.kind) = 0 /\ Send(e)
    BY <1>2 DEF WalkNotice, Complain, AnnounceDiscoveryFinished, Event, Events, Kinds, Level
  <2>2. UNCHANGED <<job, jobs, wpc, wfile, batch, envelope, seen>>
    BY <1>2 DEF WalkNotice, Complain, AnnounceDiscoveryFinished, journal, worker, coordinator
  <2>3. ppc' \notin {"resume", "resumeJob", "announce", "job"}
    BY <1>2 DEF WalkNotice, Complain, AnnounceDiscoveryFinished, Produce
  <2>4. \A f : ~About(e, f)
    BY <2>1 DEF About
  <2>5. \A f \in Files, k \in 0..3 : Sent(f, k) => Sent(f, k)'
    BY <2>1, <2>2, <2>4, SentSend
  <2> QED BY <2>2, <2>3, <2>5, QuietProducer
<1>3. CASE \/ ProducerStops \/ NoPage \/ CheckDiscovery \/ WalkFile \/ WalkSkip \/ WalkEnds \/ WindowEmpty
           \/ FinishDiscovery \/ ProducerFails \/ JudgeError \/ GiveUp
  <2>1. /\ UNCHANGED <<job, jobs, wpc, wfile, events, batch, envelope, seen>>
        /\ ppc' \notin {"resume", "resumeJob", "announce", "job"}
    BY <1>3 DEF ProducerStops, NoPage, CheckDiscovery, WalkFile, WalkSkip, WalkEnds, WindowEmpty,
       FinishDiscovery, ProducerFails, JudgeError, GiveUp, Produce, journal, worker, coordinator
  <2>2. \A f \in Files, k \in 0..3 : Sent(f, k) => Sent(f, k)'
    BY <2>1, SentQuiet
  <2> QED BY <2>1, <2>2, QuietProducer
<1> QED BY <1>1, <1>2, <1>3 DEF Producer

-----------------------------------------------------------------------------
(* A worker step that takes no job and tells the sink nothing. *)
LEMMA QuietWorker ==
  ASSUME TypeInv, Stages, Apart, NEW w \in Workers, NEW to \in WorkerPlaces,
         wpc' = [wpc EXCEPT ![w] = to],
         \/ /\ UNCHANGED wfile
            /\ to \in Leasing \cup {"lease"} =>
                 wpc[w] \in Leasing \cup {"lease"} /\ (Claim(wpc[w], wfile[w]) => Claim(to, wfile[w]))
         \/ wfile' = [wfile EXCEPT ![w] = NoFile] /\ to \notin Leasing \cup {"lease"},
         UNCHANGED <<job, producer, jobs>>,
         \A f \in Files, k \in 0..3 : Sent(f, k) => Sent(f, k)'
  PROVE  Stages' /\ Apart'
<1>1. /\ \A x \in Workers : wpc'[x] = IF x = w THEN to ELSE wpc[x]
      /\ \A x \in Workers : wfile'[x] = wfile[x] \/ (x = w /\ wfile'[x] = NoFile)
      /\ NoFile \notin Files
  BY Sizes DEF TypeInv, WorkerType
<1>2. ASSUME NEW x \in Workers PROVE Claim(wpc[x], wfile[x])'
  <2>1. Claim(wpc[x], wfile[x])
    BY DEF Stages
  <2>2. CASE x # w
    <3>1. wpc'[x] = wpc[x] /\ wfile'[x] = wfile[x]
      BY <1>1, <2>2
    <3>2. CASE wfile[x] \in Files
      BY <2>1, <3>1, <3>2, ClaimKept
    <3>3. CASE wfile[x] \notin Files
      <4>1. wpc[x] \notin Leasing \cup {"lease"}
        BY <3>3, HeldFiles
      <4> QED BY <3>1, <4>1, NoClaim
    <3> QED BY <3>2, <3>3
  <2>3. CASE x = w /\ to \notin Leasing \cup {"lease"}
    <3>1. wpc'[x] = to
      BY <1>1, <2>3
    <3> QED BY <2>3, <3>1, NoClaim
  <2>4. CASE x = w /\ to \in Leasing \cup {"lease"}
    <3>1. wfile'[x] = wfile[x] /\ wpc'[x] = to /\ Claim(to, wfile[x])
      BY <1>1, <2>1, <2>4
    <3>2. wfile[x] \in Files
      BY <2>4, HeldFiles
    <3> QED BY <3>1, <3>2, ClaimKept
  <2> QED BY <2>2, <2>3, <2>4
<1>3. UNCHANGED <<ppc, page, pfile>>
  BY DEF producer
<1>4. \A n \in DOMAIN page : page[n] \in Files
  BY HeldFiles
<1>5. \A n \in DOMAIN jobs : jobs[n] \in Files
  BY HeldFiles
<1>6. ppc \in {"announce", "job"} => pfile \in Files
  BY HeldFiles
<1>7. Stages'
  BY <1>2, <1>3, <1>4, <1>5, <1>6 DEF Stages
<1>8. Apart'
  <2>1. \A f : (InPage(f)' <=> InPage(f)) /\ (InJobs(f)' <=> InJobs(f))
    BY <1>3 DEF InPage, InJobs
  <2>2. Injective(page)' = Injective(page) /\ Injective(jobs)' = Injective(jobs)
    BY <1>3 DEF Injective
  <2>3. \A x \in Workers : wfile'[x] \in Files => wfile'[x] = wfile[x]
    BY <1>1
  <2> QED BY <1>1, <1>3, <1>6, <2>1, <2>2, <2>3 DEF Apart
<1> QED BY <1>7, <1>8

(* A job is taken: it leaves the channel and is the worker's. *)
LEMMA OrderReceive ==
  ASSUME TypeInv, Stages, Apart, NEW w \in Workers, Receive(w) PROVE Stages' /\ Apart'
<1>0. jobs \in Seq(Files) /\ jobs # << >>
  BY DEF TypeInv, ChannelType, Receive
<1>1. PICK g \in Files : jobs[1] = g /\ 1 \in DOMAIN jobs /\ wfile' = [wfile EXCEPT ![w] = g]
  <2>1. Head(jobs) = jobs[1] /\ jobs[1] \in Files /\ 1 \in DOMAIN jobs
    BY <1>0, TakeType
  <2> QED BY <2>1 DEF Receive
<1>2. /\ wpc[w] = "recv" /\ wpc' = [wpc EXCEPT ![w] = "lease"] /\ jobs' = Tail(jobs)
      /\ UNCHANGED <<job, ppc, page, pfile, events, batch, envelope, seen>>
  BY DEF Receive, Working, journal, producer, coordinator
<1>3. \A n \in DOMAIN jobs' :
        n \in Nat /\ n + 1 \in DOMAIN jobs /\ jobs'[n] = jobs[n + 1] /\ n + 1 # 1
  <2>1. \A n \in DOMAIN Tail(jobs) :
          n + 1 \in DOMAIN jobs /\ Tail(jobs)[n] = jobs[n + 1] /\ n \in 1..Len(jobs) - 1
    BY <1>0, TakeType
  <2> QED BY <1>2, <2>1
<1>4. /\ \A x \in Workers : wpc'[x] = IF x = w THEN "lease" ELSE wpc[x]
      /\ \A x \in Workers : wfile'[x] = IF x = w THEN g ELSE wfile[x]
  BY <1>1, <1>2 DEF TypeInv, WorkerType
<1>5. InJobs(g) /\ job[g] = "queued" /\ Sent(g, 1)
  BY <1>1 DEF InJobs, Stages
<1>6. ~InPage(g) /\ (\A x \in Workers : wfile[x] # g) /\ (ppc \in {"announce", "job"} => pfile # g)
  BY <1>5 DEF Apart
<1>7. \A f \in Files, k \in 0..3 : Sent(f, k)' <=> Sent(f, k)
  BY <1>2, SentQuiet
<1>8. ASSUME NEW x \in Workers PROVE Claim(wpc[x], wfile[x])'
  <2>1. CASE x = w
    <3>1. Claim("lease", g)
      BY <1>5 DEF Claim
    <3>2. Claim("lease", g)'
      BY <1>2, <1>7, <3>1, ClaimKept
    <3> QED BY <1>4, <2>1, <3>2
  <2>2. CASE x # w
    <3>1. wpc'[x] = wpc[x] /\ wfile'[x] = wfile[x] /\ Claim(wpc[x], wfile[x])
      BY <1>4, <2>2 DEF Stages
    <3>2. CASE wfile[x] \in Files
      BY <1>2, <1>7, <3>1, <3>2, ClaimKept
    <3>3. CASE wfile[x] \notin Files
      <4>1. wpc[x] \notin Leasing \cup {"lease"}
        BY <3>3, HeldFiles
      <4> QED BY <3>1, <4>1, NoClaim
    <3> QED BY <3>2, <3>3
  <2> QED BY <2>1, <2>2
<1>9. \A n \in DOMAIN page : page[n] \in Files
  BY HeldFiles
<1>10. \A n \in DOMAIN jobs' : jobs'[n] \in Files /\ job[jobs'[n]] = "queued" /\ Sent(jobs'[n], 1)
  BY <1>3, HeldFiles DEF Stages
<1>11. ppc \in {"announce", "job"} => pfile \in Files
  BY HeldFiles
<1>12. Stages'
  <2>1. \A n \in DOMAIN jobs' : job'[jobs'[n]] = "queued" /\ Sent(jobs[n], 1)'
    BY <1>2, <1>7, <1>10
  <2> QED BY <1>2, <1>7, <1>8, <1>9, <1>11, <2>1 DEF Stages
<1>13. Injective(jobs)'
  <2> SUFFICES ASSUME NEW m \in DOMAIN jobs', NEW n \in DOMAIN jobs', jobs'[m] = jobs'[n] PROVE m = n
    BY DEF Injective
  <2>1. m + 1 = n + 1
    BY <1>3 DEF Apart, Injective
  <2> QED BY <1>3, <2>1
<1>14. \A f : InJobs(f)' => InJobs(f) /\ f # g
  BY <1>1, <1>3 DEF Apart, Injective, InJobs
<1>15. \A f : InPage(f)' <=> InPage(f)
  BY <1>2 DEF InPage
<1>16. Apart'
  <2>1. Injective(page)' = Injective(page)
    BY <1>2 DEF Injective
  <2> QED BY <1>2, <1>4, <1>6, <1>11, <1>13, <1>14, <1>15, <2>1 DEF Apart
<1> QED BY <1>12, <1>16

(* The task of a worker moves on: nobody else has it. *)
LEMMA WorkerAlone ==
  ASSUME TypeInv, Apart, NEW w \in Workers, wfile[w] \in Files
  PROVE  /\ \A x \in Workers : x # w => wfile[x] # wfile[w]
         /\ ~InPage(wfile[w]) /\ ~InJobs(wfile[w])
         /\ ppc \in {"announce", "job"} => pfile # wfile[w]
BY DEF Apart

LEMMA OneMovesOn ==
  ASSUME TypeInv, Stages, Apart, NEW w \in Workers, NEW g \in Files, wfile[w] = g,
         NEW to \in WorkerPlaces, wpc' = [wpc EXCEPT ![w] = to],
         \/ UNCHANGED wfile /\ Claim(to, g)'
         \/ wfile' = [wfile EXCEPT ![w] = NoFile] /\ to \notin Leasing \cup {"lease"},
         UNCHANGED <<producer, jobs>>,
         \A f \in Files : f # g => job'[f] = job[f],
         \A f \in Files, k \in 0..3 : f # g /\ Sent(f, k) => Sent(f, k)',
         job'[g] \in {"queued", "running"}, \E k \in 0..3 : Sent(g, k)'
  PROVE  Stages' /\ Apart'
<1>1. /\ \A x \in Workers : wpc'[x] = IF x = w THEN to ELSE wpc[x]
      /\ \A x \in Workers : wfile'[x] = wfile[x] \/ (x = w /\ wfile'[x] = NoFile)
      /\ NoFile \notin Files
  BY Sizes DEF TypeInv, WorkerType
<1>2. UNCHANGED <<ppc, page, pfile>>
  BY DEF producer
<1>3. /\ \A x \in Workers : x # w => wfile[x] # g
      /\ ~InPage(g) /\ ~InJobs(g) /\ (ppc \in {"announce", "job"} => pfile # g)
  BY WorkerAlone
<1>4. /\ \A f \in Files : \E k \in 0..3 : Sent(f, k)'
      /\ \A f \in Files : job'[f] \in {"absent", "pending"} => Sent(f, 0)'
      /\ \A f \in Files : job'[f] = "done" => Sent(f, 0)' \/ Sent(f, 3)'
      /\ \A f \in Files : InJobs(f) /\ f # g => job'[f] = "queued" /\ Sent(f, 1)'
      /\ \A x \in Workers :
           wfile[x] # g /\ wpc'[x] = wpc[x] /\ wfile'[x] = wfile[x] => Claim(wpc[x], wfile[x])'
  BY OthersKept
<1>5. ASSUME NEW x \in Workers PROVE Claim(wpc[x], wfile[x])'
  <2>1. CASE x # w
    BY <1>1, <1>3, <1>4, <2>1
  <2>2. CASE x = w /\ to \notin Leasing \cup {"lease"}
    BY <1>1, <2>2, NoClaim
  <2>3. CASE x = w /\ to \in Leasing \cup {"lease"}
    <3>1. wfile'[x] = g /\ wpc'[x] = to /\ Claim(to, g)'
      BY <1>1, <2>3
    <3> QED BY <3>1
  <2> QED BY <2>1, <2>2, <2>3
<1>6. ppc \in {"resume", "resumeJob"} => \A n \in DOMAIN page : page[n] \in Files /\ page[n] # g
  BY <1>3, HeldFiles DEF InPage
<1>7. \A n \in DOMAIN jobs : jobs[n] \in Files /\ InJobs(jobs[n]) /\ jobs[n] # g
  BY <1>3, HeldFiles DEF InJobs
<1>8. ppc \in {"announce", "job"} => pfile \in Files /\ pfile # g
  BY <1>3, HeldFiles
<1>9. Stages'
  <2>1. ppc' \in {"resume", "resumeJob"} =>
          \A n \in DOMAIN page : /\ job'[page[n]] = "queued"
                                 /\ Sent(page[n], IF n = 1 /\ ppc = "resumeJob" THEN 1 ELSE 0)'
    BY <1>2, <1>6 DEF Stages
  <2>2. /\ ppc' = "announce" => job'[pfile] = "queued" /\ Sent(pfile, 0)'
        /\ ppc' = "job" => job'[pfile] = "queued" /\ Sent(pfile, 1)'
    BY <1>2, <1>8 DEF Stages
  <2>3. \A n \in DOMAIN jobs : job'[jobs[n]] = "queued" /\ Sent(jobs[n], 1)'
    BY <1>4, <1>7
  <2> QED BY <1>2, <1>4, <1>5, <2>1, <2>2, <2>3 DEF Stages
<1>10. Apart'
  <2>1. \A f : (InPage(f)' <=> InPage(f)) /\ (InJobs(f)' <=> InJobs(f))
    BY <1>2 DEF InPage, InJobs
  <2>2. Injective(page)' = Injective(page) /\ Injective(jobs)' = Injective(jobs)
    BY <1>2 DEF Injective
  <2>3. \A x \in Workers : wfile'[x] \in Files => wfile'[x] = wfile[x]
    BY <1>1
  <2> QED BY <1>1, <1>2, <1>8, <2>1, <2>2, <2>3 DEF Apart
<1> QED BY <1>9, <1>10

LEMMA OrderStarted ==
  ASSUME TypeInv, Stages, Apart, NEW w \in Workers, Started(w) PROVE Stages' /\ Apart'
<1>1. PICK g \in Files : wfile[w] = g
  BY HeldFiles DEF Started, Working, Leasing
<1>2. /\ wpc[w] = "start" /\ wpc' = [wpc EXCEPT ![w] = "announce"] /\ job' = [job EXCEPT ![g] = "running"]
      /\ UNCHANGED <<producer, jobs, wfile, events, batch, envelope, seen>>
  BY <1>1 DEF Started, Working, coordinator
<1>3. job'[g] = "running" /\ \A f \in Files : f # g => job'[f] = job[f]
  BY <1>2 DEF TypeInv, JournalType
<1>4. \A f \in Files, k \in 0..3 : Sent(f, k)' <=> Sent(f, k)
  BY <1>2, SentQuiet
<1>5. Sent(g, 1)
  BY <1>1, <1>2 DEF Stages, Claim
<1>6. Claim("announce", g)'
  BY <1>3, <1>4, <1>5 DEF Claim
<1>7. "announce" \in WorkerPlaces /\ \E k \in 0..3 : Sent(g, k)'
  BY <1>4, <1>5 DEF WorkerPlaces
<1> QED BY <1>1, <1>2, <1>3, <1>4, <1>6, <1>7, OneMovesOn

LEMMA OrderAnnounceStarted ==
  ASSUME TypeInv, Stages, Apart, NEW w \in Workers, AnnounceStarted(w) PROVE Stages' /\ Apart'
<1>1. PICK g \in Files : wfile[w] = g
  BY HeldFiles DEF AnnounceStarted, Working, Leasing
<1>2. /\ wpc[w] = "announce" /\ wpc' = [wpc EXCEPT ![w] = "process"] /\ Send(Event("started", g))
      /\ UNCHANGED <<job, producer, jobs, wfile, batch, envelope, seen>>
  BY <1>1 DEF AnnounceStarted, Working, coordinator, journal
<1>3. job[g] = "running" /\ Sent(g, 1)
  BY <1>1, <1>2 DEF Stages, Claim
<1>4. /\ \A f \in Files, k \in 0..3 : f # g /\ Sent(f, k) => Sent(f, k)'
      /\ Sent(g, 2)'
  <2>1. "started" \in Kinds /\ Level("started") = 2 /\ Level("started") = 1 + 1 /\ 1 \in 0..2
    BY DEF Kinds, Level
  <2> QED BY <1>2, <1>3, <2>1, Announcing
<1>5. Claim("process", g)'
  BY <1>2, <1>3, <1>4 DEF Claim
<1>6. "process" \in WorkerPlaces /\ \E k \in 0..3 : Sent(g, k)'
  BY <1>4 DEF WorkerPlaces
<1>7. job'[g] \in {"queued", "running"} /\ \A f \in Files : f # g => job'[f] = job[f]
  BY <1>2, <1>3
<1> QED BY <1>1, <1>2, <1>4, <1>5, <1>6, <1>7, OneMovesOn

LEMMA OrderDeliver ==
  ASSUME TypeInv, Stages, Apart, NEW w \in Workers, Deliver(w) PROVE Stages' /\ Apart'
<1>1. PICK g \in Files : wfile[w] = g
  BY HeldFiles DEF Deliver, Working, Leasing
<1>2. /\ wpc[w] = "deliver" /\ wpc' = [wpc EXCEPT ![w] = "idle"] /\ Send(Event("completed", g))
      /\ wfile' = [wfile EXCEPT ![w] = NoFile]
      /\ UNCHANGED <<job, producer, jobs, batch, envelope, seen>>
  BY <1>1 DEF Deliver, Working, coordinator, journal
<1>3. job[g] = "running" /\ Sent(g, 2)
  BY <1>1, <1>2 DEF Stages, Claim
<1>4. /\ \A f \in Files, k \in 0..3 : f # g /\ Sent(f, k) => Sent(f, k)'
      /\ Sent(g, 3)'
  <2>1. "completed" \in Kinds /\ Level("completed") = 3 /\ Level("completed") = 2 + 1 /\ 2 \in 0..2
    BY DEF Kinds, Level
  <2> QED BY <1>2, <1>3, <2>1, Announcing
<1>5. "idle" \in WorkerPlaces /\ "idle" \notin Leasing \cup {"lease"} /\ \E k \in 0..3 : Sent(g, k)'
  BY <1>4 DEF WorkerPlaces, Leasing
<1>6. job'[g] \in {"queued", "running"} /\ \A f \in Files : f # g => job'[f] = job[f]
  BY <1>2, <1>3
<1> QED BY <1>1, <1>2, <1>4, <1>5, <1>6, OneMovesOn

LEMMA OrderWorker ==
  ASSUME TypeInv, Stages, Apart, NEW w \in Workers, Worker(w) PROVE Stages' /\ Apart'
<1>1. CASE Receive(w) \/ Started(w) \/ AnnounceStarted(w) \/ Deliver(w)
  BY <1>1, OrderReceive, OrderStarted, OrderAnnounceStarted, OrderDeliver
<1>2. CASE WorkerComplains(w)
  <2>1. /\ wpc[w] = "complain" /\ wpc' = [wpc EXCEPT ![w] = "giveUp"]
        /\ UNCHANGED <<job, producer, jobs, wfile, batch, envelope, seen>>
    BY <1>2 DEF WorkerComplains, Working, coordinator, journal
  <2>2. PICK e \in Events : Level(e.kind) = 0 /\ Send(e)
    BY <1>2 DEF WorkerComplains, TypeInv, WorkerType, Event, Events, Kinds, Level
  <2>3. \A f : ~About(e, f)
    BY <2>2 DEF About
  <2>4. \A f \in Files, k \in 0..3 : Sent(f, k) => Sent(f, k)'
    BY <2>1, <2>2, <2>3, SentSend
  <2>5. /\ "giveUp" \in WorkerPlaces /\ "complain" \in Leasing
        /\ Claim(wpc[w], wfile[w]) => Claim("giveUp", wfile[w])
    BY <2>1 DEF WorkerPlaces, Leasing, Claim
  <2> QED BY <2>1, <2>4, <2>5, QuietWorker
<1>3. ASSUME UNCHANGED <<job, producer, jobs, events, batch, envelope, seen>>
      PROVE  /\ UNCHANGED <<job, producer, jobs>>
             /\ \A f \in Files, k \in 0..3 : Sent(f, k) => Sent(f, k)'
  BY <1>3, SentQuiet
<1>4. CASE WorkerStops(w) \/ NoMoreWork(w) \/ WorkerGivesUp(w)
  <2>1. /\ wpc' = [wpc EXCEPT ![w] = "exit"] /\ wfile' = [wfile EXCEPT ![w] = NoFile]
        /\ UNCHANGED <<job, producer, jobs, events, batch, envelope, seen>>
    BY <1>4 DEF WorkerStops, NoMoreWork, WorkerGivesUp, Exit, Working, coordinator, journal
  <2>2. "exit" \in WorkerPlaces /\ "exit" \notin Leasing \cup {"lease"}
    BY DEF WorkerPlaces, Leasing
  <2> QED BY <1>3, <2>1, <2>2, QuietWorker
<1>5. CASE AcquireBuffer(w) \/ LookForWork(w) \/ AcquireReservation(w) \/ StartRefused(w) \/ Process(w)
  <2>1. /\ UNCHANGED wfile
        /\ UNCHANGED <<job, producer, jobs, events, batch, envelope, seen>>
    BY <1>5 DEF AcquireBuffer, LookForWork, AcquireReservation, StartRefused, Process, coordinator, journal
  <2>2. PICK to \in {"idle", "recv", "start", "complain", "deliver"} :
          /\ wpc' = [wpc EXCEPT ![w] = to]
          /\ to \in {"start", "complain"} => wpc[w] \in {"lease", "start"}
          /\ to = "deliver" => wpc[w] = "process"
    BY <1>5 DEF AcquireBuffer, LookForWork, AcquireReservation, StartRefused, Process, Working
  <2>3. /\ to \in WorkerPlaces
        /\ to \in Leasing \cup {"lease"} =>
             wpc[w] \in Leasing \cup {"lease"} /\ (Claim(wpc[w], wfile[w]) => Claim(to, wfile[w]))
    BY <2>2 DEF WorkerPlaces, Leasing, Claim
  <2> QED BY <1>3, <2>1, <2>2, <2>3, QuietWorker
<1> QED BY <1>1, <1>2, <1>4, <1>5 DEF Worker

(* Neither thread lays hands on the coordinator's. *)
LEMMA DoneStays ==
  ASSUME TypeInv, [Next]_vars
  PROVE  \A f \in Files : job[f] = "done" => job'[f] = "done"
<1> SUFFICES ASSUME NEW f \in Files, job[f] = "done" PROVE job'[f] = "done"
  OBVIOUS
<1>0. job \in [Files -> {"absent", "pending", "queued", "running", "done"}]
  BY DEF TypeInv, JournalType
<1>1. CASE FetchPage
  BY <1>0, <1>1 DEF FetchPage, Beyond, In
<1>2. CASE Dispatch
  BY <1>0, <1>2 DEF Dispatch, Schedule
<1>3. CASE Persist
  BY <1>0, <1>3 DEF Persist
<1>4. ASSUME NEW w \in Workers, Started(w) PROVE job'[f] = "done"
  BY <1>0, <1>4 DEF Started
<1>5. CASE UNCHANGED job
  BY <1>5
<1>6. Control \/ UNCHANGED vars => UNCHANGED job
  BY DEF Control, Pause, Cancel, Expire, vars, journal
<1>7. Producer => FetchPage \/ Dispatch \/ UNCHANGED job
  BY DEF Producer, ProducerStops, NoPage, AnnounceResumed,
     HandOutResumed, CheckDiscovery, WalkFile, WalkSkip, WalkNotice, WalkEnds, WindowEmpty,
     AnnounceDiscovered, HandOut, FinishDiscovery, AnnounceDiscoveryFinished, ProducerFails,
     JudgeError, Complain, GiveUp, journal
<1>8. \A w \in Workers : Worker(w) => Started(w) \/ UNCHANGED job
  BY DEF Worker, WorkerStops, AcquireBuffer, LookForWork, Receive, NoMoreWork, AcquireReservation,
     StartRefused, AnnounceStarted, Process, Deliver, WorkerComplains, WorkerGivesUp, journal
<1>9. Coordinator => Persist \/ UNCHANGED job
  BY DEF Coordinator, Begin, ReceiveResult, ReceiveEvent, IdleFlush,
     Disconnected, SinkResult, SinkEvent, CoordinatorFails, Finish, ReturnOk, ReturnErr, journal
<1> QED BY <1>1, <1>2, <1>3, <1>4, <1>5, <1>6, <1>7, <1>8, <1>9 DEF Next

-----------------------------------------------------------------------------
(* The coordinator takes the next event of a history out of the channel. *)
LEMMA HistoryTaken ==
  ASSUME TypeInv, events # << >>, events' = Tail(events),
         NEW f \in Files, Out(f)' = IF About(Head(events), f) THEN Out(f) + 1 ELSE Out(f)
  PROVE  \A k \in 0..3 : Sent(f, k) => Sent(f, k)'
<1> SUFFICES ASSUME NEW k \in 0..3, Sent(f, k) PROVE Sent(f, k)'
  OBVIOUS
<1>1. events \in Seq(Events) /\ Out(f) \in 0..3 /\ Told(events, f, Out(f), k)
  BY OutType DEF TypeInv, ChannelType, Sent
<1>2. PICK a \in 0..3 : a = Out(f)
  BY <1>1
<1>3. /\ ~About(Head(events), f) => Told(Tail(events), f, a, k)
      /\ About(Head(events), f) => Told(Tail(events), f, a + 1, k)
  BY <1>1, <1>2, ToldTail
<1>4. Sent(f, k)' <=> Told(events', f, Out(f)', k)
  BY DEF Sent
<1> QED BY <1>2, <1>3, <1>4

LEMMA HeadNext ==
  ASSUME TypeInv, Stages, events # << >>, NEW f \in Files, About(Head(events), f)
  PROVE  Level(Head(events).kind) = Out(f) + 1
<1>1. PICK k \in 0..3 : Sent(f, k)
  BY DEF Stages
<1>2. events \in Seq(Events) /\ Out(f) \in 0..3 /\ Told(events, f, Out(f), k)
  BY <1>1, OutType DEF TypeInv, ChannelType, Sent
<1> QED BY <1>2, ToldTail

(* While the coordinator waits for an event it has none in hand. *)
LEMMA HandEmpty ==
  ASSUME TypeInv, Passing, cpc \notin {"sink", "persist", "deliver"}
  PROVE  /\ Level(envelope.kind) = 0 /\ \A f : ~About(envelope, f)
         /\ \A f \in Files : Out(f) = IF InBatch(f) THEN 3 ELSE seen[f]
<1>1. envelope \in Events
  BY DEF TypeInv, CoordinatorType
<1>2. Level(envelope.kind) = 0
  BY <1>1, Levels DEF Passing
<1> QED BY <1>2 DEF About, Out

LEMMA OrderReceiveResult ==
  ASSUME TypeInv, Passing, Stages, Apart, ReceiveResult PROVE Passing' /\ Stages' /\ Apart'
<1>0. events \in Seq(Events) /\ events # << >> /\ Head(events) \in Events /\ batch \in Seq(Files)
  <2>1. events \in Seq(Events) /\ events # << >> /\ batch \in Seq(Files)
    BY DEF TypeInv, ChannelType, CoordinatorType, ReceiveResult
  <2> QED BY <2>1, TakeType
<1>1. PICK g \in Files : Head(events).file = g
  BY <1>0 DEF ReceiveResult, Events, Level
<1>2. /\ cpc = "recv" /\ cpc' \in {"recv", "persist"}
      /\ events' = Tail(events) /\ batch' = Append(batch, g)
      /\ UNCHANGED <<job, ppc, page, pfile, jobs, wpc, wfile, envelope, seen>>
  BY <1>1 DEF ReceiveResult, journal, producer, worker
<1>3. Level(Head(events).kind) = 3 /\ \A f : About(Head(events), f) <=> f = g
  BY <1>0, <1>1, Levels DEF ReceiveResult, About
<1>4. /\ Level(envelope.kind) = 0 /\ \A f : ~About(envelope, f)
      /\ \A f \in Files : Out(f) = IF InBatch(f) THEN 3 ELSE seen[f]
  BY <1>2, HandEmpty
<1>5. Out(g) = 2
  <2>1. 3 = Out(g) + 1 /\ Out(g) \in 0..3
    BY <1>0, <1>3, HeadNext, OutType
  <2> QED BY <2>1
<1>6. ~InBatch(g) /\ seen[g] = 2
  BY <1>4, <1>5
<1>7. /\ DOMAIN batch' = 1..Len(batch) + 1 /\ Len(batch) \in Nat /\ DOMAIN batch = 1..Len(batch)
      /\ \A n \in DOMAIN batch : batch'[n] = batch[n]
      /\ batch'[Len(batch) + 1] = g
  BY <1>0, <1>2, AddType
<1>8. \A n \in DOMAIN batch' :
        (n \in DOMAIN batch /\ batch'[n] = batch[n] /\ n # Len(batch) + 1)
          \/ (n = Len(batch) + 1 /\ batch'[n] = g)
  BY <1>7
<1>9. \A f : InBatch(f)' <=> InBatch(f) \/ f = g
  BY <1>7, <1>8 DEF InBatch
<1>10. \A f \in Files : Out(f)' = IF f = g THEN 3 ELSE Out(f)
  <2>1. \A f : ~About(envelope, f)'
    BY <1>2, <1>4 DEF About
  <2> QED BY <1>2, <1>4, <1>9, <2>1 DEF Out
<1>11. \A f \in Files, k \in 0..3 : Sent(f, k) => Sent(f, k)'
  BY <1>0, <1>2, <1>3, <1>5, <1>10, HistoryTaken
<1>12. Passing'
  <2>1. Injective(batch)'
    BY <1>6, <1>8 DEF Passing, Injective, InBatch
  <2>2. \A f : ~About(envelope, f)'
    BY <1>2, <1>4 DEF About
  <2>3. Level(envelope.kind)' = 0
    BY <1>2, <1>4
  <2> QED BY <1>2, <1>6, <1>9, <2>1, <2>2, <2>3 DEF Passing
<1>13. Stages' /\ Apart'
  BY <1>2, <1>11, StagesFrame, ApartFrame
<1> QED BY <1>12, <1>13

LEMMA OrderReceiveEvent ==
  ASSUME TypeInv, Passing, Stages, Apart, ReceiveEvent PROVE Passing' /\ Stages' /\ Apart'
<1>0. events \in Seq(Events) /\ events # << >> /\ Head(events) \in Events /\ batch \in Seq(Files)
  <2>1. events \in Seq(Events) /\ events # << >> /\ batch \in Seq(Files)
    BY DEF TypeInv, ChannelType, CoordinatorType, ReceiveEvent
  <2> QED BY <2>1, TakeType
<1>1. PICK h \in Events : Head(events) = h /\ h.kind # "completed"
  BY <1>0 DEF ReceiveEvent
<1>2. /\ cpc = "recv" /\ events' = Tail(events) /\ envelope' = h
      /\ cpc' = "sink" \/ (cpc' = "persist" /\ then' = "sink")
      /\ UNCHANGED <<job, ppc, page, pfile, jobs, wpc, wfile, batch, seen>>
  BY <1>1 DEF ReceiveEvent, journal, producer, worker
<1>3. Level(h.kind) \in 0..2
  BY <1>1, Levels
<1>4. /\ Level(envelope.kind) = 0 /\ \A f : ~About(envelope, f)
      /\ \A f \in Files : Out(f) = IF InBatch(f) THEN 3 ELSE seen[f]
  BY <1>2, HandEmpty
<1>5. \A f \in Files : About(h, f) => Level(h.kind) = Out(f) + 1 /\ ~InBatch(f) /\ Out(f) = seen[f]
  <2> SUFFICES ASSUME NEW f \in Files, About(h, f)
               PROVE  Level(h.kind) = Out(f) + 1 /\ ~InBatch(f) /\ Out(f) = seen[f]
    OBVIOUS
  <2>1. Level(h.kind) = Out(f) + 1 /\ Out(f) \in 0..3
    BY <1>0, <1>1, HeadNext, OutType
  <2>2. Out(f) # 3
    BY <1>3, <2>1
  <2> QED BY <1>4, <2>1, <2>2
<1>6. \A f : InBatch(f)' <=> InBatch(f)
  BY <1>2 DEF InBatch
<1>7. \A f : About(envelope, f)' <=> About(h, f)
  BY <1>2 DEF About
<1>8. \A f \in Files : Out(f)' = IF About(h, f) THEN Out(f) + 1 ELSE Out(f)
  <2>1. Level(envelope.kind)' = Level(h.kind)
    BY <1>2
  <2> QED BY <1>2, <1>4, <1>5, <1>6, <1>7, <2>1 DEF Out
<1>9. \A f \in Files, k \in 0..3 : Sent(f, k) => Sent(f, k)'
  BY <1>0, <1>1, <1>2, <1>8, HistoryTaken
<1>10. Passing'
  <2>1. Injective(batch)'
    BY <1>2 DEF Passing, Injective
  <2>2. \A f \in Files : About(h, f) => seen[f] = Level(h.kind) - 1
    <3> SUFFICES ASSUME NEW f \in Files, About(h, f) PROVE seen[f] = Level(h.kind) - 1
      OBVIOUS
    <3>1. Level(h.kind) = seen[f] + 1 /\ seen[f] \in 0..3
      BY <1>5, OutType
    <3> QED BY <3>1
  <2>3. \A f \in Files : InBatch(f) => ~About(h, f)
    BY <1>5
  <2> QED BY <1>1, <1>2, <1>4, <1>6, <1>7, <2>1, <2>2, <2>3 DEF Passing
<1>11. Stages' /\ Apart'
  BY <1>2, <1>9, StagesFrame, ApartFrame
<1> QED BY <1>10, <1>11

(* The batch is stored: its files are the ones with a whole history. *)
LEMMA OrderPersist ==
  ASSUME TypeInv, Passing, Stages, Apart, Persist PROVE Passing' /\ Stages' /\ Apart'
<1>1. /\ cpc = "persist" /\ cpc' = "deliver"
      /\ \A f \in Files : job'[f] = IF InBatch(f) THEN "done" ELSE job[f]
      /\ UNCHANGED <<ppc, page, pfile, jobs, wpc, wfile, events, batch, envelope, then, seen>>
  BY DEF Persist, Coordinate, InBatch, producer, worker
<1>2. \A f \in Files, k \in 0..3 : Sent(f, k)' <=> Sent(f, k)
  BY <1>1, SentQuiet
<1>3. \A f \in Files, k \in 0..3 : Sent(f, k) /\ k < 3 => job'[f] = job[f]
  BY <1>1, SentBound
<1>4. \A f \in Files : InBatch(f) => Sent(f, 3)
  <2> SUFFICES ASSUME NEW f \in Files, InBatch(f) PROVE Sent(f, 3)
    OBVIOUS
  <2>1. PICK k \in 0..3 : Sent(f, k)
    BY DEF Stages
  <2>2. ~(k < 3)
    BY <2>1, SentBound
  <2>3. k = 3
    BY <2>2
  <2> QED BY <2>1, <2>3
<1>5. \A w \in Workers : Claim(wpc[w], wfile[w])'
  <2> SUFFICES ASSUME NEW w \in Workers PROVE Claim(wpc[w], wfile[w])'
    OBVIOUS
  <2>1. Claim(wpc[w], wfile[w])
    BY DEF Stages
  <2>2. CASE wfile[w] \in Files
    <3>1. wpc[w] \in Leasing \cup {"lease"}
      BY <2>2, HeldFiles
    <3>2. Sent(wfile[w], 1) \/ Sent(wfile[w], 2)
      BY <2>1, <3>1 DEF Claim, Leasing
    <3>3. job'[wfile[w]] = job[wfile[w]]
      BY <1>3, <2>2, <3>2
    <3> QED BY <1>1, <1>2, <2>1, <2>2, <3>3, ClaimKept
  <2>3. CASE wfile[w] \notin Files
    <3>1. wpc[w] \notin Leasing \cup {"lease"}
      BY <2>3, HeldFiles
    <3> QED BY <1>1, <3>1, NoClaim
  <2> QED BY <2>2, <2>3
<1>6. /\ \A f \in Files : \E k \in 0..3 : Sent(f, k)'
      /\ \A f \in Files : job'[f] \in {"absent", "pending"} => Sent(f, 0)'
      /\ \A f \in Files : job'[f] = "done" => Sent(f, 0)' \/ Sent(f, 3)'
  BY <1>1, <1>2, <1>4 DEF Stages
<1>7. ppc \in {"resume", "resumeJob"} =>
        \A n \in DOMAIN page : /\ page[n] \in Files /\ job'[page[n]] = "queued"
                               /\ Sent(page[n], IF n = 1 /\ ppc = "resumeJob" THEN 1 ELSE 0)
  BY <1>3, HeldFiles DEF Stages
<1>8. /\ ppc = "announce" => pfile \in Files /\ job'[pfile] = "queued" /\ Sent(pfile, 0)
      /\ ppc = "job" => pfile \in Files /\ job'[pfile] = "queued" /\ Sent(pfile, 1)
  BY <1>3, HeldFiles DEF Stages
<1>9. \A n \in DOMAIN jobs : jobs[n] \in Files /\ job'[jobs[n]] = "queued" /\ Sent(jobs[n], 1)
  BY <1>3, HeldFiles DEF Stages
<1>10. Stages'
  BY <1>1, <1>2, <1>5, <1>6, <1>7, <1>8, <1>9 DEF Stages
<1>11. Passing'
  <2>1. \A f : (InBatch(f)' <=> InBatch(f)) /\ (About(envelope, f)' <=> About(envelope, f))
    BY <1>1 DEF InBatch, About
  <2>2. Injective(batch)' = Injective(batch) /\ Level(envelope.kind)' = Level(envelope.kind)
    BY <1>1 DEF Injective
  <2>3. \A f \in Files : InBatch(f) => job'[f] = "done"
    BY <1>1
  <2> QED BY <1>1, <2>1, <2>2, <2>3 DEF Passing
<1>12. Apart'
  BY <1>1, ApartFrame
<1> QED BY <1>10, <1>11, <1>12

(* A result is shown: it leaves the batch and is what the sink has seen. *)
LEMMA OrderSinkResult ==
  ASSUME TypeInv, Passing, Stages, Apart, SinkResult PROVE Passing' /\ Stages' /\ Apart'
<1>0. batch \in Seq(Files) /\ batch # << >>
  BY DEF TypeInv, CoordinatorType, SinkResult
<1>1. PICK g \in Files : batch[1] = g /\ Head(batch) = g /\ 1 \in DOMAIN batch
  <2>1. Head(batch) = batch[1] /\ batch[1] \in Files /\ 1 \in DOMAIN batch
    BY <1>0, TakeType
  <2> QED BY <2>1
<1>2. /\ cpc = "deliver" /\ (cpc' = "deliver" \/ cpc' = then)
      /\ batch' = Tail(batch) /\ seen' = [seen EXCEPT ![g] = 3]
      /\ UNCHANGED <<job, ppc, page, pfile, jobs, wpc, wfile, events, envelope, then>>
  BY <1>1 DEF SinkResult, journal, producer, worker
<1>3. /\ \A n \in DOMAIN batch' :
           n \in Nat /\ n + 1 \in DOMAIN batch /\ batch'[n] = batch[n + 1] /\ n + 1 # 1
      /\ \A n \in DOMAIN batch : n # 1 => n - 1 \in DOMAIN batch' /\ batch'[n - 1] = batch[n]
  <2>1. /\ \A n \in DOMAIN Tail(batch) :
             n + 1 \in DOMAIN batch /\ Tail(batch)[n] = batch[n + 1] /\ n \in 1..Len(batch) - 1
        /\ \A n \in DOMAIN batch : n # 1 => n - 1 \in DOMAIN Tail(batch) /\ Tail(batch)[n - 1] = batch[n]
    BY <1>0, TakeType
  <2> QED BY <1>2, <2>1
<1>4. \A f : InBatch(f)' <=> InBatch(f) /\ f # g
  <2>1. \A f : InBatch(f)' => InBatch(f) /\ f # g
    BY <1>1, <1>3 DEF InBatch, Passing, Injective
  <2>2. \A f : InBatch(f) /\ f # g => InBatch(f)'
    BY <1>1, <1>3 DEF InBatch
  <2> QED BY <2>1, <2>2
<1>5. InBatch(g) /\ ~About(envelope, g) /\ job[g] = "done"
  BY <1>1, <1>2 DEF InBatch, Passing
<1>6. \A f \in Files : seen'[f] = IF f = g THEN 3 ELSE seen[f]
  BY <1>2 DEF TypeInv, CoordinatorType
<1>7. \A f : About(envelope, f)' <=> About(envelope, f)
  BY <1>2 DEF About
<1>8. \A f \in Files : Out(f)' = Out(f)
  <2>1. Level(envelope.kind)' = Level(envelope.kind)
    BY <1>2
  <2> QED BY <1>4, <1>5, <1>6, <1>7, <2>1 DEF Out
<1>9. \A f \in Files, k \in 0..3 : Sent(f, k) => Sent(f, k)'
  BY <1>2, <1>8 DEF Sent
<1>10. Stages' /\ Apart'
  BY <1>2, <1>9, StagesFrame, ApartFrame
<1>11. Passing'
  <2>1. Injective(batch)'
    <3> SUFFICES ASSUME NEW m \in DOMAIN batch', NEW n \in DOMAIN batch', batch'[m] = batch'[n] PROVE m = n
      BY DEF Injective
    <3>1. m + 1 = n + 1
      BY <1>3 DEF Passing, Injective
    <3> QED BY <1>3, <3>1
  <2>2. \A f \in Files : About(envelope, f) => seen'[f] = Level(envelope.kind) - 1
    BY <1>5, <1>6 DEF Passing
  <2>3. \A f \in Files : InBatch(f)' => seen'[f] = 2 /\ ~About(envelope, f) /\ job[f] = "done"
    BY <1>2, <1>4, <1>6 DEF Passing
  <2>4. Level(envelope.kind)' = Level(envelope.kind) /\ (Level(envelope.kind) > 0 => then = "sink")
    BY <1>2 DEF Passing
  <2>5. /\ \A f \in Files : InBatch(f)' => seen'[f] = 2 /\ ~About(envelope, f)'
        /\ \A f \in Files : About(envelope, f)' => seen'[f] = Level(envelope.kind)' - 1
    BY <1>7, <2>2, <2>3, <2>4
  <2>6. envelope'.kind # "completed"
    BY <1>2 DEF Passing
  <2>7. Level(envelope.kind)' > 0 => cpc' = "sink" \/ (cpc' \in {"persist", "deliver"} /\ then' = "sink")
    BY <1>2, <2>4
  <2>8. cpc' = "deliver" => \A f \in Files : InBatch(f)' => job'[f] = "done"
    BY <1>2, <2>3
  <2> QED BY <2>1, <2>5, <2>6, <2>7, <2>8 DEF Passing
<1> QED BY <1>10, <1>11

(* The event in hand is shown. *)
LEMMA OrderSinkEvent ==
  ASSUME TypeInv, Passing, Stages, Apart, SinkEvent PROVE Passing' /\ Stages' /\ Apart'
<1>0. envelope \in Events /\ seen \in [Files -> 0..3]
  BY DEF TypeInv, CoordinatorType
<1>1. /\ cpc = "sink" /\ cpc' = "recv" /\ batch = << >> /\ envelope' = Event("none", NoFile)
      /\ UNCHANGED <<job, ppc, page, pfile, jobs, wpc, wfile, events, batch>>
  BY DEF SinkEvent, Coordinate, TypeInv, CoordinatorType, journal, producer, worker
<1>2. \A f : ~InBatch(f) /\ ~InBatch(f)' /\ ~About(envelope, f)'
  BY <1>1 DEF InBatch, About, Event, Level
<1>3. \A f \in Files : seen'[f] = IF About(envelope, f) THEN Level(envelope.kind) ELSE seen[f]
  <2>1. CASE envelope.kind \in {"resumed", "discovered"}
    <3>1. seen' = [seen EXCEPT ![envelope.file] = 1] /\ Level(envelope.kind) = 1
      BY <2>1, <1>0, Levels DEF SinkEvent
    <3> QED BY <1>0, <3>1 DEF About
  <2>2. CASE envelope.kind = "started"
    <3>1. seen' = [seen EXCEPT ![envelope.file] = 2] /\ Level(envelope.kind) = 2
      BY <2>2, <1>0, Levels DEF SinkEvent
    <3> QED BY <1>0, <3>1 DEF About
  <2>3. CASE envelope.kind \notin {"resumed", "discovered", "started"}
    <3>1. seen' = seen
      BY <2>3 DEF SinkEvent
    <3>2. Level(envelope.kind) = 0
      BY <1>0, <2>3, Levels DEF Passing
    <3> QED BY <3>1, <3>2 DEF About
  <2> QED BY <2>1, <2>2, <2>3
<1>4. \A f \in Files : Out(f)' = Out(f)
  BY <1>2, <1>3 DEF Out
<1>5. \A f \in Files, k \in 0..3 : Sent(f, k) => Sent(f, k)'
  BY <1>1, <1>4 DEF Sent
<1>6. Stages' /\ Apart'
  BY <1>1, <1>5, StagesFrame, ApartFrame
<1>7. Passing'
  <2>1. Level(envelope.kind)' = 0 /\ envelope'.kind # "completed"
    BY <1>1 DEF Event, Level
  <2>2. Injective(batch)'
    BY <1>1 DEF Passing, Injective
  <2> QED BY <1>1, <1>2, <2>1, <2>2 DEF Passing
<1> QED BY <1>6, <1>7

LEMMA OrderCoordinator ==
  ASSUME TypeInv, Passing, Stages, Apart, Coordinator, cpc' \notin {"failed", "returned"}
  PROVE  Passing' /\ Stages' /\ Apart'
<1>1. CASE ReceiveResult \/ ReceiveEvent \/ Persist \/ SinkResult \/ SinkEvent
  BY <1>1, OrderReceiveResult, OrderReceiveEvent, OrderPersist, OrderSinkResult, OrderSinkEvent
<1>2. CASE Begin \/ IdleFlush \/ Disconnected \/ Finish
  <2>1. /\ UNCHANGED <<job, ppc, page, pfile, jobs, wpc, wfile, events, batch, envelope, seen>>
        /\ cpc \notin {"sink", "persist", "deliver"} /\ cpc' # "deliver"
    BY <1>2 DEF Begin, IdleFlush, Disconnected, Finish, Coordinate, journal, producer, worker
  <2>2. \A f \in Files, k \in 0..3 : Sent(f, k) => Sent(f, k)'
    BY <2>1, SentQuiet
  <2>3. Stages' /\ Apart'
    BY <2>1, <2>2, StagesFrame, ApartFrame
  <2>4. /\ Level(envelope.kind)' = 0
        /\ \A f : (InBatch(f)' <=> InBatch(f)) /\ ~About(envelope, f)'
    BY <2>1, HandEmpty DEF InBatch, About
  <2>5. Injective(batch)'
    BY <2>1 DEF Passing, Injective
  <2>6. Passing'
    BY <2>1, <2>4, <2>5 DEF Passing
  <2> QED BY <2>3, <2>6
<1>3. CASE CoordinatorFails \/ ReturnOk \/ ReturnErr
  BY <1>3 DEF CoordinatorFails, ReturnOk, ReturnErr, Coordinate
<1> QED BY <1>1, <1>2, <1>3 DEF Coordinator

LEMMA OrderInit == Init => OrderInv
<1> SUFFICES ASSUME Init PROVE Passing /\ Stages /\ Apart
  BY DEF OrderInv
<1>1. /\ events = << >> /\ batch = << >> /\ jobs = << >> /\ ppc = "pages" /\ cpc = "begin"
      /\ envelope = Event("none", NoFile) /\ seen = [f \in Files |-> 0]
      /\ wpc = [w \in Workers |-> "buffer"] /\ wfile = [w \in Workers |-> NoFile]
      /\ job \in [Files -> {"absent", "pending", "done"}] /\ NoFile \notin Files
  BY Sizes DEF Init
<1>2. \A f : ~InBatch(f) /\ ~InJobs(f) /\ ~InPage(f) /\ ~About(envelope, f)
  BY <1>1 DEF InBatch, InJobs, InPage, About, Event, Level
<1>3. \A f \in Files : Sent(f, 0)
  <2>1. \A f \in Files : Out(f) = 0
    BY <1>1, <1>2 DEF Out
  <2> QED BY <1>1, <2>1, ToldEmpty DEF Sent
<1>4. Passing
  BY <1>1, <1>2 DEF Passing, Injective, Event, Level
<1>5. Stages
  <2>1. \A w \in Workers : Claim(wpc[w], wfile[w])
    BY <1>1 DEF Claim
  <2> QED BY <1>1, <1>3, <2>1 DEF Stages
<1>6. Apart
  BY <1>1, <1>2 DEF Apart, Injective
<1> QED BY <1>4, <1>5, <1>6

LEMMA OrderStep == TypeInv /\ OrderInv /\ [Next]_vars => OrderInv'
<1> SUFFICES ASSUME TypeInv, OrderInv, [Next]_vars, cpc' \notin {"failed", "returned"}
             PROVE  Passing' /\ Stages' /\ Apart'
  BY DEF OrderInv
<1>1. cpc \notin {"failed", "returned"}
  BY DEF Next, vars, Control, Pause, Cancel, Expire, coordinator, Producer, ProducerStops, FetchPage, NoPage,
     AnnounceResumed, HandOutResumed, CheckDiscovery, WalkFile, WalkSkip, WalkNotice, WalkEnds, Dispatch,
     WindowEmpty, AnnounceDiscovered, HandOut, FinishDiscovery, AnnounceDiscoveryFinished, ProducerFails,
     JudgeError, Complain, GiveUp, Worker, WorkerStops, AcquireBuffer, LookForWork, Receive, NoMoreWork,
     AcquireReservation, Started, StartRefused, AnnounceStarted, Process, Deliver, WorkerComplains,
     WorkerGivesUp, Coordinator, Begin, ReceiveResult, ReceiveEvent, IdleFlush, Disconnected, Persist,
     SinkResult, SinkEvent, CoordinatorFails, Finish, ReturnOk, ReturnErr, Coordinate
<1>2. Passing /\ Stages /\ Apart
  BY <1>1 DEF OrderInv
<1>3. CASE Coordinator
  BY <1>2, <1>3, OrderCoordinator
<1>4. ASSUME UNCHANGED <<cpc, then, batch, envelope, seen>> PROVE Passing'
  BY <1>2, <1>4, DoneStays, PassingFrame
<1>5. CASE Producer
  <2>1. UNCHANGED <<cpc, then, batch, envelope, seen>>
    BY <1>5 DEF coordinator, Producer, ProducerStops, FetchPage, NoPage,
     AnnounceResumed, HandOutResumed, CheckDiscovery, WalkFile, WalkSkip, WalkNotice, WalkEnds, Dispatch,
     WindowEmpty, AnnounceDiscovered, HandOut, FinishDiscovery, AnnounceDiscoveryFinished, ProducerFails,
     JudgeError, Complain, GiveUp
  <2> QED BY <1>2, <1>4, <1>5, <2>1, OrderProducer
<1>6. CASE \E w \in Workers : Worker(w)
  <2>1. UNCHANGED <<cpc, then, batch, envelope, seen>>
    BY <1>6 DEF coordinator, Worker, WorkerStops, AcquireBuffer, LookForWork, Receive, NoMoreWork,
     AcquireReservation, Started, StartRefused, AnnounceStarted, Process, Deliver, WorkerComplains,
     WorkerGivesUp
  <2> QED BY <1>2, <1>4, <1>6, <2>1, OrderWorker
<1>7. CASE Control \/ UNCHANGED vars
  <2>1. UNCHANGED <<cpc, then, batch, envelope, seen, job, ppc, page, pfile, jobs, wpc, wfile, events>>
    BY <1>7 DEF Control, Pause, Cancel, Expire, vars, journal, producer, worker, coordinator
  <2>2. \A f \in Files, k \in 0..3 : Sent(f, k) => Sent(f, k)'
    BY <2>1, SentQuiet
  <2> QED BY <1>2, <1>4, <2>1, <2>2, StagesFrame, ApartFrame
<1> QED BY <1>3, <1>5, <1>6, <1>7 DEF Next

(* The sink sees each file's events in order and once each, for any number  *)
(* of files and workers and whatever is stopped or fails on the way.        *)
THEOREM EventsAreInOrder == Spec => ShownInOrder
<1> DEFINE Ordered == \A f \in Files : seen'[f] # seen[f] => seen'[f] = seen[f] + 1
<1>1. Init => TypeInv /\ OrderInv
  BY TypeInit, OrderInit
<1>2. TypeInv /\ OrderInv /\ [Next]_vars => TypeInv' /\ OrderInv'
  BY TypeStep, OrderStep
<1>3. TypeInv /\ OrderInv /\ [Next]_vars => [Ordered]_vars
  <2> SUFFICES ASSUME TypeInv, OrderInv, Next, NEW f \in Files, seen'[f] # seen[f]
               PROVE  seen'[f] = seen[f] + 1
    OBVIOUS
  <2>1. SinkResult \/ SinkEvent
    BY DEF Next, Control, Pause, Cancel, Expire, coordinator, Producer, ProducerStops, FetchPage, NoPage,
     AnnounceResumed, HandOutResumed, CheckDiscovery, WalkFile, WalkSkip, WalkNotice, WalkEnds, Dispatch,
     WindowEmpty, AnnounceDiscovered, HandOut, FinishDiscovery, AnnounceDiscoveryFinished, ProducerFails,
     JudgeError, Complain, GiveUp, Worker, WorkerStops, AcquireBuffer, LookForWork, Receive, NoMoreWork,
     AcquireReservation, Started, StartRefused, AnnounceStarted, Process, Deliver, WorkerComplains,
     WorkerGivesUp, Coordinator, Begin, ReceiveResult, ReceiveEvent, IdleFlush, Disconnected, Persist,
     CoordinatorFails, Finish, ReturnOk, ReturnErr
  <2>2. Passing /\ envelope \in Events /\ seen \in [Files -> 0..3]
    BY <2>1 DEF OrderInv, SinkResult, SinkEvent, Coordinate, TypeInv, CoordinatorType
  <2>3. CASE SinkResult
    <3>1. batch \in Seq(Files) /\ batch # << >>
      BY <2>3 DEF TypeInv, CoordinatorType, SinkResult
    <3>2. Head(batch) = batch[1] /\ 1 \in DOMAIN batch
      BY <3>1, TakeType
    <3>3. f = Head(batch) /\ seen'[f] = 3
      BY <2>2, <2>3 DEF SinkResult
    <3>4. seen[f] = 2
      BY <2>2, <3>2, <3>3 DEF Passing, InBatch
    <3> QED BY <3>3, <3>4
  <2>4. CASE SinkEvent
    <3>1. CASE envelope.kind \in {"resumed", "discovered"}
      <4>1. f = envelope.file /\ seen'[f] = 1 /\ Level(envelope.kind) = 1
        BY <2>2, <2>4, <3>1, Levels DEF SinkEvent
      <4> QED BY <2>2, <4>1 DEF Passing, About
    <3>2. CASE envelope.kind = "started"
      <4>1. f = envelope.file /\ seen'[f] = 2 /\ Level(envelope.kind) = 2
        BY <2>2, <2>4, <3>2, Levels DEF SinkEvent
      <4> QED BY <2>2, <4>1 DEF Passing, About
    <3>3. CASE envelope.kind \notin {"resumed", "discovered", "started"}
      BY <2>4, <3>3 DEF SinkEvent
    <3> QED BY <3>1, <3>2, <3>3
  <2> QED BY <2>1, <2>3, <2>4
<1> QED BY <1>1, <1>2, <1>3, PTL DEF Spec, ShownInOrder

-----------------------------------------------------------------------------
(* The end.  Finished is stored when every thread has ended and nothing is  *)
(* left in the channels (Ending).  What makes this the end of the work too, *)
(* as long as nobody stopped the scan, is that no file of it was dropped    *)
(* (Kept): a task not yet done is still somebody's.                         *)
LastCalls == cpc \in {"join", "closing"} \/ (cpc \in {"persist", "deliver"} /\ then = "join")

Ending ==
  /\ LastCalls => ThreadsJoined /\ events = << >>
  /\ cpc = "returned" => ThreadsJoined
  /\ cpc \notin {"closing", "returned"} => status = "running"

Held(f) == \E w \in Workers : wfile[w] = f
Waiting(f) == \E n \in DOMAIN events : events[n].kind = "completed" /\ events[n].file = f

Running == ~Stopping /\ cpc \notin {"failed", "returned"}

QueuedKept ==
  \A f \in Files : job[f] = "queued" =>
    InPage(f) \/ (ppc \in {"announce", "job"} /\ pfile = f) \/ InJobs(f) \/ Held(f)
RunningKept == \A f \in Files : job[f] = "running" => Held(f) \/ Waiting(f) \/ InBatch(f)
PendingKept ==
  \A f \in Files : job[f] = "pending" =>
    id[f] > after /\ ppc \in {"pages", "resume", "resumeJob", "erred", "complain", "giveUp"}
ProducerKept ==
  /\ page # << >> => ppc \in {"resume", "resumeJob"}
  /\ ppc \in {"close", "done"} => discoveryDone
  /\ \A w \in Workers : wpc[w] = "exit" => jobs = << >> /\ ppc = "done"

Kept == Running => QueuedKept /\ RunningKept /\ PendingKept /\ ProducerKept

EndInv == Ending /\ StoredBeforeShown /\ NothingLost /\ Kept

-----------------------------------------------------------------------------
LEMMA Joined == ASSUME ThreadsJoined PROVE ~Producer /\ \A w \in Workers : ~Worker(w)
<1>1. ~Producer
  BY DEF ThreadsJoined, Producer, Produce, ProducerStops, AtCheckpoint, FetchPage, NoPage, AnnounceResumed,
     HandOutResumed, CheckDiscovery, WalkFile, WalkSkip, WalkNotice, WalkEnds, Dispatch, WindowEmpty,
     AnnounceDiscovered, HandOut, FinishDiscovery, AnnounceDiscoveryFinished, ProducerFails, AtLimit,
     JudgeError, Complain, GiveUp
<1>2. \A w \in Workers : ~Worker(w)
  BY DEF ThreadsJoined, Worker, WorkerStops, Exit, Working, AcquireBuffer, LookForWork, Receive, NoMoreWork,
     AcquireReservation, Started, StartRefused, AnnounceStarted, Process, Deliver, WorkerComplains,
     WorkerGivesUp
<1> QED BY <1>1, <1>2

LEMMA QuietThreads ==
  ASSUME Producer \/ \E w \in Workers : Worker(w)
  PROVE  UNCHANGED <<coordinator, status>>
BY DEF journal, Producer, ProducerStops, FetchPage, NoPage, AnnounceResumed,
   HandOutResumed, CheckDiscovery, WalkFile, WalkSkip, WalkNotice, WalkEnds, Dispatch, WindowEmpty,
   AnnounceDiscovered, HandOut, FinishDiscovery, AnnounceDiscoveryFinished, ProducerFails,
   JudgeError, Complain, GiveUp, Worker, WorkerStops, AcquireBuffer, LookForWork, Receive, NoMoreWork,
   AcquireReservation, Started, StartRefused, AnnounceStarted, Process, Deliver, WorkerComplains,
   WorkerGivesUp

LEMMA EndingStep == TypeInv /\ Ending /\ [Next]_vars => Ending'
<1> SUFFICES ASSUME TypeInv, Ending, [Next]_vars PROVE Ending'
  OBVIOUS
<1>1. CASE Producer \/ \E w \in Workers : Worker(w)
  <2>1. ~ThreadsJoined
    BY <1>1, Joined
  <2>2. UNCHANGED <<cpc, then, status>>
    BY <1>1, QuietThreads DEF coordinator
  <2> QED BY <2>1, <2>2 DEF Ending, LastCalls
<1>2. CASE Coordinator
  <2>1. ThreadsJoined => ThreadsJoined'
    BY <1>2 DEF ThreadsJoined, Coordinator, Begin, ReceiveResult, ReceiveEvent, IdleFlush, Disconnected,
       Persist, SinkResult, SinkEvent, CoordinatorFails, Finish, ReturnOk, ReturnErr, producer, worker
  <2>2. CASE Begin \/ ReceiveResult \/ ReceiveEvent
    BY <2>1, <2>2 DEF Ending, LastCalls, Begin, ReceiveResult, ReceiveEvent, Coordinate, journal
  <2>3. CASE IdleFlush \/ Disconnected
    BY <2>1, <2>3 DEF Ending, LastCalls, IdleFlush, Disconnected, Coordinate, journal
  <2>4. CASE Persist \/ SinkResult \/ SinkEvent \/ CoordinatorFails
    BY <2>1, <2>4 DEF Ending, LastCalls, Persist, SinkResult, SinkEvent, CoordinatorFails, Coordinate, journal,
       TypeInv, CoordinatorType
  <2>5. CASE Finish \/ ReturnOk \/ ReturnErr
    BY <2>1, <2>5 DEF Ending, LastCalls, Finish, ReturnOk, ReturnErr, Coordinate, journal
  <2> QED BY <1>2, <2>2, <2>3, <2>4, <2>5 DEF Coordinator
<1>3. CASE Control \/ UNCHANGED vars
  <2>1. UNCHANGED <<cpc, then, status, ppc, wpc, events>>
    BY <1>3 DEF Control, Pause, Cancel, Expire, vars, journal, producer, worker, coordinator
  <2> QED BY <2>1 DEF Ending, LastCalls, ThreadsJoined
<1> QED BY <1>1, <1>2, <1>3 DEF Next

(* What a step shows as completed is in the batch of a stored transaction.  *)
LEMMA StoredStep ==
  TypeInv /\ OrderInv /\ StoredBeforeShown /\ [Next]_vars => StoredBeforeShown'
<1> SUFFICES ASSUME TypeInv, OrderInv, StoredBeforeShown, [Next]_vars, NEW f \in Files, seen'[f] = 3
             PROVE  job'[f] = "done"
  BY DEF StoredBeforeShown
<1>1. job[f] = "done" => job'[f] = "done"
  BY DoneStays
<1>2. CASE seen'[f] = seen[f]
  BY <1>1, <1>2 DEF StoredBeforeShown
<1>3. CASE SinkResult /\ seen'[f] # seen[f]
  <2>1. batch \in Seq(Files) /\ batch # << >> /\ Passing /\ seen \in [Files -> 0..3]
    BY <1>3 DEF TypeInv, CoordinatorType, SinkResult, OrderInv
  <2>2. Head(batch) = batch[1] /\ 1 \in DOMAIN batch
    BY <2>1, TakeType
  <2>3. f = Head(batch)
    BY <1>3, <2>1 DEF SinkResult
  <2> QED BY <1>1, <1>3, <2>1, <2>2, <2>3 DEF Passing, InBatch, SinkResult
<1>4. CASE SinkEvent /\ seen'[f] # seen[f]
  BY <1>4 DEF SinkEvent, TypeInv, CoordinatorType
<1>5. seen' = seen \/ SinkResult \/ SinkEvent
  <2>1. CASE Producer \/ \E w \in Workers : Worker(w)
    BY <2>1, QuietThreads DEF coordinator
  <2>2. CASE Control \/ UNCHANGED vars
    BY <2>2 DEF Control, Pause, Cancel, Expire, vars, coordinator
  <2>3. CASE Coordinator
    BY <2>3 DEF Coordinator, Begin, ReceiveResult, ReceiveEvent, IdleFlush, Disconnected,
       Persist, CoordinatorFails, Finish, ReturnOk, ReturnErr
  <2> QED BY <2>1, <2>2, <2>3 DEF Next
<1> QED BY <1>2, <1>3, <1>4, <1>5

(* Finish finds everything done. *)
LEMMA LostStep ==
  TypeInv /\ OrderInv /\ EndInv /\ [Next]_vars => NothingLost'
<1> SUFFICES ASSUME TypeInv, OrderInv, EndInv, [Next]_vars,
                    cpc' \in {"closing", "returned"}, status' = "completed"
             PROVE  /\ discoveryDone'
                    /\ \A f \in Files : job'[f] \in {"absent", "done"} /\ seen'[f] \in {0, 3}
  BY DEF NothingLost
<1>1. CASE Finish
  <2>1. /\ cpc = "join" /\ ~Stopping /\ batch = << >>
        /\ UNCHANGED <<job, discoveryDone, seen>>
    BY <1>1 DEF Finish, Coordinate, TypeInv, CoordinatorType, ControlType, Stopping, Reason
  <2>2. ThreadsJoined /\ events = << >> /\ Kept /\ Running
    BY <2>1 DEF EndInv, Ending, LastCalls, Running
  <2>3. ppc = "done" /\ discoveryDone /\ jobs = << >>
    BY <2>2, PipelineAssumption DEF Kept, ProducerKept, ThreadsJoined
  <2>4. \A f \in Files : ~InPage(f) /\ ~InJobs(f) /\ ~Held(f) /\ ~Waiting(f) /\ ~InBatch(f)
    <3>1. \A w \in Workers : wfile[w] \notin Files
      BY <2>2, HeldFiles DEF ThreadsJoined, Leasing
    <3> QED BY <2>1, <2>2, <2>3, <3>1 DEF InPage, InJobs, Held, Waiting, InBatch
  <2>5. \A f \in Files : job[f] \in {"absent", "done"}
    <3>1. \A f \in Files : job[f] # "queued" /\ job[f] # "running" /\ job[f] # "pending"
      BY <2>2, <2>3, <2>4 DEF Kept, QueuedKept, RunningKept, PendingKept
    <3> QED BY <3>1 DEF TypeInv, JournalType
  <2>6. Passing /\ Stages /\ envelope \in Events
    BY <2>1 DEF OrderInv, TypeInv, CoordinatorType
  <2>7. \A f \in Files : seen[f] \in {0, 3}
    <3> TAKE f \in Files
    <3>1. Out(f) = seen[f] /\ Out(f) \in 0..3
      BY <2>1, <2>4, <2>6, OutType, Levels DEF Out, Passing, About
    <3>2. Sent(f, 0) \/ Sent(f, 3)
      BY <2>5, <2>6 DEF Stages
    <3> QED BY <2>2, <3>1, <3>2, ToldEmpty DEF Sent
  <2> QED BY <2>1, <2>3, <2>5, <2>7
<1>2. CASE ReturnOk \/ ReturnErr
  <2>1. cpc = "closing" /\ UNCHANGED <<discoveryDone, job, seen, status>>
    BY <1>2 DEF ReturnOk, ReturnErr, Coordinate, journal
  <2> QED BY <2>1 DEF EndInv, NothingLost
<1>3. CASE UNCHANGED <<cpc, status, discoveryDone, job, seen>>
  BY <1>3 DEF EndInv, NothingLost
<1>4. Finish \/ ReturnOk \/ ReturnErr \/ UNCHANGED <<cpc, status, discoveryDone, job, seen>>
  <2>1. CASE Producer \/ \E w \in Workers : Worker(w)
    <3>1. cpc \in {"closing", "returned"}
      BY <2>1, QuietThreads DEF coordinator
    <3>2. ThreadsJoined
      BY <3>1 DEF EndInv, Ending, LastCalls
    <3> QED BY <2>1, <3>2, Joined
  <2>2. CASE Control \/ UNCHANGED vars
    BY <2>2 DEF Control, Pause, Cancel, Expire, vars, coordinator, journal
  <2>3. CASE Coordinator
    BY <2>3 DEF Coordinator, Begin, ReceiveResult, ReceiveEvent, IdleFlush, Disconnected,
       Persist, SinkResult, SinkEvent, CoordinatorFails, Coordinate, TypeInv, CoordinatorType
  <2> QED BY <2>1, <2>2, <2>3 DEF Next
<1> QED BY <1>1, <1>2, <1>3, <1>4

-----------------------------------------------------------------------------
(* Nothing is dropped.  A scan that runs after a step ran before it, and the *)
(* control did not change.                                                  *)
LEMMA RunsOn ==
  ASSUME TypeInv, [Next]_vars, Running'
  PROVE  /\ Running /\ \A w \in Workers : ~WorkerStops(w) /\ ~WorkerGivesUp(w)
         /\ ~ProducerStops /\ ~GiveUp /\ ~CoordinatorFails /\ ~ReturnOk /\ ~ReturnErr
<1>1. ~Stopping /\ stop' # "cancelled"
  BY DEF Running, Stopping, Reason, TypeInv, ControlType, Next, vars, control, Control, Pause, Cancel,
     Expire, Producer, ProducerStops,
     FetchPage, NoPage, AnnounceResumed, HandOutResumed, CheckDiscovery, WalkFile, WalkSkip, WalkNotice,
     WalkEnds, Dispatch, WindowEmpty, AnnounceDiscovered, HandOut, FinishDiscovery,
     AnnounceDiscoveryFinished, ProducerFails, JudgeError, Complain, GiveUp, Worker, WorkerStops,
     AcquireBuffer, LookForWork, Receive, NoMoreWork, AcquireReservation, Started, StartRefused,
     AnnounceStarted, Process, Deliver, WorkerComplains, WorkerGivesUp, Coordinator, Begin, ReceiveResult,
     ReceiveEvent, IdleFlush, Disconnected, Persist, SinkResult, SinkEvent, CoordinatorFails, Finish,
     ReturnOk, ReturnErr
<1>2. cpc \notin {"failed", "returned"}
  BY QuietThreads DEF Running, Next, vars, Control, Pause, Cancel, Expire, coordinator, Coordinate,
     Coordinator, Begin, ReceiveResult, ReceiveEvent, IdleFlush, Disconnected, Persist, SinkResult, SinkEvent, CoordinatorFails, Finish,
     ReturnOk, ReturnErr
<1> QED
  BY <1>1, <1>2 DEF Running, ProducerStops, GiveUp, CoordinatorFails, ReturnOk, ReturnErr, Coordinate,
     WorkerStops, WorkerGivesUp

LEMMA WaitsOn ==
  ASSUME TypeInv, NEW f, Waiting(f)
  PROVE  /\ UNCHANGED events => Waiting(f)'
         /\ \A e \in Events : Send(e) => Waiting(f)'
         /\ events # << >> /\ events' = Tail(events) =>
              Waiting(f)' \/ (Head(events).kind = "completed" /\ Head(events).file = f)
<1>1. events \in Seq(Events)
  BY DEF TypeInv, ChannelType
<1>2. PICK n \in DOMAIN events : events[n].kind = "completed" /\ events[n].file = f
  BY DEF Waiting
<1>3. UNCHANGED events => Waiting(f)'
  BY DEF Waiting
<1>4. ASSUME NEW e \in Events, Send(e) PROVE Waiting(f)'
  <2>1. events' = Append(events, e)
    BY <1>4 DEF Send
  <2>2. n \in DOMAIN events' /\ events'[n] = events[n]
    BY <1>1, <2>1, AddType
  <2> QED BY <1>2, <2>2 DEF Waiting
<1>5. ASSUME events # << >>, events' = Tail(events)
      PROVE  Waiting(f)' \/ (Head(events).kind = "completed" /\ Head(events).file = f)
  <2>1. CASE n = 1
    BY <1>1, <1>2, <1>5, <2>1, TakeType
  <2>2. CASE n # 1
    <3>1. n - 1 \in DOMAIN events' /\ events'[n - 1] = events[n]
      BY <1>1, <1>5, <2>2, TakeType
    <3> QED BY <1>2, <3>1 DEF Waiting
  <2> QED BY <2>1, <2>2
<1> QED BY <1>3, <1>4, <1>5

(* A file stays queued with whoever has it, the producer's hands aside.     *)
LEMMA QueuedFrame ==
  ASSUME TypeInv, QueuedKept, UNCHANGED <<jobs, wfile, page, pfile>>,
         \A f \in Files : job'[f] = "queued" => job[f] = "queued",
         ppc \in {"resume", "resumeJob"} => ppc' \in {"resume", "resumeJob"},
         ppc \in {"announce", "job"} => ppc' \in {"announce", "job"}
  PROVE  QueuedKept'
BY DEF QueuedKept, InPage, InJobs, Held

LEMMA KeptFetchPage ==
  ASSUME TypeInv, QueuedKept, PendingKept, FetchPage
  PROVE  QueuedKept' /\ PendingKept'
<1>0. job \in [Files -> {"absent", "pending", "queued", "running", "done"}] /\ id \in [Files -> Nat] /\ after \in Nat
  BY DEF TypeInv, JournalType, ProducerType, WalkType
<1>1. PICK n \in 1..PageSize : \E tasks \in [1..n -> Beyond] :
        /\ \A f \in {tasks[k] : k \in 1..n}, g \in Beyond \ {tasks[k] : k \in 1..n} : id[f] < id[g]
        /\ job' = [f \in Files |-> IF f \in {tasks[k] : k \in 1..n} THEN "queued" ELSE job[f]]
        /\ page' = tasks /\ after' = id[tasks[n]]
  BY DEF FetchPage
<1>2. PICK tasks \in [1..n -> Beyond] :
        /\ \A f \in {tasks[k] : k \in 1..n}, g \in Beyond \ {tasks[k] : k \in 1..n} : id[f] < id[g]
        /\ job' = [f \in Files |-> IF f \in {tasks[k] : k \in 1..n} THEN "queued" ELSE job[f]]
        /\ page' = tasks /\ after' = id[tasks[n]]
  BY <1>1
<1> DEFINE taken == {tasks[k] : k \in 1..n}
<1>3. ppc = "pages" /\ ppc' = "resume" /\ UNCHANGED <<id, jobs, wfile>>
  BY DEF FetchPage, Produce, worker
<1>4. n \in 1..n /\ tasks[n] \in taken /\ DOMAIN page' = 1..n
  BY <1>2, Sizes
<1>5. QueuedKept'
  <2> SUFFICES ASSUME NEW f \in Files, job'[f] = "queued"
               PROVE  InPage(f)' \/ InJobs(f)' \/ Held(f)'
    BY DEF QueuedKept
  <2>1. CASE f \in taken
    BY <1>2, <1>3, <1>4, <2>1 DEF InPage
  <2>2. CASE f \notin taken
    <3>1. job[f] = "queued"
      BY <1>2, <2>2
    <3> QED BY <1>3, <3>1 DEF QueuedKept, InPage, InJobs, Held
  <2> QED BY <2>1, <2>2
<1>6. PendingKept'
  <2> SUFFICES ASSUME NEW f \in Files, job'[f] = "pending"
               PROVE  id'[f] > after'
    BY <1>3 DEF PendingKept
  <2>1. f \notin taken /\ job[f] = "pending"
    BY <1>2
  <2>2. f \in Beyond
    BY <2>1 DEF PendingKept, Beyond, In
  <2>3. id[tasks[n]] < id[f]
    BY <1>2, <1>4, <2>1, <2>2
  <2>4. tasks[n] \in Files
    BY <1>2, <1>4 DEF Beyond, In
  <2> QED BY <1>0, <1>2, <1>3, <2>3, <2>4
<1> QED BY <1>5, <1>6

LEMMA KeptHandOutResumed ==
  ASSUME TypeInv, QueuedKept, HandOutResumed
  PROVE  QueuedKept' /\ (page' # << >> => ppc' = "resume")
<1>0. page \in Seq(Files) /\ page # << >> /\ jobs \in Seq(Files)
  BY DEF TypeInv, ProducerType, PageType, ChannelType, HandOutResumed, Produce
<1>1. PICK g \in Files : Head(page) = g /\ page[1] = g
  BY <1>0, TakeType
<1>2. /\ ppc = "resumeJob" /\ ppc' = IF Len(page) > 1 THEN "resume" ELSE "pages"
      /\ jobs' = Append(jobs, g) /\ page' = Tail(page)
      /\ UNCHANGED <<job, wfile>>
  BY <1>1 DEF HandOutResumed, Produce, journal, worker
<1>3. /\ \A n \in DOMAIN page : n # 1 => n - 1 \in DOMAIN page' /\ page'[n - 1] = page[n]
      /\ DOMAIN page' = 1..Len(page) - 1 /\ Len(page) \in Nat /\ Len(page') = Len(page) - 1
      /\ page' \in Seq(Files)
  BY <1>0, <1>2, TakeType
<1>4. /\ \A n \in DOMAIN jobs : n \in DOMAIN jobs' /\ jobs'[n] = jobs[n]
      /\ \E n \in DOMAIN jobs' : jobs'[n] = g
  <2>1. /\ Len(jobs) \in Nat /\ DOMAIN jobs = 1..Len(jobs) /\ DOMAIN jobs' = 1..Len(jobs) + 1
        /\ \A n \in 1..Len(jobs) : jobs'[n] = jobs[n]
        /\ jobs'[Len(jobs) + 1] = g
    BY <1>0, <1>2, AddType
  <2> QED BY <2>1
<1>5. QueuedKept'
  <2> SUFFICES ASSUME NEW f \in Files, job[f] = "queued"
               PROVE  InPage(f)' \/ InJobs(f)' \/ Held(f)'
    BY <1>2 DEF QueuedKept
  <2>1. CASE InPage(f)
    <3>1. PICK n \in DOMAIN page : page[n] = f
      BY <2>1 DEF InPage
    <3>2. CASE n = 1
      BY <1>1, <1>4, <3>1, <3>2 DEF InJobs
    <3>3. CASE n # 1
      <4>1. n - 1 \in DOMAIN page' /\ page'[n - 1] = f
        BY <1>3, <3>1, <3>3
      <4>2. ppc' = "resume"
        BY <1>2, <1>3, <4>1
      <4> QED BY <4>1, <4>2 DEF InPage
    <3> QED BY <3>2, <3>3
  <2>2. CASE InJobs(f) \/ Held(f)
    BY <1>2, <1>4, <2>2 DEF InJobs, Held
  <2> QED BY <1>2, <2>1, <2>2 DEF QueuedKept
<1>6. page' # << >> => ppc' = "resume"
  <2>1. page' # << >> => 1 \in DOMAIN page'
    BY <1>3, TakeType
  <2> QED BY <1>2, <1>3, <2>1
<1> QED BY <1>5, <1>6

LEMMA KeptHandOut == ASSUME TypeInv, QueuedKept, HandOut PROVE QueuedKept'
<1>1. PICK g \in Files :
        /\ pfile = g /\ ppc = "job" /\ ppc' = "dispatch" /\ jobs' = Append(jobs, g)
        /\ UNCHANGED <<job, wfile>>
  BY DEF HandOut, Produce, TypeInv, ProducerType, WalkType, journal, worker
<1>2. jobs \in Seq(Files)
  BY DEF TypeInv, ChannelType
<1>3. /\ \A n \in DOMAIN jobs : n \in DOMAIN jobs' /\ jobs'[n] = jobs[n]
      /\ \E n \in DOMAIN jobs' : jobs'[n] = g
  <2>1. /\ Len(jobs) \in Nat /\ DOMAIN jobs = 1..Len(jobs) /\ DOMAIN jobs' = 1..Len(jobs) + 1
        /\ \A n \in 1..Len(jobs) : jobs'[n] = jobs[n]
        /\ jobs'[Len(jobs) + 1] = g
    BY <1>1, <1>2, AddType
  <2> QED BY <2>1
<1> QED BY <1>1, <1>3 DEF QueuedKept, InPage, InJobs, Held

LEMMA KeptDispatch ==
  ASSUME TypeInv, QueuedKept, PendingKept, Dispatch
  PROVE  QueuedKept' /\ PendingKept'
<1>0. job \in [Files -> {"absent", "pending", "queued", "running", "done"}] /\ window \subseteq Files
  BY DEF TypeInv, JournalType, ProducerType, WindowType
<1>1. PICK g \in window : Schedule(g)
  BY DEF Dispatch
<1>2. ppc = "dispatch" /\ UNCHANGED <<jobs, wfile, page, after>> /\ g \in Files
  BY <1>0 DEF Dispatch, worker
<1>3. \A f \in Files : job[f] # "pending"
  BY <1>2 DEF PendingKept
<1>4. \A f \in Files : job[f] = "queued" => InJobs(f)' \/ Held(f)'
  BY <1>2 DEF QueuedKept, InPage, InJobs, Held
<1>5. CASE job[g] \in {"queued", "running", "done"}
  BY <1>1, <1>3, <1>4, <1>5 DEF Schedule, QueuedKept, PendingKept
<1>6. CASE job[g] \notin {"queued", "running", "done"}
  <2>1. ppc' = "announce" /\ pfile' = g /\ job' = [job EXCEPT ![g] = "queued"]
    BY <1>1, <1>6 DEF Schedule
  <2>2. \A f \in Files : job'[f] = IF f = g THEN "queued" ELSE job[f]
    BY <1>0, <2>1
  <2> QED BY <1>3, <1>4, <2>1, <2>2 DEF QueuedKept, PendingKept
<1> QED BY <1>5, <1>6

(* The other steps of the producer leave every file where it is. *)
LEMMA KeptProducer ==
  ASSUME TypeInv, QueuedKept, RunningKept, PendingKept, ProducerKept, ~Stopping,
         Producer, ~ProducerStops, ~GiveUp
  PROVE  QueuedKept' /\ RunningKept' /\ PendingKept' /\ ProducerKept'
<1>0. ppc # "done" /\ UNCHANGED <<wpc, wfile, batch>>
  BY DEF worker, coordinator, Producer, Produce, FetchPage, NoPage, AnnounceResumed,
     HandOutResumed, CheckDiscovery, WalkFile, WalkSkip, WalkNotice, WalkEnds, Dispatch, WindowEmpty,
     AnnounceDiscovered, HandOut, FinishDiscovery, AnnounceDiscoveryFinished, ProducerFails, AtLimit,
     JudgeError, Complain
<1>1. RunningKept'
  <2>1. \A f \in Files : job'[f] = "running" => job[f] = "running"
    <3>1. CASE FetchPage
      BY <3>1 DEF FetchPage
    <3>2. CASE Dispatch
      BY <3>2 DEF Dispatch, Schedule, TypeInv, JournalType
    <3>3. CASE UNCHANGED job
      BY <3>3
    <3> QED
      BY <3>1, <3>2, <3>3 DEF journal, Producer, NoPage, AnnounceResumed,
         HandOutResumed, CheckDiscovery, WalkFile, WalkSkip, WalkNotice, WalkEnds, WindowEmpty,
         AnnounceDiscovered, HandOut, FinishDiscovery, AnnounceDiscoveryFinished, ProducerFails,
         JudgeError, Complain
  <2>2. UNCHANGED events \/ \E e \in Events : Send(e)
    <3>1. /\ ppc \in {"resume"} => Event("resumed", Head(page)) \in Events
          /\ ppc \in {"announce"} => Event("discovered", pfile) \in Events
      <4>1. ppc = "resume" => Head(page) \in Files
        BY TakeType DEF TypeInv, ProducerType, PageType
      <4>2. ppc = "announce" => pfile \in Files
        BY HeldFiles
      <4> QED BY <4>1, <4>2 DEF Event, Events, Kinds, Level
    <3>2. Event("notice", NoFile) \in Events /\ Event("closed", NoFile) \in Events
      BY DEF Event, Events, Kinds, Level
    <3> QED
      BY <3>1, <3>2 DEF Producer, FetchPage, NoPage, AnnounceResumed, Produce,
         HandOutResumed, CheckDiscovery, WalkFile, WalkSkip, WalkNotice, WalkEnds, Dispatch, WindowEmpty,
         AnnounceDiscovered, HandOut, FinishDiscovery, AnnounceDiscoveryFinished, ProducerFails,
         JudgeError, Complain
  <2>3. \A f : (Held(f) => Held(f)') /\ (InBatch(f) => InBatch(f)') /\ (Waiting(f) => Waiting(f)')
    BY <1>0, <2>2, WaitsOn DEF Held, InBatch
  <2> QED BY <2>1, <2>3 DEF RunningKept
<1>2. CASE FetchPage
  <2>1. ProducerKept'
    BY <1>0, <1>2 DEF FetchPage, Produce, ProducerKept
  <2> QED BY <1>1, <1>2, <2>1, KeptFetchPage
<1>3. CASE HandOutResumed
  <2>1. QueuedKept' /\ (page' # << >> => ppc' = "resume")
    BY <1>3, KeptHandOutResumed
  <2>2. ppc' \in {"resume", "pages"} /\ ppc = "resumeJob" /\ UNCHANGED <<job, id, after>>
    BY <1>3 DEF HandOutResumed, Produce, journal
  <2> QED BY <1>0, <1>1, <2>1, <2>2 DEF ProducerKept, PendingKept
<1>4. CASE HandOut
  <2>1. ppc' = "dispatch" /\ ppc = "job" /\ UNCHANGED <<job, id, after, page>>
    BY <1>4 DEF HandOut, Produce, journal
  <2> QED BY <1>0, <1>1, <1>4, <2>1, KeptHandOut DEF ProducerKept, PendingKept
<1>5. CASE Dispatch
  <2>1. ppc = "dispatch" /\ ppc' \in {"announce", "dispatch"} /\ UNCHANGED page
    BY <1>5 DEF Dispatch, Schedule
  <2> QED BY <1>0, <1>1, <1>5, <2>1, KeptDispatch DEF ProducerKept
<1>6. CASE NoPage
  <2>1. ppc = "pages" /\ ppc' = "check" /\ Beyond = {} /\ UNCHANGED <<job, id, after, page, pfile, jobs>>
    BY <1>6 DEF NoPage, Produce, journal
  <2>2. \A f \in Files : job[f] # "pending"
    BY <2>1 DEF PendingKept, Beyond, In
  <2>3. QueuedKept'
    BY <1>0, <2>1, QueuedFrame
  <2> QED BY <1>0, <1>1, <2>1, <2>2, <2>3 DEF ProducerKept, PendingKept
<1>7. CASE AnnounceResumed \/ AnnounceDiscovered
  <2>1. /\ (ppc = "resume" /\ ppc' = "resumeJob") \/ (ppc = "announce" /\ ppc' = "job")
        /\ UNCHANGED <<job, id, after, page, pfile, jobs>>
    BY <1>7 DEF AnnounceResumed, AnnounceDiscovered, Produce, journal
  <2>2. QueuedKept'
    BY <1>0, <2>1, QueuedFrame
  <2> QED BY <1>0, <1>1, <2>1, <2>2 DEF ProducerKept, PendingKept
<1>8. CASE CheckDiscovery \/ WalkFile \/ WalkSkip \/ WalkNotice \/ WalkEnds \/ WindowEmpty
           \/ FinishDiscovery \/ AnnounceDiscoveryFinished
  <2>1. /\ ppc \in {"check", "walk", "skip", "dispatch", "finish", "close"}
        /\ ppc' \in {"walk", "skip", "dispatch", "finish", "close", "done"}
        /\ ppc' \in {"close", "done"} => discoveryDone' \/ ppc = "close"
        /\ UNCHANGED <<job, id, after, page, pfile, jobs>>
        /\ discoveryDone => discoveryDone'
    <3>1. CASE CheckDiscovery \/ FinishDiscovery \/ AnnounceDiscoveryFinished
      BY <3>1 DEF CheckDiscovery, FinishDiscovery, AnnounceDiscoveryFinished, Produce, journal
    <3>2. CASE WalkFile
      BY <3>2 DEF WalkFile, journal
    <3>3. CASE WalkSkip \/ WalkNotice \/ WalkEnds
      BY <3>3 DEF WalkSkip, WalkNotice, WalkEnds, Produce, journal
    <3>4. CASE WindowEmpty
      BY <3>4 DEF WindowEmpty, Produce, journal
    <3> QED BY <1>8, <3>1, <3>2, <3>3, <3>4
  <2>2. QueuedKept'
    BY <1>0, <2>1, QueuedFrame
  <2> QED BY <1>0, <1>1, <2>1, <2>2 DEF ProducerKept, PendingKept
<1>9. CASE ProducerFails \/ JudgeError \/ Complain
  <2>1. /\ ppc \in {"dispatch", "pages", "check", "finish", "erred", "complain"}
        /\ ppc' \in {"erred", "complain", "giveUp"}
        /\ UNCHANGED <<job, id, after, page, pfile, jobs>>
    BY <1>9 DEF ProducerFails, AtLimit, JudgeError, Complain, Produce, journal
  <2>2. QueuedKept'
    BY <1>0, <2>1, QueuedFrame
  <2> QED BY <1>0, <1>1, <2>1, <2>2 DEF ProducerKept, PendingKept
<1> QED BY <1>2, <1>3, <1>4, <1>5, <1>6, <1>7, <1>8, <1>9 DEF Producer

LEMMA KeptReceive ==
  ASSUME TypeInv, QueuedKept, RunningKept, PendingKept, ProducerKept, NEW w \in Workers, Receive(w)
  PROVE  QueuedKept' /\ RunningKept' /\ PendingKept' /\ ProducerKept'
<1>0. /\ jobs \in Seq(Files) /\ jobs # << >> /\ wfile \in [Workers -> Files \cup {NoFile}]
      /\ wpc \in [Workers -> WorkerPlaces]
  BY DEF TypeInv, ChannelType, WorkerType, Receive
<1>1. PICK g \in Files : Head(jobs) = g /\ jobs[1] = g
  BY <1>0, TakeType
<1>2. /\ wpc[w] = "recv" /\ wpc' = [wpc EXCEPT ![w] = "lease"] /\ wfile' = [wfile EXCEPT ![w] = g]
      /\ jobs' = Tail(jobs)
      /\ UNCHANGED <<job, id, discoveryDone, after, ppc, page, pfile, events, batch>>
  BY <1>1 DEF Receive, Working, journal, producer, coordinator
<1>3. wfile[w] \notin Files
  BY <1>2, HeldFiles DEF Leasing
<1>4. /\ \A f \in Files : Held(f) => Held(f)'
      /\ Held(g)'
  BY <1>0, <1>2, <1>3 DEF Held
<1>5. \A f \in Files : InJobs(f) => InJobs(f)' \/ f = g
  <2> SUFFICES ASSUME NEW f \in Files, NEW n \in DOMAIN jobs, jobs[n] = f, n # 1 PROVE InJobs(f)'
    BY <1>1 DEF InJobs
  <2>1. n - 1 \in DOMAIN jobs' /\ jobs'[n - 1] = f
    BY <1>0, <1>2, TakeType
  <2> QED BY <2>1 DEF InJobs
<1>6. QueuedKept' /\ RunningKept' /\ PendingKept'
  BY <1>2, <1>4, <1>5 DEF QueuedKept, RunningKept, PendingKept, InPage, Waiting, InBatch
<1>7. ProducerKept'
  <2>1. \A x \in Workers : wpc[x] # "exit"
    BY <1>0 DEF ProducerKept
  <2>2. \A x \in Workers : wpc'[x] # "exit"
    BY <1>0, <1>2, <2>1
  <2> QED BY <1>2, <2>2 DEF ProducerKept
<1> QED BY <1>6, <1>7

LEMMA KeptWorker ==
  ASSUME TypeInv, Stages, QueuedKept, RunningKept, PendingKept, ProducerKept,
         NEW w \in Workers, Worker(w), ~WorkerStops(w), ~WorkerGivesUp(w)
  PROVE  QueuedKept' /\ RunningKept' /\ PendingKept' /\ ProducerKept'
<1>0. wfile \in [Workers -> Files \cup {NoFile}] /\ wpc \in [Workers -> WorkerPlaces]
      /\ job \in [Files -> {"absent", "pending", "queued", "running", "done"}]
  BY DEF TypeInv, WorkerType, JournalType
<1>1. UNCHANGED <<id, discoveryDone, after, ppc, page, pfile, batch>>
  BY DEF Worker, AcquireBuffer, LookForWork, Receive, NoMoreWork, AcquireReservation,
     Started, StartRefused, AnnounceStarted, Process, Deliver, WorkerComplains,
     journal, producer, coordinator
<1>2. CASE Receive(w)
  BY <1>2, KeptReceive
<1>3. CASE NoMoreWork(w)
  <2>1. /\ jobs = << >> /\ ppc = "done" /\ wpc[w] = "recv"
        /\ wfile' = [wfile EXCEPT ![w] = NoFile] /\ UNCHANGED <<jobs, job, events>>
    BY <1>3 DEF NoMoreWork, Exit, Working, journal
  <2>2. wfile[w] \notin Files
    BY <2>1, HeldFiles DEF Leasing
  <2>3. \A f \in Files : Held(f) => Held(f)'
    BY <1>0, <2>1, <2>2 DEF Held
  <2> QED BY <1>1, <2>1, <2>3
          DEF QueuedKept, RunningKept, PendingKept, ProducerKept, InPage, InJobs, Waiting, InBatch
<1>4. CASE Started(w)
  <2>1. /\ wpc[w] = "start" /\ wpc' = [wpc EXCEPT ![w] = "announce"]
        /\ job' = [job EXCEPT ![wfile[w]] = "running"] /\ UNCHANGED <<jobs, wfile, events>>
    BY <1>4 DEF Started, Working
  <2>2. \A f \in Files : job'[f] = job[f] \/ (f = wfile[w] /\ job'[f] = "running")
    BY <1>0, <2>1
  <2>3. \A f \in Files : Held(f) <=> Held(f)'
    BY <2>1 DEF Held
  <2>4. \A x \in Workers : wpc'[x] = "exit" => wpc[x] = "exit"
    BY <1>0, <2>1
  <2> QED BY <1>1, <2>1, <2>2, <2>3, <2>4
          DEF QueuedKept, RunningKept, PendingKept, ProducerKept, InPage, InJobs, Waiting, InBatch, Held
<1>5. CASE Deliver(w)
  <2>1. PICK g \in Files : wfile[w] = g
    BY <1>5, HeldFiles DEF Deliver, Working, Leasing
  <2>2. /\ wpc[w] = "deliver" /\ wpc' = [wpc EXCEPT ![w] = "idle"]
        /\ wfile' = [wfile EXCEPT ![w] = NoFile] /\ Send(Event("completed", g))
        /\ UNCHANGED <<jobs, job>>
    BY <1>5, <2>1 DEF Deliver, Working, journal
  <2>3. job[g] = "running"
    BY <2>1, <2>2 DEF Stages, Claim
  <2>4. \A f \in Files : Held(f) => Held(f)' \/ f = g
    BY <1>0, <2>1, <2>2 DEF Held
  <2>5. Event("completed", g) \in Events
    BY DEF Event, Events, Kinds, Level
  <2>6. \A f \in Files : Waiting(f) => Waiting(f)'
    BY <2>2, <2>5, WaitsOn
  <2>7. Waiting(g)'
    <3>1. events' = Append(events, Event("completed", g)) /\ events \in Seq(Events)
      BY <2>2 DEF Send, TypeInv, ChannelType
    <3>2. Len(events) + 1 \in DOMAIN events' /\ events'[Len(events) + 1] = Event("completed", g)
      BY <2>5, <3>1, AddType
    <3> QED BY <3>2 DEF Waiting, Event
  <2>8. \A x \in Workers : wpc'[x] = "exit" => wpc[x] = "exit"
    BY <1>0, <2>2
  <2> QED BY <1>1, <2>2, <2>3, <2>4, <2>6, <2>7, <2>8
          DEF QueuedKept, RunningKept, PendingKept, ProducerKept, InPage, InJobs, InBatch
<1>6. CASE AcquireBuffer(w) \/ LookForWork(w) \/ AcquireReservation(w) \/ StartRefused(w)
           \/ AnnounceStarted(w) \/ Process(w) \/ WorkerComplains(w)
  <2>1. /\ UNCHANGED <<jobs, job, wfile>>
        /\ \E to \in WorkerPlaces \ {"exit"} : wpc' = [wpc EXCEPT ![w] = to]
    BY <1>6 DEF AcquireBuffer, LookForWork, AcquireReservation, StartRefused, AnnounceStarted,
       Process, WorkerComplains, Working, journal, WorkerPlaces
  <2>2. UNCHANGED events \/ \E e \in Events : Send(e)
    <3>1. wpc[w] = "announce" => wfile[w] \in Files
      BY HeldFiles DEF Leasing
    <3>2. /\ wpc[w] = "announce" => Event("started", wfile[w]) \in Events
          /\ Event("notice", wfile[w]) \in Events
      BY <1>0, <3>1 DEF Event, Events, Kinds, Level
    <3> QED BY <1>6, <3>2 DEF AcquireBuffer, LookForWork, AcquireReservation, StartRefused,
       AnnounceStarted, Process, WorkerComplains, Working
  <2>3. \A f : Waiting(f) => Waiting(f)'
    BY <2>2, WaitsOn
  <2>4. \A x \in Workers : wpc'[x] = "exit" => wpc[x] = "exit"
    BY <1>0, <2>1
  <2> QED BY <1>1, <2>1, <2>3, <2>4
          DEF QueuedKept, RunningKept, PendingKept, ProducerKept, InPage, InJobs, InBatch, Held
<1> QED BY <1>2, <1>3, <1>4, <1>5, <1>6 DEF Worker

LEMMA KeptCoordinator ==
  ASSUME TypeInv, Passing, QueuedKept, RunningKept, PendingKept, ProducerKept, ~Stopping,
         Coordinator, ~CoordinatorFails, ~ReturnOk, ~ReturnErr
  PROVE  QueuedKept' /\ RunningKept' /\ PendingKept' /\ ProducerKept'
<1>0. /\ events \in Seq(Events) /\ batch \in Seq(Files)
      /\ job \in [Files -> {"absent", "pending", "queued", "running", "done"}]
  BY DEF TypeInv, ChannelType, CoordinatorType, JournalType
<1>1. UNCHANGED <<id, discoveryDone, after, ppc, page, pfile, jobs, wpc, wfile>>
  BY DEF Coordinator, Begin, ReceiveResult, ReceiveEvent, IdleFlush, Disconnected, Persist,
     SinkResult, SinkEvent, Finish, journal, producer, worker
<1>2. \A f : (InPage(f)' <=> InPage(f)) /\ (InJobs(f)' <=> InJobs(f)) /\ (Held(f)' <=> Held(f))
  BY <1>1 DEF InPage, InJobs, Held
<1>3. ProducerKept'
  BY <1>1 DEF ProducerKept
<1>4. \A f \in Files : job'[f] = job[f] \/ job'[f] = "done"
  <2>1. CASE Persist
    BY <2>1 DEF Persist
  <2>2. CASE UNCHANGED job
    BY <2>2
  <2> QED BY <2>1, <2>2 DEF Coordinator, Begin, ReceiveResult, ReceiveEvent, IdleFlush, Disconnected,
     SinkResult, SinkEvent, Finish, journal
<1>5. QueuedKept' /\ PendingKept'
  BY <1>1, <1>2, <1>4 DEF QueuedKept, PendingKept
<1>6. ASSUME NEW f \in Files, job[f] = "running", job'[f] = "running", ~Held(f)
      PROVE  Waiting(f)' \/ InBatch(f)'
  <2>0. Waiting(f) \/ InBatch(f)
    BY <1>6 DEF RunningKept
  <2>1. CASE ReceiveResult
    <3>1. /\ events # << >> /\ events' = Tail(events) /\ batch' = Append(batch, Head(events).file)
          /\ Head(events).kind = "completed"
      BY <2>1 DEF ReceiveResult
    <3>2. PICK g \in Files : Head(events).file = g
      BY <1>0, <3>1, TakeType, Levels
    <3>3. /\ Len(batch) \in Nat /\ DOMAIN batch = 1..Len(batch) /\ DOMAIN batch' = 1..Len(batch) + 1
          /\ \A n \in 1..Len(batch) : batch'[n] = batch[n]
          /\ batch'[Len(batch) + 1] = g
      BY <1>0, <3>1, <3>2, AddType
    <3>4. InBatch(f) \/ f = g => InBatch(f)'
      BY <3>3 DEF InBatch
    <3>5. Waiting(f) => Waiting(f)' \/ f = g
      BY <3>1, <3>2, WaitsOn
    <3> QED BY <2>0, <3>4, <3>5
  <2>2. CASE ReceiveEvent
    <3>1. /\ events # << >> /\ events' = Tail(events) /\ batch' = batch
          /\ Head(events).kind # "completed"
      BY <2>2 DEF ReceiveEvent
    <3> QED BY <2>0, <3>1, WaitsOn DEF InBatch
  <2>3. CASE SinkResult
    <3>1. batch # << >> /\ batch' = Tail(batch) /\ UNCHANGED <<events, job>> /\ cpc = "deliver"
      BY <2>3 DEF SinkResult, journal, TypeInv, CoordinatorType
    <3>2. ~InBatch(f)
      BY <1>6, <3>1 DEF Passing
    <3> QED BY <2>0, <3>1, <3>2 DEF Waiting
  <2>4. CASE UNCHANGED <<events, batch>>
    BY <2>0, <2>4 DEF Waiting, InBatch
  <2> QED BY <2>1, <2>2, <2>3, <2>4 DEF Coordinator, Begin, IdleFlush, Disconnected, Persist, SinkEvent, Finish
<1>7. RunningKept'
  BY <1>2, <1>4, <1>6 DEF RunningKept
<1> QED BY <1>3, <1>5, <1>7

LEMMA KeptStep == TypeInv /\ OrderInv /\ Kept /\ [Next]_vars => Kept'
<1> SUFFICES ASSUME TypeInv, OrderInv, Kept, [Next]_vars, Running'
             PROVE  QueuedKept' /\ RunningKept' /\ PendingKept' /\ ProducerKept'
  BY DEF Kept
<1>1. /\ Running /\ \A w \in Workers : ~WorkerStops(w) /\ ~WorkerGivesUp(w)
      /\ ~ProducerStops /\ ~GiveUp /\ ~CoordinatorFails /\ ~ReturnOk /\ ~ReturnErr
  BY RunsOn
<1>2. QueuedKept /\ RunningKept /\ PendingKept /\ ProducerKept /\ ~Stopping /\ Passing /\ Stages
  BY <1>1 DEF Kept, OrderInv, Running
<1>3. CASE Producer
  BY <1>1, <1>2, <1>3, KeptProducer
<1>4. CASE \E w \in Workers : Worker(w)
  BY <1>1, <1>2, <1>4, KeptWorker
<1>5. CASE Coordinator
  BY <1>1, <1>2, <1>5, KeptCoordinator
<1>6. CASE Control \/ UNCHANGED vars
  <2>1. UNCHANGED <<job, id, discoveryDone, after, ppc, page, pfile, jobs, wpc, wfile, events, batch>>
    BY <1>6 DEF Control, Pause, Cancel, Expire, vars, journal, producer, worker, coordinator
  <2> QED BY <1>2, <2>1 DEF QueuedKept, RunningKept, PendingKept, ProducerKept,
                            InPage, InJobs, Held, Waiting, InBatch
<1> QED BY <1>3, <1>4, <1>5, <1>6 DEF Next

LEMMA EndInit == Init => EndInv
<1> SUFFICES ASSUME Init PROVE EndInv
  OBVIOUS
<1>1. Ending /\ StoredBeforeShown /\ NothingLost
  BY DEF Init, Ending, LastCalls, StoredBeforeShown, NothingLost
<1>2. id \in [Files -> Nat]
  BY TypeInit DEF TypeInv, JournalType
<1>3. Kept
  BY <1>2 DEF Init, Kept, QueuedKept, RunningKept, PendingKept, ProducerKept
<1> QED BY <1>1, <1>3 DEF EndInv

LEMMA EndStep == TypeInv /\ OrderInv /\ EndInv /\ [Next]_vars => EndInv'
BY EndingStep, StoredStep, LostStep, KeptStep DEF EndInv

(* A completed scan has stored and shown a result for every task it was     *)
(* given or found, nothing is shown before the journal has it, and the      *)
(* queues stay within their bounds, for any number of files and workers.    *)
THEOREM PipelineIsSound == Spec => []PipelineSound
<1>1. Init => TypeInv /\ OrderInv /\ EndInv
  BY TypeInit, OrderInit, EndInit
<1>2. TypeInv /\ OrderInv /\ EndInv /\ [Next]_vars => TypeInv' /\ OrderInv' /\ EndInv'
  BY TypeStep, OrderStep, EndStep
<1>3. TypeInv /\ EndInv => PipelineSound
  <2>1. TypeInv => TypeOK
    BY DEF TypeInv, ControlType, JournalType, ProducerType, PageType, WindowType, WalkType, ChannelType,
       WorkerType, CoordinatorType, TypeOK
  <2> QED BY <2>1 DEF EndInv, PipelineSound
<1> QED BY <1>1, <1>2, <1>3, PTL DEF Spec

-----------------------------------------------------------------------------
(* The pipeline keeps to the journal's protocol: each step of a thread is   *)
(* one of the invocation that ScanJournal describes.  The producer is where *)
(* the invocation is (ReachKept), it schedules a file once (WalkOnce), the  *)
(* rows are numbered without gaps, and what waits to be stored was started. *)
ReachKept ==
  /\ ppc \in {"pages", "resume", "resumeJob"} => reach = "pending"
  /\ ppc = "check" => reach = "check"
  /\ ppc \in {"walk", "skip", "dispatch", "announce", "job", "finish"} => reach = "walk"
  /\ ppc = "close" => reach = "drained"
  /\ Running /\ ppc = "done" => reach = "drained"

WalkOnce == window \cap walked = {} /\ unseen \cap (walked \cup window) = {}

IdsDense ==
  /\ Cardinality(Known) <= MaxFiles
  /\ \A f \in Files : id[f] <= Cardinality(Known) /\ (id[f] = 0 <=> job[f] = "absent")
  /\ \A f, g \in Known : id[f] = id[g] => f = g

Unstored ==
  cpc \notin {"failed", "returned"} =>
    \A f \in Files : Waiting(f) \/ (InBatch(f) /\ cpc # "deliver") => job[f] = "running"

JournalInv == ReachKept /\ WalkOnce /\ IdsDense /\ Unstored

LEMMA StillOn ==
  ASSUME [Next]_vars, cpc' \notin {"failed", "returned"} PROVE cpc \notin {"failed", "returned"}
BY QuietThreads DEF Next, vars, Control, Pause, Cancel, Expire, coordinator, Coordinate,
   Coordinator, Begin, ReceiveResult, ReceiveEvent, IdleFlush, Disconnected, Persist, SinkResult,
   SinkEvent, CoordinatorFails, Finish, ReturnOk, ReturnErr

LEMMA ReachStep == TypeInv /\ ReachKept /\ [Next]_vars => ReachKept'
<1> SUFFICES ASSUME TypeInv, ReachKept, [Next]_vars PROVE ReachKept'
  OBVIOUS
<1>1. Running' => /\ Running /\ ~ProducerStops /\ ~GiveUp
  BY RunsOn
<1>2. CASE Producer
  <2>1. CASE ProducerStops \/ GiveUp
    <3>1. ~Running' /\ ppc' = "done"
      BY <1>1, <2>1 DEF ProducerStops, GiveUp, Produce
    <3> QED BY <3>1 DEF ReachKept
  <2>2. CASE FetchPage \/ NoPage \/ AnnounceResumed \/ HandOutResumed \/ CheckDiscovery
    BY <2>2 DEF ReachKept, FetchPage, NoPage, AnnounceResumed, HandOutResumed, CheckDiscovery, Produce
  <2>3. CASE Dispatch
    <3>1. ppc = "dispatch" /\ ppc' \in {"dispatch", "announce"} /\ reach' = reach
      BY <2>3 DEF Dispatch, Schedule
    <3> QED BY <3>1 DEF ReachKept
  <2>4. CASE WalkFile \/ WalkSkip \/ WalkNotice \/ WalkEnds \/ WindowEmpty
    <3>1. /\ ppc \in {"walk", "skip", "dispatch"} /\ ppc' \in {"walk", "skip", "dispatch", "finish"}
          /\ reach' = reach
      <4>1. CASE WalkFile
        BY <4>1 DEF WalkFile
      <4>2. CASE WalkSkip \/ WalkNotice \/ WalkEnds \/ WindowEmpty
        BY <4>2 DEF WalkSkip, WalkNotice, WalkEnds, WindowEmpty, Produce
      <4> QED BY <2>4, <4>1, <4>2
    <3> QED BY <3>1 DEF ReachKept
  <2>5. CASE AnnounceDiscovered \/ HandOut \/ FinishDiscovery \/ AnnounceDiscoveryFinished
    BY <2>5 DEF ReachKept, AnnounceDiscovered, HandOut, FinishDiscovery, AnnounceDiscoveryFinished, Produce
  <2>6. CASE ProducerFails \/ Complain
    BY <2>6 DEF ReachKept, ProducerFails, Complain, Produce
  <2>7. CASE JudgeError
    <3>1. ppc' \in {"done", "complain"} /\ (Running' => ppc' = "complain")
      BY <1>1, <2>7 DEF JudgeError, Produce, Running
    <3> QED BY <3>1 DEF ReachKept
  <2> QED BY <1>2, <2>1, <2>2, <2>3, <2>4, <2>5, <2>6, <2>7 DEF Producer
<1>3. CASE UNCHANGED <<ppc, reach>>
  BY <1>1, <1>3 DEF ReachKept
<1>4. CASE Begin /\ ~UNCHANGED <<ppc, reach>>
  BY <1>4 DEF Begin, Coordinate, ReachKept, Running
<1>5. Producer \/ UNCHANGED <<ppc, reach>> \/ Begin
  <2>1. CASE Coordinator
    BY <2>1 DEF producer, Coordinator, ReceiveResult, ReceiveEvent, IdleFlush, Disconnected,
       Persist, SinkResult, SinkEvent, CoordinatorFails, Finish, ReturnOk, ReturnErr
  <2>2. CASE \E w \in Workers : Worker(w)
    BY <2>2 DEF producer, Worker, WorkerStops, AcquireBuffer, LookForWork, Receive, NoMoreWork,
       AcquireReservation, Started, StartRefused, AnnounceStarted, Process, Deliver, WorkerComplains,
       WorkerGivesUp
  <2>3. CASE Control \/ UNCHANGED vars
    BY <2>3 DEF producer, Control, Pause, Cancel, Expire, vars
  <2> QED BY <2>1, <2>2, <2>3 DEF Next
<1> QED BY <1>2, <1>3, <1>4, <1>5

(* Who changes what of the walk and of the rows.                            *)
LEMMA QuietWalk ==
  [Next]_vars => WalkFile \/ Dispatch \/ UNCHANGED <<window, walked, unseen>>
<1>1. CASE Producer
  BY <1>1 DEF Producer, ProducerStops, FetchPage, NoPage, AnnounceResumed,
     HandOutResumed, CheckDiscovery, WalkSkip, WalkNotice, WalkEnds, WindowEmpty,
     AnnounceDiscovered, HandOut, FinishDiscovery, AnnounceDiscoveryFinished, ProducerFails,
     JudgeError, Complain, GiveUp
<1>2. CASE Coordinator
  BY <1>2 DEF producer, Coordinator, Begin, ReceiveResult, ReceiveEvent, IdleFlush, Disconnected,
     Persist, SinkResult, SinkEvent, CoordinatorFails, Finish, ReturnOk, ReturnErr
<1>3. CASE \E w \in Workers : Worker(w)
  BY <1>3 DEF producer, Worker, WorkerStops, AcquireBuffer, LookForWork, Receive, NoMoreWork,
     AcquireReservation, Started, StartRefused, AnnounceStarted, Process, Deliver, WorkerComplains,
     WorkerGivesUp
<1>4. CASE Control \/ UNCHANGED vars
  BY <1>4 DEF producer, Control, Pause, Cancel, Expire, vars
<1> QED BY <1>1, <1>2, <1>3, <1>4 DEF Next

LEMMA WalkStep == WalkOnce /\ [Next]_vars => WalkOnce'
<1> SUFFICES ASSUME WalkOnce, [Next]_vars PROVE WalkOnce'
  OBVIOUS
<1>1. CASE WalkFile
  <2>1. PICK f \in unseen : unseen' = unseen \ {f} /\ window' = window \cup {f} /\ walked' = walked
    BY <1>1 DEF WalkFile
  <2> QED BY <2>1 DEF WalkOnce
<1>2. CASE Dispatch
  <2>1. PICK f \in window : window' = window \ {f} /\ walked' = walked \cup {f} /\ unseen' = unseen
    BY <1>2 DEF Dispatch
  <2> QED BY <2>1 DEF WalkOnce
<1>3. CASE UNCHANGED <<window, walked, unseen>>
  BY <1>3 DEF WalkOnce
<1> QED BY <1>1, <1>2, <1>3, QuietWalk

LEMMA QuietJournal ==
  [Next]_vars => \/ FetchPage \/ Dispatch \/ Persist \/ \E w \in Workers : Started(w)
                 \/ UNCHANGED <<id, job>>
<1>1. Producer => FetchPage \/ Dispatch \/ UNCHANGED <<id, job>>
  BY DEF journal, Producer, ProducerStops, NoPage, AnnounceResumed,
     HandOutResumed, CheckDiscovery, WalkFile, WalkSkip, WalkNotice, WalkEnds, WindowEmpty,
     AnnounceDiscovered, HandOut, FinishDiscovery, AnnounceDiscoveryFinished, ProducerFails,
     JudgeError, Complain, GiveUp
<1>2. Coordinator => Persist \/ UNCHANGED <<id, job>>
  BY DEF journal, Coordinator, Begin, ReceiveResult, ReceiveEvent, IdleFlush, Disconnected,
     SinkResult, SinkEvent, CoordinatorFails, Finish, ReturnOk, ReturnErr
<1>3. \A w \in Workers : Worker(w) => Started(w) \/ UNCHANGED <<id, job>>
  BY DEF journal, Worker, WorkerStops, AcquireBuffer, LookForWork, Receive, NoMoreWork,
     AcquireReservation, StartRefused, AnnounceStarted, Process, Deliver, WorkerComplains,
     WorkerGivesUp
<1>4. Control \/ UNCHANGED vars => UNCHANGED <<id, job>>
  BY DEF journal, Control, Pause, Cancel, Expire, vars
<1> QED BY <1>1, <1>2, <1>3, <1>4 DEF Next

LEMMA IdsKept ==
  ASSUME IdsDense, UNCHANGED id, \A f \in Files : job'[f] = "absent" <=> job[f] = "absent"
  PROVE  IdsDense'
<1>1. Known' = Known
  BY DEF Known
<1> QED BY <1>1 DEF IdsDense

(* A new row gets the number after the last. *)
LEMMA IdsDispatch == ASSUME TypeInv, IdsDense, Dispatch PROVE IdsDense'
<1>0. /\ job \in [Files -> {"absent", "pending", "queued", "running", "done"}] /\ id \in [Files -> Nat]
      /\ window \subseteq Files /\ Known \subseteq Files
  BY DEF TypeInv, JournalType, ProducerType, WindowType, Known
<1>1. PICK g \in window : Schedule(g)
  BY DEF Dispatch
<1>2. CASE job[g] \in {"queued", "running", "done"}
  BY <1>1, <1>2, IdsKept DEF Schedule
<1>3. CASE job[g] = "pending"
  <2>1. id' = [id EXCEPT ![g] = id[g]] /\ job' = [job EXCEPT ![g] = "queued"]
    BY <1>1, <1>3 DEF Schedule
  <2>2. UNCHANGED id /\ \A f \in Files : job'[f] = "absent" <=> job[f] = "absent"
    BY <1>0, <1>3, <2>1
  <2> QED BY <2>2, IdsKept
<1>4. CASE job[g] = "absent"
  <2> DEFINE m == Cardinality(Known)
  <2>1. /\ id' = [id EXCEPT ![g] = m + 1] /\ job' = [job EXCEPT ![g] = "queued"] /\ m < MaxFiles
        /\ g \in Files
    BY <1>0, <1>1, <1>4 DEF Schedule
  <2>2. Known' = Known \cup {g} /\ g \notin Known
    BY <1>0, <1>4, <2>1 DEF Known
  <2>3. IsFiniteSet(Known) /\ m \in Nat
    BY <1>0, Counted
  <2>4. Cardinality(Known') = m + 1
    BY <2>2, <2>3, FS_AddElement
  <2>5. m + 1 <= MaxFiles
    BY <2>1, <2>3, Sizes
  <2>6. \A f \in Files : id'[f] = IF f = g THEN m + 1 ELSE id[f]
    BY <1>0, <2>1
  <2>7. \A f \in Files : id[f] <= m /\ id[f] \in Nat /\ (id[f] = 0 <=> job[f] = "absent")
    BY <1>0 DEF IdsDense
  <2>8. \A f \in Files : id'[f] <= m + 1 /\ (id'[f] = 0 <=> job'[f] = "absent")
    BY <1>0, <2>1, <2>3, <2>6, <2>7
  <2>9. \A f, h \in Known' : id'[f] = id'[h] => f = h
    <3> HIDE DEF m
    <3> SUFFICES ASSUME NEW f \in Known', NEW h \in Known', id'[f] = id'[h] PROVE f = h
      OBVIOUS
    <3>1. f \in Files /\ h \in Files /\ (f # g => f \in Known) /\ (h # g => h \in Known)
      BY <1>0, <2>1, <2>2
    <3>2. id[f] # m + 1 /\ id[h] # m + 1
      BY <2>3, <2>7, <3>1
    <3> QED BY <2>6, <3>1, <3>2 DEF IdsDense
  <2> QED BY <2>4, <2>5, <2>8, <2>9 DEF IdsDense
<1> QED BY <1>0, <1>2, <1>3, <1>4

LEMMA IdsStep == TypeInv /\ IdsDense /\ Unstored /\ [Next]_vars => IdsDense'
<1> SUFFICES ASSUME TypeInv, IdsDense, Unstored, [Next]_vars PROVE IdsDense'
  OBVIOUS
<1>0. job \in [Files -> {"absent", "pending", "queued", "running", "done"}]
  BY DEF TypeInv, JournalType
<1>1. CASE Dispatch
  BY <1>1, IdsDispatch
<1>2. CASE FetchPage
  <2>1. UNCHANGED id /\ \A f \in Files : job'[f] = job[f] \/ (job'[f] = "queued" /\ job[f] = "pending")
    BY <1>2 DEF FetchPage, Beyond, In
  <2> QED BY <2>1, IdsKept
<1>3. ASSUME NEW w \in Workers, Started(w) PROVE IdsDense'
  <2>1. UNCHANGED id /\ \A f \in Files : job'[f] = job[f] \/ (job'[f] = "running" /\ job[f] = "queued")
    BY <1>0, <1>3 DEF Started
  <2> QED BY <2>1, IdsKept
<1>4. CASE Persist
  <2>1. UNCHANGED id /\ \A f \in Files : job'[f] = job[f] \/ (job'[f] = "done" /\ job[f] = "running")
    BY <1>4 DEF Persist, Coordinate, Unstored, InBatch
  <2> QED BY <2>1, IdsKept
<1>5. CASE UNCHANGED <<id, job>>
  BY <1>5, IdsKept
<1> QED BY <1>1, <1>2, <1>3, <1>4, <1>5, QuietJournal

(* What is new to the coordinator was sent just now. *)
LEMMA SentWaits ==
  ASSUME TypeInv, NEW e \in Events, Send(e), NEW f, Waiting(f)'
  PROVE  Waiting(f) \/ (e.kind = "completed" /\ e.file = f)
<1>1. events \in Seq(Events) /\ events' = Append(events, e)
  BY DEF TypeInv, ChannelType, Send
<1>2. PICK n \in DOMAIN events' : events'[n].kind = "completed" /\ events'[n].file = f
  BY DEF Waiting
<1>3. (n \in DOMAIN events /\ events'[n] = events[n]) \/ events'[n] = e
  <2>1. /\ Len(events) \in Nat /\ DOMAIN events = 1..Len(events) /\ DOMAIN events' = 1..Len(events) + 1
        /\ \A k \in 1..Len(events) : events'[k] = events[k]
        /\ events'[Len(events) + 1] = e
    BY <1>1, AddType
  <2> QED BY <2>1
<1> QED BY <1>2, <1>3 DEF Waiting

LEMMA TakenWaits ==
  ASSUME TypeInv, events # << >>, events' = Tail(events), NEW f, Waiting(f)'
  PROVE  Waiting(f)
<1>1. events \in Seq(Events)
  BY DEF TypeInv, ChannelType
<1>2. PICK n \in DOMAIN events' : events'[n].kind = "completed" /\ events'[n].file = f
  BY DEF Waiting
<1>3. n + 1 \in DOMAIN events /\ events'[n] = events[n + 1]
  BY <1>1, TakeType
<1> QED BY <1>2, <1>3 DEF Waiting

(* A result is either on its way or in the batch. *)
LEMMA WaitsOnce ==
  ASSUME TypeInv, Stages, NEW f \in Files, Waiting(f) PROVE ~InBatch(f)
<1> SUFFICES ASSUME InBatch(f) PROVE FALSE
  OBVIOUS
<1>1. PICK k \in 0..3 : Sent(f, k)
  BY DEF Stages
<1>2. PICK n \in DOMAIN events : events[n].kind = "completed" /\ events[n].file = f
  BY DEF Waiting
<1>3. Out(f) = 3 /\ Level(events[n].kind) = 3 /\ About(events[n], f)
  BY <1>2 DEF Out, Level, About
<1> QED BY <1>1, <1>3 DEF Sent, Told

LEMMA UnstoredStep == TypeInv /\ OrderInv /\ Unstored /\ [Next]_vars => Unstored'
<1> SUFFICES ASSUME TypeInv, OrderInv, Unstored, [Next]_vars, cpc' \notin {"failed", "returned"},
                    NEW f \in Files, Waiting(f)' \/ (InBatch(f)' /\ cpc' # "deliver")
             PROVE  job'[f] = "running"
  BY DEF Unstored
<1>0. /\ Passing /\ Stages
      /\ Waiting(f) \/ (InBatch(f) /\ cpc # "deliver") => job[f] = "running"
      /\ job \in [Files -> {"absent", "pending", "queued", "running", "done"}]
      /\ events \in Seq(Events) /\ batch \in Seq(Files)
  BY StillOn DEF OrderInv, Unstored, TypeInv, JournalType, ChannelType, CoordinatorType
<1>1. CASE ~Coordinator /\ (Waiting(f) \/ (InBatch(f) /\ cpc # "deliver"))
  <2>1. job[f] = "running"
    BY <1>0, <1>1
  <2>2. CASE FetchPage
    BY <1>0, <2>1, <2>2 DEF FetchPage, Beyond, In
  <2>3. CASE Dispatch
    BY <1>0, <2>1, <2>3 DEF Dispatch, Schedule
  <2>4. ASSUME NEW w \in Workers, Started(w) PROVE job'[f] = "running"
    BY <1>0, <2>1, <2>4 DEF Started
  <2> QED BY <1>1, <2>1, <2>2, <2>3, <2>4, QuietJournal DEF Coordinator
<1>2. CASE ~Coordinator /\ ~(Waiting(f) \/ (InBatch(f) /\ cpc # "deliver"))
  <2>1. UNCHANGED <<batch, cpc>>
    BY <1>2, QuietThreads DEF Next, Control, Pause, Cancel, Expire, vars, coordinator
  <2>2. ~Waiting(f) /\ Waiting(f)'
    BY <1>2, <2>1 DEF InBatch
  <2>3. \E w \in Workers : Deliver(w)
    <3>1. \A e \in Events : Send(e) => e.kind = "completed"
      BY <2>2, SentWaits
    <3>2. ~UNCHANGED events
      BY <2>2 DEF Waiting
    <3>3. Producer => UNCHANGED events \/ \E e \in Events : Send(e) /\ e.kind # "completed"
      <4>1. ppc = "resume" => Event("resumed", Head(page)) \in Events
        <5>1. ppc = "resume" => Head(page) \in Files
          BY TakeType DEF TypeInv, ProducerType, PageType
        <5> QED BY <5>1 DEF Event, Events, Kinds, Level
      <4>2. ppc = "announce" => Event("discovered", pfile) \in Events
        <5>1. ppc = "announce" => pfile \in Files
          BY HeldFiles
        <5> QED BY <5>1 DEF Event, Events, Kinds, Level
      <4>3. Event("notice", NoFile) \in Events /\ Event("closed", NoFile) \in Events
        BY DEF Event, Events, Kinds, Level
      <4> QED
        BY <4>1, <4>2, <4>3 DEF Producer, ProducerStops, FetchPage, NoPage, AnnounceResumed, Produce, Event,
           HandOutResumed, CheckDiscovery, WalkFile, WalkSkip, WalkNotice, WalkEnds, Dispatch, WindowEmpty,
           AnnounceDiscovered, HandOut, FinishDiscovery, AnnounceDiscoveryFinished, ProducerFails,
           JudgeError, Complain, GiveUp
    <3>4. \A w \in Workers : Worker(w) =>
            Deliver(w) \/ UNCHANGED events \/ \E e \in Events : Send(e) /\ e.kind # "completed"
      <4> SUFFICES ASSUME NEW w \in Workers, Worker(w)
                   PROVE  Deliver(w) \/ UNCHANGED events \/ \E e \in Events : Send(e) /\ e.kind # "completed"
        OBVIOUS
      <4>1. wpc[w] = "announce" => wfile[w] \in Files
        BY HeldFiles DEF Leasing
      <4>2. /\ wpc[w] = "announce" => Event("started", wfile[w]) \in Events
            /\ Event("notice", wfile[w]) \in Events
        BY <4>1 DEF Event, Events, Kinds, Level, TypeInv, WorkerType
      <4> QED BY <4>2 DEF Worker, WorkerStops, AcquireBuffer, LookForWork, Receive, NoMoreWork,
        AcquireReservation, Started, StartRefused, AnnounceStarted, Process, WorkerComplains,
        WorkerGivesUp, Working, Event
    <3>5. Control \/ UNCHANGED vars => UNCHANGED events
      BY DEF Control, Pause, Cancel, Expire, vars
    <3> QED BY <1>2, <3>1, <3>2, <3>3, <3>4, <3>5 DEF Next
  <2>4. PICK w \in Workers : Deliver(w)
    BY <2>3
  <2>5. PICK g \in Files : wfile[w] = g /\ wpc[w] = "deliver" /\ Send(Event("completed", g)) /\ UNCHANGED job
    BY <2>4, HeldFiles DEF Deliver, Working, Leasing, journal
  <2>6. Event("completed", g) \in Events
    BY DEF Event, Events, Kinds, Level
  <2>7. f = g
    BY <2>2, <2>5, <2>6, SentWaits DEF Event
  <2> QED BY <1>0, <2>5, <2>7 DEF Stages, Claim
<1>3. CASE Coordinator
  <2>1. CASE ReceiveResult
    <3>1. /\ events # << >> /\ events' = Tail(events) /\ batch' = Append(batch, Head(events).file)
          /\ Head(events).kind = "completed" /\ UNCHANGED job /\ cpc = "recv"
      BY <2>1 DEF ReceiveResult, journal
    <3>2. PICK g \in Files : Head(events).file = g /\ Head(events) = events[1] /\ 1 \in DOMAIN events
      BY <1>0, <3>1, TakeType, Levels
    <3>3. Waiting(g)
      BY <3>1, <3>2 DEF Waiting
    <3>4. InBatch(f)' => InBatch(f) \/ f = g
      <4>1. /\ Len(batch) \in Nat /\ DOMAIN batch = 1..Len(batch) /\ DOMAIN batch' = 1..Len(batch) + 1
            /\ \A n \in 1..Len(batch) : batch'[n] = batch[n]
            /\ batch'[Len(batch) + 1] = g
        BY <1>0, <3>1, <3>2, AddType
      <4> QED BY <4>1 DEF InBatch
    <3>5. Waiting(f)' => Waiting(f)
      BY <3>1, TakenWaits
    <3> QED BY <1>0, <3>1, <3>3, <3>4, <3>5
  <2>2. CASE ReceiveEvent
    <3>1. events # << >> /\ events' = Tail(events) /\ UNCHANGED <<batch, job>> /\ cpc = "recv"
      BY <2>2 DEF ReceiveEvent, journal
    <3>2. Waiting(f)' => Waiting(f)
      BY <3>1, TakenWaits
    <3> QED BY <1>0, <3>1, <3>2 DEF InBatch
  <2>3. CASE Persist
    <3>1. /\ cpc' = "deliver" /\ UNCHANGED events
          /\ job' = [g \in Files |-> IF \E n \in DOMAIN batch : batch[n] = g THEN "done" ELSE job[g]]
      BY <2>3 DEF Persist, Coordinate
    <3>2. Waiting(f)
      BY <3>1 DEF Waiting
    <3>3. ~InBatch(f)
      BY <1>0, <3>2, WaitsOnce
    <3> QED BY <1>0, <3>1, <3>2, <3>3 DEF InBatch
  <2>4. CASE SinkResult
    <3>1. /\ batch' = Tail(batch) /\ batch # << >> /\ UNCHANGED <<events, job>>
          /\ cpc' = IF Len(batch) = 1 THEN then ELSE "deliver"
      BY <2>4 DEF SinkResult, journal, TypeInv, CoordinatorType
    <3>2. Waiting(f)
      <4>1. InBatch(f)' => Len(batch) # 1
        BY <1>0, <3>1, TakeType DEF InBatch
      <4> QED BY <3>1, <4>1 DEF Waiting
    <3> QED BY <1>0, <3>1, <3>2
  <2>5. CASE Begin \/ IdleFlush \/ Disconnected \/ SinkEvent \/ Finish
    <3>1. UNCHANGED <<events, batch, job>> /\ cpc # "deliver"
      BY <2>5 DEF Begin, IdleFlush, Disconnected, SinkEvent, Finish, Coordinate, journal
    <3> QED BY <1>0, <3>1 DEF Waiting, InBatch
  <2> QED BY <1>3, <2>1, <2>2, <2>3, <2>4, <2>5
          DEF Coordinator, CoordinatorFails, ReturnOk, ReturnErr, Coordinate
<1> QED BY <1>1, <1>2, <1>3

LEMMA JournalInit == Init => JournalInv
<1> SUFFICES ASSUME Init PROVE JournalInv
  OBVIOUS
<1>1. ReachKept /\ WalkOnce /\ Unstored
  BY DEF Init, ReachKept, WalkOnce, Unstored, Waiting, InBatch
<1>2. IdsDense
  <2>1. Cardinality(Known) \in Nat
    BY Counted DEF Known
  <2> QED BY <2>1 DEF Init, IdsDense
<1> QED BY <1>1, <1>2 DEF JournalInv

LEMMA JournalStep == TypeInv /\ OrderInv /\ JournalInv /\ [Next]_vars => JournalInv'
BY ReachStep, WalkStep, IdsStep, UnstoredStep DEF JournalInv

-----------------------------------------------------------------------------
(* The steps, one by one.  There is one invocation, which runs until        *)
(* Finished is stored.                                                      *)
LEMMA OneRun ==
  ASSUME NEW x, NEW y
  PROVE  ByRun(x)["run"] = x /\ [ByRun(x) EXCEPT !["run"] = y] = ByRun(y)
BY DEF ByRun

(* The journal counts as the pipeline does. *)
LEMMA OneCount == ASSUME NEW S PROVE Journal!Cardinality(S) = Cardinality(S)
BY DEF Cardinality, Journal!Cardinality

LEMMA FollowQuiet ==
  ASSUME UNCHANGED <<id, job, discoveryDone, status, Over, Phase, cpc = "returned">>,
         ~Over => UNCHANGED <<after, walked, Reason>>
  PROVE  UNCHANGED Journal!vars
BY DEF Journal!vars, Journal!durable, Journal!local, Result, In, ByRun

LEMMA FollowNoPage ==
  ASSUME TypeInv, ReachKept, ~Over, NoPage PROVE Journal!EndPending("run")
<1>1. /\ reach = "pending" /\ reach' = "check" /\ Beyond = {}
      /\ UNCHANGED <<cpc, stop, late, id, job, discoveryDone, status, after, walked>>
  BY DEF NoPage, Produce, ReachKept, control, coordinator, journal
<1>2. \A f \in Journal!In("pending") : id[f] <= after
  BY <1>1 DEF Beyond, In, Journal!In, TypeInv, JournalType, ProducerType, WalkType
<1>3. /\ Phase = "pending" /\ Phase' = "check" /\ Over' = Over /\ cpc # "returned"
      /\ UNCHANGED <<In("queued"), In("running"), Reason, Result>>
  BY <1>1 DEF Phase, Over, In, Reason, Result
<1> QED BY <1>1, <1>2, <1>3, OneRun DEF Journal!EndPending, Journal!Current, Journal!durable

LEMMA FollowCheckDiscovery ==
  ASSUME TypeInv, ReachKept, ~Over, CheckDiscovery PROVE Journal!CheckDiscovery("run")
<1>1. /\ reach = "check" /\ reach' = IF discoveryDone THEN "drained" ELSE "walk"
      /\ UNCHANGED <<cpc, stop, late, id, job, discoveryDone, status, after, walked>>
  BY DEF CheckDiscovery, Produce, ReachKept, control, coordinator, journal
<1>3. /\ Phase = "check" /\ Phase' = reach' /\ Over' = Over /\ cpc # "returned"
      /\ UNCHANGED <<In("queued"), In("running"), Reason, Result>>
  BY <1>1 DEF Phase, Over, In, Reason, Result
<1> QED BY <1>1, <1>3, OneRun DEF Journal!CheckDiscovery, Journal!Current, Journal!durable

LEMMA FollowFinishDiscovery ==
  ASSUME TypeInv, ReachKept, ~Over, FinishDiscovery PROVE Journal!FinishDiscovery("run")
<1>1. /\ reach = "walk" /\ reach' = "drained" /\ discoveryDone' = TRUE
      /\ UNCHANGED <<cpc, stop, late, id, job, status, after, walked>>
  BY DEF FinishDiscovery, Produce, ReachKept, control, coordinator, journal
<1>3. /\ Phase = "walk" /\ Phase' = "drained" /\ Over' = Over /\ cpc # "returned"
      /\ UNCHANGED <<In("queued"), In("running"), Reason, Result>>
  BY <1>1 DEF Phase, Over, In, Reason, Result
<1> QED BY <1>1, <1>3, OneRun DEF Journal!FinishDiscovery, Journal!Current

LEMMA FollowProducerFails ==
  ASSUME TypeInv, ReachKept, ~Over, ProducerFails PROVE Journal!Halt("run")
<1>1. /\ reach \in {"pending", "check", "walk"} /\ reach' = "halted"
      /\ UNCHANGED <<cpc, stop, late, id, job, discoveryDone, status, after, walked>>
  BY DEF ProducerFails, AtLimit, ReachKept, control, coordinator, journal
<1>3. /\ Phase = reach /\ Phase' = reach' /\ Over' = Over /\ cpc # "returned"
      /\ UNCHANGED <<In("queued"), In("running"), Reason, Result>>
  BY <1>1 DEF Phase, Over, In, Reason, Result
<1> QED BY <1>1, <1>3, OneRun DEF Journal!Halt, Journal!durable

(* A stop is the invocation's while it runs, and may come again.            *)
LEMMA FollowStop ==
  ASSUME TypeInv, ~Over, UNCHANGED <<Over, Phase, id, job, discoveryDone, status, after, walked, cpc = "returned">>,
         \/ stop = "none" /\ stop' = "paused" /\ late' = late
         \/ stop' = "cancelled" /\ late' = late
         \/ late' = TRUE /\ stop' = stop
  PROVE  (\E reason \in Journal!StopReasons : Journal!Request("run", reason)) \/ UNCHANGED Journal!vars
<1>1. /\ Phase \in Journal!RunningPhases /\ cpc # "returned"
      /\ UNCHANGED <<In("queued"), In("running"), Result>>
  BY DEF Phase, Over, In, Result, TypeInv, ProducerType, WalkType, Journal!RunningPhases
<1>2. CASE Reason' = Reason
  BY <1>2, FollowQuiet
<1>3. CASE Reason' # Reason
  <2>1. /\ Reason' \in Journal!StopReasons
        /\ \/ Reason = "none"
           \/ Reason = "deadline" /\ Reason' = "paused"
           \/ Reason # "cancelled" /\ Reason' = "cancelled"
    BY <1>3 DEF Reason, Journal!StopReasons, TypeInv, ControlType
  <2>2. Journal!Request("run", Reason')
    BY <1>1, <2>1, OneRun DEF Journal!Request, Journal!Running, Journal!durable
  <2> QED BY <2>1, <2>2
<1> QED BY <1>2, <1>3

(* A page is a set of pending tasks that the transaction marks. *)
LEMMA FollowFetchPage ==
  ASSUME TypeInv, ReachKept, ~Over, FetchPage PROVE Journal!TakePending("run")
<1>0. job \in [Files -> {"absent", "pending", "queued", "running", "done"}] /\ id \in [Files -> Nat]
  BY DEF TypeInv, JournalType
<1>1. PICK n \in 1..PageSize : \E tasks \in [1..n -> Beyond] :
        /\ \A j, k \in 1..n : j < k => id[tasks[j]] < id[tasks[k]]
        /\ \A f \in {tasks[k] : k \in 1..n}, g \in Beyond \ {tasks[k] : k \in 1..n} : id[f] < id[g]
        /\ n = PageSize \/ {tasks[k] : k \in 1..n} = Beyond
        /\ job' = [f \in Files |-> IF f \in {tasks[k] : k \in 1..n} THEN "queued" ELSE job[f]]
        /\ after' = id[tasks[n]]
  BY DEF FetchPage
<1>2. PICK tasks \in [1..n -> Beyond] :
        /\ \A j, k \in 1..n : j < k => id[tasks[j]] < id[tasks[k]]
        /\ \A f \in {tasks[k] : k \in 1..n}, g \in Beyond \ {tasks[k] : k \in 1..n} : id[f] < id[g]
        /\ n = PageSize \/ {tasks[k] : k \in 1..n} = Beyond
        /\ job' = [f \in Files |-> IF f \in {tasks[k] : k \in 1..n} THEN "queued" ELSE job[f]]
        /\ after' = id[tasks[n]]
  BY <1>1
<1> DEFINE taken == {tasks[k] : k \in 1..n}
           last == tasks[n]
<1>3. /\ reach = "pending" /\ UNCHANGED <<cpc, reach, stop, late, id, discoveryDone, status, walked>>
  BY DEF FetchPage, Produce, ReachKept, control, coordinator
<1>4. /\ taken \subseteq Beyond /\ Beyond \subseteq Files /\ last \in taken
      /\ n \in Nat /\ n >= 1 /\ n <= PageSize /\ n \in 1..n
      /\ \A f \in Beyond : job[f] = "pending"
  BY <1>2, Sizes DEF Beyond, In
<1>5. \A k \in 1..n : tasks[k] \in Files /\ id[tasks[k]] \in Nat
  BY <1>0, <1>4
<1>6. IsFiniteSet(taken) /\ Cardinality(taken) = n
  <2>1. tasks \in [1..n -> taken]
    BY <1>2
  <2>2. \A j, k \in 1..n : tasks[j] = tasks[k] => j = k
    <3> SUFFICES ASSUME NEW j \in 1..n, NEW k \in 1..n, tasks[j] = tasks[k], j # k PROVE FALSE
      OBVIOUS
    <3>1. j < k \/ k < j
      OBVIOUS
    <3>2. id[tasks[j]] < id[tasks[k]] \/ id[tasks[k]] < id[tasks[j]]
      BY <1>2, <3>1
    <3> QED BY <1>5, <3>2
  <2>3. tasks \in Bijection(1..n, taken)
    BY <2>1, <2>2 DEF Bijection, Injection, Surjection, IsInjective
  <2>4. IsFiniteSet(1..n) /\ Cardinality(1..n) = n
    BY <1>4, FS_Interval
  <2>5. ExistsBijection(1..n, taken)
    BY <2>3 DEF ExistsBijection
  <2> HIDE DEF taken
  <2> QED BY <2>4, <2>5, FS_Bijection
<1>7. \A f \in taken : id[f] <= id[last]
  <2> SUFFICES ASSUME NEW k \in 1..n PROVE id[tasks[k]] <= id[last]
    OBVIOUS
  <2>1. k = n \/ k < n
    BY <1>4
  <2> QED BY <1>2, <1>4, <1>5, <2>1
<1>8. /\ \A f \in taken, g \in Beyond \ taken : id[f] < id[g]
      /\ n = PageSize \/ taken = Beyond
      /\ job' = [f \in Files |-> IF f \in taken THEN "queued" ELSE job[f]]
      /\ after' = id[last]
  BY <1>2
<1> HIDE DEF taken, last
<1>9. /\ In("queued")' = In("queued") \cup taken /\ In("running")' = In("running")
      /\ Result' = Result
  <2>1. \A f \in Files : /\ job'[f] = "queued" <=> job[f] = "queued" \/ f \in taken
                         /\ job'[f] = "running" <=> job[f] = "running"
                         /\ job'[f] = "done" <=> job[f] = "done"
    BY <1>4, <1>8
  <2> QED BY <1>4, <2>1 DEF In, Result
<1>10. /\ Phase = "pending" /\ Phase' = Phase /\ ~Over' /\ cpc # "returned" /\ cpc' # "returned" /\ Reason' = Reason
  BY <1>3 DEF Phase, Over, Reason
<1>11. Beyond = {f \in Journal!In("pending") : id[f] > after}
  BY DEF Beyond, In, Journal!In
<1>12. Cardinality(taken) = PageSize \/ (taken = Beyond /\ Cardinality(taken) < PageSize)
  BY <1>4, <1>6, <1>8, Sizes
<1> HIDE DEF Beyond
<1>13. /\ ByRun(IF Over THEN {} ELSE In("queued"))'
            = [ByRun(IF Over THEN {} ELSE In("queued")) EXCEPT !["run"] = @ \cup taken]
       /\ ByRun(IF Over THEN 0 ELSE after)' = [ByRun(IF Over THEN 0 ELSE after) EXCEPT !["run"] = id[last]]
       /\ ByRun(IF Over THEN 0 ELSE after)["run"] = after
  BY <1>8, <1>9, <1>10, OneRun
<1>14. /\ UNCHANGED <<ByRun(IF Over THEN {} ELSE In("running")), ByRun(IF Over THEN {} ELSE walked), ByRun(Phase),
                      ByRun(IF cpc = "returned" THEN 0 ELSE 1), ByRun(IF Over THEN "none" ELSE Reason)>>
       /\ ByRun(Phase)["run"] = "pending" /\ ByRun(IF cpc = "returned" THEN 0 ELSE 1)["run"] = 1
  BY <1>3, <1>9, <1>10, OneRun
<1>15. Beyond = {f \in Journal!In("pending") : id[f] > ByRun(IF Over THEN 0 ELSE after)["run"]}
  BY <1>11, <1>13
<1>16. \E some \in SUBSET Beyond :
         /\ some # {}
         /\ \A f \in some : \A g \in Beyond \ some : id[f] < id[g]
         /\ Journal!Cardinality(some) = PageSize \/ (some = Beyond /\ Journal!Cardinality(some) < PageSize)
         /\ job' = [f \in Files |-> IF f \in some THEN "queued" ELSE job[f]]
         /\ ByRun(IF Over THEN {} ELSE In("queued"))'
              = [ByRun(IF Over THEN {} ELSE In("queued")) EXCEPT !["run"] = @ \cup some]
         /\ \E f \in some :
              /\ \A g \in some : id[g] <= id[f]
              /\ ByRun(IF Over THEN 0 ELSE after)' = [ByRun(IF Over THEN 0 ELSE after) EXCEPT !["run"] = id[f]]
  BY <1>4, <1>7, <1>8, <1>12, <1>13, OneCount
<1> QED
  BY <1>3, <1>9, <1>14, <1>15, <1>16 DEF Journal!TakePending, Journal!Current

(* The row with the highest number. *)
LEMMA TopRow ==
  ASSUME TypeInv, IdsDense, Cardinality(Known) > 0
  PROVE  \E g \in Files : id[g] = Cardinality(Known)
<1> DEFINE m == Cardinality(Known)
           number == [f \in Known |-> id[f]]
<1>1. IsFiniteSet(Known) /\ m \in Nat /\ Known \subseteq Files /\ id \in [Files -> Nat]
  BY Counted DEF Known, TypeInv, JournalType
<1>2. \A f \in Known : id[f] \in 1..m
  BY <1>1 DEF IdsDense, Known
<1>3. number \in Injection(Known, 1..m)
  BY <1>2 DEF IdsDense, Injection, IsInjective
<1>4. IsFiniteSet(1..m) /\ Cardinality(1..m) = m
  <2>1. IsFiniteSet(1..m) /\ Cardinality(1..m) = IF 1 > m THEN 0 ELSE m - 1 + 1
    BY <1>1, FS_Interval
  <2> QED BY <1>1, <2>1
<1>5. number \in Surjection(Known, 1..m)
  <2> HIDE DEF number
  <2>1. Cardinality(Known) = Cardinality(1..m)
    BY <1>4
  <2> QED BY <1>3, <1>4, <2>1, FS_Injection
<1>6. m \in 1..m
  BY <1>1
<1> QED BY <1>1, <1>5, <1>6 DEF Surjection

(* schedule, of a file that the walk yields for the first time. *)
LEMMA FollowDispatch ==
  ASSUME TypeInv, ReachKept, WalkOnce, IdsDense, ~Over, Dispatch
  PROVE  \E f \in Files : Journal!Schedule("run", f)
<1>0. /\ job \in [Files -> {"absent", "pending", "queued", "running", "done"}] /\ id \in [Files -> Nat]
      /\ window \subseteq Files
  BY DEF TypeInv, JournalType, ProducerType, WindowType
<1>1. PICK g \in window : walked' = walked \cup {g} /\ Schedule(g)
  BY DEF Dispatch
<1>2. /\ g \in Files /\ g \notin walked /\ reach = "walk"
      /\ UNCHANGED <<cpc, reach, stop, late, discoveryDone, status, after>>
  BY <1>0 DEF Dispatch, WalkOnce, ReachKept, control, coordinator
<1>3. /\ Phase = "walk" /\ Phase' = Phase /\ ~Over' /\ cpc # "returned" /\ cpc' # "returned" /\ Reason' = Reason
  BY <1>2 DEF Phase, Over, Reason
<1>4. /\ ByRun(Phase)["run"] = "walk" /\ ByRun(IF cpc = "returned" THEN 0 ELSE 1)["run"] = 1
      /\ g \notin ByRun(IF Over THEN {} ELSE walked)["run"]
      /\ ByRun(IF Over THEN {} ELSE walked)' = [ByRun(IF Over THEN {} ELSE walked) EXCEPT !["run"] = @ \cup {g}]
      /\ UNCHANGED <<ByRun(Phase), ByRun(IF cpc = "returned" THEN 0 ELSE 1), ByRun(IF Over THEN 0 ELSE after),
                     ByRun(IF Over THEN "none" ELSE Reason)>>
  BY <1>1, <1>2, <1>3, OneRun
<1>5. CASE job[g] \in {"queued", "running", "done"}
  <2>1. UNCHANGED <<id, job>>
    BY <1>1, <1>5 DEF Schedule
  <2>2. UNCHANGED <<Result, ByRun(IF Over THEN {} ELSE In("running")), ByRun(IF Over THEN {} ELSE In("queued"))>>
    BY <1>3, <2>1 DEF Result, In
  <2>3. Journal!Skip(g)
    BY <1>5, <2>1, <2>2 DEF Journal!Skip
  <2> QED BY <1>2, <1>4, <2>2, <2>3 DEF Journal!Schedule, Journal!Current
<1>6. CASE job[g] \in {"pending", "absent"}
  <2> DEFINE m == Cardinality(Known)
  <2>1. /\ job[g] = "pending" \/ m < MaxFiles
        /\ id' = [id EXCEPT ![g] = IF job[g] = "pending" THEN @ ELSE m + 1]
        /\ job' = [job EXCEPT ![g] = "queued"]
    BY <1>1, <1>6 DEF Schedule
  <2>2. /\ In("queued")' = In("queued") \cup {g} /\ In("running")' = In("running")
        /\ Result' = Result
    <3>1. \A f \in Files : job'[f] = IF f = g THEN "queued" ELSE job[f]
      BY <1>0, <2>1
    <3> QED BY <1>2, <1>6, <3>1 DEF In, Result
  <2>3. /\ m \in Nat /\ m <= MaxFiles /\ MaxFiles \in Nat
        /\ \A f \in Files : id[f] <= m
        /\ m = 0 \/ \E f \in Files : id[f] = m
    <3>1. m \in Nat
      BY Counted DEF Known
    <3>2. m > 0 => \E f \in Files : id[f] = m
      BY TopRow
    <3> QED BY <3>1, <3>2, Sizes DEF IdsDense
  <2> HIDE DEF m
  <2>4. \E next \in 1..MaxFiles + 1 :
          /\ \A f \in Files : id[f] < next
          /\ next = 1 \/ \E f \in Files : id[f] = next - 1
          /\ id' = [id EXCEPT ![g] = IF job[g] = "pending" THEN @ ELSE next]
    <3>1. m + 1 \in 1..MaxFiles + 1 /\ (m + 1) - 1 = m
      BY <2>3
    <3>2. \A f \in Files : id[f] < m + 1
      BY <1>0, <2>3
    <3>3. m + 1 = 1 \/ \E f \in Files : id[f] = (m + 1) - 1
      BY <2>3, <3>1
    <3> DEFINE k == m + 1
    <3>4. /\ k \in 1..MaxFiles + 1 /\ \A f \in Files : id[f] < k
          /\ k = 1 \/ \E f \in Files : id[f] = k - 1
          /\ id' = [id EXCEPT ![g] = IF job[g] = "pending" THEN @ ELSE k]
      BY <2>1, <3>1, <3>2, <3>3
    <3> HIDE DEF k
    <3> QED BY <3>4
  <2>5. job[g] = "pending" \/ (job[g] = "absent" /\ Journal!Cardinality(Journal!Known) < MaxFiles)
    <3>1. Journal!Known = Known
      BY DEF Journal!Known, Known
    <3> QED BY <1>6, <2>1, <3>1, OneCount DEF m
  <2>6. /\ ByRun(IF Over THEN {} ELSE In("queued"))'
             = [ByRun(IF Over THEN {} ELSE In("queued")) EXCEPT !["run"] = @ \cup {g}]
        /\ UNCHANGED <<Result, ByRun(IF Over THEN {} ELSE In("running"))>>
    BY <1>3, <2>2, OneRun
  <2>7. Journal!Take("run", g)
    BY <2>1, <2>4, <2>5, <2>6 DEF Journal!Take
  <2> QED BY <1>2, <1>4, <2>6, <2>7 DEF Journal!Schedule, Journal!Current
<1> QED BY <1>0, <1>2, <1>5, <1>6

LEMMA FollowStarted ==
  ASSUME TypeInv, ~Over, NEW w \in Workers, Started(w)
  PROVE  \E f \in Files : Journal!Started("run", f)
<1>0. /\ job \in [Files -> {"absent", "pending", "queued", "running", "done"}]
      /\ reach \in {"pending", "check", "walk", "drained", "halted"}
  BY DEF TypeInv, JournalType, ProducerType, WalkType
<1>1. PICK g \in Files : wfile[w] = g
  BY HeldFiles DEF Started, Working, Leasing
<1>2. /\ job[g] = "queued" /\ job' = [job EXCEPT ![g] = "running"]
      /\ UNCHANGED <<cpc, reach, stop, late, id, discoveryDone, status, after, walked>>
  BY <1>1 DEF Started, control, producer, coordinator
<1>3. /\ In("queued")' = In("queued") \ {g} /\ In("running")' = In("running") \cup {g}
      /\ Result' = Result /\ g \in In("queued")
  <2>1. \A f \in Files : job'[f] = IF f = g THEN "running" ELSE job[f]
    BY <1>0, <1>2
  <2> QED BY <1>2, <2>1 DEF In, Result
<1>4. /\ Phase \in Journal!RunningPhases /\ Phase' = Phase /\ ~Over' /\ cpc # "returned" /\ cpc' # "returned"
      /\ Reason' = Reason
  BY <1>0, <1>2 DEF Phase, Over, Reason, Journal!RunningPhases
<1>5. /\ ByRun(Phase)["run"] \in Journal!RunningPhases /\ ByRun(IF cpc = "returned" THEN 0 ELSE 1)["run"] = 1
      /\ g \in ByRun(IF Over THEN {} ELSE In("queued"))["run"]
      /\ ByRun(IF Over THEN {} ELSE In("queued"))'
           = [ByRun(IF Over THEN {} ELSE In("queued")) EXCEPT !["run"] = @ \ {g}]
      /\ ByRun(IF Over THEN {} ELSE In("running"))'
           = [ByRun(IF Over THEN {} ELSE In("running")) EXCEPT !["run"] = @ \cup {g}]
      /\ UNCHANGED <<Result, ByRun(Phase), ByRun(IF cpc = "returned" THEN 0 ELSE 1), ByRun(IF Over THEN 0 ELSE after),
                     ByRun(IF Over THEN {} ELSE walked), ByRun(IF Over THEN "none" ELSE Reason)>>
  BY <1>2, <1>3, <1>4, OneRun
<1> QED BY <1>2, <1>5 DEF Journal!Started, Journal!Running, Journal!Current

(* The batch is of tasks that were started: none is stored twice. *)
LEMMA FollowPersist ==
  ASSUME TypeInv, Unstored, ~Over, Persist
  PROVE  \E stored \in SUBSET Files : Journal!PersistBatch("run", stored)
<1> DEFINE stored == {f \in Files : InBatch(f)}
<1>0. /\ job \in [Files -> {"absent", "pending", "queued", "running", "done"}]
      /\ reach \in {"pending", "check", "walk", "drained", "halted"}
  BY DEF TypeInv, JournalType, ProducerType, WalkType
<1>1. /\ cpc = "persist" /\ cpc' = "deliver" /\ batch \in Seq(Files) /\ batch # << >>
      /\ job' = [f \in Files |-> IF f \in stored THEN "done" ELSE job[f]]
      /\ UNCHANGED <<reach, stop, late, id, discoveryDone, status, after, walked>>
  BY DEF Persist, Coordinate, control, producer, TypeInv, CoordinatorType, InBatch
<1>2. stored # {}
  <2>1. 1 \in DOMAIN batch /\ batch[1] \in Files
    BY <1>1, TakeType
  <2> QED BY <2>1 DEF InBatch
<1>3. \A f \in stored : job[f] = "running"
  BY <1>1 DEF Unstored
<1> HIDE DEF stored
<1>4. stored \subseteq Files
  BY DEF stored
<1>5. /\ In("queued")' = In("queued") /\ In("running")' = In("running") \ stored /\ stored \subseteq In("running")
      /\ Result' = [f \in Files |-> IF f \in stored THEN 1 ELSE Result[f]]
  <2>1. \A f \in Files : job'[f] = IF f \in stored THEN "done" ELSE job[f]
    BY <1>1
  <2>2. Result' = [f \in Files |-> IF f \in stored THEN 1 ELSE Result[f]]
    BY <2>1 DEF Result
  <2> QED BY <1>3, <1>4, <2>1, <2>2 DEF In
<1>6. /\ Phase \in Journal!RunningPhases /\ Phase' = Phase /\ ~Over' /\ cpc # "returned" /\ cpc' # "returned"
      /\ Reason' = Reason
  BY <1>0, <1>1 DEF Phase, Over, Reason, Journal!RunningPhases
<1>7. /\ ByRun(Phase)["run"] \in Journal!RunningPhases /\ ByRun(IF cpc = "returned" THEN 0 ELSE 1)["run"] = 1
      /\ stored \subseteq ByRun(IF Over THEN {} ELSE In("running"))["run"]
      /\ ByRun(IF Over THEN {} ELSE In("running"))'
           = [ByRun(IF Over THEN {} ELSE In("running")) EXCEPT !["run"] = @ \ stored]
      /\ UNCHANGED <<ByRun(IF Over THEN {} ELSE In("queued")), ByRun(Phase), ByRun(IF cpc = "returned" THEN 0 ELSE 1),
                     ByRun(IF Over THEN 0 ELSE after), ByRun(IF Over THEN {} ELSE walked),
                     ByRun(IF Over THEN "none" ELSE Reason)>>
  BY <1>1, <1>5, <1>6, OneRun
<1>8. \A f \in stored : job[f] # "absent"
  BY <1>3
<1>9. Journal!PersistBatch("run", stored)
  BY <1>1, <1>2, <1>5, <1>7, <1>8 DEF Journal!PersistBatch, Journal!Running, Journal!Current
<1> QED BY <1>4, <1>9

(* Without a stop the threads end only when nothing is left to do.          *)
LEMMA FollowFinish ==
  ASSUME TypeInv, EndInv, ReachKept, Finish PROVE Journal!Finished("run")
<1>0. /\ job \in [Files -> {"absent", "pending", "queued", "running", "done"}]
      /\ reach \in {"pending", "check", "walk", "drained", "halted"}
      /\ stop \in {"none", "paused", "cancelled"}
  BY DEF TypeInv, JournalType, ProducerType, WalkType, ControlType
<1>1. /\ cpc = "join" /\ cpc' = "closing" /\ batch = << >> /\ ThreadsJoined /\ events = << >>
      /\ status' = IF Stopping THEN Reason ELSE "completed"
      /\ UNCHANGED <<id, job, discoveryDone>>
  BY DEF Finish, Coordinate, TypeInv, CoordinatorType, EndInv, Ending, LastCalls
<1>2. Reason = "none" => reach = "drained" /\ In("queued") = {} /\ In("running") = {}
  <2> SUFFICES ASSUME Reason = "none"
               PROVE  reach = "drained" /\ \A f \in Files : job[f] \notin {"queued", "running"}
    BY DEF In
  <2>1. Running /\ Kept /\ ppc = "done"
    BY <1>1 DEF Running, Stopping, EndInv, ThreadsJoined
  <2>2. jobs = << >> /\ page = << >>
    BY <1>1, <2>1, PipelineAssumption DEF Kept, ProducerKept, ThreadsJoined
  <2>3. \A f \in Files : ~InPage(f) /\ ~InJobs(f) /\ ~Held(f) /\ ~Waiting(f) /\ ~InBatch(f)
    <3>1. \A w \in Workers : wfile[w] \notin Files
      BY <1>1, HeldFiles DEF ThreadsJoined, Leasing
    <3> QED BY <1>1, <2>2, <3>1 DEF InPage, InJobs, Held, Waiting, InBatch
  <2> QED BY <2>1, <2>3 DEF Kept, QueuedKept, RunningKept, ReachKept
<1>3. /\ Phase = reach /\ Phase' = "closing" /\ ~Over /\ Over' /\ cpc # "returned" /\ cpc' # "returned"
      /\ status' = IF Reason = "none" THEN "completed" ELSE Reason
      /\ Result' = Result
  BY <1>1 DEF Phase, Over, Stopping, Result
<1>4. /\ ByRun(Phase)["run"] = reach /\ reach \in Journal!RunningPhases
      /\ ByRun(IF cpc = "returned" THEN 0 ELSE 1)["run"] = 1
      /\ ByRun(IF Over THEN "none" ELSE Reason)["run"] = Reason
      /\ ByRun(IF Over THEN {} ELSE In("queued"))["run"] = In("queued")
      /\ ByRun(IF Over THEN {} ELSE In("running"))["run"] = In("running")
  BY <1>0, <1>3, OneRun DEF Journal!RunningPhases
<1>5. Journal!Enter("run", "closing", 1)
  BY <1>3, OneRun DEF Journal!Enter
<1>6. Journal!Joined("run")
  BY <1>2, <1>4 DEF Journal!Joined
<1> QED BY <1>1, <1>3, <1>4, <1>5, <1>6 DEF Journal!Finished, Journal!Running, Journal!Current

LEMMA FollowReturn ==
  ASSUME TypeInv, ReturnOk \/ ReturnErr PROVE Journal!Return("run") \/ Journal!Fail("run")
<1>0. reach \in {"pending", "check", "walk", "drained", "halted"}
  BY DEF TypeInv, ProducerType, WalkType
<1>1. /\ cpc \in {"closing", "failed"} /\ cpc' = "returned"
      /\ UNCHANGED <<id, job, discoveryDone>>
      /\ (cpc = "closing" /\ status' = status) \/ status' = "failed"
  BY DEF ReturnOk, ReturnErr, Coordinate, journal
<1>2. /\ Phase \in Journal!RunningPhases \cup {"closing"} /\ (cpc = "closing" => Phase = "closing")
      /\ Phase' = "idle" /\ Over' /\ Result' = Result
  BY <1>0, <1>1 DEF Phase, Over, Result, Journal!RunningPhases
<1>3. /\ ByRun(Phase)["run"] = Phase /\ ByRun(IF cpc = "returned" THEN 0 ELSE 1)["run"] = 1
  BY <1>1, OneRun
<1>4. Journal!Leave("run")
  BY <1>1, <1>2, OneRun DEF Journal!Leave, Journal!Enter
<1> QED BY <1>1, <1>2, <1>3, <1>4
     DEF Journal!Return, Journal!Fail, Journal!Active, Journal!Running, Journal!Current, Journal!durable

-----------------------------------------------------------------------------
(* The threads run before Finished is stored.                               *)
LEMMA NotOver ==
  ASSUME EndInv, Producer \/ \E w \in Workers : Worker(w)
  PROVE  ~Over /\ UNCHANGED <<cpc, status>>
BY Joined, QuietThreads DEF EndInv, Ending, LastCalls, Over, coordinator

Follows == Journal!Next \/ UNCHANGED Journal!vars

LEMMA FollowProducer ==
  ASSUME TypeInv, EndInv, JournalInv, Producer PROVE Follows
<1> USE DEF JournalInv
<1>1. ~Over /\ ~Over' /\ cpc # "returned" /\ cpc' # "returned" /\ UNCHANGED <<cpc, status>>
  BY NotOver DEF Over
<1>2. CASE UNCHANGED <<id, job, discoveryDone, reach, after, walked, stop, late>>
  <2>1. UNCHANGED <<Phase, Reason, Over, cpc = "returned">>
    BY <1>1, <1>2 DEF Phase, Reason, Over
  <2> QED BY <1>1, <1>2, <2>1, FollowQuiet DEF Follows
<1>3. CASE NoPage
  BY <1>1, <1>3, FollowNoPage DEF Follows, Journal!Next, Journal!Step
<1>4. CASE CheckDiscovery
  BY <1>1, <1>4, FollowCheckDiscovery DEF Follows, Journal!Next, Journal!Step
<1>5. CASE FinishDiscovery
  BY <1>1, <1>5, FollowFinishDiscovery DEF Follows, Journal!Next, Journal!Step
<1>6. CASE ProducerFails
  BY <1>1, <1>6, FollowProducerFails DEF Follows, Journal!Next, Journal!Step
<1>7. CASE FetchPage
  BY <1>1, <1>7, FollowFetchPage DEF Follows, Journal!Next, Journal!Step
<1>8. CASE Dispatch
  BY <1>1, <1>8, FollowDispatch DEF Follows, Journal!Next, Journal!Step
<1>9. CASE GiveUp
  <2>1. stop' = "cancelled" /\ late' = late /\ UNCHANGED <<id, job, discoveryDone, reach, after, walked>>
    BY <1>9 DEF GiveUp, journal
  <2>2. UNCHANGED <<Phase, Over, cpc = "returned">>
    BY <1>1, <2>1 DEF Phase, Over
  <2> QED BY <1>1, <2>1, <2>2, FollowStop DEF Follows, Journal!Next, Journal!Step
<1>10. \/ NoPage \/ CheckDiscovery \/ FinishDiscovery \/ ProducerFails \/ FetchPage \/ Dispatch \/ GiveUp
       \/ UNCHANGED <<id, job, discoveryDone, reach, after, walked, stop, late>>
  BY DEF journal, control, Producer, ProducerStops, AnnounceResumed, HandOutResumed, WalkFile, WalkSkip,
     WalkNotice, WalkEnds, WindowEmpty, AnnounceDiscovered, HandOut, AnnounceDiscoveryFinished, JudgeError,
     Complain
<1> QED BY <1>2, <1>3, <1>4, <1>5, <1>6, <1>7, <1>8, <1>9, <1>10

LEMMA FollowWorker ==
  ASSUME TypeInv, EndInv, NEW w \in Workers, Worker(w) PROVE Follows
<1>1. ~Over /\ ~Over' /\ cpc # "returned" /\ cpc' # "returned" /\ UNCHANGED <<cpc, status>>
  BY NotOver DEF Over
<1>2. CASE Started(w)
  BY <1>1, <1>2, FollowStarted DEF Follows, Journal!Next, Journal!Step
<1>3. CASE WorkerGivesUp(w)
  <2>1. stop' = "cancelled" /\ late' = late /\ UNCHANGED <<id, job, discoveryDone, reach, after, walked>>
    BY <1>3 DEF WorkerGivesUp, journal, producer
  <2>2. UNCHANGED <<Phase, Over, cpc = "returned">>
    BY <1>1, <2>1 DEF Phase, Over
  <2> QED BY <1>1, <2>1, <2>2, FollowStop DEF Follows, Journal!Next, Journal!Step
<1>4. CASE UNCHANGED <<id, job, discoveryDone, reach, after, walked, stop, late>>
  <2>1. UNCHANGED <<Phase, Reason, Over, cpc = "returned">>
    BY <1>1, <1>4 DEF Phase, Reason, Over
  <2> QED BY <1>1, <1>4, <2>1, FollowQuiet DEF Follows
<1>5. \/ Started(w) \/ WorkerGivesUp(w)
      \/ UNCHANGED <<id, job, discoveryDone, reach, after, walked, stop, late>>
  BY DEF journal, control, producer, Worker, WorkerStops, AcquireBuffer, LookForWork, Receive, NoMoreWork,
     AcquireReservation, StartRefused, AnnounceStarted, Process, Deliver, WorkerComplains
<1> QED BY <1>2, <1>3, <1>4, <1>5

LEMMA FollowCoordinator ==
  ASSUME TypeInv, EndInv, JournalInv, Coordinator PROVE Follows
<1> USE DEF JournalInv
<1>1. CASE Finish
  BY <1>1, FollowFinish DEF Follows, Journal!Next, Journal!Step
<1>2. CASE ReturnOk \/ ReturnErr
  BY <1>2, FollowReturn DEF Follows, Journal!Next, Journal!Step
<1>3. CASE Persist
  BY <1>3, FollowPersist DEF Follows, Journal!Next, Journal!Step, Persist, Coordinate, Over
<1>4. CASE CoordinatorFails
  <2>1. /\ cpc \in {"persist", "deliver", "sink"} /\ cpc' = "failed" /\ stop' = "cancelled" /\ late' = late
        /\ UNCHANGED <<id, job, discoveryDone, status, reach, after, walked>>
    BY <1>4 DEF CoordinatorFails, journal, producer
  <2>2. UNCHANGED <<Phase, Over, cpc = "returned">> /\ ~Over
    BY <2>1 DEF Phase, Over
  <2> QED BY <2>1, <2>2, FollowStop DEF Follows, Journal!Next, Journal!Step
<1>5. CASE /\ cpc \notin {"closing", "returned"} /\ cpc' \notin {"closing", "returned"}
           /\ UNCHANGED <<id, job, discoveryDone, status, reach, after, walked, stop, late>>
  <2>1. UNCHANGED <<Phase, Reason, Over, cpc = "returned">>
    BY <1>5 DEF Phase, Reason, Over
  <2> QED BY <1>5, <2>1, FollowQuiet DEF Follows
<1>6. \/ Finish \/ ReturnOk \/ ReturnErr \/ Persist \/ CoordinatorFails
      \/ /\ cpc \notin {"closing", "returned"} /\ cpc' \notin {"closing", "returned"}
         /\ UNCHANGED <<id, job, discoveryDone, status, reach, after, walked, stop, late>>
  BY DEF journal, control, producer, Coordinator, Coordinate, Begin, ReceiveResult, ReceiveEvent, IdleFlush,
     Disconnected, SinkResult, SinkEvent, TypeInv, CoordinatorType
<1> QED BY <1>1, <1>2, <1>3, <1>4, <1>5, <1>6

LEMMA FollowControl ==
  ASSUME TypeInv, Control \/ UNCHANGED vars PROVE Follows
<1>1. UNCHANGED <<id, job, discoveryDone, status, reach, after, walked, cpc, Over, Phase, cpc = "returned">>
  BY DEF Control, Pause, Cancel, Expire, vars, journal, producer, coordinator, Over, Phase
<1>2. CASE UNCHANGED vars \/ Over
  <2>1. ~Over => UNCHANGED Reason
    BY <1>2 DEF vars, control, Reason
  <2> QED BY <1>1, <2>1, FollowQuiet DEF Follows
<1>3. CASE Control /\ ~Over
  <2>1. \/ stop = "none" /\ stop' = "paused" /\ late' = late
        \/ stop' = "cancelled" /\ late' = late
        \/ late' = TRUE /\ stop' = stop
    BY <1>3 DEF Control, Pause, Cancel, Expire
  <2> QED BY <1>1, <1>3, <2>1, FollowStop DEF Follows, Journal!Next, Journal!Step
<1> QED BY <1>2, <1>3

LEMMA FollowStep ==
  TypeInv /\ EndInv /\ JournalInv /\ [Next]_vars => [Journal!Next]_(Journal!vars)
<1> SUFFICES ASSUME TypeInv, EndInv, JournalInv, [Next]_vars PROVE Follows
  BY DEF Follows
<1> QED BY FollowProducer, FollowWorker, FollowCoordinator, FollowControl DEF Next

(* Whatever the threads, the channels, the memory budget, the caller's stops *)
(* and the failures do to each other, the journal only ever sees what an    *)
(* invocation may do to it: run_pipeline implements the invocation that     *)
(* ScanJournal describes, so what ScanJournal promises of a run holds of it.*)
THEOREM PipelineFollowsJournal == Spec => FollowsJournal
<1>1. Init => TypeInv /\ OrderInv /\ EndInv /\ JournalInv
  BY TypeInit, OrderInit, EndInit, JournalInit
<1>2. TypeInv /\ OrderInv /\ EndInv /\ JournalInv /\ [Next]_vars => (TypeInv /\ OrderInv /\ EndInv /\ JournalInv)'
  BY TypeStep, OrderStep, EndStep, JournalStep
<1>3. TypeInv /\ OrderInv /\ EndInv /\ JournalInv /\ [Next]_vars => [Journal!Next]_(Journal!vars)
  BY FollowStep
<1> QED BY <1>1, <1>2, <1>3, PTL DEF Spec, FollowsJournal
=============================================================================
