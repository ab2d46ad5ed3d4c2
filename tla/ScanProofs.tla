----------------------------- MODULE ScanProofs -----------------------------
(***************************************************************************)
(* Proofs about ScanJournal and AppScan, for any set of files, invocations *)
(* and calls of run, any page size, file limit and number of generations.  *)
(*                                                                         *)
(* What makes the safety properties of the journal inductive is the fence: *)
(* generations handed out never exceed the one in the row (Fenced), so     *)
(* that raising it leaves a single invocation that may write (OneWriter).  *)
(* That invocation has the row's status to itself (OwnerRuns), owns every  *)
(* unfinished task (Owned), and how far its producer has come tells what   *)
(* can still be pending and whether discovery is closed (Progress).        *)
(*                                                                         *)
(* Each step of run is a step of the journal or leaves it alone, so that   *)
(* all that is shown of the journal holds under run.  What ties the case   *)
(* to the journal is that a result is ingested only once it is stored      *)
(* (DueDone), and that a task done stays done.                             *)
(*                                                                         *)
(* As long as one call at a time works on the scan there is more: where    *)
(* the call is tells the scan's status (StatusFits), and the results it    *)
(* has passed are all in the case (CaughtUp), so that the outcome it       *)
(* reports is true (OutcomeFits).                                          *)
(***************************************************************************)
EXTENDS AppScan, TLAPS


-----------------------------------------------------------------------------
(* No invocation has a generation that the row has not reached. *)
Fenced == \A i \in Invocations : phase[i] # "idle" => 1 <= gen[i] /\ gen[i] <= generation

(* Before the row exists there is nothing in the journal. *)
Unborn ==
  generation = 0 =>
    /\ status = "none"
    /\ \A f \in Files : job[f] = "absent"

Owner(i) == Running(i) /\ Current(i)

(* While an invocation may write, the row says that the run is running. *)
OwnerRuns == \A i \in Invocations : Owner(i) => status = "running"

(* What the producer's position says of the journal: tasks left pending are *)
(* beyond its cursor, and gone once it has left the loop over them; it      *)
(* walks only while discovery is open, and passes on only when it is not.   *)
Progress ==
  \A i \in Invocations : Owner(i) =>
    /\ phase[i] = "pending" => \A f \in Files : job[f] = "pending" => id[f] > after[i]
    /\ phase[i] \in {"check", "walk", "drained"} => \A f \in Files : job[f] # "pending"
    /\ phase[i] = "walk" => ~discoveryDone
    /\ phase[i] = "drained" => discoveryDone

(* A task is done exactly when a result is stored for it (the INSERT OR     *)
(* REPLACE and the UPDATE of persist cannot come apart).                    *)
ResultIffDone == \A f \in Files : result[f] # 0 <=> job[f] = "done"

(* The inductive invariant. *)
IInv ==
  /\ TypeOK
  /\ Fenced
  /\ Unborn
  /\ OneWriter
  /\ OwnerRuns
  /\ Owned
  /\ Progress
  /\ ResultIffDone
  /\ IdsDistinct
  /\ CompletedMeansDone

-----------------------------------------------------------------------------
(* A step of one invocation leaves the local state of the others alone. *)
LEMMA OthersAlone ==
  ASSUME TypeOK, NEW i \in Invocations, Step(i), NEW j \in Invocations, j # i
  PROVE  /\ phase'[j] = phase[j] /\ gen'[j] = gen[j] /\ after'[j] = after[j]
         /\ held'[j] = held[j] /\ working'[j] = working[j]
BY DEF TypeOK, Step, Create, ReadCheckpoint, Supersede, Refused, Crash, Fail, Request, TakePending,
       EndPending, CheckDiscovery, Schedule, Take, Skip, Halt, FinishDiscovery, Started,
       PersistBatch, Finished, Return, Launch, Leave, Enter, durable, local

LEMMA TypeStep ==
  ASSUME TypeOK, NEW i \in Invocations, Step(i)
  PROVE  TypeOK'
<1>1. CASE Create(i) \/ ReadCheckpoint(i) \/ Supersede(i) \/ Refused(i) \/ Crash(i) \/ Fail(i) \/ Return(i)
  BY <1>1 DEF TypeOK, Create, ReadCheckpoint, Supersede, Refused, Crash, Fail, Return, Launch, Leave, Enter, durable, Statuses, TaskStates, Phases, RunningPhases, StopReasons
<1>2. CASE \E reason \in StopReasons : Request(i, reason)
  BY <1>2 DEF TypeOK, Request, durable
<1>3. CASE TakePending(i)
  BY <1>3 DEF TypeOK, TakePending, In, TaskStates
<1>4. CASE EndPending(i) \/ CheckDiscovery(i) \/ Halt(i) \/ FinishDiscovery(i)
  BY <1>4 DEF TypeOK, EndPending, CheckDiscovery, Halt, FinishDiscovery, durable, Phases, RunningPhases
<1>5. CASE \E f \in Files : Schedule(i, f)
  BY <1>5 DEF TypeOK, Schedule, Take, Skip, TaskStates
<1>6. CASE \E f \in Files : Started(i, f)
  BY <1>6 DEF TypeOK, Started, TaskStates
<1>7. CASE \E batch \in SUBSET Files : PersistBatch(i, batch)
  BY <1>7 DEF TypeOK, PersistBatch, TaskStates
<1>8. CASE Finished(i)
  BY <1>8 DEF TypeOK, Finished, Enter, Statuses, StopReasons, Phases
<1> QED
  BY <1>1, <1>2, <1>3, <1>4, <1>5, <1>6, <1>7, <1>8 DEF Step

(* Generations are handed out in order, and never taken back. *)
LEMMA FencedStep ==
  ASSUME TypeOK, Fenced, NEW i \in Invocations, Step(i)
  PROVE  /\ Fenced'
         /\ generation' >= generation
         /\ generation' # generation => \A j \in Invocations \ {i} : ~(Active(j) /\ Current(j))'
<1>1. CASE Create(i)
  BY <1>1 DEF TypeOK, Fenced, Create, Launch, Enter, Active, Running, RunningPhases, Current
<1>2. CASE Supersede(i)
  BY <1>2, OthersAlone DEF TypeOK, Fenced, Supersede, Launch, Enter, Active, Running, RunningPhases, Current
<1>3. CASE ReadCheckpoint(i)
  BY <1>3 DEF TypeOK, Fenced, ReadCheckpoint, Enter, durable
<1>4. CASE Refused(i) \/ Crash(i) \/ Fail(i) \/ Return(i)
  BY <1>4 DEF TypeOK, Fenced, Refused, Crash, Fail, Return, Leave, Enter, durable
<1>5. CASE \/ \E reason \in StopReasons : Request(i, reason)
           \/ TakePending(i) \/ EndPending(i) \/ CheckDiscovery(i)
           \/ \E f \in Files : Schedule(i, f)
           \/ Halt(i) \/ FinishDiscovery(i)
           \/ \E f \in Files : Started(i, f)
           \/ \E batch \in SUBSET Files : PersistBatch(i, batch)
  BY <1>5 DEF TypeOK, Fenced, Request, TakePending, EndPending, CheckDiscovery, Schedule, Halt,
              FinishDiscovery, Started, PersistBatch, durable
<1>6. CASE Finished(i)
  BY <1>6 DEF TypeOK, Fenced, Finished, Enter, Running, RunningPhases
<1> QED
  BY <1>1, <1>2, <1>3, <1>4, <1>5, <1>6 DEF Step

(* An invocation that may write after the step of another one could write   *)
(* before it, and finds the journal and its own state as they were.         *)
LEMMA Exclusive ==
  ASSUME TypeOK, Fenced, OneWriter, NEW i \in Invocations, Step(i),
         NEW j \in Invocations, Owner(j)', j # i
  PROVE  /\ Owner(j)
         /\ UNCHANGED durable
         /\ UNCHANGED <<phase[j], gen[j], after[j], held[j], working[j]>>
<1>1. generation' = generation
  BY FencedStep DEF Owner, Active
<1>2. UNCHANGED <<phase[j], gen[j], after[j], held[j], working[j]>>
  BY OthersAlone
<1>3. Owner(j)
  BY <1>1, <1>2 DEF Owner, Running, Current
<1>4. ~(Active(i) /\ Current(i))
  BY <1>3 DEF OneWriter, Owner, Active
<1>5. UNCHANGED durable
  BY <1>1, <1>4 DEF TypeOK, Step, Create, ReadCheckpoint, Supersede, Refused, Crash, Fail, Request,
     TakePending, EndPending, CheckDiscovery, Schedule, Halt, FinishDiscovery, Started, PersistBatch,
     Finished, Return, durable, Active, Running, RunningPhases, Current
<1> QED
  BY <1>2, <1>3, <1>5

LEMMA OneWriterStep ==
  ASSUME TypeOK, Fenced, OneWriter, NEW i \in Invocations, Step(i)
  PROVE  OneWriter'
<1>1. CASE generation' = generation
  <2>1. \A j \in Invocations : (Active(j) /\ Current(j))' => Active(j) /\ Current(j)
    BY <1>1, OthersAlone DEF TypeOK, Step, Create, ReadCheckpoint, Supersede, Refused, Crash, Fail,
       Request, TakePending, EndPending, CheckDiscovery, Schedule, Halt, FinishDiscovery, Started,
       PersistBatch, Finished, Return, Launch, Leave, Enter, durable, Active, Running,
       RunningPhases, Current
  <2> QED
    BY <2>1 DEF OneWriter
<1>2. CASE generation' # generation
  BY <1>2, FencedStep DEF OneWriter
<1> QED
  BY <1>1, <1>2

(* The status is the owner's: a new owner sets it, and an owner changes it  *)
(* only in the step in which it stops being one.                            *)
LEMMA OwnerRunsStep ==
  ASSUME TypeOK, Fenced, OneWriter, OwnerRuns, NEW i \in Invocations, Step(i)
  PROVE  OwnerRuns'
<1>1. ASSUME NEW j \in Invocations, j # i, Owner(j)' PROVE status' = "running"
  BY <1>1, Exclusive DEF OwnerRuns, durable
<1>2. ASSUME Owner(i)' PROVE status' = "running"
  BY <1>2 DEF OwnerRuns, TypeOK, Step, Create, ReadCheckpoint, Supersede, Refused, Crash, Fail, Request,
     TakePending, EndPending, CheckDiscovery, Schedule, Halt, FinishDiscovery, Started, PersistBatch,
     Finished, Return, Launch, Leave, Enter, durable, Owner, Running, RunningPhases, Current
<1> QED
  BY <1>1, <1>2 DEF OwnerRuns

LEMMA UnbornStep ==
  ASSUME TypeOK, Fenced, Unborn, NEW i \in Invocations, Step(i)
  PROVE  Unborn'
<1>1. CASE generation' # 0 /\ generation = 0
  BY <1>1 DEF Unborn
<1>2. CASE generation' = 0
  <2>1. generation = 0
    BY <1>2, FencedStep DEF TypeOK
  <2>2. \A j \in Invocations : phase[j] = "idle"
    BY <2>1 DEF TypeOK, Fenced
  <2> QED
    BY <1>2, <2>1, <2>2 DEF Unborn, TypeOK, Step, Create, ReadCheckpoint, Supersede, Refused, Crash, Fail,
       Request, TakePending, EndPending, CheckDiscovery, Schedule, Halt, FinishDiscovery, Started,
       PersistBatch, Finished, Return, durable, Active, Running, RunningPhases
<1> QED
  BY <1>1, <1>2 DEF Unborn

(* A new owner starts with no task queued or running, and an owner moves a  *)
(* task and its own record of it in one transaction.                        *)
LEMMA OwnedStep ==
  ASSUME TypeOK, Fenced, Unborn, OneWriter, Owned, NEW i \in Invocations, Step(i)
  PROVE  Owned'
<1> DEFINE Mine(j) == /\ \A f \in Files : f \in held[j] <=> job[f] = "queued"
                      /\ \A f \in Files : f \in working[j] <=> job[f] = "running"
<1>0. Owned <=> \A j \in Invocations : Owner(j) => Mine(j)
  BY DEF Owned, Owner, In, TypeOK
<1>0a. Owned' <=> \A j \in Invocations : Owner(j)' => Mine(j)'
  BY TypeStep DEF Owned, Owner, In, TypeOK
<1>1. ASSUME NEW j \in Invocations, j # i, Owner(j)' PROVE Mine(j)'
  BY <1>0, <1>1, Exclusive DEF durable
<1>2. ASSUME Owner(i)' PROVE Mine(i)'
  <2>1. CASE Create(i)
    BY <2>1 DEF TypeOK, Unborn, Create, Launch, Enter
  <2>2. CASE Supersede(i)
    BY <2>2 DEF TypeOK, Supersede, Launch, Enter
  <2>3. CASE ReadCheckpoint(i) \/ Refused(i) \/ Crash(i) \/ Fail(i) \/ Finished(i) \/ Return(i)
    BY <1>2, <2>3 DEF TypeOK, ReadCheckpoint, Refused, Crash, Fail, Finished, Return, Leave, Enter,
       Owner, Running, RunningPhases
  <2>4. CASE (\E reason \in StopReasons : Request(i, reason)) \/ EndPending(i) \/ CheckDiscovery(i)
             \/ Halt(i) \/ FinishDiscovery(i)
    BY <1>0, <1>2, <2>4 DEF TypeOK, Request, EndPending, CheckDiscovery, Halt, FinishDiscovery, durable,
       Owner, Running, RunningPhases, Current
  <2>5. CASE TakePending(i)
    BY <1>0, <2>5 DEF TypeOK, TakePending, In, Owner, Running, RunningPhases
  <2>6. CASE \E f \in Files : Schedule(i, f)
    BY <1>0, <2>6 DEF TypeOK, Schedule, Take, Skip, Owner, Running, RunningPhases
  <2>7. CASE \E f \in Files : Started(i, f)
    BY <1>0, <2>7 DEF TypeOK, Started, Owner
  <2>8. CASE \E batch \in SUBSET Files : PersistBatch(i, batch)
    BY <1>0, <2>8 DEF TypeOK, PersistBatch, Owner
  <2> QED
    BY <2>1, <2>2, <2>3, <2>4, <2>5, <2>6, <2>7, <2>8 DEF Step
<1> QED
  BY <1>0a, <1>1, <1>2

(* The ids of tasks are handed out upwards. *)
LEMMA IdsStep ==
  ASSUME TypeOK, IdsDistinct, NEW i \in Invocations, Step(i)
  PROVE  IdsDistinct'
<1>1. CASE Supersede(i)
  BY <1>1 DEF TypeOK, IdsDistinct, Supersede
<1>2. CASE TakePending(i)
  BY <1>2 DEF TypeOK, IdsDistinct, TakePending, In
<1>3. CASE \E f \in Files : Schedule(i, f)
  <2>1. PICK f \in Files : Schedule(i, f)
    BY <1>3
  <2>2. CASE Skip(f)
    BY <2>1, <2>2 DEF IdsDistinct, Skip
  <2>3. CASE Take(i, f) /\ job[f] = "pending"
    BY <2>3 DEF TypeOK, IdsDistinct, Take
  <2>4. CASE Take(i, f) /\ job[f] # "pending"
    <3>1. PICK next \in 1..MaxFiles + 1 :
            /\ \A g \in Files : id[g] < next
            /\ id' = [id EXCEPT ![f] = next]
      BY <2>4 DEF Take
    <3>2. next \in Nat /\ next > 0
      BY <3>1, JournalAssumption
    <3> QED
      BY <2>4, <3>1, <3>2 DEF TypeOK, IdsDistinct, Take
  <2> QED
    BY <2>1, <2>2, <2>3, <2>4 DEF Schedule
<1>4. CASE \E f \in Files : Started(i, f)
  BY <1>4 DEF TypeOK, IdsDistinct, Started
<1>5. CASE \E batch \in SUBSET Files : PersistBatch(i, batch)
  BY <1>5 DEF TypeOK, IdsDistinct, PersistBatch
<1>6. CASE UNCHANGED <<id, job>>
  BY <1>6 DEF IdsDistinct
<1> QED
  BY <1>1, <1>2, <1>3, <1>4, <1>5, <1>6 DEF Step, Create, ReadCheckpoint, Refused, Crash, Fail, Request,
     EndPending, CheckDiscovery, Halt, FinishDiscovery, Finished, Return, durable

(* No step takes an id from its file. *)
LEMMA IdsKept ==
  ASSUME TypeOK, IdsDistinct, NEW i \in Invocations, Step(i), NEW f \in Files, id[f] # 0
  PROVE  id'[f] = id[f]
<1>1. CASE \E g \in Files : Schedule(i, g)
  <2>1. PICK g \in Files : Schedule(i, g)
    BY <1>1
  <2>2. CASE Skip(g)
    BY <2>2 DEF Skip
  <2>3. CASE Take(i, g)
    BY <2>3 DEF TypeOK, IdsDistinct, Take
  <2> QED
    BY <2>1, <2>2, <2>3 DEF Schedule
<1> QED
  BY <1>1 DEF Step, Create, ReadCheckpoint, Supersede, Refused, Crash, Fail, Request, TakePending,
     EndPending, CheckDiscovery, Halt, FinishDiscovery, Started, PersistBatch, Finished, Return, durable

(* The cursor leaves no pending task behind, and a walk finds none. *)
LEMMA ProgressStep ==
  ASSUME TypeOK, Fenced, Unborn, OneWriter, Progress, IdsDistinct, NEW i \in Invocations, Step(i)
  PROVE  Progress'
<1> DEFINE Sound(j) ==
      /\ phase[j] = "pending" => \A f \in Files : job[f] = "pending" => id[f] > after[j]
      /\ phase[j] \in {"check", "walk", "drained"} => \A f \in Files : job[f] # "pending"
      /\ phase[j] = "walk" => ~discoveryDone
      /\ phase[j] = "drained" => discoveryDone
<1>1. ASSUME NEW j \in Invocations, j # i, Owner(j)' PROVE Sound(j)'
  BY <1>1, Exclusive DEF Progress, durable
<1>2. ASSUME Owner(i)' PROVE Sound(i)'
  <2>1. CASE Create(i)
    BY <2>1 DEF TypeOK, Unborn, Create, Launch, Enter
  <2>2. CASE Supersede(i)
    BY <2>2 DEF TypeOK, IdsDistinct, Supersede, Launch, Enter
  <2>3. CASE ReadCheckpoint(i) \/ Refused(i) \/ Crash(i) \/ Fail(i) \/ Finished(i) \/ Return(i)
    BY <1>2, <2>3 DEF TypeOK, ReadCheckpoint, Refused, Crash, Fail, Finished, Return, Leave, Enter,
       Owner, Running, RunningPhases
  <2>4. CASE TakePending(i)
    <3>1. Owner(i)
      BY <2>4 DEF TakePending, Owner, Running, RunningPhases
    <3>2. PICK page \in SUBSET {h \in In("pending") : id[h] > after[i]} :
            /\ \A f \in page : \A g \in {h \in In("pending") : id[h] > after[i]} \ page : id[f] < id[g]
            /\ job' = [f \in Files |-> IF f \in page THEN "queued" ELSE job[f]]
            /\ \E last \in page : after' = [after EXCEPT ![i] = id[last]]
      BY <2>4 DEF TakePending
    <3>3. PICK last \in page : after' = [after EXCEPT ![i] = id[last]]
      BY <3>2
    <3>4. phase[i] = "pending" /\ phase'[i] = "pending" /\ id' = id
      BY <2>4 DEF TakePending
    <3>5. ASSUME NEW g \in Files, job'[g] = "pending" PROVE id'[g] > after'[i]
      <4>1. g \notin page /\ job[g] = "pending"
        BY <3>2, <3>5 DEF TypeOK
      <4>2. id[g] > after[i]
        BY <3>1, <3>4, <4>1 DEF Progress
      <4>3. id[last] < id[g]
        BY <3>2, <4>1, <4>2 DEF In
      <4> QED
        BY <3>3, <3>4, <4>3 DEF TypeOK, In
    <3> QED
      BY <3>4, <3>5
  <2>5. CASE EndPending(i)
    BY <2>5 DEF TypeOK, Progress, EndPending, In, durable, Owner, Running, RunningPhases
  <2>6. CASE CheckDiscovery(i)
    BY <2>6 DEF TypeOK, Progress, CheckDiscovery, durable, Owner, Running, RunningPhases
  <2>7. CASE \E f \in Files : Schedule(i, f)
    BY <2>7 DEF TypeOK, Progress, Schedule, Take, Skip, Owner, Running, RunningPhases
  <2>8. CASE Halt(i)
    BY <2>8 DEF TypeOK, Halt
  <2>9. CASE FinishDiscovery(i)
    BY <2>9 DEF TypeOK, Progress, FinishDiscovery, Owner, Running, RunningPhases
  <2>10. CASE \E f \in Files : Started(i, f)
    BY <2>10 DEF TypeOK, Progress, Started, Owner
  <2>11. CASE \E batch \in SUBSET Files : PersistBatch(i, batch)
    BY <2>11 DEF TypeOK, Progress, PersistBatch, Owner
  <2>12. CASE \E reason \in StopReasons : Request(i, reason)
    <3>1. UNCHANGED <<generation, discoveryDone, id, job, phase, gen, after>>
      BY <2>12 DEF Request, durable
    <3>2. Owner(i)
      BY <1>2, <3>1 DEF Owner, Running, Current
    <3> QED
      BY <3>1, <3>2 DEF Progress
  <2> HIDE DEF Sound
  <2> QED
    BY <2>1, <2>2, <2>3, <2>4, <2>5, <2>6, <2>7, <2>8, <2>9, <2>10, <2>11, <2>12 DEF Step
<1> QED
  BY <1>1, <1>2 DEF Progress

(* Only PersistBatch stores results, and it marks their tasks. *)
LEMMA ResultStep ==
  ASSUME TypeOK, Fenced, Owned, ResultIffDone, NEW i \in Invocations, Step(i)
  PROVE  /\ ResultIffDone'
         /\ \A f \in Files : result[f] # 0 => result'[f] = result[f]
<1>1. CASE Supersede(i)
  BY <1>1 DEF TypeOK, ResultIffDone, Supersede
<1>2. CASE TakePending(i)
  BY <1>2 DEF TypeOK, ResultIffDone, TakePending, In
<1>3. CASE \E f \in Files : Schedule(i, f)
  BY <1>3 DEF TypeOK, ResultIffDone, Schedule, Take, Skip
<1>4. CASE \E f \in Files : Started(i, f)
  BY <1>4 DEF TypeOK, ResultIffDone, Started
<1>5. CASE \E batch \in SUBSET Files : PersistBatch(i, batch)
  <2>1. PICK batch \in SUBSET Files : PersistBatch(i, batch)
    BY <1>5
  <2>2. \A f \in batch : job[f] = "running"
    BY <2>1 DEF PersistBatch, Owned, In
  <2>3. gen[i] # 0
    BY <2>1 DEF PersistBatch, TypeOK, Fenced, Running, RunningPhases
  <2> QED
    BY <2>1, <2>2, <2>3 DEF TypeOK, ResultIffDone, PersistBatch
<1>6. CASE UNCHANGED <<job, result>>
  BY <1>6 DEF ResultIffDone
<1> QED
  BY <1>1, <1>2, <1>3, <1>4, <1>5, <1>6 DEF Step, Create, ReadCheckpoint, Refused, Crash, Fail, Request,
     EndPending, CheckDiscovery, Halt, FinishDiscovery, Finished, Return, durable

(* The run becomes complete when its owner's threads have joined with the   *)
(* producer at its end and nothing held, and stays so for want of an owner. *)
LEMMA CompletedStep ==
  ASSUME IInv, NEW i \in Invocations, Step(i)
  PROVE  CompletedMeansDone'
<1> SUFFICES ASSUME status' = "completed"
             PROVE  discoveryDone' /\ \A f \in Files : (job[f] # "absent" => job[f] = "done")'
  BY DEF CompletedMeansDone, Known, In
<1> USE DEF IInv
<1>1. CASE Finished(i)
  <2>1. /\ phase[i] = "drained" /\ held[i] = {} /\ working[i] = {}
        /\ Owner(i)
        /\ discoveryDone' = discoveryDone /\ job' = job
    BY <1>1 DEF Finished, Joined, TypeOK, StopReasons, Owner
  <2>2. discoveryDone /\ \A f \in Files : job[f] \notin {"pending", "queued", "running"}
    BY <2>1 DEF Progress, Owned, Owner, In
  <2> QED
    BY <2>1, <2>2 DEF TypeOK, TaskStates
<1>2. CASE ~Finished(i)
  <2>1. status = "completed"
    BY <1>2 DEF Step, Create, ReadCheckpoint, Supersede, Refused, Crash, Fail, Request, TakePending,
       EndPending, CheckDiscovery, Schedule, Halt, FinishDiscovery, Started, PersistBatch, Return, durable
  <2>2. ~Owner(i)
    BY <2>1 DEF OwnerRuns
  <2>3. UNCHANGED <<discoveryDone, job>>
    BY <1>2, <2>2 DEF Step, Create, ReadCheckpoint, Supersede, Refused, Crash, Fail, Request, TakePending,
       EndPending, CheckDiscovery, Schedule, Halt, FinishDiscovery, Started, PersistBatch, Return, durable,
       Owner, Running, RunningPhases
  <2> QED
    BY <2>1, <2>3 DEF CompletedMeansDone, Known, In
<1> QED
  BY <1>1, <1>2

-----------------------------------------------------------------------------
LEMMA IInvInit == Init => IInv
<1> SUFFICES ASSUME Init PROVE IInv
  OBVIOUS
<1>1. TypeOK
  BY DEF Init, TypeOK, Statuses, TaskStates, Phases, StopReasons
<1>2. \A i \in Invocations : ~Active(i) /\ ~Running(i)
  BY DEF Init, Active, Running, RunningPhases
<1>3. OneWriter /\ OwnerRuns /\ Owned /\ Progress
  BY <1>2 DEF OneWriter, OwnerRuns, Owned, Progress, Owner
<1>4. Fenced /\ Unborn /\ ResultIffDone /\ IdsDistinct /\ CompletedMeansDone
  BY DEF Init, Fenced, Unborn, ResultIffDone, IdsDistinct, CompletedMeansDone
<1> QED
  BY <1>1, <1>3, <1>4 DEF IInv

LEMMA IInvStep == IInv /\ [Next]_vars => IInv'
<1>1. ASSUME IInv, Next PROVE IInv'
  <2>1. PICK i \in Invocations : Step(i)
    BY <1>1 DEF Next
  <2> QED
    BY <1>1, <2>1, TypeStep, FencedStep, UnbornStep, OneWriterStep, OwnerRunsStep, OwnedStep,
       ProgressStep, ResultStep, IdsStep, CompletedStep DEF IInv
<1>2. ASSUME IInv, UNCHANGED vars PROVE IInv'
  BY <1>2 DEF IInv, vars, durable, local, TypeOK, Fenced, Unborn, OneWriter, OwnerRuns, Owned, Progress,
     ResultIffDone, IdsDistinct, CompletedMeansDone, Owner, Active, Running, Current, In, Known
<1> QED
  BY <1>1, <1>2

LEMMA Inductive == Spec => []IInv
BY IInvInit, IInvStep, PTL DEF Spec

(* The variables of the journal and of its invocations keep their types. *)
THEOREM TypeCorrect == Spec => []TypeOK
BY Inductive, PTL DEF IInv

(* Resuming fences off every invocation that came before: of those still    *)
(* under way at most one passes check_generation.                           *)
THEOREM SingleWriter == Spec => []OneWriter
BY Inductive, PTL DEF IInv

(* Nothing is forgotten by a resume and nothing is processed twice: the     *)
(* owner holds exactly the tasks that the journal calls queued or running.  *)
THEOREM TasksOwned == Spec => []Owned
BY Inductive, PTL DEF IInv

(* A task is done if and only if its result is stored. *)
THEOREM ResultsMatchTasks == Spec => []ResultIffDone
BY Inductive, PTL DEF IInv

(* Task ids name one file for good. *)
THEOREM IdsAreStable == Spec => IdsStable
<1>1. ASSUME IInv, IInv', [Next]_vars
      PROVE  [\A f \in Files : id[f] # 0 =>
                id'[f] = id[f] /\ \A g \in Files : id'[g] = id[f] => g = f]_vars
  <2> SUFFICES ASSUME Next, NEW f \in Files, id[f] # 0
               PROVE  id'[f] = id[f] /\ \A g \in Files : id'[g] = id[f] => g = f
    BY <1>1
  <2>1. PICK i \in Invocations : Step(i)
    BY DEF Next
  <2>2. id'[f] = id[f]
    BY <1>1, <2>1, IdsKept DEF IInv
  <2> QED
    BY <1>1, <2>2 DEF IInv, IdsDistinct
<1>2. IInv => IdsDistinct
  BY DEF IInv
<1> QED
  BY <1>1, <1>2, Inductive, PTL DEF Spec, IdsStable

(* A completed run owes nothing. *)
THEOREM CompletionIsSound == Spec => []CompletedMeansDone
BY Inductive, PTL DEF IInv

(* No result is ever written over. *)
THEOREM ResultsAreImmutable == Spec => ResultsImmutable
<1>1. ASSUME IInv, [Next]_vars PROVE [\A f \in Files : result[f] # 0 => result'[f] = result[f]]_vars
  BY <1>1, ResultStep DEF IInv, Next
<1> QED
  BY <1>1, Inductive, PTL DEF Spec, ResultsImmutable

(* A closed list of tasks stays as it is. *)
THEOREM DiscoveryIsClosed == Spec => DiscoveryCloses
<1>1. ASSUME IInv, [Next]_vars PROVE [discoveryDone => Known' = Known /\ discoveryDone']_vars
  <2> SUFFICES ASSUME Next, discoveryDone PROVE Known' = Known /\ discoveryDone'
    BY <1>1
  <2>1. PICK i \in Invocations : Step(i)
    BY DEF Next
  <2>2. \A f \in Files : ~Schedule(i, f)
    BY <1>1 DEF IInv, Progress, Owner, Schedule, Running, RunningPhases
  <2>3. discoveryDone'
    BY <2>1, <2>2 DEF Step, Create, ReadCheckpoint, Supersede, Refused, Crash, Fail, Request, TakePending,
       EndPending, CheckDiscovery, Halt, FinishDiscovery, Started, PersistBatch, Finished, Return, durable
  <2>4. \A f \in Files : job'[f] = "absent" <=> job[f] = "absent"
    BY <1>1, <2>1, <2>2 DEF IInv, TypeOK, Step, Create, ReadCheckpoint, Supersede, Refused, Crash, Fail,
       Request, TakePending, EndPending, CheckDiscovery, Halt, FinishDiscovery, Started, PersistBatch,
       Finished, Return, durable, In
  <2> QED
    BY <2>3, <2>4 DEF Known
<1> QED
  BY <1>1, Inductive, PTL DEF Spec, DiscoveryCloses

-----------------------------------------------------------------------------
(* The journal implements the ledger.                                       *)

LEMMA LedgerInit == Init => Ledger!Init
BY DEF Init, Ledger!Init, LedgerEntry, LedgerVerdict

LEMMA LedgerStep ==
  ASSUME IInv, IInv', NEW i \in Invocations, Step(i)
  PROVE  Ledger!Next \/ UNCHANGED <<LedgerEntry, result, discoveryDone, LedgerVerdict>>
<1> USE DEF IInv
<1>1. CASE \/ Create(i) \/ Supersede(i) \/ Fail(i) \/ (Finished(i) /\ status' # "completed")
  <2>1. LedgerVerdict' = "open" /\ UNCHANGED <<result, discoveryDone>>
    BY <1>1 DEF Create, Supersede, Fail, Finished, LedgerVerdict
  <2>2. LedgerEntry' = LedgerEntry
    BY <1>1 DEF TypeOK, Create, Supersede, Fail, Finished, LedgerEntry
  <2>3. Ledger!Reopen
    BY <2>1, <2>2 DEF Ledger!Reopen
  <2> QED
    BY <2>3 DEF Ledger!Next
<1>2. CASE Finished(i) /\ status' = "completed"
  <2>1. UNCHANGED <<LedgerEntry, result, discoveryDone>> /\ LedgerVerdict' = "complete"
    BY <1>2 DEF Finished, LedgerEntry, LedgerVerdict
  <2>2. discoveryDone /\ \A f \in Files : job[f] = "absent" \/ job[f] = "done"
    BY <1>2 DEF CompletedMeansDone, Known, In, Finished
  <2>3. Ledger!Complete
    BY <2>1, <2>2 DEF Ledger!Complete, LedgerEntry
  <2> QED
    BY <2>3 DEF Ledger!Next
<1>3. CASE \E f \in Files : Schedule(i, f)
  <2>1. PICK f \in Files : Schedule(i, f)
    BY <1>3
  <2>2. ~discoveryDone /\ status = "running"
    BY <2>1 DEF Progress, OwnerRuns, Owner, Schedule, Running, RunningPhases
  <2>3. UNCHANGED <<result, discoveryDone, LedgerVerdict>>
    BY <2>1 DEF Schedule, LedgerVerdict
  <2>4. CASE Take(i, f) /\ job[f] = "absent"
    <3>1. LedgerEntry[f] = "unknown" /\ LedgerEntry' = [LedgerEntry EXCEPT ![f] = "owed"]
      BY <2>4 DEF TypeOK, Take, LedgerEntry
    <3>2. Ledger!Admit(f)
      BY <2>2, <2>3, <3>1 DEF Ledger!Admit, LedgerVerdict
    <3> QED
      BY <3>2 DEF Ledger!Next
  <2>5. CASE Skip(f) \/ (Take(i, f) /\ job[f] = "pending")
    BY <2>3, <2>5 DEF TypeOK, Take, Skip, LedgerEntry
  <2> QED
    BY <2>1, <2>4, <2>5 DEF Schedule, Take
<1>4. CASE \E batch \in SUBSET Files : PersistBatch(i, batch)
  <2>1. PICK batch \in SUBSET Files : PersistBatch(i, batch)
    BY <1>4
  <2>2. \A f \in batch : job[f] = "running"
    BY <2>1 DEF PersistBatch, Owned, In
  <2>3. status = "running" /\ gen[i] # 0
    BY <2>1 DEF PersistBatch, OwnerRuns, Owner, TypeOK, Fenced, Running, RunningPhases
  <2>4. /\ \A f \in batch : LedgerEntry[f] = "owed"
        /\ LedgerEntry' = [f \in Files |-> IF f \in batch THEN "recorded" ELSE LedgerEntry[f]]
    BY <2>1, <2>2 DEF TypeOK, PersistBatch, LedgerEntry
  <2>5. UNCHANGED <<discoveryDone, LedgerVerdict>> /\ LedgerVerdict = "open"
    BY <2>1, <2>3 DEF PersistBatch, LedgerVerdict
  <2>6. Ledger!Record(batch)
    BY <2>1, <2>3, <2>4, <2>5 DEF Ledger!Record, PersistBatch
  <2> QED
    BY <2>6 DEF Ledger!Next
<1>5. CASE FinishDiscovery(i)
  <2>1. status = "running"
    BY <1>5 DEF OwnerRuns, Owner, FinishDiscovery, Running, RunningPhases
  <2>2. Ledger!Close
    BY <1>5, <2>1 DEF FinishDiscovery, Ledger!Close, LedgerEntry, LedgerVerdict
  <2> QED
    BY <2>2 DEF Ledger!Next
<1>6. CASE TakePending(i) \/ \E f \in Files : Started(i, f)
  <2>1. UNCHANGED <<result, discoveryDone, LedgerVerdict>>
    BY <1>6 DEF TakePending, Started, LedgerVerdict
  <2>2. LedgerEntry' = LedgerEntry
    BY <1>6 DEF TypeOK, TakePending, Started, In, LedgerEntry
  <2> QED
    BY <2>1, <2>2
<1>7. CASE UNCHANGED durable
  BY <1>7 DEF durable, LedgerEntry, LedgerVerdict
<1> QED
  BY <1>1, <1>2, <1>3, <1>4, <1>5, <1>6, <1>7 DEF Step, ReadCheckpoint, Refused, Crash, Request,
     EndPending, CheckDiscovery, Halt, Return

(* Every behaviour of the journal, however its invocations are interrupted, *)
(* stopped and superseded, is one of the ledger of ScanLedger.              *)
THEOREM JournalKeepsLedger == Spec => KeepsLedger
<1>1. IInv /\ IInv' /\ [Next]_vars => [Ledger!Next]_(Ledger!vars)
  <2> SUFFICES ASSUME IInv, IInv', [Next]_vars PROVE [Ledger!Next]_(Ledger!vars)
    OBVIOUS
  <2>1. CASE Next
    BY <2>1, LedgerStep DEF Next, Ledger!vars
  <2>2. CASE UNCHANGED vars
    BY <2>2 DEF vars, durable, Ledger!vars, LedgerEntry, LedgerVerdict
  <2> QED
    BY <2>1, <2>2
<1> QED
  BY <1>1, LedgerInit, Inductive, PTL DEF Spec, KeepsLedger, Ledger!Spec

-----------------------------------------------------------------------------
(* Whatever is about to be ingested has a result in the journal. *)
DueDone ==
  \A i \in Invocations :
    /\ \A f \in due[i] : job[f] = "done"
    /\ ingesting[i] # NoFile => job[ingesting[i]] = "done"

(* Results are on their way only while a call catches up or its pipeline is *)
(* up: forward does not return before the last batch has been shown.        *)
Engaged ==
  \A i \in Invocations :
    due[i] # {} \/ ingesting[i] # NoFile =>
      app[i] = "catchup" \/ (app[i] = "forward" /\ Running(i))

(* An invocation of the journal lives within ScanStore::resume and forward. *)
PhaseFits ==
  \A i \in Invocations :
    /\ app[i] = "forward" => Active(i)
    /\ app[i] = "resume" => phase[i] \in {"idle", "opened"}
    /\ app[i] \notin {"forward", "resume"} => phase[i] = "idle"

(* A call starts to catch up at the first task. *)
Afresh == \A i \in Invocations : app[i] \in {"out", "resuming"} => cursor[i] = 0

(* The inductive invariant of any number of calls, overlapping or not. *)
Shared == IInv /\ AppTypeOK /\ RecordsOnce /\ DueDone /\ Engaged /\ PhaseFits /\ Afresh

(* One call of run at a time. *)
OneCall == \A i, j \in Invocations : app[i] # "out" /\ app[j] # "out" => i = j

(* The scan's status is the one the call at work has given it or found. *)
StatusFits ==
  \A i \in Invocations :
    app[i] # "out" => caseStatus = IF app[i] = "resuming" THEN "paused" ELSE "running"

(* No stored result is passed over: those up to the cursor of the catch-up  *)
(* loop, and all of them from there on, are in the case or on their way.    *)
CaughtUp ==
  \A i \in Invocations, f \in Files :
    /\ job[f] = "done"
    /\ app[i] \in {"resume", "forward"} \/ (app[i] = "catchup" /\ id[f] <= cursor[i])
    => \/ f \in receipts
       \/ app[i] # "resume" /\ (f \in due[i] \/ ingesting[i] = f)

(* A call about to report a completed scan has a completed journal, all of *)
(* which is in the case.                                                   *)
OutcomeFits ==
  \A i \in Invocations :
    /\ outcome[i] # "none" => app[i] \in {"forward", "ending"} /\ ~Running(i)
    /\ outcome[i] = "completed" => status = "completed" /\ receipts = Known

Solo == OneCall /\ StatusFits /\ CaughtUp /\ OutcomeFits /\ CompletedHasAll

(* The inductive invariant. *)
AppInv == Shared /\ (overlapped \/ Solo)

-----------------------------------------------------------------------------
(* What run does to the journal is what the journal offers. *)
LEMMA JournalStep ==
  ASSUME NEW i \in Invocations, AppStep(i)
  PROVE  Step(i) \/ UNCHANGED vars
<1>1. CASE Threads(i)
  BY <1>1 DEF Threads, Step
<1>2. CASE \E batch \in SUBSET Files : Flush(i, batch)
  BY <1>2 DEF Flush, Step
<1>3. CASE PipelineFails(i) \/ AppendRefused(i) \/ Die(i) \/ ResumeRefused(i)
  BY <1>3 DEF PipelineFails, AppendRefused, Die, ResumeRefused, Step
<1>4. CASE StoreScan(i) \/ StoreReads(i) \/ StoreResumes(i) \/ PipelineFinished(i) \/ PipelineReturns(i)
  BY <1>4 DEF StoreScan, StoreReads, StoreResumes, PipelineFinished, PipelineReturns, Step
<1>5. CASE CheckResume(i) \/ BeginScan(i) \/ StoreRefuses(i) \/ ResumeScan(i) \/ ReadPage(i)
           \/ AppendRecords(i) \/ SaveSession(i) \/ FinishCase(i) \/ PauseCase(i)
  BY <1>5 DEF CheckResume, BeginScan, StoreRefuses, ResumeScan, ReadPage, AppendRecords, SaveSession,
     FinishCase, PauseCase
<1>6. CASE \E f \in Files : LookUp(i, f)
  BY <1>6 DEF LookUp
<1> QED
  BY <1>1, <1>2, <1>3, <1>4, <1>5, <1>6 DEF AppStep, OtherStep

LEMMA JournalNext == AppNext => [Next]_vars
BY JournalStep DEF AppNext, Next

(* A task that is done stays done, and keeps its id. *)
LEMMA DoneStays ==
  ASSUME IInv, [Next]_vars, NEW f \in Files, job[f] = "done"
  PROVE  job'[f] = "done"
<1>1. CASE UNCHANGED vars
  BY <1>1 DEF vars, durable
<1>2. CASE Next
  <2>1. PICK i \in Invocations : Step(i)
    BY <1>2 DEF Next
  <2>2. result[f] # 0
    BY DEF IInv, ResultIffDone
  <2>3. result'[f] # 0 /\ ResultIffDone'
    BY <2>1, <2>2, ResultStep DEF IInv
  <2> QED
    BY <2>3 DEF ResultIffDone
<1> QED
  BY <1>1, <1>2

(* A step of one call leaves the local state of the others alone. *)
LEMMA OtherCalls ==
  ASSUME AppTypeOK, NEW i \in Invocations, AppStep(i), NEW j \in Invocations, j # i
  PROVE  /\ app'[j] = app[j] /\ saved'[j] = saved[j] /\ cursor'[j] = cursor[j]
         /\ due'[j] = due[j] /\ ingesting'[j] = ingesting[j] /\ outcome'[j] = outcome[j]
BY DEF AppTypeOK, AppStep, CheckResume, OtherStep, BeginScan, StoreScan, StoreRefuses, ResumeScan,
   ReadPage, StoreReads, StoreResumes, ResumeRefused, LookUp, AppendRecords, AppendRefused, Threads,
   SaveSession, Flush, PipelineFinished, PipelineReturns, PipelineFails, FinishCase, PauseCase, Die,
   Go, Drop, appVars

(* The call's end leaves nothing of it behind. *)
LEMMA Dropped ==
  ASSUME AppTypeOK, NEW i \in Invocations, NEW to \in Places, Drop(i, to)
  PROVE  /\ app' \in [Invocations -> Places] /\ saved' \in [Invocations -> BOOLEAN]
         /\ cursor' \in [Invocations -> Nat] /\ due' \in [Invocations -> SUBSET Files]
         /\ ingesting' \in [Invocations -> Files \cup {NoFile}]
         /\ outcome' \in [Invocations -> {"none", "paused"} \cup Final]
         /\ app'[i] = to /\ due'[i] = {} /\ ingesting'[i] = NoFile /\ outcome'[i] = "none"
BY DEF AppTypeOK, Drop

LEMMA AppTypeStep ==
  ASSUME AppTypeOK, TypeOK', NEW i \in Invocations, AppStep(i)
  PROVE  AppTypeOK'
<1> USE DEF Places, Final
<1>0. overlapped' \in BOOLEAN
  BY DEF AppTypeOK, AppStep, CheckResume, MayStart
<1>1. CASE CheckResume(i)
  BY <1>0, <1>1 DEF AppTypeOK, CheckResume, MayStart, caseVars
<1>2. CASE BeginScan(i) \/ StoreScan(i) \/ StoreReads(i) \/ StoreResumes(i)
  BY <1>0, <1>2 DEF AppTypeOK, BeginScan, StoreScan, StoreReads, StoreResumes, Go, caseVars, appVars
<1>3. CASE \/ StoreRefuses(i) \/ ResumeRefused(i) \/ AppendRefused(i) \/ PipelineFails(i) \/ Die(i)
           \/ FinishCase(i) \/ PauseCase(i)
  <2>1. PICK to \in Places : Drop(i, to)
    BY <1>3 DEF StoreRefuses, ResumeRefused, AppendRefused, PipelineFails, Die, FinishCase, PauseCase
  <2>2. UNCHANGED <<session, receipts, records>>
    BY <1>3 DEF StoreRefuses, ResumeRefused, AppendRefused, PipelineFails, Die, FinishCase, PauseCase, caseVars
  <2>3. caseStatus' \in {"none", "running", "paused"} \cup Final
    <3>1. CASE FinishCase(i)
      BY <3>1 DEF AppTypeOK, FinishCase
    <3>2. CASE PauseCase(i)
      BY <3>2 DEF AppTypeOK, PauseCase
    <3>3. CASE ~FinishCase(i) /\ ~PauseCase(i)
      BY <1>3, <3>3 DEF AppTypeOK, StoreRefuses, ResumeRefused, AppendRefused, PipelineFails, Die, caseVars
    <3> QED
      BY <3>1, <3>2, <3>3
  <2> QED
    BY <1>0, <2>1, <2>2, <2>3, Dropped DEF AppTypeOK
<1>4. CASE ResumeScan(i)
  BY <1>0, <1>4, Dropped DEF AppTypeOK, ResumeScan
<1>5. CASE ReadPage(i)
  <2>1. cursor' \in [Invocations -> Nat]
    BY <1>5 DEF AppTypeOK, TypeOK, ReadPage, Known
  <2>2. due' \in [Invocations -> SUBSET Files]
    BY <1>5 DEF AppTypeOK, ReadPage, Known, In
  <2>3. app' \in [Invocations -> Places]
    BY <1>5 DEF AppTypeOK, ReadPage
  <2>4. UNCHANGED <<caseVars, saved, ingesting, outcome>>
    BY <1>5 DEF ReadPage
  <2> QED
    BY <1>0, <2>1, <2>2, <2>3, <2>4 DEF AppTypeOK, caseVars
<1>6. CASE \E f \in Files : LookUp(i, f)
  BY <1>0, <1>6 DEF AppTypeOK, LookUp, caseVars
<1>7. CASE AppendRecords(i)
  BY <1>0, <1>7 DEF AppTypeOK, AppendRecords
<1>8. CASE Threads(i)
  BY <1>0, <1>8 DEF AppTypeOK, Threads, caseVars, appVars
<1>9. CASE SaveSession(i) \/ \E batch \in SUBSET Files : Flush(i, batch)
  BY <1>0, <1>9 DEF AppTypeOK, SaveSession, Flush, caseVars
<1>10. CASE PipelineFinished(i) \/ PipelineReturns(i)
  BY <1>0, <1>10 DEF AppTypeOK, PipelineFinished, PipelineReturns, OutcomeOf, Go, caseVars
<1> QED
  BY <1>0, <1>1, <1>2, <1>3, <1>4, <1>5, <1>6, <1>7, <1>8, <1>9, <1>10 DEF AppStep, OtherStep

-----------------------------------------------------------------------------
(* Only AppendRecords touches the records, and never those of a file that   *)
(* has its receipt.                                                         *)
LEMMA RecordsStep ==
  ASSUME Shared, NEW i \in Invocations, AppStep(i)
  PROVE  RecordsOnce'
<1>1. \A f \in Files : job[f] = "done" => job'[f] = "done"
  BY JournalStep, DoneStays DEF Shared, Next
<1>2. CASE AppendRecords(i)
  BY <1>1, <1>2, AppAssumption DEF Shared, AppTypeOK, RecordsOnce, DueDone, AppendRecords, Accepts
<1>3. CASE UNCHANGED <<receipts, records>>
  BY <1>1, <1>3 DEF Shared, RecordsOnce
<1> QED
  BY <1>2, <1>3 DEF AppStep, CheckResume, OtherStep, BeginScan, StoreScan, StoreRefuses, ResumeScan,
     ReadPage, StoreReads, StoreResumes, ResumeRefused, LookUp, AppendRefused, Threads,
     SaveSession, Flush, PipelineFinished, PipelineReturns, PipelineFails, FinishCase, PauseCase, Die, caseVars

(* What a call has due grows by the tasks done of a page and by the batches *)
(* just stored.                                                             *)
LEMMA DueStep ==
  ASSUME Shared, NEW i \in Invocations, AppStep(i)
  PROVE  DueDone'
<1>1. \A f \in Files : job[f] = "done" => job'[f] = "done"
  BY JournalStep, DoneStays DEF Shared, Next
<1>2. \A j \in Invocations : due[j] \subseteq Files /\ ingesting[j] \in Files \cup {NoFile}
  BY DEF Shared, AppTypeOK
<1> DEFINE Good(j) == /\ \A f \in due[j] : job[f] = "done"
                      /\ ingesting[j] # NoFile => job[ingesting[j]] = "done"
<1>3. ASSUME NEW j \in Invocations, j # i PROVE Good(j)'
  BY <1>1, <1>2, <1>3, OtherCalls DEF Shared, DueDone
<1>4. Good(i)'
  <2>1. CASE ReadPage(i)
    BY <1>1, <1>2, <2>1 DEF Shared, AppTypeOK, DueDone, ReadPage, In, vars, durable
  <2>2. CASE \E f \in Files : LookUp(i, f)
    BY <1>1, <1>2, <2>2 DEF Shared, AppTypeOK, DueDone, LookUp, MayIngest
  <2>3. CASE \E batch \in SUBSET Files : Flush(i, batch)
    BY <1>1, <1>2, <2>3 DEF Shared, AppTypeOK, DueDone, Flush, PersistBatch, Idle
  <2>4. CASE \/ due'[i] = due[i] /\ ingesting'[i] \in {NoFile, ingesting[i]}
             \/ due'[i] = {} /\ ingesting'[i] = NoFile
    BY <1>1, <1>2, <2>4 DEF Shared, DueDone
  <2> QED
    BY <2>1, <2>2, <2>3, <2>4 DEF Shared, AppTypeOK, AppStep, CheckResume, OtherStep, BeginScan, StoreScan,
       StoreRefuses, ResumeScan, StoreReads, StoreResumes, ResumeRefused, AppendRecords, AppendRefused,
       Threads, SaveSession, PipelineFinished, PipelineReturns, PipelineFails, FinishCase, PauseCase, Die,
       Drop, appVars
<1> QED
  BY <1>3, <1>4 DEF DueDone

LEMMA PhaseStep ==
  ASSUME Shared, NEW i \in Invocations, AppStep(i)
  PROVE  PhaseFits'
<1> DEFINE Fits(j) == /\ app[j] = "forward" => Active(j)
                      /\ app[j] = "resume" => phase[j] \in {"idle", "opened"}
                      /\ app[j] \notin {"forward", "resume"} => phase[j] = "idle"
<1>1. ASSUME NEW j \in Invocations, j # i PROVE Fits(j)'
  <2>1. app'[j] = app[j] /\ phase'[j] = phase[j]
    BY <1>1, OtherCalls, OthersAlone, JournalStep DEF Shared, IInv, vars, local
  <2> QED
    BY <2>1 DEF Shared, PhaseFits, Active, Running
<1>2. Fits(i)'
  <2> USE DEF Shared, AppTypeOK, TypeOK, PhaseFits, Active, Running, RunningPhases
  <2>1. CASE StoreScan(i) \/ StoreResumes(i)
    BY <2>1 DEF StoreScan, StoreResumes, Create, Supersede, Launch, Enter, Go
  <2>2. CASE StoreReads(i)
    BY <2>2 DEF StoreReads, ReadCheckpoint, Enter, appVars
  <2>3. CASE ResumeRefused(i) \/ PipelineFails(i)
    BY <2>3 DEF ResumeRefused, PipelineFails, Fail, Refused, Crash, Leave, Enter, Drop
  <2>4. CASE AppendRefused(i)
    BY <2>4 DEF Engaged, AppendRefused, Fail, Refused, Leave, Enter, Drop, vars, local
  <2>5. CASE Die(i)
    BY <2>5 DEF Die, Crash, Leave, Enter, Drop, vars, local
  <2>6. CASE Threads(i)
    <3>1. app'[i] = "forward" /\ Running(i)'
      BY <2>6 DEF Threads, appVars, TakePending, EndPending, CheckDiscovery, Halt, FinishDiscovery, Schedule,
         Started, Request
    <3> QED
      BY <3>1
  <2>7. CASE PipelineFinished(i)
    BY <2>7 DEF PipelineFinished, Finished, Enter, Idle
  <2>8. CASE PipelineReturns(i)
    BY <2>8 DEF PipelineReturns, Return, Leave, Enter, Go
  <2>9. CASE \E batch \in SUBSET Files : Flush(i, batch)
    BY <2>9 DEF Flush, PersistBatch, Idle
  <2>10. CASE CheckResume(i) \/ BeginScan(i) \/ StoreRefuses(i) \/ ResumeScan(i) \/ FinishCase(i) \/ PauseCase(i)
    BY <2>10 DEF CheckResume, BeginScan, StoreRefuses, ResumeScan, FinishCase, PauseCase, Go, Drop, vars, local
  <2>11. CASE ReadPage(i)
    BY <2>11 DEF ReadPage, vars, local
  <2>12. CASE (\E f \in Files : LookUp(i, f)) \/ AppendRecords(i) \/ SaveSession(i)
    BY <2>12 DEF LookUp, AppendRecords, SaveSession, vars, local
  <2> QED
    BY <2>1, <2>2, <2>3, <2>4, <2>5, <2>6, <2>7, <2>8, <2>9, <2>10, <2>11, <2>12 DEF AppStep, OtherStep
<1> QED
  BY <1>1, <1>2 DEF PhaseFits

LEMMA EngagedStep ==
  ASSUME Shared, NEW i \in Invocations, AppStep(i)
  PROVE  Engaged'
<1> DEFINE Fits(j) == due[j] # {} \/ ingesting[j] # NoFile =>
                        app[j] = "catchup" \/ (app[j] = "forward" /\ Running(j))
<1>1. ASSUME NEW j \in Invocations, j # i PROVE Fits(j)'
  <2>1. app'[j] = app[j] /\ phase'[j] = phase[j] /\ due'[j] = due[j] /\ ingesting'[j] = ingesting[j]
    BY <1>1, OtherCalls, OthersAlone, JournalStep DEF Shared, IInv, vars, local
  <2> QED
    BY <2>1 DEF Shared, Engaged, Running
<1>2. Fits(i)'
  <2> USE DEF Shared, AppTypeOK, TypeOK, Engaged, Running, RunningPhases
  <2>1. CASE StoreScan(i) \/ StoreReads(i) \/ StoreResumes(i)
    BY <2>1 DEF StoreScan, StoreReads, StoreResumes, Go, appVars
  <2>2. CASE \/ StoreRefuses(i) \/ ResumeRefused(i) \/ AppendRefused(i) \/ PipelineFails(i) \/ Die(i)
             \/ FinishCase(i) \/ PauseCase(i)
    BY <2>2 DEF StoreRefuses, ResumeRefused, AppendRefused, PipelineFails, Die, FinishCase, PauseCase, Drop
  <2>3. CASE Threads(i)
    <3>1. UNCHANGED <<app, due, ingesting>> /\ app[i] = "forward" /\ Running(i)'
      BY <2>3 DEF Threads, appVars, TakePending, EndPending, CheckDiscovery, Halt, FinishDiscovery, Schedule,
         Started, Request
    <3> QED
      BY <3>1
  <2>4. CASE PipelineFinished(i) \/ SaveSession(i)
    BY <2>4 DEF PipelineFinished, SaveSession, Idle
  <2>5. CASE PipelineReturns(i)
    BY <2>5 DEF PipelineReturns, Return, Go
  <2>6. CASE \E batch \in SUBSET Files : Flush(i, batch)
    BY <2>6 DEF Flush, PersistBatch, Idle
  <2>7. CASE CheckResume(i) \/ BeginScan(i) \/ ResumeScan(i)
    BY <2>7 DEF CheckResume, BeginScan, ResumeScan, Go, Drop
  <2>8. CASE ReadPage(i)
    BY <2>8 DEF ReadPage
  <2>9. CASE (\E f \in Files : LookUp(i, f)) \/ AppendRecords(i)
    BY <2>9 DEF LookUp, MayIngest, AppendRecords, vars, local
  <2> QED
    BY <2>1, <2>2, <2>3, <2>4, <2>5, <2>6, <2>7, <2>8, <2>9 DEF AppStep, OtherStep
<1> QED
  BY <1>1, <1>2 DEF Engaged

LEMMA AfreshStep ==
  ASSUME Shared, NEW i \in Invocations, AppStep(i)
  PROVE  Afresh'
<1>1. ASSUME NEW j \in Invocations, j # i PROVE (app[j] \in {"out", "resuming"} => cursor[j] = 0)'
  BY <1>1, OtherCalls DEF Shared, Afresh
<1>2. (app[i] \in {"out", "resuming"} => cursor[i] = 0)'
  BY DEF Shared, AppTypeOK, Afresh, AppStep, CheckResume, OtherStep, BeginScan, StoreScan, StoreRefuses,
     ResumeScan, ReadPage, StoreReads, StoreResumes, ResumeRefused, LookUp, MayIngest, AppendRecords,
     AppendRefused, Threads, SaveSession, Flush, PipelineFinished, PipelineReturns, PipelineFails, FinishCase,
     PauseCase, Die, Go, Drop, appVars
<1> QED
  BY <1>1, <1>2 DEF Afresh

LEMMA SharedStep == Shared /\ [AppNext]_allVars => Shared'
<1>1. ASSUME Shared, AppNext PROVE Shared'
  <2>1. PICK i \in Invocations : AppStep(i)
    BY <1>1 DEF AppNext
  <2>2. IInv'
    BY <1>1, JournalNext, IInvStep DEF Shared
  <2>3. AppTypeOK'
    BY <1>1, <2>1, <2>2, AppTypeStep DEF Shared, IInv
  <2> QED
    BY <1>1, <2>1, <2>2, <2>3, RecordsStep, DueStep, EngagedStep, PhaseStep, AfreshStep DEF Shared
<1>2. ASSUME Shared, UNCHANGED allVars PROVE Shared'
  <2>1. IInv'
    BY <1>2, IInvStep DEF Shared, allVars
  <2> QED
    BY <1>2, <2>1 DEF Shared, allVars, caseVars, appVars, vars, durable, local, IInv, AppTypeOK, RecordsOnce,
       DueDone, Engaged, PhaseFits, Afresh, Active, Running
<1> QED
  BY <1>1, <1>2

-----------------------------------------------------------------------------
(* One call at a time.                                                      *)

(* A call that is out can only begin the scan or ask to resume it. *)
LEMMA OutStep ==
  ASSUME Shared, NEW i \in Invocations, AppStep(i), app[i] = "out"
  PROVE  CheckResume(i) \/ BeginScan(i)
BY DEF Shared, Engaged, AppStep, OtherStep, StoreScan, StoreRefuses, ResumeScan, ReadPage, StoreReads,
   StoreResumes, ResumeRefused, LookUp, MayIngest, AppendRecords, AppendRefused, Threads, SaveSession,
   Flush, Idle, PipelineFinished, PipelineReturns, PipelineFails, FinishCase, PauseCase, Die, Go

(* As long as calls have not overlapped, whoever takes a step is alone. *)
LEMMA Deserted ==
  ASSUME Shared, Solo, NEW i \in Invocations, AppStep(i), ~overlapped',
         NEW j \in Invocations, j # i
  PROVE  app[j] = "out" /\ app'[j] = "out"
<1>1. app[j] = "out"
  <2>1. CASE app[i] # "out"
    BY <2>1 DEF Solo, OneCall
  <2>2. CASE CheckResume(i)
    BY <2>2 DEF CheckResume, MayStart, Alone
  <2>3. CASE BeginScan(i)
    BY <2>3 DEF Solo, StatusFits, BeginScan
  <2> QED
    BY <2>1, <2>2, <2>3, OutStep
<1> QED
  BY <1>1, OtherCalls DEF Shared

(* The caller's step keeps the status in line with its place. *)
LEMMA StatusStep ==
  ASSUME Shared, Solo, NEW i \in Invocations, AppStep(i), app'[i] # "out"
  PROVE  caseStatus' = IF app'[i] = "resuming" THEN "paused" ELSE "running"
<1>1. CASE CheckResume(i) \/ BeginScan(i) \/ ResumeScan(i)
  BY <1>1 DEF Shared, AppTypeOK, CheckResume, BeginScan, ResumeScan, Go, Drop, caseVars
<1>2. CASE FinishCase(i) \/ PauseCase(i)
  BY <1>2 DEF Shared, AppTypeOK, FinishCase, PauseCase, Drop
<1>3. CASE ~(CheckResume(i) \/ BeginScan(i) \/ ResumeScan(i) \/ FinishCase(i) \/ PauseCase(i))
  <2>1. caseStatus' = caseStatus
    BY <1>3 DEF AppStep, OtherStep, StoreScan, StoreRefuses, ReadPage, StoreReads, StoreResumes, ResumeRefused,
       LookUp, AppendRecords, AppendRefused, Threads, SaveSession, Flush, PipelineFinished, PipelineReturns,
       PipelineFails, Die, caseVars
  <2>2. app[i] # "out"
    BY <1>3, OutStep
  <2>3. (app'[i] = "resuming") <=> (app[i] = "resuming")
    BY <1>3 DEF Shared, AppTypeOK, Engaged, AppStep, OtherStep, StoreScan, StoreRefuses, ReadPage, StoreReads,
       StoreResumes, ResumeRefused, LookUp, AppendRecords, AppendRefused, Threads, SaveSession, Flush,
       PipelineFinished, PipelineReturns, PipelineFails, Die, Go, Drop, appVars
  <2> QED
    BY <2>1, <2>2, <2>3 DEF Solo, StatusFits
<1> QED
  BY <1>1, <1>2, <1>3

(* What a call has passed is in the case: a page holds the tasks next to    *)
(* the cursor, and the pipeline shows a batch before it stores the next.    *)
LEMMA CaughtUpStep ==
  ASSUME Shared, Solo, NEW i \in Invocations, AppStep(i),
         NEW f \in Files, job'[f] = "done",
         app'[i] \in {"resume", "forward"} \/ (app'[i] = "catchup" /\ id'[f] <= cursor'[i])
  PROVE  \/ f \in receipts'
         \/ app'[i] # "resume" /\ (f \in due'[i] \/ ingesting'[i] = f)
<1> USE DEF Shared, AppTypeOK, TypeOK, Solo
<1>1. CASE CheckResume(i) \/ ResumeScan(i)
  <2>1. cursor'[i] = 0 /\ UNCHANGED <<id, job>> /\ app'[i] = "catchup" 
    BY <1>1 DEF CheckResume, ResumeScan, Afresh, Drop, vars, durable
  <2>2. id[f] = 0
    BY <2>1
  <2> QED
    BY <2>1, <2>2 DEF IInv, IdsDistinct
<1>2. CASE ReadPage(i)
  <2>1. UNCHANGED <<vars, receipts>> /\ app[i] = "catchup" /\ due[i] = {} /\ ingesting[i] = NoFile
    BY <1>2 DEF ReadPage, caseVars
  <2>2. job[f] = "done" /\ UNCHANGED <<id, job>>
    BY <2>1 DEF vars, durable
  <2>3. CASE id[f] <= cursor[i]
    BY <2>1, <2>2, <2>3, AppAssumption DEF CaughtUp
  <2>4. CASE ~(id[f] <= cursor[i])
    <3> DEFINE beyond == {g \in Known : id[g] > cursor[i]}
    <3>1. f \in beyond
      BY <2>2, <2>4 DEF Known
    <3>2. PICK rows \in SUBSET beyond, last \in beyond :
            /\ last \in rows
            /\ \A g \in rows, h \in beyond \ rows : id[g] < id[h]
            /\ cursor' = [cursor EXCEPT ![i] = id[last]]
            /\ due' = [due EXCEPT ![i] = rows \cap In("done")]
            /\ UNCHANGED app
      BY <1>2, <3>1 DEF ReadPage
    <3>3. id[f] <= id[last] /\ last \in Files
      BY <2>1, <2>2, <3>2 DEF Known
    <3>4. f \in rows
      BY <3>1, <3>2, <3>3
    <3> QED
      BY <2>1, <2>2, <3>2, <3>4 DEF In
  <2> QED
    BY <2>3, <2>4
<1>3. CASE StoreScan(i)
  BY <1>3 DEF IInv, Unborn, StoreScan, Create
<1>4. CASE StoreReads(i)
  BY <1>4 DEF CaughtUp, StoreReads, ReadCheckpoint, durable, caseVars, appVars
<1>5. CASE StoreResumes(i)
  <2>1. job[f] = "done" /\ app[i] = "resume" /\ receipts' = receipts
    BY <1>5 DEF StoreResumes, Supersede, Go, caseVars
  <2> QED
    BY <2>1 DEF CaughtUp
<1>6. CASE Threads(i)
  <2>1. app[i] = "forward" /\ UNCHANGED <<receipts, app, due, ingesting>>
    BY <1>6 DEF Threads, caseVars, appVars
  <2>2. job[f] = "done"
    BY <1>6 DEF Threads, TakePending, EndPending, CheckDiscovery, Halt, FinishDiscovery, Schedule, Take, Skip,
       Started, Request, durable
  <2> QED
    BY <2>1, <2>2 DEF CaughtUp
<1>7. CASE \E g \in Files : LookUp(i, g)
  BY <1>7, AppAssumption DEF CaughtUp, LookUp, MayIngest, vars, durable, caseVars
<1>8. CASE AppendRecords(i)
  BY <1>8 DEF CaughtUp, AppendRecords, vars, durable
<1>9. CASE \E batch \in SUBSET Files : Flush(i, batch)
  <2>1. PICK batch \in SUBSET Files : Flush(i, batch)
    BY <1>9
  <2>2. CASE f \in batch
    BY <2>1, <2>2 DEF Flush, Idle
  <2>3. CASE f \notin batch
    <3>1. job[f] = "done" /\ app[i] = "forward" /\ due[i] = {} /\ ingesting[i] = NoFile /\ receipts' = receipts
      BY <2>1, <2>3 DEF Flush, Idle, PersistBatch, caseVars
    <3> QED
      BY <3>1, AppAssumption DEF CaughtUp
  <2> QED
    BY <2>2, <2>3
<1>10. CASE SaveSession(i) \/ PipelineFinished(i)
  <2>1. app[i] = "forward" /\ UNCHANGED <<app, job, receipts, due, ingesting>>
    BY <1>10 DEF SaveSession, PipelineFinished, Finished, Idle, vars, durable, caseVars
  <2> QED
    BY <2>1 DEF CaughtUp
<1>11. CASE \/ BeginScan(i) \/ StoreRefuses(i) \/ ResumeRefused(i) \/ AppendRefused(i) \/ PipelineReturns(i)
            \/ PipelineFails(i) \/ FinishCase(i) \/ PauseCase(i) \/ Die(i)
  BY <1>11 DEF BeginScan, StoreRefuses, ResumeRefused, AppendRefused, PipelineReturns, PipelineFails,
     FinishCase, PauseCase, Die, Go, Drop
<1> QED
  BY <1>1, <1>2, <1>3, <1>4, <1>5, <1>6, <1>7, <1>8, <1>9, <1>10, <1>11 DEF AppStep, OtherStep

(* A pipeline that ends with nothing left has shown all that it stored, and *)
(* from then on the call changes neither the journal nor the records.       *)
LEMMA OutcomeStep ==
  ASSUME Shared, Shared', Solo, NEW i \in Invocations, AppStep(i)
  PROVE  /\ outcome'[i] # "none" => app'[i] \in {"forward", "ending"} /\ ~Running(i)'
         /\ outcome'[i] = "completed" => status' = "completed" /\ receipts' = Known'
<1> USE DEF Shared, AppTypeOK, TypeOK, Solo
<1>1. CASE \/ StoreRefuses(i) \/ ResumeRefused(i) \/ AppendRefused(i) \/ PipelineFails(i) \/ Die(i)
           \/ FinishCase(i) \/ PauseCase(i)
  BY <1>1 DEF StoreRefuses, ResumeRefused, AppendRefused, PipelineFails, Die, FinishCase, PauseCase, Drop
<1>2. CASE CheckResume(i) \/ BeginScan(i) \/ ResumeScan(i) \/ ReadPage(i) \/ StoreScan(i) \/ StoreReads(i) \/ StoreResumes(i)
  <2>1. outcome[i] = "none"
    BY <1>2 DEF OutcomeFits, CheckResume, BeginScan, ResumeScan, ReadPage, StoreScan, StoreReads, StoreResumes, Go
  <2> QED
    BY <1>2, <2>1 DEF CheckResume, BeginScan, ResumeScan, ReadPage, StoreScan, StoreReads, StoreResumes, Drop, appVars
<1>3. CASE Threads(i) \/ SaveSession(i) \/ \E batch \in SUBSET Files : Flush(i, batch)
  <2>1. Running(i)
    BY <1>3 DEF Threads, TakePending, EndPending, CheckDiscovery, Halt, FinishDiscovery, Schedule, Started,
       Request, SaveSession, Flush, PersistBatch, Running, RunningPhases
  <2>2. outcome'[i] = outcome[i]
    BY <1>3 DEF Threads, SaveSession, Flush, appVars
  <2> QED
    BY <2>1, <2>2 DEF OutcomeFits
<1>4. CASE PipelineFinished(i)
  <2>1. app'[i] = "forward" /\ ~Running(i)'
    BY <1>4 DEF PipelineFinished, Finished, Enter, Idle, Running, RunningPhases
  <2>2. ASSUME outcome'[i] = "completed" PROVE status' = "completed" /\ receipts' = Known'
    <3>1. status' = "completed"
      BY <1>4, <2>2 DEF PipelineFinished, OutcomeOf
    <3>2. Known' = In("done")'
      BY <3>1 DEF IInv, CompletedMeansDone
    <3>3. job' = job /\ receipts' = receipts /\ Idle(i)
      BY <1>4 DEF PipelineFinished, Finished, caseVars
    <3>4. \A f \in Files : job[f] = "done" => f \in receipts
      <4>1. app[i] = "forward" /\ due[i] = {} /\ ingesting[i] = NoFile
        BY <3>3 DEF Idle
      <4> QED
        BY <4>1, AppAssumption DEF CaughtUp
    <3>5. \A f \in receipts : job[f] = "done"
      BY DEF RecordsOnce
    <3> QED
      BY <3>1, <3>2, <3>3, <3>4, <3>5 DEF In
  <2> QED
    BY <2>1, <2>2
<1>5. CASE PipelineReturns(i)
  BY <1>5 DEF OutcomeFits, PipelineReturns, Return, Leave, Enter, durable, Go, Running, RunningPhases, Known
<1>6. CASE \E f \in Files : LookUp(i, f)
  BY <1>6 DEF OutcomeFits, LookUp, vars, durable, local, caseVars, Running, Known
<1>7. CASE AppendRecords(i)
  <2>1. outcome[i] # "completed"
    BY <1>7 DEF OutcomeFits, DueDone, AppendRecords, Accepts, Known
  <2> QED
    BY <1>7, <2>1 DEF OutcomeFits, AppendRecords, vars, local, Running
<1> QED
  BY <1>1, <1>2, <1>3, <1>4, <1>5, <1>6, <1>7 DEF AppStep, OtherStep

(* The case calls the scan completed when the journal does and every result *)
(* is in, and nobody finds a completed scan to work on.                     *)
LEMMA CaseCompletedStep ==
  ASSUME Shared, Solo, NEW i \in Invocations, AppStep(i)
  PROVE  CompletedHasAll'
<1> SUFFICES ASSUME caseStatus' = "completed" PROVE (Known = In("done") /\ receipts = Known)'
  BY DEF CompletedHasAll
<1> USE DEF Shared, AppTypeOK, Solo
<1>1. CASE FinishCase(i) /\ caseStatus \in {"running", "paused"}
  <2>1. outcome[i] = "completed" /\ UNCHANGED <<vars, receipts>>
    BY <1>1 DEF FinishCase
  <2> QED
    BY <2>1 DEF OutcomeFits, IInv, CompletedMeansDone, vars, durable, Known, In
<1>2. CASE ~(FinishCase(i) /\ caseStatus \in {"running", "paused"})
  <2>1. caseStatus = "completed"
    BY <1>2 DEF AppStep, CheckResume, OtherStep, BeginScan, StoreScan, StoreRefuses, ResumeScan, ReadPage,
       StoreReads, StoreResumes, ResumeRefused, LookUp, AppendRecords, AppendRefused, Threads, SaveSession,
       Flush, PipelineFinished, PipelineReturns, PipelineFails, FinishCase, PauseCase, Die, caseVars
  <2>2. app[i] = "out"
    BY <2>1 DEF StatusFits
  <2> QED
    BY <2>1, <2>2, OutStep DEF CheckResume, BeginScan
<1> QED
  BY <1>1, <1>2

LEMMA SoloStep ==
  ASSUME Shared, Shared', Solo, NEW i \in Invocations, AppStep(i), ~overlapped'
  PROVE  Solo'
<1>1. \A j \in Invocations : j # i => app'[j] = "out"
  BY Deserted
<1>2. OneCall' 
  BY <1>1 DEF OneCall
<1>3. StatusFits'
  BY <1>1, StatusStep DEF StatusFits
<1>4. CaughtUp'
  BY <1>1, CaughtUpStep DEF CaughtUp
<1>5. OutcomeFits'
  <2>1. ASSUME NEW j \in Invocations, j # i PROVE outcome'[j] = "none"
    <3>1. outcome[j] = "none"
      BY <2>1, Deserted DEF Solo, OutcomeFits
    <3> QED
      BY <2>1, <3>1, OtherCalls DEF Shared
  <2> QED
    BY <2>1, OutcomeStep DEF OutcomeFits
<1> QED
  BY <1>2, <1>3, <1>4, <1>5, CaseCompletedStep DEF Solo

-----------------------------------------------------------------------------
LEMMA AppInvInit == AppInit => AppInv
<1> SUFFICES ASSUME AppInit PROVE AppInv
  OBVIOUS
<1>1. IInv /\ TypeOK
  BY IInvInit DEF AppInit, AppIdle, IInv
<1>2. AppTypeOK
  BY <1>1 DEF AppInit, AppIdle, AppTypeOK, Places, Final
<1>3. RecordsOnce /\ DueDone /\ Engaged /\ PhaseFits /\ Afresh
  BY DEF AppInit, AppIdle, Init, RecordsOnce, DueDone, Engaged, PhaseFits, Afresh
<1>4. Solo
  BY DEF AppInit, AppIdle, Solo, OneCall, StatusFits, CaughtUp, OutcomeFits, CompletedHasAll
<1> QED
  BY <1>1, <1>2, <1>3, <1>4 DEF AppInv, Shared

LEMMA AppInvStep == AppInv /\ [AppNext]_allVars => AppInv'
<1>1. ASSUME AppInv, AppNext PROVE AppInv'
  <2>1. PICK i \in Invocations : AppStep(i)
    BY <1>1 DEF AppNext
  <2>2. Shared'
    BY <1>1, SharedStep DEF AppInv
  <2>3. overlapped => overlapped'
    BY <2>1 DEF AppStep, CheckResume, MayStart
  <2> QED
    BY <1>1, <2>1, <2>2, <2>3, SoloStep DEF AppInv
<1>2. ASSUME AppInv, UNCHANGED allVars PROVE AppInv'
  <2>1. Shared'
    BY <1>2, SharedStep DEF AppInv
  <2> QED
    BY <1>2, <2>1 DEF AppInv, allVars, caseVars, appVars, vars, durable, local, Solo, OneCall, StatusFits,
       CaughtUp, OutcomeFits, CompletedHasAll, Running, Known, In
<1> QED
  BY <1>1, <1>2

LEMMA AppInductive == AppSpec => []AppInv
BY AppInvInit, AppInvStep, PTL DEF AppSpec

(* run uses the journal as it is meant to be used: with it, however its     *)
(* calls overlap, die or fail, the journal behaves as ScanJournal says, and *)
(* all the theorems about the journal hold.                                 *)
THEOREM RunUsesJournal == AppSpec => Spec
<1>1. AppInit => Init
  BY DEF AppInit, AppIdle
<1>2. [AppNext]_allVars => [Next]_vars
  BY JournalNext DEF allVars
<1> QED
  BY <1>1, <1>2, PTL DEF AppSpec, Spec

(* No file's records are appended twice and none without a result in the    *)
(* journal, however many calls of run ingest the same results at once.      *)
THEOREM RecordsAreSound == AppSpec => []AppSound
BY AppInductive, PTL DEF AppInv, Shared, AppSound

(* Calls that do not overlap lose nothing: a completed scan has the records *)
(* of all tasks, and nobody takes a live scan from its owner.               *)
THEOREM SoloIsTrue == AppSpec => []TrueAlone
<1>1. AppInv => TrueAlone
  <2> SUFFICES ASSUME Shared, Solo PROVE LiveScanRuns
    BY DEF AppInv, TrueAlone, Solo
  <2> QED
    BY DEF Shared, AppTypeOK, TypeOK, PhaseFits, Solo, StatusFits, LiveScanRuns, Running, RunningPhases
<1> QED
  BY <1>1, AppInductive, PTL

(* A completed or cancelled scan keeps its status and its records, whatever *)
(* calls are still under way.                                               *)
THEOREM FinalStays == AppSpec => FinalIsFinal
<1>1. ASSUME AppInv, [AppNext]_allVars
      PROVE  [(caseStatus \in Final) => caseStatus' = caseStatus /\ records' = records]_allVars
  <2> SUFFICES ASSUME NEW i \in Invocations, AppStep(i), caseStatus \in Final
               PROVE  caseStatus' = caseStatus /\ records' = records
    BY <1>1 DEF AppNext
  <2> QED
    BY DEF Final, AppStep, CheckResume, OtherStep, BeginScan, StoreScan, StoreRefuses, ResumeScan,
       ReadPage, StoreReads, StoreResumes, ResumeRefused, LookUp, AppendRecords, Accepts, AppendRefused,
       Threads, SaveSession, Flush, PipelineFinished, PipelineReturns, PipelineFails, FinishCase, PauseCase,
       Die, caseVars
<1> QED
  BY <1>1, AppInductive, PTL DEF AppSpec, FinalIsFinal
=============================================================================
