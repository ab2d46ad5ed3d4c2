-------------------------- MODULE FileExtraction --------------------------
(***************************************************************************)
(* What a pipeline worker does with one file: process (metaxtract-core,    *)
(* scan/pipeline.rs) reads and hashes it, asks the cache, has the bundled  *)
(* worker process parse a private copy (scan/worker.rs), offers the result *)
(* to the cache (scan/cache.rs) and looks at the file a last time.  All    *)
(* the while the file may be written to, the deadline may pass, the child  *)
(* may die or hang, and other scans may use the same cache.                *)
(*                                                                         *)
(* Every file has a worker thread of its own.  Other threads, of this scan *)
(* or of another process, are in OutsideStep: they put records that are    *)
(* whole and true, which CacheSound shows of the thread here.  The mutex   *)
(* that the cache adds within a process is left out, and each transaction  *)
(* of the database is a step.  A hash is taken to identify the content, so *)
(* the content stands for it.  The rest of the key (last name, options and *)
(* engine) is the same for all.                                            *)
(***************************************************************************)
EXTENDS RecordCache, Sequences

CONSTANTS
  Files,        \* the files, one task each
  Contents,     \* the contents a file may be given, as sequences of blocks
  Others,       \* the contents that other scans extract
  SourceLimit,  \* hash.max_source_bytes, in blocks
  Elsewhere,    \* stands for the path of any other file
  MaxWrites,    \* bound: how often files are written to
  Nothing,      \* stands for no value
  Faults        \* what may go wrong: "reply", "crash", "cache"

(* What a file may have at a position. *)
Blocks == UNION {{content[n] : n \in DOMAIN content} : content \in Contents}

(* What hash_capture may read: it refuses more than the limit. *)
Readings == UNION {[1..n -> Blocks] : n \in 0..SourceLimit}

(* A batch of records, and a ScannedFile. *)
Batches == [content : Readings, path : Files \cup {Elsewhere}, whole : BOOLEAN]
Results == [records : Batches \cup {Nothing}, digest : Readings \cup {Nothing},
            error : BOOLEAN, unstable : BOOLEAN]

ASSUME ExtractionAssumption ==
  /\ SourceLimit \in Nat \ {0}
  /\ Elsewhere \notin Files
  /\ MaxWrites \in Nat
  /\ Contents \subseteq Seq(Blocks)
  /\ Others \subseteq Readings
  /\ Nothing \notin Batches \cup Results
  /\ \A batch \in Batches : Bytes(batch) \in Nat

VARIABLES
  data, version, tick,  \* the files: content, its version, time stamps
  task,                 \* FileTask.stamp, from discovery
  pc,                   \* where the thread is
  stopped,              \* the control stops or the file's deadline has passed
  opened,               \* OpenedEvidence.stamp
  before, buffer,       \* hash_capture: the stamp it began with, the blocks read
  digest,               \* EvidenceHashes.digests, once process has them
  found,                \* get: the row it read
  child, frame,         \* the child process, and what it wrote to its stdout
  reading, reply,       \* the reader thread, and the frame it has handed over
  records,              \* the batch that extract is about to return
  result                \* the ScannedFile

fileVars == <<data, version, tick>>
childVars == <<child, frame, reading, reply>>
vars == <<cacheVars, fileVars, task, pc, stopped, opened, before, buffer, digest,
          found, childVars, records, result>>

(* A stamp is all that the code looks at: identity, size and times. *)
Stamp(f) == [size |-> Len(data[f]), time |-> tick[f]]
Key(f) == digest[f]

(* The records of an extraction: of which content, under which path, and    *)
(* whether every one of them is Complete or Unsupported.                    *)
Records(content, f, whole) == [content |-> content, path |-> f, whole |-> whole]

(* What the child writes to its stdout. *)
Frame(kind, batch) == [kind |-> kind, records |-> batch]

Result(f, error, unstable) ==
  [records |-> records[f], digest |-> digest[f], error |-> error, unstable |-> unstable]

Init ==
  /\ CacheInit
  /\ data \in [Files -> Contents] /\ version = [f \in Files |-> 0]
  /\ tick = [f \in Files |-> 0]
  /\ task = [f \in Files |-> Stamp(f)]
  /\ pc = [f \in Files |-> "open"]
  /\ stopped = [f \in Files |-> FALSE]
  /\ opened = [f \in Files |-> Nothing]
  /\ before = [f \in Files |-> Nothing]
  /\ buffer = [f \in Files |-> << >>]
  /\ digest = [f \in Files |-> Nothing]
  /\ found = [f \in Files |-> Nothing]
  /\ child = [f \in Files |-> "none"]
  /\ frame = [f \in Files |-> Frame("none", Nothing)]
  /\ reading = [f \in Files |-> FALSE]
  /\ reply = [f \in Files |-> Frame("none", Nothing)]
  /\ records = [f \in Files |-> Nothing]
  /\ result = [f \in Files |-> Nothing]

-----------------------------------------------------------------------------
(* The surroundings. *)

(* Somebody writes to a file.  The time stamps may be too coarse to tell. *)
Write(f) ==
  /\ version[f] < MaxWrites
  /\ version' = [version EXCEPT ![f] = @ + 1]
  /\ \E content \in Contents \ {data[f]} : data' = [data EXCEPT ![f] = content]
  /\ tick' \in {tick, [tick EXCEPT ![f] = @ + 1]}
  /\ UNCHANGED <<cacheVars, task, pc, stopped, opened, before, buffer, digest, found,
                 childVars, records, result>>

(* The file's deadline passes, or the scan is cancelled or paused. *)
Stop(f) ==
  /\ pc[f] \notin {"open", "done"}
  /\ ~stopped[f]
  /\ stopped' = [stopped EXCEPT ![f] = TRUE]
  /\ UNCHANGED <<cacheVars, fileVars, task, pc, opened, before, buffer, digest, found,
                 childVars, records, result>>

(* Other scans put what they extracted, under the same limits, which are a  *)
(* part of the key; they evict and purge; the disk damages the cache; time  *)
(* passes.                                                                  *)
OutsideStep ==
  /\ \/ \E content \in Others : Put(content, Records(content, Elsewhere, TRUE))
     \/ Purge
     \/ \E k \in DOMAIN rows : Rot(k)
     \/ Tick
  /\ UNCHANGED <<fileVars, task, pc, stopped, opened, before, buffer, digest, found,
                 childVars, records, result>>

-----------------------------------------------------------------------------
(* process and hash_capture *)

At(f, place) == pc[f] = place
Goto(f, place) == pc' = [pc EXCEPT ![f] = place]

(* The call ends with an error; the records it has got so far stay in the   *)
(* result, which finalize marks Failed or Partial.                          *)
FailAs(f, unstable) ==
  /\ Goto(f, "done")
  /\ result' = [result EXCEPT ![f] = Result(f, TRUE, unstable)]

(* The producer opens the file, at once or when a later scan resumes. *)
Open(f) ==
  /\ At(f, "open")
  /\ opened' = [opened EXCEPT ![f] = Stamp(f)]
  /\ Goto(f, "begin")
  /\ UNCHANGED <<cacheVars, fileVars, task, stopped, before, buffer, digest, found,
                 childVars, records, result>>

(* hash_capture takes the stamp, refuses what is too long, and rewinds. *)
StartReading(f, place) ==
  /\ before' = [before EXCEPT ![f] = Stamp(f)]
  /\ buffer' = [buffer EXCEPT ![f] = << >>]
  /\ IF Len(data[f]) > SourceLimit
       THEN FailAs(f, FALSE)
       ELSE Goto(f, place) /\ UNCHANGED result

(* Broken variant of Begin: a pending file is taken as it is found. *)
BeginUnchecked(f) ==
  /\ At(f, "begin") /\ ~stopped[f]
  /\ StartReading(f, "hashing")
  /\ UNCHANGED <<cacheVars, fileVars, task, stopped, opened, digest, found,
                 childVars, records>>

Begin(f) ==
  /\ At(f, "begin")
  /\ IF opened[f] # task[f]
       THEN FailAs(f, TRUE) /\ UNCHANGED <<before, buffer>>
       ELSE ~stopped[f] /\ StartReading(f, "hashing")
  /\ UNCHANGED <<cacheVars, fileVars, task, stopped, opened, digest, found,
                 childVars, records>>

(* One read: a block as it is now at the position reached, counted against  *)
(* the limit.                                                               *)
Read(f) ==
  /\ pc[f] \in {"hashing", "capturing"} /\ ~stopped[f]
  /\ Len(buffer[f]) < Len(data[f])
  /\ LET position == Len(buffer[f]) + 1 IN
     IF position > SourceLimit
       THEN FailAs(f, FALSE) /\ UNCHANGED buffer
       ELSE /\ buffer' = [buffer EXCEPT ![f] = Append(@, data[f][position])]
            /\ UNCHANGED <<pc, result>>
  /\ UNCHANGED <<cacheVars, fileVars, task, stopped, opened, before, digest, found,
                 childVars, records>>

AtEnd(f) == Len(buffer[f]) >= Len(data[f])

(* EvidenceHashes.stable *)
Stable(f) ==
  /\ opened[f] = before[f] /\ before[f] = Stamp(f)
  /\ Len(buffer[f]) = before[f].size

(* The first reading is over: process has its hashes. *)
Hashed(f) ==
  /\ At(f, "hashing") /\ ~stopped[f] /\ AtEnd(f)
  /\ digest' = [digest EXCEPT ![f] = buffer[f]]
  /\ IF Stable(f)
       THEN Goto(f, "lookup") /\ UNCHANGED result
       ELSE /\ Goto(f, "done")
            /\ result' = [result EXCEPT ![f] =
                            [Result(f, TRUE, TRUE) EXCEPT !.digest = buffer[f]]]
  /\ UNCHANGED <<cacheVars, fileVars, task, stopped, opened, before, buffer, found,
                 childVars, records>>

-----------------------------------------------------------------------------
(* CachedExtractor::extract before the inner backend *)

(* get reads the row, if there is one; any error counts as a miss. *)
Lookup(f) ==
  /\ At(f, "lookup") /\ ~stopped[f]
  /\ \/ /\ Key(f) \in DOMAIN rows
        /\ found' = [found EXCEPT ![f] = rows[Key(f)]]
        /\ Goto(f, "touch")
     \/ /\ Key(f) \notin DOMAIN rows \/ "cache" \in Faults
        /\ Goto(f, "miss")
        /\ UNCHANGED found
  /\ UNCHANGED <<cacheVars, fileVars, task, stopped, opened, before, buffer, digest,
                 childVars, records, result>>

(* Broken variant of Found: the records keep the path they were made under. *)
FoundUnbased(f) ==
  /\ At(f, "touch")
  /\ \/ /\ found[f].intact
        /\ Touch(Key(f))
        /\ records' = [records EXCEPT ![f] = found[f].data]
        /\ Goto(f, "hit")
     \/ ~found[f].intact /\ Discard(Key(f)) /\ Goto(f, "miss") /\ UNCHANGED records
  /\ found' = [found EXCEPT ![f] = Nothing]
  /\ UNCHANGED <<fileVars, task, stopped, opened, before, buffer, digest, childVars, result>>

(* Then it marks the row as used, or deletes it if the checksum differs.    *)
(* The records are moved to this file's path.                               *)
Found(f) ==
  /\ At(f, "touch")
  /\ \/ /\ found[f].intact
        /\ Touch(Key(f))
        /\ records' = [records EXCEPT ![f] = [found[f].data EXCEPT !.path = f]]
        /\ Goto(f, "hit")
     \/ ~found[f].intact /\ Discard(Key(f)) /\ Goto(f, "miss") /\ UNCHANGED records
     \/ "cache" \in Faults /\ Goto(f, "miss") /\ UNCHANGED <<cacheVars, records>>
  /\ found' = [found EXCEPT ![f] = Nothing]
  /\ UNCHANGED <<fileVars, task, stopped, opened, before, buffer, digest, childVars, result>>

(* BundledWorker is asked: the child gets a copy of its own, read from the  *)
(* file once more.                                                          *)
Miss(f) ==
  /\ At(f, "miss") /\ ~stopped[f]
  /\ StartReading(f, "capturing")
  /\ UNCHANGED <<cacheVars, fileVars, task, stopped, opened, digest, found, childVars, records>>

-----------------------------------------------------------------------------
(* BundledWorker::extract *)

(* Broken variant of Captured: whatever was captured is sent to the child. *)
CapturedUnchecked(f) ==
  /\ At(f, "capturing") /\ ~stopped[f] /\ AtEnd(f)
  /\ IF Stable(f)
       THEN Goto(f, "spawn") /\ UNCHANGED result
       ELSE FailAs(f, FALSE)
  /\ UNCHANGED <<cacheVars, fileVars, task, stopped, opened, before, buffer, digest, found,
                 childVars, records>>

(* The copy must be what was hashed. *)
Captured(f) ==
  /\ At(f, "capturing") /\ ~stopped[f] /\ AtEnd(f)
  /\ IF Stable(f) /\ buffer[f] = digest[f]
       THEN Goto(f, "spawn") /\ UNCHANGED result
       ELSE FailAs(f, FALSE)
  /\ UNCHANGED <<cacheVars, fileVars, task, stopped, opened, before, buffer, digest, found,
                 childVars, records>>

(* The child and the thread that reads its stdout.  It may fail to start. *)
Spawn(f) ==
  /\ At(f, "spawn")
  /\ \/ /\ child' = [child EXCEPT ![f] = "running"]
        /\ reading' = [reading EXCEPT ![f] = TRUE]
        /\ Goto(f, "wait")
        /\ UNCHANGED result
     \/ /\ "crash" \in Faults
        /\ FailAs(f, FALSE)
        /\ UNCHANGED <<child, reading>>
  /\ UNCHANGED <<cacheVars, fileVars, task, stopped, opened, before, buffer, digest, found,
                 frame, reply, records>>

(* The child parses its copy and writes a frame: all records, some of them  *)
(* when a limit or its own deadline cut it short, or an error.  A damaged   *)
(* one may write something that is no frame, or records of another file.    *)
Answer(f) ==
  /\ child[f] = "running" /\ frame[f].kind = "none"
  /\ \/ \E whole \in BOOLEAN :
          frame' = [frame EXCEPT ![f] = Frame("records", Records(buffer[f], f, whole))]
     \/ \E kind \in {"error", "garbled", "foreign"} :
          /\ "reply" \in Faults
          /\ frame' = [frame EXCEPT ![f] = Frame(kind, Nothing)]
  /\ UNCHANGED <<cacheVars, fileVars, task, pc, stopped, opened, before, buffer, digest, found,
                 child, reading, reply, records, result>>

(* It exits once it has answered, or is killed by a limit or a bug, and     *)
(* then part of the frame may be missing.  It may also hang.                *)
ChildEnds(f) ==
  /\ child[f] = "running"
  /\ \/ /\ frame[f].kind # "none"
        /\ child' = [child EXCEPT ![f] = "exited"]
        /\ UNCHANGED frame
     \/ /\ "crash" \in Faults
        /\ child' = [child EXCEPT ![f] = "crashed"]
        /\ frame' \in {frame, [frame EXCEPT ![f] = Frame("short", Nothing)]}
  /\ UNCHANGED <<cacheVars, fileVars, task, pc, stopped, opened, before, buffer, digest, found,
                 reading, reply, records, result>>

(* read_frame waits for the end of stdout, to see that nothing follows the  *)
(* frame, but gives up at once on what cannot be one.                       *)
Reader(f) ==
  /\ reading[f]
  /\ child[f] # "running" \/ frame[f].kind = "garbled"
  /\ reading' = [reading EXCEPT ![f] = FALSE]
  /\ reply' = [reply EXCEPT ![f] = IF frame[f].kind = "none" THEN Frame("short", Nothing)
                                      ELSE frame[f]]
  /\ UNCHANGED <<cacheVars, fileVars, task, pc, stopped, opened, before, buffer, digest, found,
                 child, frame, records, result>>

(* Broken variant of Poll: the child is waited for without a checkpoint. *)
PollPatiently(f) ==
  /\ At(f, "wait")
  /\ \/ reply[f].kind = "garbled" /\ Goto(f, "reapFailed")
     \/ reply[f].kind # "garbled" /\ child[f] = "crashed" /\ Goto(f, "reapFailed")
     \/ child[f] = "exited" /\ reply[f].kind \notin {"none", "garbled"} /\ Goto(f, "reap")
  /\ UNCHANGED <<cacheVars, fileVars, task, stopped, opened, before, buffer, digest, found,
                 childVars, records, result>>

(* A round of the loop that ends it: the deadline or a stop, a reply that   *)
(* is no frame, a bad exit, or a good one with a reply at hand.  A reply    *)
(* that is too short waits for the exit status, which says more.            *)
Poll(f) ==
  /\ At(f, "wait")
  /\ \/ stopped[f] /\ Goto(f, "reapFailed")
     \/ ~stopped[f] /\ reply[f].kind = "garbled" /\ Goto(f, "reapFailed")
     \/ ~stopped[f] /\ reply[f].kind # "garbled" /\ child[f] = "crashed" /\ Goto(f, "reapFailed")
     \/ /\ ~stopped[f]
        /\ child[f] = "exited" /\ reply[f].kind \notin {"none", "garbled"}
        /\ Goto(f, "reap")
  /\ UNCHANGED <<cacheVars, fileVars, task, stopped, opened, before, buffer, digest, found,
                 childVars, records, result>>

(* RunningChild is dropped however the loop ended: the child is killed and  *)
(* waited for.  Then the reader is joined.                                  *)
Reap(f) ==
  /\ pc[f] \in {"reap", "reapFailed"}
  /\ child' = [child EXCEPT ![f] = "none"]
  /\ Goto(f, IF At(f, "reap") THEN "join" ELSE "joinFailed")
  /\ UNCHANGED <<cacheVars, fileVars, task, stopped, opened, before, buffer, digest, found,
                 frame, reading, reply, records, result>>

(* The reply is checked: the engine, the error it may report, and that its  *)
(* records belong to this file.                                             *)
Judge(f) ==
  /\ pc[f] \in {"join", "joinFailed"} /\ ~reading[f]
  /\ IF At(f, "joinFailed") \/ reply[f].kind \in {"error", "foreign", "short"}
       THEN FailAs(f, FALSE) /\ UNCHANGED records
       ELSE /\ ~stopped[f]
            /\ records' = [records EXCEPT ![f] = reply[f].records]
            /\ Goto(f, "offer")
            /\ UNCHANGED result
  /\ frame' = [frame EXCEPT ![f] = Frame("none", Nothing)]
  /\ reply' = [reply EXCEPT ![f] = Frame("none", Nothing)]
  /\ UNCHANGED <<cacheVars, fileVars, task, stopped, opened, before, buffer, digest, found,
                 child, reading>>

-----------------------------------------------------------------------------
(* CachedExtractor::extract after the inner backend, and the end of process *)

(* Whole results of a file that still has the stamp of its hashes are put   *)
(* in the cache, if the database allows it.                                 *)
Offer(f) ==
  /\ At(f, "offer")
  /\ \/ IF Stamp(f) = opened[f] /\ records[f].whole
          THEN Put(Key(f), records[f])
          ELSE UNCHANGED cacheVars
     \/ "cache" \in Faults /\ UNCHANGED cacheVars
  /\ Goto(f, "batch")
  /\ UNCHANGED <<fileVars, task, stopped, opened, before, buffer, digest, found,
                 childVars, records, result>>

(* The last look at the file decides whether the records are good. *)
Close(f) ==
  /\ pc[f] \in {"hit", "batch"} /\ ~stopped[f]
  /\ Goto(f, "done")
  /\ LET changed == Stamp(f) # opened[f] IN
     result' = [result EXCEPT ![f] = Result(f, changed, changed)]
  /\ UNCHANGED <<cacheVars, fileVars, task, stopped, opened, before, buffer, digest, found,
                 childVars, records>>

(* A checkpoint finds that the scan stops or that the deadline has passed.  *)
(* A batch that process has already taken stays in its result; the first    *)
(* checkpoint after a hit still drops it.                                   *)
NoticeStop(f) ==
  /\ stopped[f]
  /\ \/ pc[f] \in {"hashing", "lookup", "hit", "batch", "miss", "capturing"}
     \/ At(f, "begin") /\ opened[f] = task[f]
     \/ At(f, "join") /\ ~reading[f]
  /\ Goto(f, "done")
  /\ \E kept \in {records[f]} \union (IF At(f, "hit") THEN {Nothing} ELSE {}) :
       result' = [result EXCEPT ![f] = [Result(f, TRUE, FALSE) EXCEPT !.records = kept]]
  /\ UNCHANGED <<cacheVars, fileVars, task, stopped, opened, before, buffer, digest, found,
                 childVars, records>>

-----------------------------------------------------------------------------
Thread(f) ==
  \/ Open(f) \/ Begin(f) \/ Read(f) \/ Hashed(f)
  \/ Lookup(f) \/ Found(f) \/ Miss(f)
  \/ Captured(f) \/ Spawn(f) \/ Poll(f) \/ Reap(f) \/ Judge(f)
  \/ Offer(f) \/ Close(f) \/ NoticeStop(f)

Next ==
  \/ \E f \in Files : Thread(f) \/ Answer(f) \/ ChildEnds(f) \/ Reader(f)
                        \/ Write(f) \/ Stop(f)
  \/ OutsideStep

Spec == Init /\ [][Next]_vars

(* The threads run, and every file's deadline passes in the end.  Nothing   *)
(* is asked of the child.                                                   *)
FairSpec ==
  /\ Spec
  /\ \A f \in Files : WF_vars(Thread(f)) /\ WF_vars(Reader(f)) /\ WF_vars(Stop(f))

-----------------------------------------------------------------------------
Places == {"open", "begin", "hashing", "lookup", "touch", "miss", "capturing", "spawn",
           "wait", "reap", "reapFailed", "join", "joinFailed", "offer", "hit",
           "batch", "done"}

ExtractionTypeOK ==
  /\ now \in 0..MaxSecond
  /\ \A k \in DOMAIN rows :
       /\ DOMAIN rows[k] = {"data", "intact", "accessed"}
       /\ rows[k].intact \in BOOLEAN /\ rows[k].accessed \in 0..MaxSecond
  /\ data \in [Files -> Contents] /\ version \in [Files -> 0..MaxWrites]
  /\ pc \in [Files -> Places] /\ stopped \in [Files -> BOOLEAN]
  /\ child \in [Files -> {"none", "running", "exited", "crashed"}]
  /\ reading \in [Files -> BOOLEAN]
  /\ \A f \in Files : (pc[f] = "done") = (result[f] # Nothing)

(* The cache holds under a key only the whole records of just that content, *)
(* although files change between and during the readings of hash_capture    *)
(* and a limit may cut an extraction short (cache.rs:179-190).  After every *)
(* transaction of every scan the table is within both of its bounds, the    *)
(* number of entries and the sum of their bytes (cache.rs:119-133).         *)
CacheSound ==
  /\ \A k \in DOMAIN rows : rows[k].intact => rows[k].data.content = k /\ rows[k].data.whole
  /\ Fits(rows)

(* What process reports without an error are this file's records, under its *)
(* own path, and of the content it was hashed with, also when they came     *)
(* from the cache, which has them from another file (cache.rs:164-178).     *)
ResultsTrue ==
  \A f \in Files : (pc[f] = "done" /\ ~result[f].error) =>
    /\ result[f].records # Nothing
    /\ result[f].records.path = f
    /\ result[f].records.content = result[f].digest

(* What is reported without an error is the content that was discovered and *)
(* that the file still has at the last look, over a restart perhaps and     *)
(* whenever it was written to in between (pipeline.rs:556-583); provided    *)
(* that every write shows in the stamp.                                     *)
DiscoveredContent ==
  [][\A f \in Files :
       pc[f] # "done" /\ pc'[f] = "done" /\ ~result'[f].error /\ tick[f] = version[f]
         => version[f] = task[f].time /\ result'[f].digest = data[f]]_vars

(* A call that has ended leaves neither a child nor a reader behind, on     *)
(* any of its paths (worker.rs:224-226).                                    *)
NothingLeftRunning ==
  \A f \in Files : pc[f] = "done" => child[f] = "none" /\ ~reading[f]

(* process ends although the child may hang and the file may change: the    *)
(* deadline sees to it (worker.rs:196-223).                                 *)
Ends == \A f \in Files : <>(pc[f] = "done")

(* A result is that of its own file and content, and no call leaves a       *)
(* process behind.                                                          *)
ExtractionSound == ExtractionTypeOK /\ ResultsTrue /\ NothingLeftRunning
=============================================================================
