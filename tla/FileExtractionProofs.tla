----------------------- MODULE FileExtractionProofs -----------------------
(***************************************************************************)
(* Proofs about FileExtraction and the cache it uses, for any files and    *)
(* contents, any limits and any number of writes and faults.               *)
(*                                                                         *)
(* Threads share nothing but the cache, so the invariant is one about the  *)
(* rows of the cache and one about each thread and its child.              *)
(*                                                                         *)
(* Then ContainerTree, which says how a child extracts a file with all     *)
(* that is in it: for any nesting, limits and verdicts of the parsers.     *)
(* The members that were popped and those that are pending are one line,   *)
(* in which each has its container before it (TreeBorn) and none is twice  *)
(* below the same one (TreeOnce); as long as no stop was noted, a node     *)
(* that says nothing has all members below it that no sealed one may hide  *)
(* (TreeWhole).                                                            *)
(***************************************************************************)
EXTENDS FileExtraction, ContainerTree, RecursionLemmas, SequenceTheorems

Stamps == [size : Nat, time : Nat]
Kinds == {"none", "records", "error", "garbled", "foreign", "short"}
Frames == [kind : Kinds, records : Batches \cup {Nothing}]
CacheRows == [data : Batches, intact : BOOLEAN, accessed : 0..MaxSecond]

(* What the cache has. *)
CacheInv ==
  /\ now \in 0..MaxSecond
  /\ IsFiniteSet(DOMAIN rows)
  /\ \A k \in DOMAIN rows : rows[k] \in CacheRows
  /\ CacheSound

TypeInv ==
  /\ data \in [Files -> Contents] /\ version \in [Files -> 0..MaxWrites] /\ tick \in [Files -> Nat]
  /\ task \in [Files -> Stamps] /\ pc \in [Files -> Places] /\ stopped \in [Files -> BOOLEAN]
  /\ opened \in [Files -> Stamps \cup {Nothing}] /\ before \in [Files -> Stamps \cup {Nothing}]
  /\ buffer \in [Files -> Readings] /\ digest \in [Files -> Readings \cup {Nothing}]
  /\ found \in [Files -> CacheRows \cup {Nothing}]
  /\ child \in [Files -> {"none", "running", "exited", "crashed"}]
  /\ frame \in [Files -> Frames] /\ reading \in [Files -> BOOLEAN] /\ reply \in [Files -> Frames]
  /\ records \in [Files -> Batches \cup {Nothing}] /\ result \in [Files -> Results \cup {Nothing}]

HasHashes == Places \ {"open", "begin", "hashing", "done"}
HasChild == {"wait", "reap", "reapFailed"}
HasReader == HasChild \cup {"join", "joinFailed"}

(* The stamps that are kept are of the past; and whoever gets beyond the    *)
(* first check has opened what was discovered.                              *)
Stamped(f) ==
  /\ task[f].time <= tick[f] /\ tick[f] <= version[f]
  /\ pc[f] # "open" => opened[f] \in Stamps /\ opened[f].time <= tick[f]
  /\ pc[f] \notin {"open", "begin", "done"} => opened[f] = task[f]

(* As long as every write showed in the stamp, and none since the file was  *)
(* opened, what was read is what the file has.                              *)
Unwritten(f) == tick[f] = version[f] /\ opened[f].time = tick[f]

ReadTrue(f) ==
  /\ pc[f] \in {"hashing", "capturing"} /\ Unwritten(f) =>
       Len(buffer[f]) <= Len(data[f]) /\ \A n \in 1..Len(buffer[f]) : buffer[f][n] = data[f][n]
  /\ pc[f] \in HasHashes => digest[f] \in Readings /\ (Unwritten(f) => digest[f] = data[f])

(* The child parses what was hashed, and lives only while it is waited for. *)
Answered(f, answer) ==
  answer.kind = "records" /\ pc[f] # "done" =>
    /\ answer.records \in Batches
    /\ answer.records.content = digest[f] /\ answer.records.path = f

ChildTrue(f) ==
  /\ pc[f] \in HasReader \cup {"spawn"} => buffer[f] = digest[f]
  /\ child[f] # "none" => pc[f] \in HasChild
  /\ reading[f] => pc[f] \in HasReader /\ reply[f].kind = "none"
  /\ pc[f] \notin HasReader \cup {"done"} => frame[f].kind = "none" /\ reply[f].kind = "none"
  /\ Answered(f, frame[f]) /\ Answered(f, reply[f])
  /\ pc[f] \in {"reap", "join"} => reply[f].kind \notin {"none", "garbled"}

(* Records from the child and from the cache are those of the hashes. *)
RecordsTrue(f) ==
  /\ pc[f] = "touch" =>
       found[f] \in CacheRows /\ (found[f].intact => found[f].data.content = digest[f])
  /\ pc[f] \in {"offer", "hit", "batch"} =>
       records[f] \in Batches /\ records[f].content = digest[f] /\ records[f].path = f

ResultTrue(f) ==
  /\ (pc[f] = "done") = (result[f] # Nothing)
  /\ pc[f] = "done" /\ ~result[f].error =>
       /\ result[f].records # Nothing
       /\ result[f].records.path = f /\ result[f].records.content = result[f].digest

ThreadInv(f) == Stamped(f) /\ ReadTrue(f) /\ ChildTrue(f) /\ RecordsTrue(f) /\ ResultTrue(f)

(* The inductive invariant. *)
ExtractionInv == TypeInv /\ CacheInv /\ \A f \in Files : ThreadInv(f)

-----------------------------------------------------------------------------
(* The cache. *)

(* A reading is a sequence of blocks, and may grow up to the limit.         *)
LEMMA ReadingsAre ==
  /\ << >> \in Readings
  /\ \A buf \in Readings :
       /\ buf \in Seq(Blocks)
       /\ \A block \in Blocks : Len(buf) + 1 <= SourceLimit => Append(buf, block) \in Readings
<1> USE ExtractionAssumption DEF ExtractionAssumption
<1>1. << >> \in Readings
  <2>1. << >> \in [1..0 -> Blocks] /\ 0 \in 0..SourceLimit
    OBVIOUS
  <2> QED BY <2>1 DEF Readings
<1>2. ASSUME NEW buf \in Readings
      PROVE  /\ buf \in Seq(Blocks)
             /\ \A block \in Blocks : Len(buf) + 1 <= SourceLimit => Append(buf, block) \in Readings
  <2>1. PICK n \in 0..SourceLimit : buf \in [1..n -> Blocks]
    BY DEF Readings
  <2>2. buf \in Seq(Blocks) /\ Len(buf) = n
    BY <2>1
  <2>3. ASSUME NEW block \in Blocks, Len(buf) + 1 <= SourceLimit PROVE Append(buf, block) \in Readings
    <3>3. Append(buf, block) \in Seq(Blocks) /\ Len(Append(buf, block)) = n + 1
      BY <2>2
    <3>4. \A s \in Seq(Blocks) : s \in [1..Len(s) -> Blocks]
      OBVIOUS
    <3>1. Append(buf, block) \in [1..(n + 1) -> Blocks]
      BY <3>3, <3>4
    <3>2. n + 1 \in 0..SourceLimit
      BY <2>2, <2>3
    <3> QED BY <3>1, <3>2 DEF Readings
  <2> QED BY <2>2, <2>3
<1> QED BY <1>1, <1>2

(* With a row less the table is still within its bounds.                    *)
LEMMA FitsWithout ==
  ASSUME NEW table, IsFiniteSet(DOMAIN table), NEW k, Fits(table),
         \A x \in DOMAIN table : Bytes(table[x].data) \in Nat
  PROVE  Fits(Without(table, {k})) /\ IsFiniteSet(DOMAIN Without(table, {k}))
<1> DEFINE D == DOMAIN table
           less == Without(table, {k})
           g == [x \in D |-> Bytes(table[x].data)]
           h == [x \in D \ {k} |-> Bytes(less[x].data)]
<1>1. DOMAIN less = D \ {k} /\ \A x \in D \ {k} : less[x] = table[x]
  BY DEF Without, Restrict
<1>2. IsFiniteSet(D \ {k}) /\ Cardinality(D \ {k}) <= Cardinality(D)
  BY FS_Subset
<1>3. SizeOf(table) = SumFunction(g) /\ SizeOf(less) = SumFunction(h)
  <2>1. SizeOf(table) = SumFunction(g)
    BY DEF SizeOf
  <2>2. SizeOf(less) = SumFunction([x \in DOMAIN less |-> Bytes(less[x].data)])
    BY DEF SizeOf
  <2> QED BY <1>1, <2>1, <2>2
<1>4. g \in [D -> Nat] /\ h = [x \in D \ {k} |-> g[x]]
  BY <1>1
<1> HIDE DEF g, h, less
<1>5. \/ SumFunction(h) <= SumFunction(g) /\ SumFunction(h) \in Int /\ SumFunction(g) \in Int
      \/ k \notin D /\ SumFunction(h) = SumFunction(g)
  <2>1. CASE k \in D
    <3>1. /\ SumFunction(g) \in Nat /\ SumFunction([y \in D \ {k} |-> g[y]]) \in Nat
          /\ SumFunction([y \in D \ {k} |-> g[y]]) <= SumFunction(g)
      <4> HIDE DEF D
      <4> QED BY <1>4, <2>1, SumWithout DEF D
    <3>2. SumFunction(h) = SumFunction([y \in D \ {k} |-> g[y]])
      <4>1. h = [y \in D \ {k} |-> g[y]]
        BY <1>4
      <4> QED BY <4>1, Zenon
    <3> QED BY <3>1, <3>2
  <2>2. CASE k \notin D
    <3>1. h = g
      BY <1>4, <2>2
    <3> QED BY <2>2, <3>1
  <2> QED BY <2>1, <2>2
<1>6. Cardinality(D) \in Nat /\ Cardinality(D \ {k}) \in Nat
  BY <1>2, FS_CardinalityType
<1> QED
  BY <1>1, <1>2, <1>3, <1>5, <1>6, CacheAssumption DEF Fits, CacheAssumption, less

(* What a row weighs.                                                       *)
LEMMA RowBytes == ASSUME CacheInv, NEW k \in DOMAIN rows PROVE Bytes(rows[k].data) \in Nat
BY ExtractionAssumption DEF CacheInv, CacheRows, ExtractionAssumption

(* As long as the rows keep their data, the table stays within its bounds.  *)
LEMMA SameSize ==
  ASSUME CacheInv, DOMAIN rows' = DOMAIN rows, \A k \in DOMAIN rows : rows'[k].data = rows[k].data
  PROVE  Fits(rows') /\ IsFiniteSet(DOMAIN rows')
<1>1. SizeOf(rows') = SizeOf(rows)
  BY DEF SizeOf
<1> QED BY <1>1 DEF CacheInv, CacheSound, Fits

(* An empty one is.                                                         *)
LEMMA NoneFits == Fits(<< >>) /\ IsFiniteSet(DOMAIN << >>)
<1>1. DOMAIN << >> = {} /\ IsFiniteSet({}) /\ Cardinality({}) = 0
  BY FS_EmptySet
<1>2. SizeOf(<< >>) = SumFunction([k \in {} |-> Bytes(<< >>[k].data)])
  BY <1>1 DEF SizeOf
<1>3. [k \in {} |-> Bytes(<< >>[k].data)] \in [{} -> Nat]
  OBVIOUS
<1>4. SizeOf(<< >>) = 0
  BY <1>2, <1>3, SumNone
<1> QED BY <1>1, <1>4, CacheAssumption DEF Fits, CacheAssumption

(* Whatever put evicts, what stays is as it was, and what is new is whole. *)
LEMMA PutStep ==
  ASSUME CacheInv, NEW k, NEW batch \in Batches, batch.content = k, batch.whole, Put(k, batch)
  PROVE  CacheInv'
<1>1. CASE UNCHANGED cacheVars
  BY <1>1 DEF CacheInv, CacheSound, cacheVars
<1>2. CASE ~UNCHANGED cacheVars
  <2> DEFINE table == [x \in DOMAIN rows \union {k} |->
                         IF x = k THEN [data |-> batch, intact |-> TRUE, accessed |-> now] ELSE rows[x]]
  <2>1. PICK gone \in Evictable(table) : rows' = Without(table, gone) /\ now' = now
    BY <1>2 DEF Put
  <2>2. \A x \in DOMAIN table : table[x] \in CacheRows /\ (table[x].intact => table[x].data.content = x /\ table[x].data.whole)
    <3>1. ASSUME NEW x \in DOMAIN rows, x # k
          PROVE  table[x] = rows[x]
      BY <3>1
    <3>2. table[k] = [data |-> batch, intact |-> TRUE, accessed |-> now]
      OBVIOUS
    <3>3. table[k] \in CacheRows /\ table[k].data = batch
      BY <3>2 DEF CacheInv, CacheRows
    <3>4. DOMAIN table = DOMAIN rows \cup {k}
      OBVIOUS
    <3> HIDE DEF table
    <3> QED
      BY <3>1, <3>3, <3>4 DEF CacheInv, CacheSound
  <2> HIDE DEF table
  <2>3. \A x \in DOMAIN rows' : x \in DOMAIN table /\ rows'[x] = table[x]
    BY <2>1 DEF Without, Restrict
  <2>4. Fits(rows')
    BY <2>1 DEF Evictable
  <2>5. IsFiniteSet(DOMAIN rows')
    <3>1. IsFiniteSet(DOMAIN rows \cup {k})
      BY FS_AddElement DEF CacheInv
    <3>2. DOMAIN rows' \subseteq DOMAIN rows \cup {k}
      BY <2>3 DEF table
    <3> QED BY <3>1, <3>2, FS_Subset
  <2> QED
    BY <2>1, <2>2, <2>3, <2>4, <2>5 DEF CacheInv, CacheSound
<1> QED
  BY <1>1, <1>2

LEMMA UnchangedCache == ASSUME CacheInv, UNCHANGED cacheVars PROVE CacheInv'
BY DEF CacheInv, CacheSound, cacheVars

LEMMA TouchStep ==
  ASSUME CacheInv, NEW k, Touch(k) \/ Discard(k)
  PROVE  CacheInv'
<1>1. CASE Touch(k)
  <2>1. CASE k \in DOMAIN rows
    <3> DEFINE row == [rows[k] EXCEPT !.accessed = now]
    <3>1. rows[k] \in CacheRows /\ now \in 0..MaxSecond
      BY <2>1 DEF CacheInv
    <3>2. row \in CacheRows /\ row.data = rows[k].data /\ row.intact = rows[k].intact
      BY <3>1 DEF CacheRows
    <3>3. rows' = [rows EXCEPT ![k] = row] /\ now' = now
      BY <1>1, <2>1 DEF Touch
    <3> HIDE DEF row
    <3>4. Fits(rows') /\ IsFiniteSet(DOMAIN rows')
      BY <3>2, <3>3, SameSize
    <3> QED
      BY <2>1, <3>2, <3>3, <3>4 DEF CacheInv, CacheSound
  <2>2. CASE k \notin DOMAIN rows
    BY <1>1, <2>2, UnchangedCache DEF Touch, cacheVars
  <2> QED
    BY <2>1, <2>2
<1>2. CASE Discard(k)
  <2>1. Fits(rows') /\ IsFiniteSet(DOMAIN rows')
    BY <1>2, FitsWithout, RowBytes DEF CacheInv, CacheSound, Discard
  <2> QED
    BY <1>2, <2>1 DEF CacheInv, CacheSound, Discard, Without, Restrict
<1> QED
  BY <1>1, <1>2

(* Nobody's thread depends on the cache. *)
LEMMA UnchangedThreads ==
  ASSUME \A f \in Files : ThreadInv(f), TypeInv,
         UNCHANGED <<fileVars, task, pc, stopped, opened, before, buffer, digest, found,
                     childVars, records, result>>
  PROVE  (\A f \in Files : ThreadInv(f)) ' /\ TypeInv'
<1>1. TypeInv'
  BY DEF TypeInv, fileVars, childVars
<1>2. ASSUME NEW f \in Files PROVE ThreadInv(f)'
  BY DEF ThreadInv, Stamped, ReadTrue, Unwritten, ChildTrue, Answered, RecordsTrue, ResultTrue, fileVars, childVars
<1> QED
  BY <1>1, <1>2

LEMMA OutsideInv ==
  ASSUME ExtractionInv, OutsideStep
  PROVE  ExtractionInv'
<1>1. CacheInv'
  <2>1. ASSUME NEW content \in Others, Put(content, Records(content, Elsewhere, TRUE)) PROVE CacheInv'
    <3>1. /\ Records(content, Elsewhere, TRUE) \in Batches
          /\ Records(content, Elsewhere, TRUE).content = content
          /\ Records(content, Elsewhere, TRUE).whole
      BY ExtractionAssumption DEF ExtractionAssumption, Records, Batches
    <3> QED
      BY <2>1, <3>1, PutStep DEF ExtractionInv
  <2>2. CASE Purge
    BY <2>2, NoneFits DEF Purge, ExtractionInv, CacheInv, CacheSound
  <2>3. ASSUME NEW k \in DOMAIN rows, Rot(k) PROVE CacheInv'
    <3> DEFINE row == [rows[k] EXCEPT !.intact = FALSE]
    <3>1. rows[k] \in CacheRows
      BY DEF ExtractionInv, CacheInv
    <3>2. row \in CacheRows /\ ~row.intact
      BY <3>1 DEF CacheRows
    <3>3. rows' = [rows EXCEPT ![k] = row] /\ now' = now
      BY <2>3 DEF Rot
    <3> HIDE DEF row
    <3>5. row.data = rows[k].data
      BY <3>1 DEF CacheRows, row
    <3>4. Fits(rows') /\ IsFiniteSet(DOMAIN rows')
      BY <3>3, <3>5, SameSize DEF ExtractionInv
    <3> QED
      BY <3>2, <3>3, <3>4 DEF ExtractionInv, CacheInv, CacheSound
  <2>4. CASE Tick
    BY <2>4 DEF Tick, ExtractionInv, CacheInv, CacheSound
  <2> QED
    BY <2>1, <2>2, <2>3, <2>4 DEF OutsideStep
<1> QED
  BY <1>1, UnchangedThreads DEF ExtractionInv, OutsideStep

-----------------------------------------------------------------------------
(* The threads. *)

Local(f) == <<data[f], version[f], tick[f], task[f], pc[f], stopped[f], opened[f], before[f],
              buffer[f], digest[f], found[f], child[f], frame[f], reading[f], reply[f],
              records[f], result[f]>>

LEMMA OneThread ==
  ASSUME ExtractionInv, NEW f \in Files, TypeInv', CacheInv', ThreadInv(f)',
         \A g \in Files \ {f} : Local(g)' = Local(g)
  PROVE  ExtractionInv'
<1>1. ASSUME NEW g \in Files \ {f} PROVE ThreadInv(g)'
  <2>1. ThreadInv(g) /\ Local(g)' = Local(g)
    BY DEF ExtractionInv
  <2> QED
    BY <2>1 DEF Local, ThreadInv, Stamped, ReadTrue, Unwritten, ChildTrue, Answered, RecordsTrue, ResultTrue
<1> QED
  BY <1>1 DEF ExtractionInv

LEMMA Shapes ==
  ASSUME TypeInv, NEW f \in Files
  PROVE  /\ Stamp(f) \in Stamps /\ Stamp(f).time = tick[f] /\ Stamp(f).size = Len(data[f])
         /\ Len(data[f]) \in Nat /\ data[f] \in Seq(Blocks)
         /\ \A error, unstable \in BOOLEAN :
              /\ Result(f, error, unstable) \in Results
              /\ Result(f, error, unstable) # Nothing
              /\ Result(f, error, unstable).error = error
              /\ Result(f, error, unstable).records = records[f]
              /\ Result(f, error, unstable).digest = digest[f]
<1>1. data[f] \in Seq(Blocks) /\ Len(data[f]) \in Nat
  <2>1. data[f] \in Seq(Blocks)
    BY ExtractionAssumption DEF TypeInv, ExtractionAssumption
  <2> QED
    BY <2>1
<1>2. Stamp(f) \in Stamps /\ Stamp(f).time = tick[f] /\ Stamp(f).size = Len(data[f])
  BY <1>1 DEF TypeInv, Stamps, Stamp
<1>3. ASSUME NEW error \in BOOLEAN, NEW unstable \in BOOLEAN
      PROVE  /\ Result(f, error, unstable) \in Results
             /\ Result(f, error, unstable).error = error
             /\ Result(f, error, unstable).records = records[f]
             /\ Result(f, error, unstable).digest = digest[f]
  BY DEF TypeInv, Results, Result
<1> QED
  BY <1>1, <1>2, <1>3, ExtractionAssumption DEF ExtractionAssumption

(* A call that ends with an error says nothing that could be wrong. *)
LEMMA FailAsStep ==
  ASSUME TypeInv, NEW f \in Files, NEW unstable \in BOOLEAN, FailAs(f, unstable)
  PROVE  /\ pc' = [pc EXCEPT ![f] = "done"] /\ pc' \in [Files -> Places]
         /\ result' \in [Files -> Results \cup {Nothing}]
         /\ \A g \in Files \ {f} : result'[g] = result[g]
         /\ result'[f] # Nothing /\ result'[f].error
<1>1. /\ Result(f, TRUE, unstable) \in Results /\ Result(f, TRUE, unstable) # Nothing
      /\ Result(f, TRUE, unstable).error
  BY Shapes
<1>2. pc' = [pc EXCEPT ![f] = "done"] /\ result' = [result EXCEPT ![f] = Result(f, TRUE, unstable)]
  BY DEF FailAs, Goto
<1>3. pc' \in [Files -> Places]
  BY <1>2 DEF TypeInv, Places
<1> QED
  BY <1>1, <1>2, <1>3 DEF TypeInv

LEMMA WriteInv ==
  ASSUME ExtractionInv, NEW f \in Files, Write(f)
  PROVE  ExtractionInv'
<1> USE ExtractionAssumption DEF ExtractionAssumption
<1>1. TypeInv /\ CacheInv /\ ThreadInv(f)
  BY DEF ExtractionInv
<1>2. /\ tick' \in [Files -> Nat] /\ version' = [version EXCEPT ![f] = @ + 1]
      /\ tick[f] \in Nat /\ version[f] \in Nat
      /\ \A g \in Files \ {f} : tick'[g] = tick[g]
      /\ tick'[f] = tick[f] \/ tick'[f] = tick[f] + 1
  <2>1. CASE tick' = tick
    BY <1>1, <2>1 DEF TypeInv, Write
  <2>2. CASE tick' = [tick EXCEPT ![f] = @ + 1]
    BY <1>1, <2>2 DEF TypeInv, Write
  <2> QED
    BY <2>1, <2>2 DEF Write
<1>3. version' \in [Files -> 0..MaxWrites]
  BY <1>1 DEF TypeInv, Write
<1>4. data' \in [Files -> Contents] /\ \A g \in Files \ {f} : data'[g] = data[g]
  BY <1>1 DEF TypeInv, Write
<1>5. TypeInv'
  BY <1>1, <1>2, <1>3, <1>4 DEF TypeInv, Write, childVars
<1>6. CacheInv'
  BY <1>1, UnchangedCache DEF Write
<1>7. \A g \in Files \ {f} : Local(g)' = Local(g)
  BY <1>1, <1>2, <1>4 DEF Local, TypeInv, Write, childVars
<1>8. version'[f] = version[f] + 1
  BY <1>1, <1>2 DEF TypeInv
<1>9. Stamped(f)'
  <2>1. task[f].time \in Nat /\ (opened[f] \in Stamps => opened[f].time \in Nat)
    BY <1>1 DEF TypeInv, Stamps
  <2> QED
    BY <1>1, <1>2, <1>8, <2>1 DEF ThreadInv, Stamped, Write
<1>10. ReadTrue(f)'
  <2>1. pc[f] \in {"hashing", "capturing"} \cup HasHashes => opened[f].time \in Nat /\ opened[f].time <= tick[f]
    BY <1>1 DEF ThreadInv, Stamped, HasHashes, Stamps
  <2>2. pc[f] \in {"hashing", "capturing"} \cup HasHashes => ~Unwritten(f)'
    BY <1>1, <1>2, <1>8, <2>1 DEF ThreadInv, Stamped, Unwritten, Write
  <2> QED
    BY <1>1, <2>2 DEF ThreadInv, ReadTrue, Write
<1>11. ChildTrue(f)' /\ RecordsTrue(f)' /\ ResultTrue(f)'
  BY <1>1 DEF ThreadInv, ChildTrue, Answered, RecordsTrue, ResultTrue, Write, childVars
<1> QED
  BY <1>5, <1>6, <1>7, <1>9, <1>10, <1>11, OneThread DEF ThreadInv

LEMMA StopInv ==
  ASSUME ExtractionInv, NEW f \in Files, Stop(f)
  PROVE  ExtractionInv'
<1>1. TypeInv /\ CacheInv /\ ThreadInv(f)
  BY DEF ExtractionInv
<1>2. TypeInv'
  BY <1>1 DEF TypeInv, Places, Stop, fileVars, childVars
<1>3. CacheInv'
  BY <1>1, UnchangedCache DEF Stop
<1>4. \A g \in Files \ {f} : Local(g)' = Local(g)
  BY <1>1 DEF Local, TypeInv, Stop, fileVars, childVars
<1>5. Stamped(f)'
  BY <1>1 DEF ThreadInv, Stamped, TypeInv, Stamps, Stop, fileVars, childVars
<1>6. ReadTrue(f)'
  BY <1>1 DEF ThreadInv, Stamped, ReadTrue, Unwritten, TypeInv, HasHashes, Places, Stop, fileVars, childVars
<1>7. ChildTrue(f)'
  BY <1>1 DEF ThreadInv, ChildTrue, Answered, TypeInv, HasReader, HasChild, Stop, fileVars, childVars
<1>8. RecordsTrue(f)'
  BY <1>1 DEF ThreadInv, RecordsTrue, TypeInv, Stop, fileVars, childVars
<1>9. ResultTrue(f)'
  BY <1>1 DEF ThreadInv, ResultTrue, TypeInv, Stop, fileVars, childVars
<1> QED
  BY <1>2, <1>3, <1>4, <1>5, <1>6, <1>7, <1>8, <1>9, OneThread DEF ThreadInv

LEMMA OpenInv ==
  ASSUME ExtractionInv, NEW f \in Files, Open(f)
  PROVE  ExtractionInv'
<1>1. TypeInv /\ CacheInv /\ ThreadInv(f)
  BY DEF ExtractionInv
<1>2. TypeInv'
  BY <1>1, Shapes DEF TypeInv, Places, Open, Goto, At, Stamps, fileVars, childVars
<1>3. CacheInv'
  BY <1>1, UnchangedCache DEF Open
<1>4. \A g \in Files \ {f} : Local(g)' = Local(g)
  BY <1>1 DEF Local, TypeInv, Open, Goto, At, fileVars, childVars
<1>5. Stamped(f)'
  <2>1. pc'[f] = "begin" /\ opened'[f] = Stamp(f) /\ tick[f] \in Nat
    BY <1>1 DEF TypeInv, Open, Goto
  <2>2. Stamp(f) \in Stamps /\ Stamp(f).time = tick[f]
    BY <1>1, Shapes
  <2> QED
    BY <1>1, <2>1, <2>2 DEF ThreadInv, Stamped, Open, fileVars
<1>6. ReadTrue(f)'
  BY <1>1 DEF ThreadInv, Stamped, ReadTrue, Unwritten, TypeInv, HasHashes, Places, Open, Goto, At, fileVars, childVars
<1>7. ChildTrue(f)'
  BY <1>1 DEF ThreadInv, ChildTrue, Answered, TypeInv, HasReader, HasChild, Open, Goto, At, fileVars, childVars
<1>8. RecordsTrue(f)'
  BY <1>1 DEF ThreadInv, RecordsTrue, TypeInv, Open, Goto, At, fileVars, childVars
<1>9. ResultTrue(f)'
  BY <1>1 DEF ThreadInv, ResultTrue, TypeInv, Open, Goto, At, fileVars, childVars
<1> QED
  BY <1>2, <1>3, <1>4, <1>5, <1>6, <1>7, <1>8, <1>9, OneThread DEF ThreadInv

(* A call that ends with an error leaves nothing that could be wrong. *)
LEMMA FailedInv ==
  ASSUME ExtractionInv, NEW f \in Files, NEW unstable \in BOOLEAN, FailAs(f, unstable),
         pc[f] \notin HasChild \cup {"open"}, ~reading[f],
         UNCHANGED <<cacheVars, fileVars, task, stopped, opened, digest, found, child, reading, records>>,
         before' \in {before, [before EXCEPT ![f] = Stamp(f)]},
         buffer' \in {buffer, [buffer EXCEPT ![f] = << >>]},
         frame' \in {frame, [frame EXCEPT ![f] = Frame("none", Nothing)]},
         reply' \in {reply, [reply EXCEPT ![f] = Frame("none", Nothing)]}
  PROVE  ExtractionInv'
<1>1. TypeInv /\ CacheInv /\ ThreadInv(f)
  BY DEF ExtractionInv
<1>2. /\ pc' = [pc EXCEPT ![f] = "done"] /\ pc' \in [Files -> Places]
      /\ result' \in [Files -> Results \cup {Nothing}]
      /\ \A g \in Files \ {f} : result'[g] = result[g]
      /\ result'[f] # Nothing /\ result'[f].error
  BY <1>1, FailAsStep
<1>3. before' \in [Files -> Stamps \cup {Nothing}] /\ buffer' \in [Files -> Readings]
  <2>1. [before EXCEPT ![f] = Stamp(f)] \in [Files -> Stamps \cup {Nothing}]
    BY <1>1, Shapes DEF TypeInv
  <2>2. [buffer EXCEPT ![f] = << >>] \in [Files -> Readings]
    BY <1>1, ReadingsAre DEF TypeInv
  <2> QED
    BY <1>1, <2>1, <2>2, Zenon DEF TypeInv
<1>4. frame' \in [Files -> Frames] /\ reply' \in [Files -> Frames]
  <2>1. Frame("none", Nothing) \in Frames
    BY DEF Frame, Frames, Kinds
  <2>2. /\ [frame EXCEPT ![f] = Frame("none", Nothing)] \in [Files -> Frames]
        /\ [reply EXCEPT ![f] = Frame("none", Nothing)] \in [Files -> Frames]
    BY <1>1, <2>1 DEF TypeInv
  <2> QED
    BY <1>1, <2>2, Zenon DEF TypeInv
<1>5. TypeInv'
  BY <1>1, <1>2, <1>3, <1>4 DEF TypeInv, fileVars
<1>6. ASSUME NEW g \in Files \ {f} PROVE Local(g)' = Local(g)
  <2>1. before'[g] = before[g] /\ buffer'[g] = buffer[g] /\ frame'[g] = frame[g] /\ reply'[g] = reply[g]
    BY <1>1 DEF TypeInv
  <2>2. pc'[g] = pc[g] /\ result'[g] = result[g]
    BY <1>1, <1>2 DEF TypeInv
  <2> QED
    BY <2>1, <2>2 DEF Local, fileVars
<1>7. pc'[f] = "done"
  BY <1>1, <1>2 DEF TypeInv
<1>8. ThreadInv(f)'
  <2>1. Stamped(f)'
    BY <1>1, <1>7 DEF ThreadInv, Stamped, fileVars
  <2>2. ReadTrue(f)' /\ RecordsTrue(f)'
    BY <1>7 DEF ReadTrue, RecordsTrue, HasHashes
  <2>3. ChildTrue(f)'
    BY <1>1, <1>7 DEF ThreadInv, ChildTrue, Answered, HasReader, HasChild
  <2>4. ResultTrue(f)'
    BY <1>2, <1>7 DEF ResultTrue
  <2> QED
    BY <2>1, <2>2, <2>3, <2>4 DEF ThreadInv
<1>9. CacheInv'
  BY <1>1, UnchangedCache
<1> QED
  BY <1>5, <1>6, <1>8, <1>9, OneThread

(* The thread has no child yet, or no longer. *)
LEMMA Alone ==
  ASSUME ExtractionInv, NEW f \in Files, pc[f] \notin HasReader
  PROVE  ~reading[f] /\ pc[f] \notin HasChild
BY DEF ExtractionInv, ThreadInv, ChildTrue, HasReader

LEMMA StartedInv ==
  ASSUME ExtractionInv, NEW f \in Files, opened[f] = task[f],
         NEW target \in {"hashing", "capturing"}, StartReading(f, target),
         pc[f] = IF target = "hashing" THEN "begin" ELSE "miss",
         UNCHANGED <<cacheVars, fileVars, task, stopped, opened, digest, found, childVars, records>>
  PROVE  ExtractionInv'
<1>1. TypeInv /\ CacheInv /\ ThreadInv(f)
  BY DEF ExtractionInv
<1>2. CASE Len(data[f]) > SourceLimit
  <2>1. FailAs(f, FALSE)
    BY <1>2 DEF StartReading
  <2>2. ~reading[f] /\ pc[f] \notin HasChild \cup {"open"}
    BY Alone DEF HasReader, HasChild
  <2> QED
    BY <2>1, <2>2, FailedInv DEF StartReading, childVars
<1>3. CASE ~(Len(data[f]) > SourceLimit)
  <2>1. /\ pc' = [pc EXCEPT ![f] = target] /\ result' = result
        /\ before' = [before EXCEPT ![f] = Stamp(f)] /\ buffer' = [buffer EXCEPT ![f] = << >>]
    BY <1>3 DEF StartReading, Goto
  <2>2. TypeInv'
    BY <1>1, <2>1, Shapes, ReadingsAre DEF TypeInv, Places, fileVars, childVars
  <2>3. \A g \in Files \ {f} : Local(g)' = Local(g)
    BY <1>1, <2>1 DEF Local, TypeInv, fileVars, childVars
  <2>4. pc'[f] = target /\ buffer'[f] = << >>
    BY <1>1, <2>1 DEF TypeInv
  <2>5. Stamped(f)'
    BY <1>1, <2>4 DEF ThreadInv, Stamped, fileVars
  <2>6. ReadTrue(f)'
    BY <1>1, <2>4, Shapes DEF ThreadInv, ReadTrue, Unwritten, HasHashes, Places, fileVars
  <2>7. ChildTrue(f)'
    BY <1>1, <2>4 DEF ThreadInv, ChildTrue, Answered, HasReader, HasChild, childVars
  <2>8. RecordsTrue(f)' /\ ResultTrue(f)'
    BY <1>1, <2>1, <2>4 DEF ThreadInv, RecordsTrue, ResultTrue
  <2>9. CacheInv'
    BY <1>1, UnchangedCache
  <2> QED
    BY <2>2, <2>3, <2>5, <2>6, <2>7, <2>8, <2>9, OneThread DEF ThreadInv
<1> QED
  BY <1>2, <1>3

LEMMA BeginInv ==
  ASSUME ExtractionInv, NEW f \in Files, Begin(f)
  PROVE  ExtractionInv'
<1>1. CASE opened[f] # task[f]
  <2>1. ~reading[f] /\ pc[f] \notin HasChild \cup {"open"}
    BY Alone DEF Begin, At, HasReader, HasChild
  <2> QED
    BY <1>1, <2>1, FailedInv DEF Begin, childVars
<1>2. CASE opened[f] = task[f]
  BY <1>2, StartedInv DEF Begin, At
<1> QED
  BY <1>1, <1>2

LEMMA ReadInv ==
  ASSUME ExtractionInv, NEW f \in Files, Read(f)
  PROVE  ExtractionInv'
<1> USE ExtractionAssumption DEF ExtractionAssumption
<1>1. TypeInv /\ CacheInv /\ ThreadInv(f)
  BY DEF ExtractionInv
<1> DEFINE position == Len(buffer[f]) + 1
<1>2. CASE position > SourceLimit
  <2>1. ~reading[f] /\ pc[f] \notin HasChild \cup {"open"}
    BY Alone DEF Read, HasReader, HasChild
  <2> QED
    BY <1>2, <2>1, FailedInv DEF Read, childVars
<1>3. CASE ~(position > SourceLimit)
  <2>1. /\ buffer' = [buffer EXCEPT ![f] = Append(@, data[f][position])]
        /\ UNCHANGED <<pc, result>>
    BY <1>3 DEF Read
  <2>2. /\ Len(buffer[f]) \in Nat /\ Len(buffer[f]) < Len(data[f]) /\ Len(data[f]) \in Nat
        /\ buffer[f] \in Seq(Blocks) /\ data[f] \in Seq(Blocks)
    <3>1. buffer[f] \in Seq(Blocks)
      BY <1>1, ReadingsAre DEF TypeInv
    <3> QED BY <1>1, <3>1, Shapes DEF TypeInv, Read
  <2>3. data[f][position] \in Blocks
    BY <2>2
  <2>4. /\ buffer'[f] = Append(buffer[f], data[f][position]) /\ buffer' \in [Files -> Readings]
        /\ \A g \in Files \ {f} : buffer'[g] = buffer[g]
    <3> DEFINE longer == Append(buffer[f], data[f][position])
    <3>1. longer \in Readings
      BY <1>1, <1>3, <2>2, <2>3, ReadingsAre DEF TypeInv
    <3>2. buffer' = [buffer EXCEPT ![f] = longer]
      BY <2>1
    <3> HIDE DEF longer
    <3> QED BY <1>1, <3>1, <3>2 DEF TypeInv, longer
  <2>5. TypeInv'
    BY <1>1, <2>1, <2>4 DEF TypeInv, Read, fileVars, childVars
  <2>6. \A g \in Files \ {f} : Local(g)' = Local(g)
    BY <1>1, <2>1, <2>4 DEF Local, Read, fileVars, childVars
  <2>7. ReadTrue(f)'
    <3>1. Unwritten(f)' = Unwritten(f) /\ pc'[f] = pc[f] /\ data' = data /\ digest' = digest
      BY <2>1 DEF Unwritten, Read, fileVars
    <3>2. Len(buffer'[f]) = position /\ buffer'[f][position] = data[f][position]
          /\ \A n \in 1..Len(buffer[f]) : buffer'[f][n] = buffer[f][n]
      BY <2>2, <2>3, <2>4
    <3> QED
      BY <1>1, <2>2, <3>1, <3>2 DEF ThreadInv, ReadTrue
  <2>8. Stamped(f)' /\ RecordsTrue(f)' /\ ResultTrue(f)'
    BY <1>1, <2>1 DEF ThreadInv, Stamped, RecordsTrue, ResultTrue, Read, fileVars
  <2>9. ChildTrue(f)'
    BY <1>1, <2>1 DEF ThreadInv, ChildTrue, Answered, HasReader, HasChild, Read, childVars
  <2>10. CacheInv'
    BY <1>1, UnchangedCache DEF Read
  <2> QED
    BY <2>5, <2>6, <2>7, <2>8, <2>9, <2>10, OneThread DEF ThreadInv
<1> QED
  BY <1>2, <1>3

LEMMA HashedInv ==
  ASSUME ExtractionInv, NEW f \in Files, Hashed(f)
  PROVE  ExtractionInv'
<1>1. TypeInv /\ CacheInv /\ ThreadInv(f)
  BY DEF ExtractionInv
<1>2. /\ digest' = [digest EXCEPT ![f] = buffer[f]] /\ digest' \in [Files -> Readings \cup {Nothing}]
      /\ digest'[f] = buffer[f] /\ buffer[f] \in Seq(Blocks) /\ data[f] \in Seq(Blocks)
      /\ pc[f] = "hashing" /\ buffer[f] \in Readings
  <2>1. buffer[f] \in Readings /\ buffer[f] \in Seq(Blocks)
    BY <1>1, ReadingsAre DEF TypeInv
  <2> QED
    BY <1>1, <2>1, Shapes DEF TypeInv, Hashed, At
<1>3. CASE Stable(f)
  <2>1. pc' = [pc EXCEPT ![f] = "lookup"] /\ result' = result
    BY <1>3 DEF Hashed, Goto
  <2>2. TypeInv'
    BY <1>1, <1>2, <2>1 DEF TypeInv, Places, Hashed, fileVars, childVars
  <2>3. \A g \in Files \ {f} : Local(g)' = Local(g)
    BY <1>1, <1>2, <2>1 DEF Local, TypeInv, Hashed, fileVars, childVars
  <2>4. pc'[f] = "lookup"
    BY <1>1, <2>1 DEF TypeInv
  <2>5. Stamped(f)'
    BY <1>1, <1>2, <2>4 DEF ThreadInv, Stamped, Hashed, fileVars
  <2>6. ReadTrue(f)'
    <3>1. Unwritten(f)' => Unwritten(f)
      BY DEF Unwritten, Hashed, fileVars
    <3>2. Unwritten(f) => Len(buffer[f]) = Len(data[f]) /\ \A n \in 1..Len(buffer[f]) : buffer[f][n] = data[f][n]
      BY <1>1, <1>2, Shapes DEF ThreadInv, ReadTrue, Hashed, AtEnd
    <3>3. Unwritten(f) => buffer[f] = data[f]
      BY <1>2, <3>2, SeqEqual
    <3> QED
      BY <1>2, <2>4, <3>1, <3>3 DEF ReadTrue, Hashed, fileVars
  <2>7. ChildTrue(f)'
    BY <1>1, <1>2, <2>4 DEF ThreadInv, ChildTrue, Answered, HasReader, HasChild, Hashed, childVars
  <2>8. RecordsTrue(f)' /\ ResultTrue(f)'
    BY <1>1, <1>2, <2>1, <2>4 DEF ThreadInv, RecordsTrue, ResultTrue
  <2>9. CacheInv'
    BY <1>1, UnchangedCache DEF Hashed
  <2> QED
    BY <2>2, <2>3, <2>5, <2>6, <2>7, <2>8, <2>9, OneThread DEF ThreadInv
<1>4. CASE ~Stable(f)
  <2> DEFINE failed == [Result(f, TRUE, TRUE) EXCEPT !.digest = buffer[f]]
  <2>1. pc' = [pc EXCEPT ![f] = "done"] /\ result' = [result EXCEPT ![f] = failed]
    BY <1>4 DEF Hashed, Goto
  <2>2. failed \in Results /\ failed # Nothing /\ failed.error
    <3>1. Result(f, TRUE, TRUE) \in Results /\ Result(f, TRUE, TRUE).error
      BY <1>1, Shapes
    <3>2. failed \in Results /\ failed.error
      BY <1>2, <3>1 DEF Results
    <3> QED
      BY <3>2, ExtractionAssumption DEF ExtractionAssumption
  <2> HIDE DEF failed
  <2>3. TypeInv'
    BY <1>1, <1>2, <2>1, <2>2 DEF TypeInv, Places, Hashed, fileVars, childVars
  <2>4. \A g \in Files \ {f} : Local(g)' = Local(g)
    BY <1>1, <1>2, <2>1 DEF Local, TypeInv, Hashed, fileVars, childVars
  <2>5. pc'[f] = "done" /\ result'[f] = failed
    BY <1>1, <2>1 DEF TypeInv
  <2>6. Stamped(f)'
    BY <1>1, <1>2, <2>5 DEF ThreadInv, Stamped, Hashed, fileVars
  <2>7. ReadTrue(f)' /\ RecordsTrue(f)' /\ ResultTrue(f)'
    BY <2>2, <2>5 DEF ReadTrue, RecordsTrue, ResultTrue, HasHashes
  <2>8. ChildTrue(f)'
    BY <1>1, <1>2, <2>5 DEF ThreadInv, ChildTrue, Answered, HasReader, HasChild, Hashed, childVars
  <2>9. CacheInv'
    BY <1>1, UnchangedCache DEF Hashed
  <2> QED
    BY <2>3, <2>4, <2>6, <2>7, <2>8, <2>9, OneThread DEF ThreadInv
<1> QED
  BY <1>3, <1>4

(* The thread goes on to a place where nothing is said of it that was not   *)
(* said where it comes from.                                                *)
LEMMA MovedInv ==
  ASSUME ExtractionInv, NEW f \in Files, NEW target \in Places, pc' = [pc EXCEPT ![f] = target],
         TypeInv', CacheInv', RecordsTrue(f)', \A g \in Files \ {f} : Local(g)' = Local(g),
         pc[f] \notin {"open", "begin", "hashing", "done"},
         target \in HasHashes \ (HasReader \cup {"spawn", "capturing"}),
         UNCHANGED <<fileVars, task, opened, digest, child, frame, reading, reply, result>>,
         pc[f] \notin HasReader
  PROVE  ExtractionInv'
<1>1. TypeInv /\ ThreadInv(f) /\ pc'[f] = target
  BY DEF ExtractionInv, TypeInv
<1>2. Stamped(f)'
  BY <1>1 DEF ThreadInv, Stamped, HasHashes, Places, fileVars
<1>3. ReadTrue(f)'
  BY <1>1 DEF ThreadInv, ReadTrue, Unwritten, HasHashes, TypeInv, fileVars
<1>4. ChildTrue(f)'
  BY <1>1 DEF ThreadInv, ChildTrue, Answered, HasHashes, HasReader, HasChild, childVars
<1>5. ResultTrue(f)'
  BY <1>1 DEF ThreadInv, ResultTrue, HasHashes
<1> QED
  BY <1>2, <1>3, <1>4, <1>5, OneThread DEF ThreadInv

LEMMA LookupInv ==
  ASSUME ExtractionInv, NEW f \in Files, Lookup(f)
  PROVE  ExtractionInv'
<1>1. TypeInv /\ CacheInv /\ ThreadInv(f)
  BY DEF ExtractionInv
<1>2. CacheInv' /\ pc[f] = "lookup"
  BY <1>1, UnchangedCache DEF Lookup, At
<1>3. CASE Key(f) \in DOMAIN rows /\ found' = [found EXCEPT ![f] = rows[Key(f)]] /\ Goto(f, "touch")
  <2>1. /\ rows[Key(f)] \in CacheRows
        /\ rows[Key(f)].intact => rows[Key(f)].data.content = digest[f]
    BY <1>1, <1>3 DEF CacheInv, CacheSound, Key
  <2>2. TypeInv'
    BY <1>1, <1>3, <2>1 DEF TypeInv, Places, Lookup, Goto, fileVars, childVars
  <2>3. \A g \in Files \ {f} : Local(g)' = Local(g)
    BY <1>1, <1>3 DEF Local, TypeInv, Lookup, Goto, fileVars, childVars
  <2>4. RecordsTrue(f)'
    <3>1. pc'[f] = "touch" /\ found'[f] = rows[Key(f)] /\ digest' = digest
      BY <1>1, <1>3 DEF TypeInv, Lookup, Goto
    <3> QED
      BY <2>1, <3>1 DEF RecordsTrue
  <2> QED
    BY <1>2, <1>3, <2>2, <2>3, <2>4, MovedInv DEF Lookup, Goto, Places, HasHashes, HasReader, HasChild, childVars
<1>4. CASE Goto(f, "miss") /\ UNCHANGED found
  <2>1. TypeInv'
    BY <1>1, <1>4 DEF TypeInv, Places, Lookup, Goto, fileVars, childVars
  <2>2. \A g \in Files \ {f} : Local(g)' = Local(g)
    BY <1>1, <1>4 DEF Local, TypeInv, Lookup, Goto, fileVars, childVars
  <2>3. RecordsTrue(f)'
    BY <1>1, <1>4 DEF RecordsTrue, TypeInv, Goto
  <2> QED
    BY <1>2, <1>4, <2>1, <2>2, <2>3, MovedInv DEF Lookup, Goto, Places, HasHashes, HasReader, HasChild, childVars
<1> QED
  BY <1>3, <1>4 DEF Lookup

LEMMA FoundInv ==
  ASSUME ExtractionInv, NEW f \in Files, Found(f)
  PROVE  ExtractionInv'
<1>1. TypeInv /\ CacheInv /\ ThreadInv(f)
  BY DEF ExtractionInv
<1>2. pc[f] = "touch" /\ found[f] \in CacheRows /\ found' = [found EXCEPT ![f] = Nothing]
      /\ (found[f].intact => found[f].data.content = digest[f])
  BY <1>1 DEF ThreadInv, RecordsTrue, Found, At
<1>3. ASSUME found[f].intact, Touch(Key(f)), Goto(f, "hit"),
             records' = [records EXCEPT ![f] = [found[f].data EXCEPT !.path = f]]
      PROVE  ExtractionInv'
  <2> DEFINE batch == [found[f].data EXCEPT !.path = f]
  <2>1. batch \in Batches /\ batch.path = f /\ batch.content = digest[f]
    BY <1>2, <1>3 DEF CacheRows, Batches
  <2>2. batch # Nothing
    BY <2>1, ExtractionAssumption DEF ExtractionAssumption
  <2>3. records' = [records EXCEPT ![f] = batch]
    BY <1>3
  <2> HIDE DEF batch
  <2>4. TypeInv'
    <3>1. found' \in [Files -> CacheRows \cup {Nothing}]
      BY <1>1, <1>2 DEF TypeInv
    <3>2. records' \in [Files -> Batches \cup {Nothing}]
      BY <1>1, <2>1, <2>3 DEF TypeInv
    <3>3. pc' \in [Files -> Places]
      BY <1>1, <1>3 DEF TypeInv, Places, Goto
    <3> QED
      BY <1>1, <3>1, <3>2, <3>3 DEF TypeInv, Found, fileVars, childVars
  <2>5. \A g \in Files \ {f} : Local(g)' = Local(g)
    BY <1>1, <1>2, <1>3, <2>3 DEF Local, TypeInv, Found, Goto, fileVars, childVars
  <2>6. RecordsTrue(f)'
    <3>1. pc'[f] = "hit" /\ records'[f] = batch /\ digest' = digest
      BY <1>1, <1>3, <2>3 DEF TypeInv, Found, Goto
    <3> QED
      BY <2>1, <2>2, <3>1 DEF RecordsTrue
  <2>7. CacheInv'
    BY <1>1, <1>3, TouchStep
  <2> QED
    BY <1>2, <1>3, <2>4, <2>5, <2>6, <2>7, MovedInv DEF Found, Goto, Places, HasHashes, HasReader, HasChild, childVars
<1>4. ASSUME Goto(f, "miss"), UNCHANGED records, Discard(Key(f)) \/ UNCHANGED cacheVars
      PROVE  ExtractionInv'
  <2>1. TypeInv'
    BY <1>1, <1>2, <1>4 DEF TypeInv, Places, Found, Goto, fileVars, childVars
  <2>2. \A g \in Files \ {f} : Local(g)' = Local(g)
    BY <1>1, <1>2, <1>4 DEF Local, TypeInv, Found, Goto, fileVars, childVars
  <2>3. RecordsTrue(f)'
    BY <1>1, <1>4 DEF RecordsTrue, TypeInv, Goto
  <2>4. CacheInv'
    BY <1>1, <1>4, TouchStep, UnchangedCache
  <2> QED
    BY <1>2, <1>4, <2>1, <2>2, <2>3, <2>4, MovedInv DEF Found, Goto, Places, HasHashes, HasReader, HasChild, childVars
<1> QED
  BY <1>3, <1>4 DEF Found

LEMMA MissInv ==
  ASSUME ExtractionInv, NEW f \in Files, Miss(f)
  PROVE  ExtractionInv'
<1>1. opened[f] = task[f]
  BY DEF ExtractionInv, ThreadInv, Stamped, Miss, At
<1> QED
  BY <1>1, StartedInv DEF Miss, At

LEMMA CapturedInv ==
  ASSUME ExtractionInv, NEW f \in Files, Captured(f)
  PROVE  ExtractionInv'
<1>1. TypeInv /\ CacheInv /\ ThreadInv(f)
  BY DEF ExtractionInv
<1>2. pc[f] = "capturing"
  BY DEF Captured, At
<1>3. CASE Stable(f) /\ buffer[f] = digest[f]
  <2>1. pc' = [pc EXCEPT ![f] = "spawn"] /\ result' = result
    BY <1>3 DEF Captured, Goto
  <2>2. TypeInv' /\ pc'[f] = "spawn"
    BY <1>1, <2>1 DEF TypeInv, Places, Captured, fileVars, childVars
  <2>3. \A g \in Files \ {f} : Local(g)' = Local(g)
    BY <1>1, <2>1 DEF Local, TypeInv, Captured, fileVars, childVars
  <2>4. Stamped(f)' /\ RecordsTrue(f)' /\ ResultTrue(f)'
    BY <1>1, <1>2, <2>1, <2>2 DEF ThreadInv, Stamped, RecordsTrue, ResultTrue, Captured, fileVars
  <2>5. ReadTrue(f)'
    BY <1>1, <1>2, <2>2 DEF ThreadInv, ReadTrue, Unwritten, HasHashes, Places, Captured, fileVars
  <2>6. ChildTrue(f)'
    BY <1>1, <1>2, <1>3, <2>2 DEF ThreadInv, ChildTrue, Answered, HasReader, HasChild, Captured, childVars
  <2>7. CacheInv'
    BY <1>1, UnchangedCache DEF Captured
  <2> QED
    BY <2>2, <2>3, <2>4, <2>5, <2>6, <2>7, OneThread DEF ThreadInv
<1>4. CASE ~(Stable(f) /\ buffer[f] = digest[f])
  <2>1. ~reading[f] /\ pc[f] \notin HasChild \cup {"open"}
    BY <1>2, Alone DEF HasReader, HasChild
  <2> QED
    BY <1>4, <2>1, FailedInv DEF Captured, childVars
<1> QED
  BY <1>3, <1>4

LEMMA SpawnInv ==
  ASSUME ExtractionInv, NEW f \in Files, Spawn(f)
  PROVE  ExtractionInv'
<1>1. TypeInv /\ CacheInv /\ ThreadInv(f)
  BY DEF ExtractionInv
<1>2. pc[f] = "spawn" /\ ~reading[f] /\ pc[f] \notin HasChild \cup {"open"}
  BY Alone DEF Spawn, At, HasReader, HasChild
<1>3. ASSUME child' = [child EXCEPT ![f] = "running"], reading' = [reading EXCEPT ![f] = TRUE],
             Goto(f, "wait"), UNCHANGED result
      PROVE  ExtractionInv'
  <2>1. TypeInv' /\ pc'[f] = "wait"
    BY <1>1, <1>3 DEF TypeInv, Places, Goto, Spawn, fileVars, childVars
  <2>2. \A g \in Files \ {f} : Local(g)' = Local(g)
    BY <1>1, <1>3 DEF Local, TypeInv, Goto, Spawn, fileVars, childVars
  <2>3. Stamped(f)' /\ RecordsTrue(f)' /\ ResultTrue(f)'
    BY <1>1, <1>2, <1>3, <2>1 DEF ThreadInv, Stamped, RecordsTrue, ResultTrue, Spawn, fileVars
  <2>4. ReadTrue(f)'
    BY <1>1, <1>2, <2>1 DEF ThreadInv, ReadTrue, Unwritten, HasHashes, Places, Spawn, fileVars
  <2>5. ChildTrue(f)'
    BY <1>1, <1>2, <2>1 DEF ThreadInv, ChildTrue, Answered, HasReader, HasChild, Spawn
  <2>6. CacheInv'
    BY <1>1, UnchangedCache DEF Spawn
  <2> QED
    BY <2>1, <2>2, <2>3, <2>4, <2>5, <2>6, OneThread DEF ThreadInv
<1>4. ASSUME FailAs(f, FALSE), UNCHANGED <<child, reading>> PROVE ExtractionInv'
  BY <1>2, <1>4, FailedInv DEF Spawn
<1> QED
  BY <1>3, <1>4 DEF Spawn

(* The child and its reader go on while the thread stays where it is. *)
LEMMA ChildMoved ==
  ASSUME ExtractionInv, NEW f \in Files, TypeInv', ChildTrue(f)',
         \A g \in Files \ {f} : child'[g] = child[g] /\ frame'[g] = frame[g] /\ reading'[g] = reading[g] /\ reply'[g] = reply[g],
         UNCHANGED <<cacheVars, fileVars, task, pc, stopped, opened, before, buffer, digest, found, records, result>>
  PROVE  ExtractionInv'
<1>1. TypeInv /\ CacheInv /\ ThreadInv(f)
  BY DEF ExtractionInv
<1>2. \A g \in Files \ {f} : Local(g)' = Local(g)
  BY DEF Local, fileVars
<1>3. Stamped(f)' /\ ReadTrue(f)' /\ RecordsTrue(f)' /\ ResultTrue(f)'
  BY <1>1 DEF ThreadInv, Stamped, ReadTrue, Unwritten, RecordsTrue, ResultTrue, fileVars
<1>4. CacheInv'
  BY <1>1, UnchangedCache
<1> QED
  BY <1>2, <1>3, <1>4, OneThread DEF ThreadInv

LEMMA AnswerInv ==
  ASSUME ExtractionInv, NEW f \in Files, Answer(f)
  PROVE  ExtractionInv'
<1>1. TypeInv /\ CacheInv /\ ThreadInv(f)
  BY DEF ExtractionInv
<1>2. PICK answer \in Frames : /\ frame' = [frame EXCEPT ![f] = answer]
                               /\ answer.kind = "records" =>
                                    answer.records \in Batches /\ answer.records.content = buffer[f] /\ answer.records.path = f
  <2>1. ASSUME NEW whole \in BOOLEAN
        PROVE  LET answer == Frame("records", Records(buffer[f], f, whole))
               IN  /\ answer \in Frames /\ answer.records \in Batches
                   /\ answer.records.content = buffer[f] /\ answer.records.path = f
    BY <1>1 DEF TypeInv, Frames, Frame, Kinds, Records, Batches
  <2>2. ASSUME NEW kind \in {"error", "garbled", "foreign"}
        PROVE  Frame(kind, Nothing) \in Frames /\ Frame(kind, Nothing).kind # "records"
    BY DEF Frames, Frame, Kinds
  <2> QED
    BY <2>1, <2>2 DEF Answer
<1>3. TypeInv'
  BY <1>1, <1>2 DEF TypeInv, Answer, fileVars, childVars
<1>4. ChildTrue(f)'
  <2>1. frame'[f] = answer /\ pc[f] \in HasChild /\ buffer[f] = digest[f]
    BY <1>1, <1>2 DEF TypeInv, ThreadInv, ChildTrue, HasReader, Answer
  <2> QED
    BY <1>1, <1>2, <2>1 DEF ThreadInv, ChildTrue, Answered, HasReader, HasChild, Answer
<1> QED
  BY <1>1, <1>2, <1>3, <1>4, ChildMoved DEF Answer, TypeInv

LEMMA ChildEndsInv ==
  ASSUME ExtractionInv, NEW f \in Files, ChildEnds(f)
  PROVE  ExtractionInv'
<1>1. TypeInv /\ CacheInv /\ ThreadInv(f)
  BY DEF ExtractionInv
<1>2. PICK answer \in {frame[f], Frame("short", Nothing)}, end \in {"exited", "crashed"} :
        frame' = [frame EXCEPT ![f] = answer] /\ child' = [child EXCEPT ![f] = end]
  <2>1. frame = [frame EXCEPT ![f] = frame[f]]
    BY <1>1 DEF TypeInv
  <2>2. CASE frame' = frame
    BY <2>1, <2>2 DEF ChildEnds
  <2>3. CASE frame' = [frame EXCEPT ![f] = Frame("short", Nothing)]
    BY <2>3 DEF ChildEnds
  <2> QED
    BY <2>2, <2>3, Zenon DEF ChildEnds
<1>3. answer \in Frames /\ (answer.kind = "records" => answer = frame[f])
  BY <1>1, <1>2 DEF TypeInv, Frames, Frame, Kinds
<1>4. TypeInv'
  BY <1>1, <1>2, <1>3 DEF TypeInv, ChildEnds, fileVars, childVars
<1>5. ChildTrue(f)'
  <2>1. frame'[f] = answer /\ pc[f] \in HasChild
    BY <1>1, <1>2 DEF TypeInv, ThreadInv, ChildTrue, ChildEnds
  <2> QED
    BY <1>1, <1>3, <2>1 DEF ThreadInv, ChildTrue, Answered, HasReader, HasChild, ChildEnds
<1> QED
  BY <1>1, <1>2, <1>4, <1>5, ChildMoved DEF ChildEnds, TypeInv

LEMMA ReaderInv ==
  ASSUME ExtractionInv, NEW f \in Files, Reader(f)
  PROVE  ExtractionInv'
<1>1. TypeInv /\ CacheInv /\ ThreadInv(f)
  BY DEF ExtractionInv
<1>2. TypeInv'
  BY <1>1 DEF TypeInv, Places, Reader, Frame, Frames, Kinds, fileVars, childVars
<1>3. CacheInv'
  BY <1>1, UnchangedCache DEF Reader
<1>4. \A g \in Files \ {f} : Local(g)' = Local(g)
  BY <1>1 DEF Local, TypeInv, Reader, Frame, fileVars, childVars
<1>5. Stamped(f)'
  BY <1>1 DEF ThreadInv, Stamped, TypeInv, Stamps, Reader, Frame, fileVars, childVars
<1>6. ReadTrue(f)'
  BY <1>1 DEF ThreadInv, Stamped, ReadTrue, Unwritten, TypeInv, HasHashes, Places, Reader, Frame, fileVars, childVars
<1>7. ChildTrue(f)'
  BY <1>1 DEF ThreadInv, ChildTrue, Answered, TypeInv, HasReader, HasChild, Reader, Frame, fileVars, childVars
<1>8. RecordsTrue(f)'
  BY <1>1 DEF ThreadInv, RecordsTrue, TypeInv, Reader, Frame, fileVars, childVars
<1>9. ResultTrue(f)'
  BY <1>1 DEF ThreadInv, ResultTrue, TypeInv, Reader, Frame, fileVars, childVars
<1> QED
  BY <1>2, <1>3, <1>4, <1>5, <1>6, <1>7, <1>8, <1>9, OneThread DEF ThreadInv

LEMMA PollInv ==
  ASSUME ExtractionInv, NEW f \in Files, Poll(f)
  PROVE  ExtractionInv'
<1>1. TypeInv /\ CacheInv /\ ThreadInv(f)
  BY DEF ExtractionInv
<1>2. TypeInv'
  BY <1>1 DEF TypeInv, Places, Poll, Goto, At, fileVars, childVars
<1>3. CacheInv'
  BY <1>1, UnchangedCache DEF Poll
<1>4. \A g \in Files \ {f} : Local(g)' = Local(g)
  BY <1>1 DEF Local, TypeInv, Poll, Goto, At, fileVars, childVars
<1>5. Stamped(f)'
  BY <1>1 DEF ThreadInv, Stamped, TypeInv, Stamps, Poll, Goto, At, fileVars, childVars
<1>6. ReadTrue(f)'
  BY <1>1 DEF ThreadInv, Stamped, ReadTrue, Unwritten, TypeInv, HasHashes, Places, Poll, Goto, At, fileVars, childVars
<1>7. ChildTrue(f)'
  BY <1>1 DEF ThreadInv, ChildTrue, Answered, TypeInv, HasReader, HasChild, Poll, Goto, At, fileVars, childVars
<1>8. RecordsTrue(f)'
  BY <1>1 DEF ThreadInv, RecordsTrue, TypeInv, Poll, Goto, At, fileVars, childVars
<1>9. ResultTrue(f)'
  BY <1>1 DEF ThreadInv, ResultTrue, TypeInv, Poll, Goto, At, fileVars, childVars
<1> QED
  BY <1>2, <1>3, <1>4, <1>5, <1>6, <1>7, <1>8, <1>9, OneThread DEF ThreadInv

LEMMA ReapInv ==
  ASSUME ExtractionInv, NEW f \in Files, Reap(f)
  PROVE  ExtractionInv'
<1>1. TypeInv /\ CacheInv /\ ThreadInv(f)
  BY DEF ExtractionInv
<1>2. TypeInv'
  BY <1>1 DEF TypeInv, Places, Reap, Goto, At, fileVars, childVars
<1>3. CacheInv'
  BY <1>1, UnchangedCache DEF Reap
<1>4. \A g \in Files \ {f} : Local(g)' = Local(g)
  BY <1>1 DEF Local, TypeInv, Reap, Goto, At, fileVars, childVars
<1>5. Stamped(f)'
  BY <1>1 DEF ThreadInv, Stamped, TypeInv, Stamps, Reap, Goto, At, fileVars, childVars
<1>6. ReadTrue(f)'
  BY <1>1 DEF ThreadInv, Stamped, ReadTrue, Unwritten, TypeInv, HasHashes, Places, Reap, Goto, At, fileVars, childVars
<1>7. ChildTrue(f)'
  BY <1>1 DEF ThreadInv, ChildTrue, Answered, TypeInv, HasReader, HasChild, Reap, Goto, At, fileVars, childVars
<1>8. RecordsTrue(f)'
  BY <1>1 DEF ThreadInv, RecordsTrue, TypeInv, Reap, Goto, At, fileVars, childVars
<1>9. ResultTrue(f)'
  BY <1>1 DEF ThreadInv, ResultTrue, TypeInv, Reap, Goto, At, fileVars, childVars
<1> QED
  BY <1>2, <1>3, <1>4, <1>5, <1>6, <1>7, <1>8, <1>9, OneThread DEF ThreadInv

LEMMA JudgeInv ==
  ASSUME ExtractionInv, NEW f \in Files, Judge(f)
  PROVE  ExtractionInv'
<1>1. TypeInv /\ CacheInv /\ ThreadInv(f)
  BY DEF ExtractionInv
<1>2. /\ pc[f] \in {"join", "joinFailed"} /\ ~reading[f] /\ pc[f] \notin HasChild \cup {"open"}
      /\ frame' = [frame EXCEPT ![f] = Frame("none", Nothing)]
      /\ reply' = [reply EXCEPT ![f] = Frame("none", Nothing)]
  BY DEF Judge, HasChild
<1>3. CASE FailAs(f, FALSE) /\ UNCHANGED records
  BY <1>2, <1>3, FailedInv DEF Judge
<1>4. ASSUME pc[f] = "join", reply[f].kind \notin {"error", "foreign", "short"},
             records' = [records EXCEPT ![f] = reply[f].records], Goto(f, "offer"), UNCHANGED result
      PROVE  ExtractionInv'
  <2>1. reply[f].records \in Batches /\ reply[f].records.content = digest[f] /\ reply[f].records.path = f
    <3>1. reply[f].kind = "records"
      BY <1>1, <1>4 DEF TypeInv, Frames, Kinds, ThreadInv, ChildTrue
    <3> QED
      BY <1>1, <1>4, <3>1 DEF ThreadInv, ChildTrue, Answered
  <2>2. Frame("none", Nothing) \in Frames /\ Frame("none", Nothing).kind = "none"
    BY DEF Frames, Kinds, Frame
  <2>3. TypeInv'
    <3>1. /\ records' \in [Files -> Batches \cup {Nothing}] /\ pc' \in [Files -> Places]
          /\ frame' \in [Files -> Frames] /\ reply' \in [Files -> Frames]
      BY <1>1, <1>2, <1>4, <2>1, <2>2 DEF TypeInv, Places, Goto
    <3> QED
      BY <1>1, <1>4, <3>1 DEF TypeInv, Judge, fileVars
  <2>4. \A g \in Files \ {f} : Local(g)' = Local(g)
    BY <1>1, <1>2, <1>4 DEF Local, TypeInv, Judge, Goto, fileVars
  <2>5. pc'[f] = "offer" /\ records'[f] = reply[f].records
        /\ frame'[f] = Frame("none", Nothing) /\ reply'[f] = Frame("none", Nothing)
    BY <1>1, <1>2, <1>4 DEF TypeInv, Goto
  <2>6. Stamped(f)'
    BY <1>1, <1>4, <2>5 DEF ThreadInv, Stamped, Judge, fileVars
  <2>7. ReadTrue(f)'
    BY <1>1, <1>4, <2>5 DEF ThreadInv, ReadTrue, Unwritten, HasHashes, Places, Judge, fileVars
  <2>8. ChildTrue(f)'
    BY <1>1, <1>2, <1>4, <2>2, <2>5 DEF ThreadInv, ChildTrue, Answered, HasReader, HasChild, Judge
  <2>9. RecordsTrue(f)' /\ ResultTrue(f)'
    BY <1>1, <1>4, <2>1, <2>5 DEF ThreadInv, RecordsTrue, ResultTrue, Judge
  <2>10. CacheInv'
    BY <1>1, UnchangedCache DEF Judge
  <2> QED
    BY <2>3, <2>4, <2>6, <2>7, <2>8, <2>9, <2>10, OneThread DEF ThreadInv
<1> QED
  BY <1>3, <1>4 DEF Judge, At

LEMMA OfferInv ==
  ASSUME ExtractionInv, NEW f \in Files, Offer(f)
  PROVE  ExtractionInv'
<1>1. TypeInv /\ CacheInv /\ ThreadInv(f)
  BY DEF ExtractionInv
<1>2. pc[f] = "offer" /\ records[f] \in Batches /\ records[f].content = Key(f)
  BY <1>1 DEF ThreadInv, RecordsTrue, Offer, At, Key
<1>3. CacheInv'
  BY <1>1, <1>2, PutStep, UnchangedCache DEF Offer
<1>4. TypeInv'
  BY <1>1 DEF TypeInv, Places, Offer, Goto, fileVars, childVars
<1>5. \A g \in Files \ {f} : Local(g)' = Local(g)
  BY <1>1 DEF Local, TypeInv, Offer, Goto, fileVars, childVars
<1>6. RecordsTrue(f)'
  BY <1>1, <1>2 DEF ThreadInv, RecordsTrue, TypeInv, Offer, Goto
<1> QED
  BY <1>2, <1>3, <1>4, <1>5, <1>6, MovedInv DEF Offer, Goto, Places, HasHashes, HasReader, HasChild, childVars

(* The thread is done, and what it says is true. *)
LEMMA EndedInv ==
  ASSUME ExtractionInv, NEW f \in Files, Goto(f, "done"),
         NEW outcome \in Results, result' = [result EXCEPT ![f] = outcome],
         ~outcome.error => /\ outcome.records # Nothing
                           /\ outcome.records.path = f /\ outcome.records.content = outcome.digest,
         pc[f] \notin HasChild \cup {"open"}, ~reading[f],
         UNCHANGED <<cacheVars, fileVars, task, stopped, opened, before, buffer, digest, found, childVars, records>>
  PROVE  ExtractionInv'
<1>1. TypeInv /\ CacheInv /\ ThreadInv(f)
  BY DEF ExtractionInv
<1>2. TypeInv' /\ pc'[f] = "done" /\ result'[f] = outcome
  BY <1>1 DEF TypeInv, Places, Goto, fileVars, childVars
<1>3. \A g \in Files \ {f} : Local(g)' = Local(g)
  BY <1>1 DEF Local, TypeInv, Goto, fileVars, childVars
<1>4. outcome # Nothing
  BY ExtractionAssumption DEF ExtractionAssumption
<1>5. Stamped(f)'
  BY <1>1, <1>2 DEF ThreadInv, Stamped, fileVars
<1>6. ReadTrue(f)' /\ RecordsTrue(f)' /\ ResultTrue(f)'
  BY <1>2, <1>4 DEF ReadTrue, RecordsTrue, ResultTrue, HasHashes
<1>7. ChildTrue(f)'
  BY <1>1, <1>2 DEF ThreadInv, ChildTrue, Answered, HasReader, HasChild, childVars
<1>8. CacheInv'
  BY <1>1, UnchangedCache
<1> QED
  BY <1>2, <1>3, <1>5, <1>6, <1>7, <1>8, OneThread DEF ThreadInv

LEMMA CloseInv ==
  ASSUME ExtractionInv, NEW f \in Files, Close(f)
  PROVE  ExtractionInv'
<1>1. TypeInv /\ CacheInv /\ ThreadInv(f)
  BY DEF ExtractionInv
<1> DEFINE changed == Stamp(f) # opened[f]
           outcome == Result(f, changed, changed)
<1>2. /\ outcome \in Results /\ outcome.records = records[f] /\ outcome.digest = digest[f]
  BY <1>1, Shapes
<1>3. records[f] # Nothing /\ records[f].path = f /\ records[f].content = digest[f]
  BY <1>1, ExtractionAssumption DEF ThreadInv, RecordsTrue, Close, ExtractionAssumption
<1>4. ~reading[f] /\ pc[f] \notin HasChild \cup {"open"}
  BY Alone DEF Close, HasReader, HasChild
<1>5. Goto(f, "done") /\ result' = [result EXCEPT ![f] = outcome]
  BY DEF Close
<1>6. UNCHANGED <<cacheVars, fileVars, task, stopped, opened, before, buffer, digest, found, childVars, records>>
  BY DEF Close
<1> HIDE DEF outcome
<1> QED
  BY <1>2, <1>3, <1>4, <1>5, <1>6, EndedInv

LEMMA NoticeStopInv ==
  ASSUME ExtractionInv, NEW f \in Files, NoticeStop(f)
  PROVE  ExtractionInv'
<1>1. TypeInv /\ CacheInv /\ ThreadInv(f)
  BY DEF ExtractionInv
<1>2. PICK kept \in {records[f], Nothing} :
        result' = [result EXCEPT ![f] = [Result(f, TRUE, FALSE) EXCEPT !.records = kept]]
  BY DEF NoticeStop
<1> DEFINE outcome == [Result(f, TRUE, FALSE) EXCEPT !.records = kept]
<1>3. outcome \in Results /\ outcome.error
  <2>1. Result(f, TRUE, FALSE) \in Results /\ Result(f, TRUE, FALSE).error
    BY <1>1, Shapes
  <2>2. kept \in Batches \cup {Nothing}
    BY <1>1 DEF TypeInv
  <2> QED
    BY <2>1, <2>2 DEF Results
<1>4. ~reading[f] /\ pc[f] \notin HasChild \cup {"open"}
  BY <1>1 DEF NoticeStop, At, ThreadInv, ChildTrue, HasReader, HasChild
<1>5. Goto(f, "done") /\ result' = [result EXCEPT ![f] = outcome]
  BY <1>2 DEF NoticeStop
<1> HIDE DEF outcome
<1> QED
  BY <1>3, <1>4, <1>5, EndedInv DEF NoticeStop

-----------------------------------------------------------------------------
LEMMA ExtractionInit == Init => ExtractionInv
<1> SUFFICES ASSUME Init PROVE ExtractionInv
  OBVIOUS
<1> USE ExtractionAssumption, CacheAssumption DEF ExtractionAssumption, CacheAssumption
<1>1. \A f \in Files : data[f] \in Seq(Blocks) /\ Stamp(f) \in Stamps /\ Stamp(f).time = 0
  BY DEF Init, Stamp, Stamps
<1>2. Frame("none", Nothing) \in Frames /\ Frame("none", Nothing).kind = "none"
  BY DEF Frame, Frames, Kinds
<1>3. TypeInv
  BY <1>1, <1>2, ReadingsAre DEF Init, TypeInv, Places
<1>4. CacheInv
  BY NoneFits DEF Init, CacheInit, CacheInv, CacheSound
<1>5. ASSUME NEW f \in Files PROVE ThreadInv(f)
  BY <1>1, <1>2 DEF Init, ThreadInv, Stamped, ReadTrue, HasHashes, ChildTrue, Answered,
                    HasReader, HasChild, RecordsTrue, ResultTrue
<1> QED
  BY <1>3, <1>4, <1>5 DEF ExtractionInv

LEMMA ExtractionStep == ExtractionInv /\ [Next]_vars => ExtractionInv'
<1> SUFFICES ASSUME ExtractionInv, [Next]_vars PROVE ExtractionInv'
  OBVIOUS
<1>1. ASSUME NEW f \in Files, Thread(f) PROVE ExtractionInv'
  BY <1>1, OpenInv, BeginInv, ReadInv, HashedInv, LookupInv, FoundInv, MissInv, CapturedInv,
     SpawnInv, PollInv, ReapInv, JudgeInv, OfferInv, CloseInv, NoticeStopInv DEF Thread
<1>2. ASSUME NEW f \in Files, Answer(f) \/ ChildEnds(f) \/ Reader(f) \/ Write(f) \/ Stop(f) PROVE ExtractionInv'
  BY <1>2, AnswerInv, ChildEndsInv, ReaderInv, WriteInv, StopInv
<1>3. CASE UNCHANGED vars
  BY <1>3, UnchangedThreads, UnchangedCache DEF vars, ExtractionInv
<1> QED
  BY <1>1, <1>2, <1>3, OutsideInv DEF Next

THEOREM ExtractionInductive == Spec => []ExtractionInv
BY ExtractionInit, ExtractionStep, PTL DEF Spec

-----------------------------------------------------------------------------
(* The cache holds under a key only the whole records of just that content  *)
(* (cache.rs:179-190), and never more entries or bytes than its two limits  *)
(* (cache.rs:119-133), for any limits and sizes of records and whatever is  *)
(* evicted, purged or damaged in between.                                   *)
THEOREM CacheIsSound == Spec => []CacheSound
<1>1. ExtractionInv => CacheSound
  BY DEF ExtractionInv, CacheInv
<1> QED
  BY <1>1, ExtractionInductive, PTL

(* What process reports without an error are the records of this file and   *)
(* of the content it hashed (cache.rs:164-178), and a call that has ended   *)
(* has left neither a child nor a reader behind (worker.rs:224-226).        *)
THEOREM ExtractionIsSound == Spec => []ExtractionSound
<1>1. ExtractionInv => ExtractionSound
  <2> SUFFICES ASSUME ExtractionInv PROVE ExtractionSound
    OBVIOUS
  <2>1. ExtractionTypeOK
    <3>1. \A f \in Files : (pc[f] = "done") = (result[f] # Nothing)
      BY DEF ExtractionInv, ThreadInv, ResultTrue
    <3> QED
      BY <3>1 DEF ExtractionInv, TypeInv, CacheInv, CacheRows, ExtractionTypeOK
  <2>2. ResultsTrue
    BY DEF ExtractionInv, ThreadInv, ResultTrue, ResultsTrue
  <2>3. NothingLeftRunning
    BY DEF ExtractionInv, ThreadInv, ChildTrue, HasChild, HasReader, NothingLeftRunning
  <2> QED
    BY <2>1, <2>2, <2>3 DEF ExtractionSound
<1> QED
  BY <1>1, ExtractionInductive, PTL

-----------------------------------------------------------------------------
(* Only the last look at the file ends a call without an error. *)
LEMMA OnlyClose ==
  ASSUME ExtractionInv, NEW f \in Files, [Next]_vars, pc[f] # "done", pc'[f] = "done", ~result'[f].error
  PROVE  Close(f)
<1>1. TypeInv
  BY DEF ExtractionInv
<1>2. ASSUME NEW unstable \in BOOLEAN, FailAs(f, unstable) PROVE FALSE
  BY <1>1, <1>2, FailAsStep
<1>3. ASSUME NEW g \in Files \ {f}, NEW target, Goto(g, target) PROVE FALSE
  BY <1>1, <1>3 DEF TypeInv, Goto
<1>4. ASSUME NEW g \in Files \ {f}, Thread(g) PROVE FALSE
  <2>1. CASE Open(g) \/ Begin(g) \/ Read(g) \/ Hashed(g) \/ Miss(g) \/ Captured(g) \/ Spawn(g) \/ Judge(g)
    BY <1>3, <2>1 DEF Open, Begin, Read, Hashed, Miss, Captured, Spawn, Judge, StartReading, FailAs
  <2>2. CASE Lookup(g) \/ Found(g) \/ Poll(g) \/ Reap(g) \/ Offer(g) \/ Close(g) \/ NoticeStop(g)
    BY <1>3, <2>2 DEF Lookup, Found, Poll, Reap, Offer, Close, NoticeStop
  <2> QED
    BY <1>4, <2>1, <2>2 DEF Thread
<1>5. ASSUME ~UNCHANGED pc PROVE Thread(f)
  <2>1. ASSUME NEW g \in Files, Answer(g) \/ ChildEnds(g) \/ Reader(g) \/ Write(g) \/ Stop(g) PROVE FALSE
    BY <1>5, <2>1 DEF Answer, ChildEnds, Reader, Write, Stop
  <2>2. ~OutsideStep /\ ~UNCHANGED vars
    BY <1>5 DEF OutsideStep, vars
  <2> QED
    BY <1>4, <2>1, <2>2 DEF Next
<1>6. Thread(f)
  BY <1>5
<1>7. ASSUME Hashed(f) PROVE FALSE
  <2>1. ~Stable(f) /\ result'[f] = [Result(f, TRUE, TRUE) EXCEPT !.digest = buffer[f]]
    BY <1>1, <1>7 DEF Hashed, Goto, TypeInv
  <2>2. result'[f].error
    BY <2>1 DEF Result
  <2> QED
    BY <2>2
<1>8. ASSUME NoticeStop(f) PROVE FALSE
  <2>1. PICK kept \in {records[f], Nothing} :
          result' = [result EXCEPT ![f] = [Result(f, TRUE, FALSE) EXCEPT !.records = kept]]
    BY <1>8 DEF NoticeStop
  <2>2. result'[f] = [Result(f, TRUE, FALSE) EXCEPT !.records = kept]
    BY <1>1, <2>1 DEF TypeInv
  <2>3. result'[f].error
    BY <2>2 DEF Result
  <2> QED
    BY <2>3
<1>9. ASSUME Begin(f) \/ Read(f) \/ Miss(f) \/ Captured(f) \/ Spawn(f) \/ Judge(f) PROVE FALSE
  <2>1. ASSUME NEW target \in Places \ {"done"}, Goto(f, target) PROVE FALSE
    BY <1>1, <2>1 DEF TypeInv, Goto
  <2>2. ~Begin(f) /\ ~Miss(f)
    BY <1>2, <2>1 DEF Begin, Miss, StartReading, Places
  <2>3. ~Read(f)
    BY <1>2 DEF Read
  <2>4. ~Captured(f) /\ ~Spawn(f) /\ ~Judge(f)
    BY <1>2, <2>1 DEF Captured, Spawn, Judge, Places
  <2> QED
    BY <1>9, <2>2, <2>3, <2>4
<1>10. ASSUME Open(f) \/ Lookup(f) \/ Found(f) \/ Poll(f) \/ Reap(f) \/ Offer(f) PROVE FALSE
  BY <1>1, <1>10 DEF TypeInv, Open, Lookup, Found, Poll, Reap, Offer, Goto, At
<1> QED
  BY <1>6, <1>7, <1>8, <1>9, <1>10 DEF Thread

(* What is reported without an error is the content that was discovered and *)
(* that the file still has (pipeline.rs:556-583), if every write to it      *)
(* showed in its stamp.                                                     *)
THEOREM ContentIsDiscovered == Spec => DiscoveredContent
<1>1. ASSUME ExtractionInv, [Next]_vars,
             NEW f \in Files, pc[f] # "done", pc'[f] = "done", ~result'[f].error, tick[f] = version[f]
      PROVE  version[f] = task[f].time /\ result'[f].digest = data[f]
  <2>1. Close(f) /\ TypeInv /\ ThreadInv(f)
    BY <1>1, OnlyClose DEF ExtractionInv
  <2> DEFINE changed == Stamp(f) # opened[f]
  <2>2. result'[f] = Result(f, changed, changed) /\ pc[f] \in {"hit", "batch"}
    BY <2>1 DEF Close, TypeInv
  <2>3. result'[f].error = changed /\ result'[f].digest = digest[f] /\ Stamp(f).time = tick[f]
    BY <2>1, <2>2, Shapes
  <2>4. Stamp(f) = opened[f] /\ opened[f] = task[f]
    BY <1>1, <2>1, <2>2, <2>3 DEF ThreadInv, Stamped
  <2>5. Unwritten(f) /\ pc[f] \in HasHashes
    BY <1>1, <2>2, <2>3, <2>4 DEF Unwritten, HasHashes, Places
  <2> QED
    BY <1>1, <2>1, <2>3, <2>4, <2>5 DEF ThreadInv, ReadTrue
<1>2. ExtractionInv /\ [Next]_vars =>
        [\A f \in Files :
           pc[f] # "done" /\ pc'[f] = "done" /\ ~result'[f].error /\ tick[f] = version[f]
             => version[f] = task[f].time /\ result'[f].digest = data[f]]_vars
  BY <1>1
<1> QED
  BY <1>2, ExtractionInductive, PTL DEF DiscoveredContent, Spec

-----------------------------------------------------------------------------
(* The extraction of a file and of what is in it.                           *)

Works == [member : Nat, parent : Nat, depth : Nat]
Errors == Limits \cup {Nobody, "malformed", "unsupported"}
ParserNames == Listers \cup {"document.package", "formats.resource", "pdf.security",
                           "images.metadata", "images.structure"}
Outcomes == [parser : ParserNames, error : Errors]
Extracted == [member : Nat, parent : Nat, depth : Nat, results : Seq(Outcomes)]
Budgets == [status : Limits \cup {"Ok"}, limits : [Resources -> Nat], member : Nat, size : Nat,
            used : [Resources -> Nat]]
Runs == [parser : ParserNames, budget : Budgets, left : Seq(Nat), emitted : Seq(Nat),
         verdict : {Nobody, "unsupported", "malformed"}, over : BOOLEAN]

(* The nodes, with the one that is being made: what was popped. *)
Busy == place \in {"parser", "native"}
Popped == Len(nodes) + (IF Busy THEN 1 ELSE 0)
Node(i) == IF i <= Len(nodes) THEN nodes[i] ELSE current

TreeShape ==
  /\ TreeTypeOK
  /\ pendingWork \in Seq(Works) /\ nodes \in Seq(Extracted) /\ results \in Seq(Outcomes)
  /\ todo \in Seq(ParserNames)
  /\ IF Busy THEN current \in Works ELSE current = Nobody /\ todo = << >> /\ results = << >>
  /\ IF place = "native" THEN run \in Runs ELSE run = NoRun

TreeRoom ==
  /\ \A r \in Resources : usage[r] <= policy.limits[r]
  /\ usage["decoded"] <= RootExpansion
  /\ place = "native" => /\ run.budget.limits = Available
                         /\ \A r \in Resources : run.budget.used[r] <= Available[r]
  /\ queued <= policy.total
  /\ Popped + Len(pendingWork) <= policy.nodes

Born(w, n) ==
  /\ w.member \in Members(file) /\ w.depth <= policy.depth
  /\ IF w.parent = 0 THEN n = 0 /\ w.member = 1 /\ w.depth = 0
     ELSE /\ w.parent \in 1..n /\ w.depth = Node(w.parent).depth + 1
          /\ w.member \in Showing(file, Node(w.parent).member)

TreeBorn ==
  /\ \A i \in 1..Popped : Born(Node(i), i - 1)
  /\ \A k \in DOMAIN pendingWork : Born(pendingWork[k], Popped)

(* A member may be listed by its container and by the container of that. *)
Same(v, w) == v.parent = w.parent /\ v.member = w.member
TreeOnce ==
  /\ \A i, j \in 1..Popped : Same(Node(i), Node(j)) => i = j
  /\ \A k, l \in DOMAIN pendingWork : Same(pendingWork[k], pendingWork[l]) => k = l
  /\ \A i \in 1..Popped, k \in DOMAIN pendingWork : ~Same(Node(i), pendingWork[k])

TreeFresh ==
  Busy /\ results = << >> => \A k \in DOMAIN pendingWork : pendingWork[k].parent # Len(nodes) + 1

Rest(n) ==
  LET order == Parsers(file, current.member)
  IN n + Len(todo) = Len(order) /\ \A i \in DOMAIN todo : todo[i] = order[n + i]
TreeParsers ==
  /\ place = "parser" => Rest(Len(results)) \/ (todo = << >> /\ stop \in Limits)
  /\ place = "native" =>
       Rest(Len(results) + 1) /\ run.parser = Parsers(file, current.member)[Len(results) + 1]

(* What the parser of a container has emitted comes before what it has left, *)
(* and none of what is certain is lost if it has said nothing.              *)
Held(f, m) == {Inside(f, m)[i] : i \in DOMAIN Inside(f, m)}
Silent == {Nobody, "unsupported"}
Brood(r) ==
  /\ IF r.parser \in Listers THEN results = << >> /\ file.format[current.member] \in Containers
     ELSE r.emitted = << >> /\ r.left = << >> /\ r.over
  /\ r.over => r.left = << >>
  /\ \A i \in DOMAIN r.emitted : r.emitted[i] \in Showing(file, current.member)
  /\ \A i \in DOMAIN r.left : r.left[i] \in Held(file, current.member)
  /\ \A i, j \in DOMAIN r.emitted : i < j => r.emitted[i] < r.emitted[j]
  /\ \A i, j \in DOMAIN r.left : i < j => r.left[i] < r.left[j]
  /\ \A i \in DOMAIN r.emitted, j \in DOMAIN r.left : r.emitted[i] < r.left[j]
  /\ r.parser \in Listers /\ r.budget.status = "Ok" /\ r.verdict \in Silent =>
       \A c \in Certain(file, current.member) :
         (\E i \in DOMAIN r.emitted : r.emitted[i] = c) \/ \E i \in DOMAIN r.left : r.left[i] = c
TreeBrood == place = "native" => Brood(run)

Trusty(list) == \A k \in DOMAIN list : list[k].error \in Silent
Served(n) ==
  \A c \in Certain(file, Node(n).member) :
    \/ \E i \in 1..Popped : Node(i).parent = n /\ Node(i).member = c
    \/ \E k \in DOMAIN pendingWork : pendingWork[k].parent = n /\ pendingWork[k].member = c
TreeWhole ==
  stop = Nobody =>
    /\ \A i \in DOMAIN nodes :
         /\ Len(nodes[i].results) = Len(Parsers(file, nodes[i].member))
         /\ Trusty(nodes[i].results) => Served(i)
    /\ Busy /\ results # << >> /\ Trusty(results) => Served(Len(nodes) + 1)
    /\ place = "done" => pendingWork = << >>

TreeInv == /\ TreeShape /\ TreeRoom /\ TreeBorn /\ TreeOnce /\ TreeFresh
           /\ TreeParsers /\ TreeBrood /\ TreeWhole

-----------------------------------------------------------------------------
(* Forests, and what is inside a member.                                    *)

LEMMA Forest ==
  ASSUME NEW f \in Forests
  PROVE  /\ Len(f.parent) \in Nat \ {0} /\ Members(f) = 1..Len(f.parent) /\ 1 \in Members(f)
         /\ f.parent[1] = 0 /\ \A m \in Members(f) : m # 1 => f.parent[m] \in 1..(m - 1)
         /\ \A m \in Members(f) : m \in Nat /\ f.parent[m] \in Nat /\ f.size[m] \in Nat
         /\ \A m \in Members(f) : f.format[m] \in Formats
<1>1. /\ f.parent \in Seq(Nat) /\ f.parent # << >> /\ f.parent[1] = 0
      /\ \A m \in 2..Len(f.parent) : f.parent[m] \in 1..(m - 1)
      /\ f.size \in [DOMAIN f.parent -> Nat] /\ f.format \in [DOMAIN f.parent -> Formats]
  BY TreeAssumption
<1>2. DOMAIN f.parent = 1..Len(f.parent) /\ Len(f.parent) \in Nat \ {0}
  BY <1>1
<1> QED BY <1>1, <1>2 DEF Members

LEMMA InsideIs ==
  ASSUME NEW f \in Forests, NEW m
  PROVE  LET inside == Inside(f, m) IN
         /\ inside \in Seq(Nat) /\ Len(inside) \in Nat /\ DOMAIN inside = 1..Len(inside)
         /\ \A i, j \in DOMAIN inside : i < j => inside[i] < inside[j]
         /\ Held(f, m) \subseteq Members(f) /\ Held(f, m) \subseteq Nat
         /\ \A i \in DOMAIN inside : inside[i] \in Held(f, m)
         /\ \A c \in Held(f, m) : \E i \in DOMAIN inside : inside[i] = c
         /\ f.format[m] \notin Containers => inside = << >> /\ Held(f, m) = {}
<1> DEFINE list == [i \in Members(f) |-> i]
           Is(h) == h = [i \in Members(f) |->
                           \/ f.parent[i] = m
                           \/ /\ f.format[m] \in {"ole", "email"} /\ i # 1
                              /\ f.format[f.parent[i]] = f.format[m] /\ h[f.parent[i]]]
           listed == CHOOSE h : Is(h)
           positions == {i \in Members(f) : listed[i]}
           kept == Kept(list, positions)
           inside == Inside(f, m)
<1>1. list \in Seq(Members(f)) /\ DOMAIN list = Members(f) /\ (\A i \in Members(f) : list[i] = i)
      /\ Members(f) \subseteq Nat
  BY Forest
<1>2. inside = IF f.format[m] \in Containers THEN kept ELSE << >>
  BY DEF Inside
<1>3. kept \in Seq(Members(f)) /\ Keeps(kept, list, positions)
  <2>1. positions \in SUBSET DOMAIN list
    BY <1>1
  <2> HIDE DEF list, positions
  <2> QED BY <1>1, <2>1, KeptIs
<1>4. \A i, j \in DOMAIN kept : i < j => kept[i] < kept[j]
  <2>1. positions \subseteq Members(f)
    OBVIOUS
  <2> HIDE DEF kept, list, positions
  <2>2. PICK at \in [DOMAIN kept -> positions] :
          /\ \A i \in DOMAIN kept : kept[i] = list[at[i]]
          /\ \A i, j \in DOMAIN kept : i < j => at[i] < at[j]
    BY <1>3 DEF Keeps
  <2>3. \A i \in DOMAIN kept : kept[i] = at[i]
    BY <1>1, <2>1, <2>2
  <2> QED BY <2>2, <2>3
<1> HIDE DEF kept
<1>5. /\ inside \in Seq(Members(f)) /\ inside \in Seq(Nat)
      /\ \A i, j \in DOMAIN inside : i < j => inside[i] < inside[j]
  <2>1. CASE f.format[m] \in Containers
    <3>1. kept \in Seq(Nat)
      BY <1>1, <1>3
    <3> QED BY <1>2, <1>3, <1>4, <2>1, <3>1
  <2>2. CASE f.format[m] \notin Containers
    BY <1>2, <2>2
  <2> QED BY <2>1, <2>2
<1> HIDE DEF inside
<1>6. Held(f, m) = {inside[i] : i \in DOMAIN inside}
  BY DEF Held, inside
<1>7. f.format[m] \notin Containers => inside = << >> /\ Held(f, m) = {}
  <2>1. DOMAIN << >> = {}
    OBVIOUS
  <2> QED BY <1>2, <1>6, <2>1
<1>8. Held(f, m) \subseteq Members(f) /\ Held(f, m) \subseteq Nat
  BY <1>1, <1>5, <1>6
<1>9. Len(inside) \in Nat /\ DOMAIN inside = 1..Len(inside)
  BY <1>5
<1> QED BY <1>5, <1>6, <1>7, <1>8, <1>9 DEF inside

LEMMA ShowingIs ==
  ASSUME NEW f \in Forests, NEW m
  PROVE  /\ Showing(f, m) \subseteq Held(f, m) /\ Showing(f, m) \subseteq Members(f)
         /\ Showing(f, m) \subseteq Nat
         /\ Certain(f, m) \subseteq Showing(f, m)
         /\ f.format[m] = "ole" => Showing(f, m) = Held(f, m)
         /\ \A s \in Held(f, m) \ Showing(f, m) : f.format[m] \in Archives \cup {"pdf"} =>
              \A c \in Certain(f, m) : c < s
<1>1. Showing(f, m) = Held(f, m) \ (IF f.format[m] = "ole" THEN {} ELSE f.sealed)
  BY DEF Showing, Held
<1>2. Held(f, m) \subseteq Members(f) /\ Held(f, m) \subseteq Nat
  BY InsideIs
<1>3. Certain(f, m) \subseteq Showing(f, m)
  BY DEF Certain
<1>4. ASSUME NEW s \in Held(f, m) \ Showing(f, m), f.format[m] \in Archives \cup {"pdf"},
             NEW c \in Certain(f, m)
      PROVE  c < s
  <2>1. s \in f.sealed
    BY <1>1
  <2>2. PICK i \in DOMAIN Inside(f, m) : Inside(f, m)[i] = s
    BY InsideIs
  <2> QED BY <1>4, <2>1, <2>2 DEF Certain
<1> QED BY <1>1, <1>2, <1>3, <1>4

(* Only the first parser of a container lists members. *)
LEMMA ParsersAre ==
  ASSUME NEW f \in Forests, NEW m \in Members(f)
  PROVE  LET order == Parsers(f, m) IN
         /\ order \in Seq(ParserNames) /\ Len(order) \in Nat /\ DOMAIN order = 1..Len(order)
         /\ f.format[m] \in Containers => Len(order) > 0 /\ order[1] \in Listers
         /\ \A i \in DOMAIN order : order[i] \in Listers => i = 1 /\ f.format[m] \in Containers
         /\ f.format[m] \notin Containers => Certain(f, m) = {}
<1> DEFINE order == Parsers(f, m)
<1>1. f.format[m] \in {"zip", "packed", "ole", "email", "pdf", "image", "plain"}
  BY Forest DEF Formats, ParsersOf
<1>2. /\ order \in Seq(ParserNames)
      /\ f.format[m] \in Containers => Len(order) > 0 /\ order[1] \in Listers
      /\ \A i \in DOMAIN order : order[i] \in Listers => i = 1 /\ f.format[m] \in Containers
  <2>1. CASE f.format[m] = "zip"
    <3>1. order = <<"container.archive", "document.package", "formats.resource">>
      BY <2>1 DEF Parsers, ParsersOf
    <3> HIDE DEF order
    <3> QED BY <2>1, <3>1 DEF ParserNames, Listers, Containers, Archives
  <2>2. CASE f.format[m] = "packed"
    <3>1. order = <<"container.archive">>
      BY <2>2 DEF Parsers, ParsersOf
    <3> HIDE DEF order
    <3> QED BY <2>2, <3>1 DEF ParserNames, Listers, Containers, Archives
  <2>3. CASE f.format[m] = "ole"
    <3>1. order = <<"document.ole">>
      BY <2>3 DEF Parsers, ParsersOf
    <3> HIDE DEF order
    <3> QED BY <2>3, <3>1 DEF ParserNames, Listers, Containers, Archives
  <2>4. CASE f.format[m] = "email"
    <3>1. order = <<"email.mime">>
      BY <2>4 DEF Parsers, ParsersOf
    <3> HIDE DEF order
    <3> QED BY <2>4, <3>1 DEF ParserNames, Listers, Containers, Archives
  <2>5. CASE f.format[m] = "pdf"
    <3>1. order = <<"pdf.metadata", "pdf.security">>
      BY <2>5 DEF Parsers, ParsersOf
    <3> HIDE DEF order
    <3> QED BY <2>5, <3>1 DEF ParserNames, Listers, Containers, Archives
  <2>6. CASE f.format[m] = "image"
    <3>1. order = <<"images.metadata", "images.structure">>
      BY <2>6 DEF Parsers, ParsersOf
    <3> HIDE DEF order
    <3> QED BY <2>6, <3>1 DEF ParserNames, Listers, Containers, Archives
  <2>7. CASE f.format[m] = "plain"
    <3>1. order = << >>
      BY <2>7 DEF Parsers, ParsersOf
    <3> HIDE DEF order
    <3> QED BY <2>7, <3>1 DEF Containers, Archives
  <2> QED BY <1>1, <2>1, <2>2, <2>3, <2>4, <2>5, <2>6, <2>7
<1>3. f.format[m] \notin Containers => Certain(f, m) = {}
  BY InsideIs, ShowingIs
<1> HIDE DEF order
<1> QED BY <1>2, <1>3 DEF order

-----------------------------------------------------------------------------
(* The payloads of a parser are queued one after the other.                 *)

Queues == [alloc : Nat, queued : Nat, pending : Seq(Works), stop : Limits \cup {"depth", Nobody}]

InSteps(S, q, e) ==
  \E g \in [0..Len(e) -> S] :
    /\ g[0] = q
    /\ \A k \in 1..Len(e) : g[k] = Enqueue(g[k - 1], e[k])
    /\ Enqueued(q, e) = g[Len(e)]

LEMMA EnqueuedSteps ==
  ASSUME NEW S, NEW q \in S, NEW e \in Seq(Nat),
         \A x \in S, k \in 1..Len(e) : Enqueue(x, e[k]) \in S
  PROVE  InSteps(S, q, e)
<1> DEFINE N == Len(e)
           Step(x, k) == Enqueue(x, e[k])
           step == [x \in S \X (1..N) |-> Step(x[1], x[2])]
           Next1(g, k) == IF k = 0 THEN q ELSE Enqueue(g[k - 1], e[k])
           Is(g) == g = [k \in 0..N |-> Next1(g, k)]
<1>1. N \in Nat /\ \A k \in 1..N : k \in Nat \ {0} /\ k - 1 \in 0..N
  OBVIOUS
<1>3. step \in [S \X (1..N) -> S] /\ \A x \in S, k \in 1..N : step[<<x, k>>] = Step(x, k)
  <2>1. \A x \in S, k \in 1..N : Step(x, k) \in S
    OBVIOUS
  <2> HIDE DEF N, Step
  <2> QED BY <2>1
<1>4. Recursive(N, S, q, step)
  <2> HIDE DEF N, step, Step
  <2> QED BY <1>1, <1>3, Recursion
<1>5. \E g : Is(g)
  <2>1. PICK g \in [0..N -> S] : g[0] = q /\ \A k \in 1..N : g[k] = step[<<g[k - 1], k>>]
    BY <1>4 DEF Recursive
  <2>2. \A k \in 1..N : g[k] = Enqueue(g[k - 1], e[k])
    <3> HIDE DEF N, step
    <3> QED BY <1>1, <1>3, <2>1
  <2>3. \A k \in 0..N : g[k] = Next1(g, k)
    <3>1. \A k \in 0..N : k = 0 \/ k \in 1..N
      BY <1>1
    <3> HIDE DEF N
    <3> QED BY <1>1, <2>1, <2>2, <3>1
  <2>4. Is(g)
    <3> HIDE DEF Next1, N
    <3> QED BY <2>1, <2>3
  <2> QED BY <2>4
<1>6. PICK g : Is(g) /\ g = CHOOSE h : Is(h)
  <2> HIDE DEF Is
  <2> QED BY <1>5
<1>7. Enqueued(q, e) = g[N]
  BY <1>6 DEF Enqueued
<1>8. DOMAIN g = 0..N /\ \A k \in 0..N : g[k] = Next1(g, k)
  <2> HIDE DEF Next1, N
  <2> QED BY <1>6
<1>9. g[0] = q /\ \A k \in 1..N : g[k] = Enqueue(g[k - 1], e[k])
  <2>1. 0 \in 0..N /\ \A k \in 1..N : k \in 0..N
    BY <1>1
  <2> HIDE DEF N
  <2> QED BY <1>1, <1>8, <2>1
<1>10. \A k \in 0..N : g[k] \in S
  <2> DEFINE R == {k \in 0..N : g[k] \in S}
  <2>1. 0 \in R /\ \A k \in 1..N : k - 1 \in R => k \in R
    <3>1. 0 \in 0..N /\ \A k \in 1..N : k \in 0..N
      BY <1>1
    <3> QED BY <1>1, <1>9, <3>1
  <2>2. 0..N \subseteq R
    <3> HIDE DEF R, N
    <3> QED BY <1>1, <2>1, UpTo
  <2> QED BY <2>2
<1>11. g \in [0..N -> S]
  <2>1. g = [k \in 0..N |-> g[k]]
    <3> HIDE DEF Next1, N
    <3> QED BY <1>6, <1>8
  <2> HIDE DEF N
  <2> QED BY <1>10, <2>1
<1> QED BY <1>7, <1>9, <1>11 DEF InSteps

LEMMA RefusalIs ==
  ASSUME TreeShape, Busy, NEW x \in Queues, NEW size \in Nat
  PROVE  /\ Refusal(x, size) \in Limits \cup {"depth", Nobody}
         /\ Refusal(x, size) = Nobody =>
              /\ current.depth < policy.depth
              /\ Len(x.pending) + Len(nodes) + 1 < policy.nodes
              /\ x.queued + size <= policy.total
              /\ x.alloc + 2 * size + Overhead <= policy.limits["alloc"]
<1>1. Nobody \notin {"depth", "entries", "member", "decoded", "alloc"}
  BY TreeAssumption DEF Limits, Resources
<1>2. policy \in RecursiveLimits /\ current \in Works /\ nodes \in Seq(Extracted)
  BY DEF TreeShape, TreeTypeOK
<1>3. policy.depth \in Nat /\ policy.nodes \in Nat /\ policy.total \in Nat
      /\ policy.limits["alloc"] \in Nat /\ Overhead \in Nat
  BY <1>2, TreeAssumption DEF Resources
<1>4. x.queued \in Nat /\ x.alloc \in Nat /\ Len(x.pending) \in Nat /\ Len(nodes) \in Nat
      /\ current.depth \in Nat
  BY <1>2 DEF Queues, Works
<1>5. Refusal(x, size) \in {"depth", "entries", "member", "decoded", "alloc", Nobody}
  BY DEF Refusal
<1>6. {"entries", "member", "decoded", "alloc"} \subseteq Limits
  BY DEF Limits, Resources
<1>7. ASSUME Refusal(x, size) = Nobody
      PROVE  /\ ~(current.depth >= policy.depth)
             /\ ~(Len(x.pending) + Len(nodes) + 1 >= policy.nodes)
             /\ ~(x.queued + size > policy.total)
             /\ ~(x.alloc + 2 * size + Overhead > policy.limits["alloc"])
  BY <1>1, <1>7 DEF Refusal
<1>8. ASSUME Refusal(x, size) = Nobody
      PROVE  /\ current.depth < policy.depth
             /\ Len(x.pending) + Len(nodes) + 1 < policy.nodes
             /\ x.queued + size <= policy.total
             /\ x.alloc + 2 * size + Overhead <= policy.limits["alloc"]
  <2> DEFINE length == Len(x.pending)
             asked == x.alloc + 2 * size + Overhead
  <2>1. length \in Nat /\ asked \in Nat
    BY <1>3, <1>4
  <2>2. ~(asked > policy.limits["alloc"]) /\ ~(length + Len(nodes) + 1 >= policy.nodes)
    BY <1>7, <1>8
  <2> HIDE DEF length, asked
  <2>3. asked <= policy.limits["alloc"] /\ length + Len(nodes) + 1 < policy.nodes
    BY <1>3, <1>4, <2>1, <2>2
  <2>4. current.depth < policy.depth
    BY <1>3, <1>4, <1>7, <1>8
  <2>5. x.queued + size <= policy.total
    <3> DEFINE total == x.queued + size
    <3>1. total \in Nat /\ ~(total > policy.total)
      BY <1>3, <1>4, <1>7, <1>8
    <3> HIDE DEF total
    <3>2. total <= policy.total
      BY <1>3, <3>1
    <3> QED BY <3>2 DEF total
  <2> QED BY <2>3, <2>4, <2>5 DEF length, asked
<1> QED BY <1>5, <1>6, <1>8

(* The payload becomes a member, or a limit is named. *)
NewWork(m) == [member |-> m, parent |-> Len(nodes) + 1, depth |-> current.depth + 1]

LEMMA EnqueueIs ==
  ASSUME TreeShape, Busy, NEW x \in Queues, NEW m \in Members(file)
  PROVE  LET size == file.size[m]
             y == Enqueue(x, m)
         IN  /\ y \in Queues /\ NewWork(m) \in Works
             /\ \/ /\ Refusal(x, size) # Nobody
                   /\ y.alloc = x.alloc /\ y.queued = x.queued /\ y.pending = x.pending
                   /\ y.stop = Refusal(x, size)
                \/ /\ Refusal(x, size) = Nobody
                   /\ y.alloc = x.alloc + 2 * size + Overhead /\ y.queued = x.queued + size
                   /\ y.pending = Append(x.pending, NewWork(m)) /\ y.stop = x.stop
<1> DEFINE size == file.size[m]
           y == Enqueue(x, m)
           a == x.alloc + 2 * size + Overhead
           b == x.queued + size
           c == Append(x.pending, NewWork(m))
<1>1. /\ file \in Forests /\ current \in Works /\ nodes \in Seq(Extracted)
      /\ Len(nodes) \in Nat /\ current.depth \in Nat /\ Overhead \in Nat
  BY TreeAssumption DEF TreeShape, TreeTypeOK, Works
<1>2. m \in Nat /\ size \in Nat
  BY <1>1, Forest
<1>3. NewWork(m) \in Works
  BY <1>1, <1>2 DEF Works, NewWork
<1>4. x.alloc \in Nat /\ x.queued \in Nat /\ x.pending \in Seq(Works)
  BY DEF Queues
<1>5. CASE Refusal(x, size) # Nobody
  <2>1. y = [x EXCEPT !.stop = Refusal(x, size)]
    BY <1>5 DEF Enqueue
  <2>2. Refusal(x, size) \in Limits \cup {"depth", Nobody}
    BY <1>2, RefusalIs
  <2>3. /\ y \in Queues /\ y.alloc = x.alloc /\ y.queued = x.queued /\ y.pending = x.pending
        /\ y.stop = Refusal(x, size)
    <3> HIDE DEF y, size
    <3> QED BY <2>1, <2>2 DEF Queues
  <2> QED BY <1>3, <1>5, <2>3
<1>6. CASE Refusal(x, size) = Nobody
  <2>1. y = [x EXCEPT !.alloc = a, !.queued = b, !.pending = c]
    BY <1>6 DEF Enqueue, NewWork
  <2>2. a \in Nat /\ b \in Nat /\ c \in Seq(Works)
    <3> HIDE DEF size
    <3>1. a \in Nat /\ b \in Nat
      BY <1>1, <1>2, <1>4
    <3> QED BY <1>3, <1>4, <3>1
  <2>3. y \in Queues /\ y.alloc = a /\ y.queued = b /\ y.pending = c /\ y.stop = x.stop
    <3> HIDE DEF y, a, b, c
    <3> QED BY <2>1, <2>2 DEF Queues
  <2> QED BY <1>3, <1>6, <2>3
<1> QED BY <1>5, <1>6

(* What has been queued after k payloads. *)
Grown(q, first, k) ==
  /\ q \in Queues /\ q.alloc <= policy.limits["alloc"] /\ q.queued <= policy.total
  /\ Len(q.pending) >= Len(pendingWork)
  /\ \A i \in DOMAIN pendingWork : q.pending[i] = pendingWork[i]
  /\ Len(q.pending) = Len(pendingWork) \/ Len(q.pending) + Len(nodes) + 1 <= policy.nodes
  /\ \A i \in DOMAIN q.pending : i > Len(pendingWork) =>
       /\ q.pending[i].parent = Len(nodes) + 1
       /\ q.pending[i].depth = current.depth + 1 /\ q.pending[i].depth <= policy.depth
       /\ \E j \in 1..k : q.pending[i].member = run.emitted[j]
  /\ \A i, l \in DOMAIN q.pending :
       Len(pendingWork) < i /\ i < l => q.pending[i].member < q.pending[l].member
  /\ q.stop = Nobody =>
       /\ first.stop = Nobody
       /\ \A j \in 1..k : \E i \in DOMAIN q.pending :
            q.pending[i].member = run.emitted[j] /\ q.pending[i].parent = Len(nodes) + 1

LEMMA QueueGrowsOne ==
  ASSUME TreeShape, TreeBrood, place = "native", NEW first \in Queues,
         NEW k \in 1..Len(run.emitted), NEW x, Grown(x, first, k - 1)
  PROVE  Grown(Enqueue(x, run.emitted[k]), first, k)
<1> DEFINE m == run.emitted[k]
           size == file.size[m]
           y == Enqueue(x, m)
           new == NewWork(m)
<1>1. /\ file \in Forests /\ policy \in RecursiveLimits /\ current \in Works
      /\ nodes \in Seq(Extracted) /\ pendingWork \in Seq(Works) /\ run \in Runs /\ Busy
  BY DEF TreeShape, TreeTypeOK, Busy
<1>2. /\ m \in Members(file) /\ m \in Nat /\ size \in Nat /\ Len(nodes) \in Nat /\ Len(pendingWork) \in Nat
      /\ DOMAIN pendingWork = 1..Len(pendingWork) /\ DOMAIN run.emitted = 1..Len(run.emitted)
      /\ k \in Nat /\ k > 0 /\ current.depth \in Nat /\ Overhead \in Nat
  <2>1. run.emitted \in Seq(Nat)
    BY <1>1 DEF Runs
  <2>2. m \in Members(file)
    BY <1>1, <2>1, ShowingIs DEF TreeBrood, Brood
  <2> QED BY <1>1, <2>1, <2>2, Forest, TreeAssumption DEF Works
<1>3. /\ x \in Queues /\ x.alloc \in Nat /\ x.queued \in Nat /\ x.pending \in Seq(Works)
      /\ Len(x.pending) \in Nat /\ DOMAIN x.pending = 1..Len(x.pending)
  <2>1. x \in Queues
    BY DEF Grown
  <2> QED BY <2>1 DEF Queues
<1>4. \A j \in 1..(k - 1) : j \in 1..k /\ j < k /\ run.emitted[j] < m
  BY <1>2 DEF TreeBrood, Brood
<1>5. CASE Refusal(x, size) # Nobody
  <2>3. /\ y \in Queues /\ y.alloc = x.alloc /\ y.queued = x.queued /\ y.pending = x.pending
        /\ y.stop = Refusal(x, size)
    BY <1>1, <1>2, <1>3, <1>5, EnqueueIs
  <2> HIDE DEF y, m, size
  <2>4. \A i \in DOMAIN y.pending : i > Len(pendingWork) =>
          \E j \in 1..k : y.pending[i].member = run.emitted[j]
    BY <1>4, <2>3 DEF Grown
  <2>5. y.stop # Nobody
    BY <1>5, <2>3
  <2>6. Grown(y, first, k)
    BY <2>3, <2>4, <2>5 DEF Grown
  <2> QED BY <2>6 DEF y, m
<1>6. CASE Refusal(x, size) = Nobody
  <2>2. /\ current.depth < policy.depth /\ Len(x.pending) + Len(nodes) + 1 < policy.nodes
        /\ x.queued + size <= policy.total
        /\ x.alloc + 2 * size + Overhead <= policy.limits["alloc"]
    BY <1>1, <1>2, <1>3, <1>6, RefusalIs
  <2>4. /\ y \in Queues /\ y.alloc = x.alloc + 2 * size + Overhead /\ y.queued = x.queued + size
        /\ y.pending = Append(x.pending, new) /\ y.stop = x.stop /\ new \in Works
    BY <1>1, <1>2, <1>3, <1>6, EnqueueIs
  <2>5. /\ Len(y.pending) = Len(x.pending) + 1 /\ DOMAIN y.pending = 1..Len(y.pending)
        /\ \A i \in 1..Len(x.pending) : y.pending[i] = x.pending[i]
        /\ y.pending[Len(x.pending) + 1] = new
    <3> HIDE DEF new, y
    <3> QED BY <1>3, <2>4
  <2>6. \A i \in DOMAIN y.pending : i \in DOMAIN x.pending \/ i = Len(x.pending) + 1
    BY <1>3, <2>5
  <2>7. new.member = m /\ new.parent = Len(nodes) + 1 /\ new.depth = current.depth + 1
    BY DEF NewWork
  <2>8. policy.depth \in Nat /\ policy.nodes \in Nat
    BY <1>1, TreeAssumption
  <2> HIDE DEF y, new, m, size
  <2>9. /\ Len(y.pending) >= Len(pendingWork)
        /\ \A i \in DOMAIN pendingWork : y.pending[i] = pendingWork[i]
        /\ Len(y.pending) + Len(nodes) + 1 <= policy.nodes
    <3>1. /\ Len(x.pending) >= Len(pendingWork)
          /\ \A i \in DOMAIN pendingWork : x.pending[i] = pendingWork[i]
      BY DEF Grown
    <3>2. Len(y.pending) >= Len(pendingWork)
      BY <1>2, <1>3, <2>5, <3>1
    <3>3. ASSUME NEW i \in DOMAIN pendingWork PROVE y.pending[i] = pendingWork[i]
      <4>1. i \in 1..Len(x.pending)
        BY <1>2, <1>3, <3>1
      <4> QED BY <2>5, <3>1, <4>1
    <3>4. Len(y.pending) + Len(nodes) + 1 <= policy.nodes
      BY <1>2, <1>3, <2>2, <2>5, <2>8
    <3> QED BY <3>2, <3>3, <3>4
  <2>10. ASSUME NEW i \in DOMAIN y.pending, i > Len(pendingWork)
         PROVE  /\ y.pending[i].parent = Len(nodes) + 1
                /\ y.pending[i].depth = current.depth + 1 /\ y.pending[i].depth <= policy.depth
                /\ \E j \in 1..k : y.pending[i].member = run.emitted[j]
    <3>1. CASE i \in DOMAIN x.pending
      <4>1. /\ x.pending[i].parent = Len(nodes) + 1
            /\ x.pending[i].depth = current.depth + 1 /\ x.pending[i].depth <= policy.depth
            /\ \E j \in 1..(k - 1) : x.pending[i].member = run.emitted[j]
        BY <2>10, <3>1 DEF Grown
      <4>2. y.pending[i] = x.pending[i]
        BY <1>3, <2>5, <3>1
      <4> QED BY <1>4, <4>1, <4>2
    <3>2. CASE i = Len(x.pending) + 1
      <4>1. k \in 1..k /\ run.emitted[k] = m
        BY <1>2 DEF m
      <4>2. current.depth + 1 <= policy.depth
        BY <1>2, <2>2, <2>8
      <4>3. y.pending[i] = new
        BY <2>5, <3>2
      <4> QED BY <2>7, <4>1, <4>2, <4>3
    <3> QED BY <2>6, <3>1, <3>2
  <2>11. ASSUME NEW i \in DOMAIN y.pending, NEW l \in DOMAIN y.pending,
                Len(pendingWork) < i, i < l
         PROVE  y.pending[i].member < y.pending[l].member
    <3>1. i \in DOMAIN x.pending
      BY <1>3, <2>5, <2>11
    <3>2. CASE l \in DOMAIN x.pending
      BY <1>3, <2>5, <2>11, <3>1, <3>2 DEF Grown
    <3>3. CASE l = Len(x.pending) + 1
      <4>1. PICK j \in 1..(k - 1) : x.pending[i].member = run.emitted[j]
        BY <2>11, <3>1 DEF Grown
      <4> QED BY <1>3, <1>4, <2>5, <2>7, <3>1, <3>3, <4>1
    <3> QED BY <2>6, <3>2, <3>3
  <2>12. ASSUME y.stop = Nobody, NEW j \in 1..k
         PROVE  \E i \in DOMAIN y.pending :
                  y.pending[i].member = run.emitted[j] /\ y.pending[i].parent = Len(nodes) + 1
    <3>1. CASE j = k
      <4>1. Len(x.pending) + 1 \in DOMAIN y.pending
        BY <1>3, <2>5
      <4> QED BY <2>5, <2>7, <3>1, <4>1 DEF m
    <3>2. CASE j # k
      <4>1. j \in 1..(k - 1)
        BY <1>2, <3>2
      <4>2. PICK i \in DOMAIN x.pending :
              x.pending[i].member = run.emitted[j] /\ x.pending[i].parent = Len(nodes) + 1
        BY <2>4, <2>12, <4>1 DEF Grown
      <4>3. i \in DOMAIN y.pending /\ y.pending[i] = x.pending[i]
        BY <1>3, <2>5
      <4> QED BY <4>2, <4>3
    <3> QED BY <3>1, <3>2
  <2>13. y.stop = Nobody => first.stop = Nobody
    BY <2>4 DEF Grown
  <2>14. y.alloc <= policy.limits["alloc"] /\ y.queued <= policy.total
    BY <2>2, <2>4
  <2>15. Grown(y, first, k)
    BY <2>4, <2>9, <2>10, <2>11, <2>12, <2>13, <2>14 DEF Grown
  <2> QED BY <2>15 DEF y, m
<1> QED BY <1>5, <1>6

LEMMA QueueGrows ==
  ASSUME TreeShape, TreeBrood, place = "native", NEW first \in Queues,
         first.pending = pendingWork, first.queued <= policy.total,
         first.alloc <= policy.limits["alloc"]
  PROVE  Grown(Enqueued(first, run.emitted), first, Len(run.emitted))
<1> DEFINE N == Len(run.emitted)
<1>1. run.emitted \in Seq(Nat) /\ pendingWork \in Seq(Works) /\ Busy /\ file \in Forests
  BY DEF TreeShape, TreeTypeOK, Runs, Busy
<1>2. N \in Nat /\ \A k \in 1..N : k - 1 \in 0..N /\ k \in 0..N
  BY <1>1
<1>3. ASSUME NEW x \in Queues, NEW k \in 1..N PROVE Enqueue(x, run.emitted[k]) \in Queues
  <2>1. run.emitted[k] \in Members(file)
    BY <1>1, ShowingIs DEF TreeBrood, Brood
  <2> QED BY <1>1, <2>1, EnqueueIs
<1>4. PICK g \in [0..N -> Queues] :
        /\ g[0] = first /\ \A k \in 1..N : g[k] = Enqueue(g[k - 1], run.emitted[k])
        /\ Enqueued(first, run.emitted) = g[N]
  <2>1. \A x \in Queues, k \in 1..Len(run.emitted) : Enqueue(x, run.emitted[k]) \in Queues
    BY <1>3
  <2>2. InSteps(Queues, first, run.emitted)
    BY <1>1, <2>1, EnqueuedSteps
  <2> QED BY <2>2 DEF InSteps
<1> DEFINE R == {k \in 0..N : Grown(g[k], first, k)}
<1>5. 0 \in R
  <2>1. Len(pendingWork) \in Nat /\ DOMAIN pendingWork = 1..Len(pendingWork)
    BY <1>1
  <2>2. \A i \in DOMAIN pendingWork : ~(i > Len(pendingWork))
    BY <2>1
  <2>3. 1..0 = {} /\ 0 \in 0..N
    BY <1>2
  <2>4. Grown(first, first, 0)
    BY <2>1, <2>2, <2>3 DEF Grown
  <2> QED BY <1>4, <2>3, <2>4
<1>6. ASSUME NEW k \in 1..N, k - 1 \in R PROVE k \in R
  <2>1. Grown(g[k - 1], first, k - 1) /\ k \in 1..Len(run.emitted)
    BY <1>6
  <2>2. Grown(Enqueue(g[k - 1], run.emitted[k]), first, k)
    BY <2>1, QueueGrowsOne
  <2> HIDE DEF N
  <2> QED BY <1>2, <1>4, <2>2
<1>7. 0..N \subseteq R
  <2> HIDE DEF R, N
  <2> QED BY <1>2, <1>5, <1>6, UpTo
<1> QED BY <1>2, <1>4, <1>7 DEF N

-----------------------------------------------------------------------------
(* What a parser uses fits the budget it was given.                         *)

Within(b) == b \in Budgets /\ \A r \in Resources : b.used[r] <= b.limits[r]

LEMMA StoppedFits ==
  ASSUME NEW b, Within(b), NEW code \in Limits
  PROVE  Within(Stopped(b, code)) /\ Stopped(b, code).limits = b.limits
         /\ Stopped(b, code).status = code
BY DEF Within, Budgets, Stopped

LEMMA CheckpointFits ==
  ASSUME NEW b, Within(b)
  PROVE  Within(Checkpoint(b)) /\ Checkpoint(b).limits = b.limits
         /\ (Checkpoint(b).status = "Ok" => b.status = "Ok")
<1>1. "deadline" \in Limits
  BY DEF Limits
<1> QED BY <1>1, StoppedFits DEF Checkpoint

LEMMA ConsumeFits ==
  ASSUME NEW b, Within(b), NEW r \in Resources, NEW amount \in Nat
  PROVE  Within(Consume(b, r, amount)) /\ Consume(b, r, amount).limits = b.limits
<1> DEFINE c == Checkpoint(b)
           n == c.used[r] + amount
           used == [c.used EXCEPT ![r] = n]
<1>1. Within(c) /\ c.limits = b.limits
  BY CheckpointFits
<1> HIDE DEF c
<1>2. r \in Limits
  BY DEF Limits
<1>3. c \in Budgets /\ c.used \in [Resources -> Nat] /\ c.limits \in [Resources -> Nat]
      /\ \A x \in Resources : c.used[x] <= c.limits[x]
  BY <1>1 DEF Within, Budgets
<1>4. CASE c.status = "Ok" /\ ~(amount > c.limits[r] - c.used[r])
  <2>1. Consume(b, r, amount) = [c EXCEPT !.used = used]
    BY <1>3, <1>4 DEF Consume, c, Budgets
  <2>2. n \in Nat /\ n <= c.limits[r]
    BY <1>3, <1>4
  <2>3. used \in [Resources -> Nat] /\ \A x \in Resources : used[x] <= c.limits[x]
    <3> HIDE DEF n
    <3> QED BY <1>3, <2>2
  <2> HIDE DEF used
  <2>4. [c EXCEPT !.used = used] \in Budgets /\ [c EXCEPT !.used = used].used = used
        /\ [c EXCEPT !.used = used].limits = c.limits
    BY <1>3, <2>3 DEF Budgets
  <2> QED BY <1>1, <2>1, <2>3, <2>4 DEF Within
<1>5. CASE c.status = "Ok" /\ amount > c.limits[r] - c.used[r]
  <2>1. Consume(b, r, amount) = Stopped(c, r)
    BY <1>5 DEF Consume, c
  <2> QED BY <1>1, <1>2, <2>1, StoppedFits
<1>6. CASE c.status # "Ok"
  <2>1. Consume(b, r, amount) = c
    BY <1>6 DEF Consume, c
  <2> QED BY <1>1, <2>1
<1> QED BY <1>4, <1>5, <1>6

LEMMA CheckMemberFits ==
  ASSUME NEW b, Within(b), NEW size
  PROVE  Within(CheckMember(b, size)) /\ CheckMember(b, size).limits = b.limits
<1>1. "member" \in Limits
  BY DEF Limits
<1> QED BY <1>1, CheckpointFits, StoppedFits DEF CheckMember

LEMMA DecodeFits ==
  ASSUME NEW b, Within(b), NEW amount \in Nat
  PROVE  Within(Decode(b, amount)) /\ Decode(b, amount).limits = b.limits
<1>1. "expansion" \in Limits /\ "decoded" \in Resources
  BY DEF Limits, Resources
<1>2. /\ Within(Consume(b, "decoded", amount))
      /\ Consume(b, "decoded", amount).limits = b.limits
  BY <1>1, ConsumeFits
<1>3. Decode(b, amount) \in {Consume(b, "decoded", amount), Stopped(b, "expansion")}
  BY DEF Decode
<1> QED BY <1>1, <1>2, <1>3, StoppedFits

LEMMA EnterFits ==
  ASSUME NEW b, Within(b), NEW n \in Nat
  PROVE  Within(Enter(b, n)) /\ Enter(b, n).limits = b.limits
<1> DEFINE c == Checkpoint(b)
           e == "entries"
           spent == [c EXCEPT !.used["entries"] = c.limits["entries"]]
           charged == [c EXCEPT !.used["entries"] = @ + n]
<1>1. Within(c) /\ c.limits = b.limits /\ e \in Resources /\ e \in Limits
  BY CheckpointFits DEF Resources, Limits
<1>2. Enter(b, n) = IF c.status # "Ok" THEN c
                    ELSE IF n > c.limits[e] - c.used[e] THEN Stopped(spent, e) ELSE charged
  BY DEF Enter
<1> HIDE DEF c
<1>3. c \in Budgets /\ c.used \in [Resources -> Nat] /\ c.limits \in [Resources -> Nat]
      /\ \A x \in Resources : c.used[x] <= c.limits[x]
  BY <1>1 DEF Within, Budgets
<1>4. ASSUME NEW k \in Nat, k <= c.limits[e]
      PROVE  Within([c EXCEPT !.used["entries"] = k]) /\ [c EXCEPT !.used["entries"] = k].limits = c.limits
  <2> DEFINE used == [c.used EXCEPT !["entries"] = k]
  <2>1. [c EXCEPT !.used["entries"] = k] = [c EXCEPT !.used = used]
    BY <1>3 DEF Budgets
  <2>2. used \in [Resources -> Nat] /\ \A x \in Resources : used[x] <= c.limits[x]
    BY <1>1, <1>3, <1>4
  <2> HIDE DEF used
  <2>3. [c EXCEPT !.used = used] \in Budgets /\ [c EXCEPT !.used = used].used = used
        /\ [c EXCEPT !.used = used].limits = c.limits
    BY <1>3, <2>2 DEF Budgets
  <2> QED BY <2>1, <2>2, <2>3 DEF Within
<1>5. Within(spent) /\ spent.limits = c.limits
  BY <1>1, <1>3, <1>4
<1>6. Within(Stopped(spent, e)) /\ Stopped(spent, e).limits = c.limits
  <2> HIDE DEF spent
  <2> QED BY <1>1, <1>5, StoppedFits
<1>7. ~(n > c.limits[e] - c.used[e]) => Within(charged) /\ charged.limits = c.limits
  <2> SUFFICES ASSUME ~(n > c.limits[e] - c.used[e]) PROVE Within(charged) /\ charged.limits = c.limits
    OBVIOUS
  <2> DEFINE k == c.used[e] + n
  <2>1. k \in Nat /\ k <= c.limits[e]
    BY <1>1, <1>3
  <2>2. charged = [c EXCEPT !.used["entries"] = k]
    BY <1>3 DEF Budgets
  <2> HIDE DEF k, charged
  <2> QED BY <1>4, <2>1, <2>2
<1> QED BY <1>1, <1>2, <1>6, <1>7

LEMMA RoundsAre ==
  ASSUME NEW format \in Containers
  PROVE  Rounds[format].before \in Nat /\ Rounds[format].each \in Nat /\ Rounds[format].after \in Nat
<1>1. format \in {"zip", "packed", "ole", "email", "pdf"}
  BY DEF Containers, Archives
<1>2. /\ Rounds["zip"] = [before |-> 0, each |-> 1, after |-> 1]
      /\ Rounds["packed"] = [before |-> 0, each |-> 1, after |-> 1]
      /\ Rounds["ole"] = [before |-> 1, each |-> 2, after |-> 0]
      /\ Rounds["email"] = [before |-> 3, each |-> 3, after |-> 0]
      /\ Rounds["pdf"] = [before |-> 1, each |-> 2, after |-> 0]
  BY DEF Rounds
<1> QED BY <1>1, <1>2

LEMMA MemberFits ==
  ASSUME NEW b, Within(b), NEW size \in Nat, NEW format \in Containers
  PROVE  /\ Within(Header(b, format)) /\ Header(b, format).limits = b.limits
         /\ Within(Body(b, format, size)) /\ Body(b, format, size).limits = b.limits
         /\ Within(Payload(b, size)) /\ Payload(b, size).limits = b.limits
<1>1. {"read", "alloc", "entries", "observations"} \subseteq Resources
  BY DEF Resources
<1>2. 1 \in Nat /\ 2 * size \in Nat /\ 8 * size \in Nat
  OBVIOUS
<1>3. Within(Header(b, format)) /\ Header(b, format).limits = b.limits
  <2> DEFINE one == Enter(b, Rounds[format].each)
  <2>1. Within(one) /\ one.limits = b.limits
    BY RoundsAre, EnterFits
  <2> HIDE DEF one
  <2>2. Within(Consume(one, "observations", 1)) /\ Consume(one, "observations", 1).limits = b.limits
    BY <1>1, <1>2, <2>1, ConsumeFits
  <2> QED BY <2>2 DEF Header, one
<1>4. Within(Body(b, format, size)) /\ Body(b, format, size).limits = b.limits
  <2> DEFINE one == IF format \in Archives \cup {"pdf"} THEN CheckMember(b, size) ELSE b
             two == Decode(one, size)
             n == 2 * size
  <2>1. Within(one) /\ one.limits = b.limits
    BY CheckMemberFits
  <2> HIDE DEF one
  <2>2. Within(two) /\ two.limits = b.limits
    BY <2>1, DecodeFits
  <2> HIDE DEF two
  <2>3. Within(Consume(two, "alloc", n)) /\ Consume(two, "alloc", n).limits = b.limits
    <3> HIDE DEF n
    <3>1. n \in Nat
      BY <1>2 DEF n
    <3> QED BY <1>1, <2>2, <3>1, ConsumeFits
  <2> QED BY <2>3 DEF Body, one, two
<1>5. Within(Payload(b, size)) /\ Payload(b, size).limits = b.limits
  <2> DEFINE one == Decode(b, size)
             two == Consume(one, "observations", 1)
             n == 8 * size
  <2>1. Within(one) /\ one.limits = b.limits
    BY DecodeFits
  <2> HIDE DEF one
  <2>2. Within(two) /\ two.limits = b.limits
    BY <1>1, <1>2, <2>1, ConsumeFits
  <2> HIDE DEF two
  <2>3. Within(Consume(two, "alloc", n)) /\ Consume(two, "alloc", n).limits = b.limits
    <3> HIDE DEF n
    <3>1. n \in Nat
      BY <1>2 DEF n
    <3> QED BY <1>1, <2>2, <3>1, ConsumeFits
  <2> QED BY <2>3 DEF Payload, one, two
<1> QED BY <1>3, <1>4, <1>5

LEMMA ReadSourceFits ==
  ASSUME NEW b, Within(b)
  PROVE  Within(ReadSource(b)) /\ ReadSource(b).limits = b.limits
<1> DEFINE one == Consume(b, "read", b.size)
           n == 2 * b.size
<1>1. "read" \in Resources /\ "alloc" \in Resources /\ b.size \in Nat /\ n \in Nat
  BY DEF Within, Budgets, Resources
<1>2. Within(one) /\ one.limits = b.limits
  BY <1>1, ConsumeFits
<1> HIDE DEF one, n
<1>3. Within(Consume(one, "alloc", n)) /\ Consume(one, "alloc", n).limits = b.limits
  BY <1>1, <1>2, ConsumeFits
<1> QED BY <1>3 DEF ReadSource, one, n

-----------------------------------------------------------------------------
(* The state of an extraction.                                              *)

LEMMA TreeFacts ==
  ASSUME TreeShape
  PROVE  /\ file \in Forests /\ policy \in RecursiveLimits
         /\ policy.depth \in Nat /\ policy.nodes \in Nat /\ policy.member \in Nat /\ policy.parserMember \in Nat
         /\ policy.total \in Nat /\ policy.ratio \in Nat /\ policy.limits \in [Resources -> Nat]
         /\ pendingWork \in Seq(Works) /\ Len(pendingWork) \in Nat
         /\ DOMAIN pendingWork = 1..Len(pendingWork)
         /\ \A k \in DOMAIN pendingWork : pendingWork[k] \in Works
         /\ nodes \in Seq(Extracted) /\ Len(nodes) \in Nat /\ DOMAIN nodes = 1..Len(nodes)
         /\ \A i \in DOMAIN nodes : nodes[i] \in Extracted
         /\ results \in Seq(Outcomes) /\ Len(results) \in Nat /\ DOMAIN results = 1..Len(results)
         /\ todo \in Seq(ParserNames) /\ Len(todo) \in Nat /\ DOMAIN todo = 1..Len(todo)
         /\ Popped \in Nat /\ Popped = Len(nodes) + (IF Busy THEN 1 ELSE 0)
         /\ usage \in [Resources -> Nat] /\ queued \in Nat
<1>1. /\ file \in Forests /\ policy \in RecursiveLimits /\ pendingWork \in Seq(Works)
      /\ nodes \in Seq(Extracted) /\ results \in Seq(Outcomes) /\ todo \in Seq(ParserNames)
      /\ usage \in [Resources -> Nat] /\ queued \in Nat
  BY DEF TreeShape, TreeTypeOK
<1>2. /\ policy.depth \in Nat /\ policy.nodes \in Nat /\ policy.member \in Nat
      /\ policy.parserMember \in Nat /\ policy.total \in Nat /\ policy.ratio \in Nat /\ policy.limits \in [Resources -> Nat]
  BY <1>1, TreeAssumption
<1>3. Popped \in Nat /\ Popped = Len(nodes) + (IF Busy THEN 1 ELSE 0)
  BY <1>1 DEF Popped
<1> QED BY <1>1, <1>2, <1>3

LEMMA NodeIs ==
  ASSUME TreeShape, NEW i \in 1..Popped
  PROVE  /\ i \in Nat /\ i > 0
         /\ \/ i \in DOMAIN nodes /\ Node(i) = nodes[i]
            \/ Busy /\ i = Len(nodes) + 1 /\ Node(i) = current /\ current \in Works
         /\ Node(i).member \in Nat /\ Node(i).parent \in Nat /\ Node(i).depth \in Nat
<1>1. i \in Nat /\ i > 0 /\ (i <= Len(nodes) => i \in DOMAIN nodes)
  BY TreeFacts
<1>2. CASE i <= Len(nodes)
  <2>1. Node(i) = nodes[i] /\ nodes[i] \in Extracted
    BY <1>1, <1>2, TreeFacts DEF Node
  <2> QED BY <1>1, <1>2, <2>1 DEF Extracted
<1>3. CASE ~(i <= Len(nodes))
  <2>1. Busy /\ i = Len(nodes) + 1
    BY <1>1, <1>3, TreeFacts
  <2>2. Node(i) = current /\ current \in Works
    BY <1>3, <2>1 DEF Node, TreeShape
  <2> QED BY <1>1, <2>1, <2>2 DEF Works
<1> QED BY <1>2, <1>3

LEMMA RootExpansionIs == ASSUME TreeShape PROVE RootExpansion \in Nat
<1> DEFINE a == file.size[1]
           b == policy.ratio
<1>1. a \in Nat /\ b \in Nat /\ policy.limits["decoded"] \in Nat
  BY TreeFacts, Forest DEF Resources
<1>2. a * b \in Nat
  <2> HIDE DEF a, b
  <2> QED BY <1>1
<1> QED BY <1>1, <1>2 DEF RootExpansion

LEMMA AvailableIs ==
  ASSUME TreeShape, TreeRoom
  PROVE  /\ RootExpansion \in Nat /\ Available \in [Resources -> Nat]
         /\ MemberLimit \in Nat /\ TreeRemaining \in Nat
         /\ \A r \in Resources : usage[r] + Available[r] <= policy.limits[r]
         /\ usage["decoded"] + Available["decoded"] <= RootExpansion
<1>1. file.size[1] \in Nat /\ "decoded" \in Resources
  BY TreeFacts, Forest DEF Resources
<1>2. RootExpansion \in Nat
  BY RootExpansionIs
<1>3. MemberLimit \in Nat /\ TreeRemaining \in Nat
  BY TreeFacts DEF MemberLimit, TreeRemaining, Least, TreeRoom
<1>4. ASSUME NEW r \in Resources
      PROVE  /\ Available[r] \in Nat /\ usage[r] + Available[r] <= policy.limits[r]
             /\ (r = "decoded" => usage[r] + Available[r] <= RootExpansion)
  <2>1. usage[r] \in Nat /\ policy.limits[r] \in Nat /\ usage[r] <= policy.limits[r]
        /\ (r = "decoded" => usage[r] <= RootExpansion)
    BY TreeFacts DEF TreeRoom
  <2>2. Available[r] = (IF r = "decoded" THEN Least(policy.limits[r], RootExpansion)
                        ELSE policy.limits[r]) - usage[r]
    BY DEF Available
  <2> QED BY <1>2, <2>1, <2>2 DEF Least
<1>5. Available \in [Resources -> Nat]
  <2>1. Available = [r \in Resources |-> Available[r]]
    BY DEF Available
  <2> QED BY <1>4, <2>1
<1> QED BY <1>1, <1>2, <1>3, <1>4, <1>5

-----------------------------------------------------------------------------
(* Steps that pop no member and queue none.                                 *)

SameLine ==
  /\ file' = file /\ policy' = policy /\ pendingWork' = pendingWork /\ Popped' = Popped
  /\ \A i \in 1..Popped : /\ Node(i).member' = Node(i).member /\ Node(i).parent' = Node(i).parent
                          /\ Node(i).depth' = Node(i).depth

LEMMA SameFile ==
  ASSUME file' = file
  PROVE  /\ Members(file)' = Members(file)
         /\ \A m : Parsers(file, m)' = Parsers(file, m)
         /\ \A m : Inside(file, m)' = Inside(file, m)
         /\ \A m : Held(file, m)' = Held(file, m)
         /\ \A m : Showing(file, m)' = Showing(file, m)
         /\ \A m : Certain(file, m)' = Certain(file, m)
<1>1. Members(file)' = Members(file)
  BY DEF Members
<1>2. \A m : Parsers(file, m)' = Parsers(file, m)
  BY DEF Parsers
<1>3. \A m : Inside(file, m)' = Inside(file, m)
  BY DEF Inside, Members
<1>4. \A m : Held(file, m)' = Held(file, m)
  BY <1>3 DEF Held
<1>5. \A m : Showing(file, m)' = Showing(file, m)
  BY <1>3 DEF Showing
<1>6. \A m : Certain(file, m)' = Certain(file, m)
  BY <1>3, <1>5 DEF Certain
<1> QED BY <1>1, <1>2, <1>3, <1>4, <1>5, <1>6

LEMMA LineKept ==
  ASSUME TreeShape, TreeBorn, TreeOnce, SameLine
  PROVE  TreeBorn' /\ TreeOnce'
<1>1. /\ file' = file /\ policy' = policy /\ pendingWork' = pendingWork /\ Popped' = Popped
      /\ \A i \in 1..Popped : /\ Node(i).member' = Node(i).member /\ Node(i).parent' = Node(i).parent
                              /\ Node(i).depth' = Node(i).depth
      /\ Members(file)' = Members(file) /\ \A m : Showing(file, m)' = Showing(file, m)
  BY SameFile DEF SameLine
<1>2. \A n \in 0..Popped : \A p \in 1..n : p \in 1..Popped
  BY TreeFacts
<1>3. \A i \in 1..Popped : i - 1 \in 0..Popped
  BY TreeFacts
<1>4. TreeBorn'
  <2>1. \A i \in 1..Popped : Born(Node(i), i - 1)'
    <3>1. ASSUME NEW i \in 1..Popped PROVE Born(Node(i), i - 1)'
      <4>1. Born(Node(i), i - 1)
        BY DEF TreeBorn
      <4> DEFINE p == Node(i).parent
      <4>2. p # 0 => p \in 1..(i - 1) /\ p \in 1..Popped
        BY <1>2, <1>3, <4>1 DEF Born
      <4>3. p # 0 => Node(p).member' = Node(p).member /\ Node(p).depth' = Node(p).depth
        BY <1>1, <4>2
      <4>4. Node(i).member' = Node(i).member /\ Node(i).parent' = p /\ Node(i).depth' = Node(i).depth
        BY <1>1
      <4> QED BY <1>1, <4>1, <4>2, <4>3, <4>4 DEF Born
    <3> QED BY <3>1
  <2>2. \A k \in DOMAIN pendingWork : Born(pendingWork[k], Popped)'
    <3>1. ASSUME NEW k \in DOMAIN pendingWork PROVE Born(pendingWork[k], Popped)'
      <4>1. Born(pendingWork[k], Popped)
        BY DEF TreeBorn
      <4> DEFINE p == pendingWork[k].parent
      <4>2. p # 0 => p \in 1..Popped
        BY <4>1 DEF Born
      <4>3. p # 0 => Node(p).member' = Node(p).member /\ Node(p).depth' = Node(p).depth
        BY <1>1, <4>2
      <4> QED BY <1>1, <4>1, <4>2, <4>3 DEF Born
    <3> QED BY <3>1
  <2> QED BY <1>1, <2>1, <2>2 DEF TreeBorn
<1>5. TreeOnce'
  BY <1>1 DEF TreeOnce, Same
<1> QED BY <1>4, <1>5

LEMMA ServedKept ==
  ASSUME SameLine, NEW i \in 1..Popped, Served(i)
  PROVE  Served(i)'
<1>1. Node(i).member' = Node(i).member /\ \A m : Certain(file, m)' = Certain(file, m)
  BY SameFile DEF SameLine
<1> QED BY <1>1 DEF SameLine, Served

(* What was whole stays so. *)
LEMMA WholeKept ==
  ASSUME TreeShape, TreeWhole, SameLine,
         UNCHANGED <<nodes, results, stop, place>>
  PROVE  TreeWhole'
<1>1. \A i \in DOMAIN nodes : i \in 1..Popped
  BY TreeFacts
<1>2. Busy => Len(nodes) + 1 \in 1..Popped
  BY TreeFacts
<1>3. Busy' = Busy /\ file' = file /\ pendingWork' = pendingWork
  BY DEF Busy, SameLine
<1>4. \A m : Parsers(file, m)' = Parsers(file, m)
  BY <1>3, SameFile
<1> QED BY <1>1, <1>2, <1>3, <1>4, ServedKept DEF TreeWhole, Trusty

LEMMA SameNodes ==
  ASSUME UNCHANGED <<file, policy, nodes, current, pendingWork>>, Busy' = Busy
  PROVE  SameLine
BY DEF SameLine, Popped, Node

LEMMA AvailableKept ==
  ASSUME UNCHANGED <<file, policy, usage>>
  PROVE  Available' = Available /\ RootExpansion' = RootExpansion
BY DEF Available, RootExpansion

-----------------------------------------------------------------------------
LEMMA DeadlineInv == ASSUME TreeInv, DeadlinePasses PROVE TreeInv'
<1>1. /\ UNCHANGED <<file, policy, source, place, pendingWork, current, todo, run, results, usage,
                     queued, stop, nodes>>
      /\ late' = TRUE
  BY DEF DeadlinePasses
<1>2. Busy' = Busy /\ Popped' = Popped
  BY <1>1 DEF Busy, Popped
<1>3. SameLine
  BY <1>1, <1>2, SameNodes
<1>4. TreeShape' /\ TreeRoom'
  <2>1. Available' = Available /\ RootExpansion' = RootExpansion
    BY <1>1, AvailableKept
  <2>2. TreeShape'
    BY <1>1, <1>2 DEF TreeInv, TreeShape, TreeTypeOK
  <2> QED BY <1>1, <1>2, <2>1, <2>2 DEF TreeInv, TreeRoom
<1>5. TreeBorn' /\ TreeOnce'
  BY <1>3, LineKept DEF TreeInv
<1>6. TreeFresh' /\ TreeParsers' /\ TreeBrood'
  <2>1. /\ \A m : Parsers(file, m)' = Parsers(file, m)
        /\ \A m : Held(file, m)' = Held(file, m) /\ Showing(file, m)' = Showing(file, m)
        /\ \A m : Certain(file, m)' = Certain(file, m)
    BY <1>1, SameFile
  <2>2. TreeFresh'
    BY <1>1, <1>2 DEF TreeInv, TreeFresh
  <2>3. TreeParsers'
    BY <1>1, <2>1 DEF TreeInv, TreeParsers, Rest
  <2>4. TreeBrood'
    BY <1>1, <2>1 DEF TreeInv, TreeBrood, Brood
  <2> QED BY <2>2, <2>3, <2>4
<1>7. TreeWhole'
  BY <1>1, <1>3, WholeKept DEF TreeInv
<1> QED BY <1>4, <1>5, <1>6, <1>7 DEF TreeInv

LEMMA InterruptedInv == ASSUME TreeInv, Interrupted PROVE TreeInv'
<1>1. /\ UNCHANGED <<file, policy, source, late, run, usage, queued, stop>>
      /\ place' = "failed" /\ place # "native"
      /\ pendingWork' = << >> /\ current' = Nobody /\ todo' = << >> /\ results' = << >>
      /\ nodes' = << >>
  BY DEF Interrupted
<1>2. ~Busy' /\ Popped' = 0 /\ DOMAIN pendingWork' = {} /\ DOMAIN nodes' = {}
  BY <1>1 DEF Busy, Popped
<1>3. 1..Popped' = {}
  BY <1>2
<1>4. TreeShape'
  BY <1>1, <1>2 DEF TreeInv, TreeShape, TreeTypeOK
<1>5. TreeRoom'
  <2>1. RootExpansion' = RootExpansion
    BY <1>1, AvailableKept
  <2>2. Popped' + Len(pendingWork') <= policy'.nodes
    BY <1>1, <1>2, TreeFacts DEF TreeInv
  <2> QED BY <1>1, <2>1, <2>2 DEF TreeInv, TreeRoom
<1>6. TreeBorn' /\ TreeOnce'
  BY <1>2, <1>3 DEF TreeBorn, TreeOnce
<1>7. TreeFresh' /\ TreeParsers' /\ TreeBrood' /\ TreeWhole'
  BY <1>1, <1>2 DEF TreeFresh, TreeParsers, TreeBrood, TreeWhole
<1> QED BY <1>4, <1>5, <1>6, <1>7 DEF TreeInv

(* A member leaves the stack. *)
LEMMA PoppedLine ==
  ASSUME TreeInv, place = "pop", pendingWork # << >>, place' = "parser",
         UNCHANGED <<file, policy, nodes>>,
         pendingWork' = Front(pendingWork), current' = Last(pendingWork)
  PROVE  LET n == Len(pendingWork) IN
         /\ n \in Nat \ {0} /\ pendingWork' \in Seq(Works) /\ Len(pendingWork') = n - 1
         /\ DOMAIN pendingWork' = 1..(n - 1) /\ current' = pendingWork[n] /\ current' \in Works
         /\ \A k \in 1..(n - 1) : k \in DOMAIN pendingWork /\ k # n /\ pendingWork'[k] = pendingWork[k]
         /\ n \in DOMAIN pendingWork /\ ~Busy /\ Busy'
         /\ Popped = Len(nodes) /\ Popped' = Popped + 1 /\ Popped \in Nat
         /\ \A i \in 1..Popped' : i = Popped + 1 => Node(i)' = pendingWork[n]
         /\ \A i \in 1..Popped : Node(i)' = Node(i) /\ i \in 1..Popped'
         /\ \A i \in 1..Popped' : i \in 1..Popped \/ i = Popped + 1
<1> DEFINE n == Len(pendingWork)
<1>1. TreeShape
  BY DEF TreeInv
<1>2. n \in Nat \ {0} /\ n \in DOMAIN pendingWork /\ DOMAIN pendingWork = 1..n
      /\ pendingWork[n] \in Works /\ pendingWork \in Seq(Works)
  BY <1>1, TreeFacts
<1>3. current' = pendingWork[n]
  BY DEF Last
<1>4. /\ pendingWork' \in Seq(Works) /\ Len(pendingWork') = n - 1
      /\ \A k \in 1..(n - 1) : pendingWork'[k] = pendingWork[k]
  BY <1>2 DEF Front
<1>5. ~Busy /\ Busy' /\ Popped = Len(nodes) /\ Popped' = Popped + 1 /\ Popped \in Nat
  BY <1>1, TreeFacts DEF Busy, Popped
<1>6. \A i \in 1..Popped' : i = Popped + 1 => Node(i)' = pendingWork[n]
  <2>1. ASSUME NEW i \in 1..Popped', i = Popped + 1 PROVE Node(i)' = pendingWork[n]
    <3>1. ~(i <= Len(nodes))
      BY <1>5, <2>1
    <3> QED BY <1>3, <1>5, <3>1 DEF Node
  <2> QED BY <2>1
<1>7. \A i \in 1..Popped : Node(i)' = Node(i) /\ i \in 1..Popped'
  BY <1>5 DEF Node
<1>8. \A i \in 1..Popped' : i \in 1..Popped \/ i = Popped + 1
  BY <1>5
<1>9. DOMAIN pendingWork' = 1..(n - 1)
  BY <1>4
<1>10. \A k \in 1..(n - 1) : k \in DOMAIN pendingWork /\ k # n
  <2>1. \A k \in 1..(n - 1) : k \in 1..n /\ k # n
    <3> HIDE DEF n
    <3> QED BY <1>2
  <2> QED BY <1>2, <2>1
<1>11. \A k \in 1..(n - 1) : k \in DOMAIN pendingWork /\ k # n /\ pendingWork'[k] = pendingWork[k]
  BY <1>4, <1>10
<1>12. current' \in Works
  BY <1>2, <1>3
<1> QED BY ONLY <1>2, <1>3, <1>4, <1>5, <1>6, <1>7, <1>8, <1>9, <1>11, <1>12, Zenon

LEMMA PopNextInv ==
  ASSUME TreeInv, Pop, place' = "parser"
  PROVE  TreeInv'
<1> DEFINE n == Len(pendingWork)
<1>1. /\ place = "pop" /\ pendingWork # << >> /\ Len(nodes) < policy.nodes
      /\ UNCHANGED <<file, policy, source, late, run, usage, queued, nodes, stop>>
      /\ pendingWork' = Front(pendingWork) /\ current' = Last(pendingWork)
      /\ todo' = Parsers(file, current'.member) /\ results' = << >>
  BY TreeFacts DEF Pop, TreeInv
<1>2. /\ n \in Nat \ {0} /\ pendingWork' \in Seq(Works) /\ Len(pendingWork') = n - 1
      /\ DOMAIN pendingWork' = 1..(n - 1) /\ current' = pendingWork[n] /\ current' \in Works
      /\ \A k \in 1..(n - 1) : k \in DOMAIN pendingWork /\ k # n /\ pendingWork'[k] = pendingWork[k]
      /\ n \in DOMAIN pendingWork /\ ~Busy /\ Busy'
      /\ Popped = Len(nodes) /\ Popped' = Popped + 1 /\ Popped \in Nat
      /\ \A i \in 1..Popped' : i = Popped + 1 => Node(i)' = pendingWork[n]
      /\ \A i \in 1..Popped : Node(i)' = Node(i) /\ i \in 1..Popped'
      /\ \A i \in 1..Popped' : i \in 1..Popped \/ i = Popped + 1
  BY <1>1, PoppedLine
<1> HIDE DEF n
<1>3. /\ TreeShape /\ TreeRoom /\ TreeBorn /\ TreeOnce /\ TreeWhole
      /\ file \in Forests /\ Members(file)' = Members(file)
      /\ \A m : Showing(file, m)' = Showing(file, m)
  BY <1>1, TreeFacts, SameFile DEF TreeInv
<1>4. Popped + 1 \in 1..Popped' /\ \A i \in 1..Popped' : i \in Nat
  BY <1>2
<1>5. \A k \in DOMAIN pendingWork : pendingWork[k] \in Works
  BY <1>3, TreeFacts
<1>6. TreeShape'
  <2>1. todo' \in Seq(ParserNames)
    <3>1. todo' = Parsers(file, pendingWork[n].member)
      BY <1>1, <1>2
    <3>2. Born(pendingWork[n], Popped)
      BY <1>2, <1>3 DEF TreeBorn
    <3>3. pendingWork[n].member \in Members(file)
      BY <3>2 DEF Born
    <3> QED BY <1>3, <3>1, <3>3, ParsersAre
  <2>2. run = NoRun
    BY <1>1, <1>3 DEF TreeShape
  <2> QED BY <1>1, <1>2, <1>3, <2>1, <2>2 DEF TreeShape, TreeTypeOK
<1>7. TreeRoom'
  <2>1. RootExpansion' = RootExpansion
    BY <1>1, AvailableKept
  <2>2. Popped' + Len(pendingWork') <= policy.nodes
    <3>1. Popped + n <= policy.nodes /\ policy.nodes \in Nat
      BY <1>3, TreeFacts DEF TreeRoom, n
    <3> QED BY <1>2, <3>1
  <2> QED BY <1>1, <1>3, <2>1, <2>2 DEF TreeRoom
<1>8. TreeBorn'
  <2>1. ASSUME NEW w, NEW k \in Nat, NEW l \in Nat, Born(w, k), k <= Popped, k <= l,
               w.parent = 0 => l = 0
        PROVE  Born(w, l)'
    <3>1. w.parent \in 1..k => w.parent \in 1..Popped /\ w.parent \in 1..l
      BY <1>2, <2>1
    <3>2. w.parent \in 1..k => Node(w.parent)' = Node(w.parent)
      BY <1>2, <3>1
    <3> QED BY <1>1, <1>3, <2>1, <3>1, <3>2 DEF Born
  <2>2. ASSUME NEW i \in 1..Popped PROVE Born(Node(i), i - 1)'
    <3>1. Born(Node(i), i - 1) /\ i - 1 \in Nat /\ i - 1 <= Popped /\ Node(i)' = Node(i)
      BY <1>2, <1>3 DEF TreeBorn
    <3>2. Node(i).parent = 0 => i - 1 = 0
      BY <3>1 DEF Born
    <3> QED BY <2>1, <3>1, <3>2
  <2>3. ASSUME NEW i \in 1..Popped', i = Popped + 1 PROVE Born(Node(i), i - 1)'
    <3>1. Born(pendingWork[n], Popped) /\ i - 1 = Popped /\ Node(i)' = pendingWork[n]
      BY <1>2, <1>3, <2>3 DEF TreeBorn
    <3>2. pendingWork[n].parent = 0 => Popped = 0
      BY <3>1 DEF Born
    <3> QED BY <1>2, <2>1, <3>1, <3>2
  <2>4. ASSUME NEW k \in 1..(n - 1) PROVE Born(pendingWork[k], Popped)'
    <3>1. Born(pendingWork[k], Popped) /\ pendingWork'[k] = pendingWork[k]
          /\ Born(pendingWork[n], Popped) /\ pendingWork[k] \in Works
      BY <1>2, <1>3, <1>5 DEF TreeBorn
    <3>2. pendingWork[k].parent # 0
      <4>1. SUFFICES ASSUME pendingWork[k].parent = 0 PROVE FALSE
        OBVIOUS
      <4>2. Popped = 0 /\ pendingWork[k].member = 1
        BY <3>1, <4>1 DEF Born
      <4>3. pendingWork[n].member = 1 /\ pendingWork[n].parent = 0
        BY <3>1, <4>2 DEF Born
      <4> QED BY <1>2, <1>3, <4>1, <4>2, <4>3 DEF TreeOnce, Same
    <3> QED BY <1>2, <2>1, <3>1, <3>2
  <2> QED BY <1>2, <2>2, <2>3, <2>4 DEF TreeBorn
<1>9. TreeOnce'
  <2>1. /\ \A i, j \in 1..Popped : Same(Node(i), Node(j)) => i = j
        /\ \A k, l \in DOMAIN pendingWork : Same(pendingWork[k], pendingWork[l]) => k = l
        /\ \A i \in 1..Popped, k \in DOMAIN pendingWork :
             ~Same(Node(i), pendingWork[k]) /\ ~Same(pendingWork[k], Node(i))
    BY <1>3 DEF TreeOnce, Same
  <2>2. ASSUME NEW i \in 1..Popped', NEW j \in 1..Popped', Same(Node(i)', Node(j)')
        PROVE  i = j
    <3>1. CASE i = Popped + 1 /\ j \in 1..Popped
      <4>1. Node(i)' = pendingWork[n] /\ Node(j)' = Node(j)
        BY <1>2, <3>1
      <4> QED BY <1>2, <2>1, <2>2, <3>1, <4>1
    <3>2. CASE j = Popped + 1 /\ i \in 1..Popped
      <4>1. Node(j)' = pendingWork[n] /\ Node(i)' = Node(i)
        BY <1>2, <3>2
      <4> QED BY <1>2, <2>1, <2>2, <3>2, <4>1
    <3>3. CASE i \in 1..Popped /\ j \in 1..Popped
      <4>1. Node(j)' = Node(j) /\ Node(i)' = Node(i)
        BY <1>2, <3>3
      <4> QED BY <2>1, <2>2, <3>3, <4>1
    <3> QED BY <1>2, <3>1, <3>2, <3>3
  <2>3. ASSUME NEW k \in 1..(n - 1), NEW l \in 1..(n - 1),
               Same(pendingWork'[k], pendingWork'[l])
        PROVE  k = l
    <3>1. /\ pendingWork'[k] = pendingWork[k] /\ k \in DOMAIN pendingWork
          /\ pendingWork'[l] = pendingWork[l] /\ l \in DOMAIN pendingWork
      BY <1>2
    <3> QED BY <2>1, <2>3, <3>1
  <2>4. ASSUME NEW i \in 1..Popped', NEW k \in 1..(n - 1)
        PROVE  ~Same(Node(i)', pendingWork'[k])
    <3>1. pendingWork'[k] = pendingWork[k] /\ k \in DOMAIN pendingWork /\ k # n
      BY <1>2
    <3>2. CASE i \in 1..Popped
      <4>1. Node(i)' = Node(i)
        BY <1>2, <3>2
      <4> QED BY <2>1, <3>1, <3>2, <4>1
    <3>3. CASE i = Popped + 1
      <4>1. Node(i)' = pendingWork[n]
        BY <1>2, <3>3
      <4> QED BY <1>2, <2>1, <3>1, <4>1
    <3> QED BY <1>2, <3>2, <3>3
  <2> QED BY <1>2, <2>2, <2>3, <2>4 DEF TreeOnce, Same
<1>10. TreeFresh'
  <2>1. ASSUME NEW k \in 1..(n - 1) PROVE pendingWork'[k].parent # Len(nodes) + 1
    <3>1. Born(pendingWork[k], Popped) /\ pendingWork'[k] = pendingWork[k]
      BY <1>2, <1>3 DEF TreeBorn
    <3> QED BY <1>2, <3>1 DEF Born
  <2> QED BY <1>1, <1>2, <2>1 DEF TreeFresh
<1>11. TreeParsers' /\ TreeBrood'
  <2>1. todo' = Parsers(file', current'.member) /\ Len(todo') \in Nat /\ Len(results') = 0
        /\ DOMAIN todo' = 1..Len(todo')
    BY <1>1, <1>6 DEF TreeShape
  <2>2. Rest(0)'
    BY <2>1 DEF Rest
  <2> QED BY <1>1, <2>1, <2>2 DEF TreeParsers, TreeBrood
<1>12. TreeWhole'
  <2>1. ASSUME NEW h \in 1..Popped, Served(h) PROVE Served(h)'
    <3>1. ASSUME NEW c \in Certain(file, Node(h).member)
          PROVE  \/ \E i \in 1..Popped' : Node(i)'.parent = h /\ Node(i)'.member = c
                 \/ \E k \in 1..(n - 1) : pendingWork'[k].parent = h /\ pendingWork'[k].member = c
      <4>1. CASE \E i \in 1..Popped : Node(i).parent = h /\ Node(i).member = c
        BY <1>2, <4>1
      <4>2. CASE \E k \in DOMAIN pendingWork : pendingWork[k].parent = h /\ pendingWork[k].member = c
        <5>1. PICK k \in DOMAIN pendingWork : pendingWork[k].parent = h /\ pendingWork[k].member = c
          BY <4>2
        <5>2. k = n \/ k \in 1..(n - 1)
          <6>1. DOMAIN pendingWork = 1..n
            BY <1>3, TreeFacts DEF n
          <6> QED BY <1>2, <5>1, <6>1
        <5> QED BY <1>2, <1>4, <5>1, <5>2
      <4> QED BY <2>1, <3>1, <4>1, <4>2 DEF Served
    <3>2. Certain(file, Node(h).member)' = Certain(file, Node(h).member)
      BY <1>1, <1>2, SameFile
    <3> QED BY <1>1, <1>2, <3>1, <3>2 DEF Served
  <2>2. \A m : Parsers(file, m)' = Parsers(file, m)
    BY <1>1, SameFile
  <2>3. place' # "done" /\ results' = << >>
    BY <1>1
  <2>4. \A i \in DOMAIN nodes : i \in 1..Popped
    BY <1>2, <1>3, TreeFacts
  <2> QED BY <1>1, <1>3, <2>1, <2>2, <2>3, <2>4 DEF TreeWhole, Trusty
<1> QED BY <1>6, <1>7, <1>8, <1>9, <1>10, <1>11, <1>12 DEF TreeInv

LEMMA PopEndInv ==
  ASSUME TreeInv, Pop, place' # "parser"
  PROVE  TreeInv'
<1>1. /\ place = "pop" /\ place' = "done"
      /\ UNCHANGED <<file, policy, source, late, pendingWork, current, todo, results, run, usage,
                     queued, nodes>>
      /\ stop' = IF pendingWork = << >> THEN stop ELSE IF late THEN "deadline" ELSE "entries"
  BY DEF Pop
<1>2. ~Busy /\ ~Busy' /\ Busy' = Busy /\ Popped' = Popped /\ Nobody \notin {"deadline", "entries"}
      /\ {"deadline", "entries"} \subseteq Limits
  BY <1>1, TreeAssumption DEF Busy, Popped, Limits, Resources
<1>3. SameLine
  BY <1>1, <1>2, SameNodes
<1>4. TreeShape' /\ TreeRoom'
  <2>1. RootExpansion' = RootExpansion
    BY <1>1, AvailableKept
  <2>2. stop' \in Limits \cup {"depth", Nobody}
    BY <1>1, <1>2 DEF TreeInv, TreeShape, TreeTypeOK
  <2>3. TreeShape'
    BY <1>1, <1>2, <2>2 DEF TreeInv, TreeShape, TreeTypeOK
  <2> QED BY <1>1, <1>2, <2>1, <2>3 DEF TreeInv, TreeRoom
<1>5. TreeBorn' /\ TreeOnce'
  BY <1>3, LineKept DEF TreeInv
<1>6. TreeFresh' /\ TreeParsers' /\ TreeBrood'
  BY <1>1, <1>2 DEF TreeFresh, TreeParsers, TreeBrood
<1>7. TreeWhole'
  <2>1. stop' = Nobody => stop = Nobody /\ pendingWork = << >>
    BY <1>1, <1>2
  <2>2. \A m : Parsers(file, m)' = Parsers(file, m)
    BY <1>1, SameFile
  <2>3. \A i \in DOMAIN nodes : Served(i) => Served(i)'
    <3>1. \A i \in DOMAIN nodes : i \in 1..Popped
      BY TreeFacts DEF TreeInv
    <3> QED BY <1>3, <3>1, ServedKept
  <2> QED BY <1>1, <1>2, <2>1, <2>2, <2>3 DEF TreeInv, TreeWhole, Trusty
<1> QED BY <1>4, <1>5, <1>6, <1>7 DEF TreeInv

LEMMA PopInv == ASSUME TreeInv, Pop PROVE TreeInv'
BY PopEndInv, PopNextInv

-----------------------------------------------------------------------------
(* A parser is started.                                                     *)

LEMMA FreshFits ==
  ASSUME TreeShape, TreeRoom, NEW size \in Nat
  PROVE  LET fresh == Budget(Available, Least(MemberLimit, TreeRemaining), size)
         IN  Within(fresh) /\ fresh.limits = Available
<1> DEFINE member == Least(MemberLimit, TreeRemaining)
           fresh == Budget(Available, member, size)
<1>1. Available \in [Resources -> Nat] /\ member \in Nat
  BY AvailableIs DEF Least
<1>2. Zero \in [Resources -> Nat] /\ \A r \in Resources : Zero[r] = 0
  BY DEF Zero
<1> HIDE DEF member
<1>3. fresh \in Budgets /\ fresh.used = Zero /\ fresh.limits = Available
  BY <1>1, <1>2 DEF Budget, Budgets
<1>4. \A r \in Resources : Zero[r] <= Available[r]
  BY <1>1, <1>2
<1>5. Within(fresh)
  <2> HIDE DEF fresh
  <2> QED BY <1>3, <1>4 DEF Within
<1> QED BY <1>3, <1>5 DEF member

LEMMA StartLateInv ==
  ASSUME TreeInv, StartParser, late
  PROVE  TreeInv'
<1>1. /\ place = "parser" /\ stop' = "deadline" /\ todo' = << >>
      /\ UNCHANGED <<file, policy, source, late, place, pendingWork, current, results, run, usage,
                     queued, nodes>>
  BY DEF StartParser
<1>2. Busy /\ Busy' /\ Popped' = Popped /\ Nobody # "deadline" /\ "deadline" \in Limits
  BY <1>1, TreeAssumption DEF Busy, Popped, Limits
<1>3. SameLine
  BY <1>1, <1>2, SameNodes
<1>4. TreeShape' /\ TreeRoom'
  <2>1. RootExpansion' = RootExpansion
    BY <1>1, AvailableKept
  <2>2. TreeShape'
    BY <1>1, <1>2 DEF TreeInv, TreeShape, TreeTypeOK
  <2> QED BY <1>1, <1>2, <2>1, <2>2 DEF TreeInv, TreeRoom
<1>5. TreeBorn' /\ TreeOnce'
  BY <1>3, LineKept DEF TreeInv
<1>6. TreeFresh' /\ TreeParsers' /\ TreeBrood' /\ TreeWhole'
  BY <1>1, <1>2 DEF TreeInv, TreeFresh, TreeParsers, TreeBrood, TreeWhole
<1> QED BY <1>4, <1>5, <1>6 DEF TreeInv

LEMMA StartParserInv == ASSUME TreeInv, StartParser PROVE TreeInv'
<1> SUFFICES ASSUME ~late PROVE TreeInv'
  BY StartLateInv
<1> DEFINE size == file.size[current.member]
           format == file.format[current.member]
           fresh == Budget(Available, Least(MemberLimit, TreeRemaining), size)
           lists == Head(todo) \in Listers
           inside == Inside(file, current.member)
           budget == IF lists THEN Enter(ReadSource(fresh), Rounds[format].before)
                     ELSE ReadSource(fresh)
           left == IF lists THEN inside ELSE << >>
           order == Parsers(file, current.member)
           n == Len(results)
<1>1. /\ place = "parser" /\ todo # << >> /\ place' = "native" /\ todo' = Tail(todo)
      /\ UNCHANGED <<file, policy, source, late, pendingWork, current, results, usage, queued,
                     nodes, stop>>
      /\ run' = [parser |-> Head(todo), budget |-> budget, left |-> left, emitted |-> << >>,
                 verdict |-> Nobody, over |-> ~lists]
  BY DEF StartParser
<1>2. Busy /\ Busy' /\ Popped' = Popped
  BY <1>1 DEF Busy, Popped
<1>3. SameLine
  BY <1>1, <1>2, SameNodes
<1>4. /\ TreeShape /\ TreeRoom /\ file \in Forests /\ current \in Works
      /\ current.member \in Members(file)
      /\ todo \in Seq(ParserNames) /\ Len(todo) \in Nat /\ DOMAIN todo = 1..Len(todo)
      /\ n \in Nat /\ Len(todo) > 0
  <2>1. current \in Works /\ Len(todo) > 0
    BY <1>1, <1>2, TreeFacts DEF TreeInv, TreeShape
  <2>2. current.member \in Members(file)
    <3>1. Popped \in 1..Popped /\ Node(Popped) = current
      BY <1>2, TreeFacts DEF TreeInv, Node
    <3> QED BY <3>1 DEF TreeInv, TreeBorn, Born
  <2> QED BY <2>1, <2>2, TreeFacts DEF TreeInv
<1>5. Head(todo) = todo[1] /\ todo[1] \in ParserNames /\ Tail(todo) \in Seq(ParserNames)
      /\ Len(Tail(todo)) = Len(todo) - 1 /\ DOMAIN Tail(todo) = 1..(Len(todo) - 1)
      /\ \A i \in 1..(Len(todo) - 1) : Tail(todo)[i] = todo[i + 1] /\ i + 1 \in DOMAIN todo
      /\ 1 \in DOMAIN todo
  BY <1>4
<1>6. n + Len(todo) = Len(order) /\ \A i \in DOMAIN todo : todo[i] = order[n + i]
  BY <1>1, <1>4 DEF TreeInv, TreeParsers, Rest
<1>7. lists => n = 0 /\ results = << >> /\ format \in Containers
  <2>1. todo[1] = order[n + 1] /\ n + 1 \in 1..Len(order)
    BY <1>4, <1>5, <1>6
  <2>2. /\ Len(order) \in Nat /\ DOMAIN order = 1..Len(order)
        /\ \A i \in DOMAIN order : order[i] \in Listers => i = 1 /\ format \in Containers
    BY <1>4, ParsersAre
  <2> HIDE DEF order
  <2>3. lists => n + 1 = 1 /\ format \in Containers
    BY <1>5, <2>1, <2>2
  <2> QED BY <1>4, <2>3, TreeFacts DEF TreeInv
<1>8. Within(budget) /\ budget.limits = Available
  <2>1. size \in Nat
    BY <1>4, Forest
  <2> HIDE DEF size
  <2>2. Within(fresh) /\ fresh.limits = Available
    BY <1>4, <2>1, FreshFits
  <2> HIDE DEF fresh
  <2> DEFINE read == ReadSource(fresh)
  <2>3. Within(read) /\ read.limits = Available
    BY <2>2, ReadSourceFits
  <2> HIDE DEF read, lists
  <2>4. lists => Rounds[format].before \in Nat
    BY <1>7, RoundsAre
  <2>5. lists => Within(Enter(read, Rounds[format].before))
                 /\ Enter(read, Rounds[format].before).limits = Available
    BY <2>3, <2>4, EnterFits
  <2> QED BY <2>3, <2>5 DEF read
<1>9. /\ left \in Seq(Nat) /\ (lists => left = inside) /\ (~lists => left = << >>)
      /\ \A i \in DOMAIN inside : inside[i] \in Held(file, current.member)
      /\ \A i, j \in DOMAIN inside : i < j => inside[i] < inside[j]
      /\ \A c \in Certain(file, current.member) : \E i \in DOMAIN inside : inside[i] = c
  <2>1. /\ inside \in Seq(Nat)
        /\ \A i \in DOMAIN inside : inside[i] \in Held(file, current.member)
        /\ \A i, j \in DOMAIN inside : i < j => inside[i] < inside[j]
        /\ \A c \in Held(file, current.member) : \E i \in DOMAIN inside : inside[i] = c
    BY <1>4, InsideIs
  <2>2. Certain(file, current.member) \subseteq Held(file, current.member)
    BY <1>4, ShowingIs
  <2> HIDE DEF inside, lists
  <2> QED BY <2>1, <2>2
<1> HIDE DEF budget, size, fresh, left, inside
<1>10. /\ run' \in Runs /\ run'.parser = todo[1] /\ run'.budget = budget /\ run'.left = left
       /\ run'.emitted = << >> /\ run'.over = (~lists) /\ run'.verdict = Nobody
  <2>1. budget \in Budgets
    BY <1>8 DEF Within
  <2> HIDE DEF lists
  <2>2. (~lists) \in BOOLEAN /\ << >> \in Seq(Nat)
    OBVIOUS
  <2> QED BY <1>1, <1>5, <1>9, <2>1, <2>2 DEF Runs
<1>11. TreeShape'
  BY <1>1, <1>2, <1>4, <1>5, <1>10 DEF TreeShape, TreeTypeOK
<1>12. TreeRoom'
  <2>1. RootExpansion' = RootExpansion /\ Available' = Available
    BY <1>1, AvailableKept
  <2>2. run'.budget.limits = Available /\ \A r \in Resources : run'.budget.used[r] <= Available[r]
    BY <1>8, <1>10 DEF Within
  <2> QED BY <1>1, <1>2, <1>4, <2>1, <2>2 DEF TreeRoom
<1>13. TreeBorn' /\ TreeOnce'
  BY <1>3, LineKept DEF TreeInv
<1>14. TreeFresh'
  BY <1>1, <1>2 DEF TreeInv, TreeFresh
<1>15. order' = order
  BY <1>1, SameFile
<1>16. TreeParsers'
  <2>1. n + 1 + Len(Tail(todo)) = Len(order)
    BY <1>4, <1>5, <1>6
  <2>2. \A i \in DOMAIN Tail(todo) : Tail(todo)[i] = order[n + 1 + i]
    <3>1. ASSUME NEW i \in DOMAIN Tail(todo) PROVE Tail(todo)[i] = order[n + 1 + i]
      <4>1. Tail(todo)[i] = todo[i + 1] /\ todo[i + 1] = order[n + (i + 1)] /\ n + (i + 1) = n + 1 + i
        BY <1>4, <1>5, <1>6
      <4> QED BY <4>1
    <3> QED BY <3>1
  <2>3. todo[1] = order[n + 1]
    BY <1>5, <1>6
  <2> HIDE DEF order, lists
  <2>4. Rest(n + 1)'
    BY <1>1, <1>15, <2>1, <2>2 DEF Rest, order
  <2> QED BY <1>1, <1>10, <1>15, <2>3, <2>4 DEF TreeParsers, order
<1>17. TreeBrood'
  <2>1. \A m : Held(file, m)' = Held(file, m) /\ Certain(file, m)' = Certain(file, m)
    BY <1>1, SameFile
  <2>2. DOMAIN << >> = {}
    OBVIOUS
  <2>3. CASE lists
    <3>1. run'.left = inside /\ run'.over = FALSE /\ run'.parser \in Listers
      BY <1>5, <1>9, <1>10, <2>3
    <3> QED BY <1>1, <1>7, <1>9, <1>10, <2>1, <2>2, <2>3, <3>1 DEF TreeBrood, Brood
  <2>4. CASE ~lists
    <3>1. run'.left = << >> /\ run'.over = TRUE /\ run'.parser \notin Listers
      BY <1>5, <1>9, <1>10, <2>4
    <3> QED BY <1>1, <1>10, <2>2, <3>1 DEF TreeBrood, Brood
  <2> QED BY <2>3, <2>4
<1>18. TreeWhole'
  <2>1. \A m : Parsers(file, m)' = Parsers(file, m)
    BY <1>1, SameFile
  <2>2. \A i \in 1..Popped : Served(i) => Served(i)'
    BY <1>3, ServedKept
  <2>3. Len(nodes) + 1 \in 1..Popped /\ \A i \in DOMAIN nodes : i \in 1..Popped
    BY <1>2, <1>4, TreeFacts
  <2> QED BY <1>1, <1>2, <2>1, <2>2, <2>3 DEF TreeInv, TreeWhole, Trusty
<1> QED BY <1>11, <1>12, <1>13, <1>14, <1>16, <1>17, <1>18 DEF TreeInv

-----------------------------------------------------------------------------
(* The parser of a container goes through its listing.                      *)

LEMMA NativeInv ==
  ASSUME TreeInv, NEW next, Native(next), next \in Runs, next.parser = run.parser,
         Within(next.budget), next.budget.limits = run.budget.limits, Brood(next)
  PROVE  TreeInv'
<1>1. /\ place = "native" /\ run' = next
      /\ UNCHANGED <<file, policy, source, late, place, pendingWork, current, todo, results, usage,
                     queued, stop, nodes>>
  BY DEF Native
<1>2. Busy /\ Busy' /\ Popped' = Popped /\ TreeShape /\ TreeRoom /\ TreeWhole
  BY <1>1 DEF Busy, Popped, TreeInv
<1>3. SameLine
  BY <1>1, <1>2, SameNodes
<1>4. TreeShape'
  BY <1>1, <1>2 DEF TreeShape, TreeTypeOK
<1>5. TreeRoom'
  <2>1. RootExpansion' = RootExpansion /\ Available' = Available
    BY <1>1, AvailableKept
  <2>2. next.budget.limits = Available /\ \A r \in Resources : next.budget.used[r] <= Available[r]
    BY <1>1, <1>2 DEF Within, TreeRoom
  <2> QED BY <1>1, <1>2, <2>1, <2>2 DEF TreeRoom
<1>6. TreeBorn' /\ TreeOnce'
  BY <1>3, LineKept DEF TreeInv
<1>7. TreeFresh'
  BY <1>1, <1>2 DEF TreeInv, TreeFresh
<1>8. TreeParsers'
  <2>1. \A x : Parsers(file, x)' = Parsers(file, x)
    BY <1>1, SameFile
  <2> QED BY <1>1, <2>1 DEF TreeInv, TreeParsers, Rest
<1>9. TreeBrood'
  <2>1. \A m : /\ Held(file, m)' = Held(file, m) /\ Showing(file, m)' = Showing(file, m)
               /\ Certain(file, m)' = Certain(file, m)
    BY <1>1, SameFile
  <2> QED BY <1>1, <2>1 DEF TreeBrood, Brood
<1>10. TreeWhole'
  BY <1>1, <1>2, <1>3, WholeKept
<1> QED BY <1>4, <1>5, <1>6, <1>7, <1>8, <1>9, <1>10 DEF TreeInv

LEMMA ReadingIs ==
  ASSUME TreeInv, Reading
  PROVE  /\ place = "native" /\ run \in Runs /\ Brood(run) /\ Within(run.budget)
         /\ file \in Forests /\ run.left \in Seq(Nat) /\ run.emitted \in Seq(Nat)
         /\ run.budget.status = "Ok" /\ ~run.over /\ run.parser \in Listers
         /\ file.format[current.member] \in Containers
         /\ run.verdict \in {Nobody, "unsupported", "malformed"}
<1>1. place = "native" /\ run \in Runs /\ Brood(run) /\ file \in Forests /\ ~run.over
      /\ run.budget.status = "Ok" /\ TreeRoom
  BY TreeFacts DEF TreeInv, TreeShape, TreeBrood, Reading
<1>2. Within(run.budget)
  BY <1>1 DEF TreeRoom, Within, Runs
<1> QED BY <1>1, <1>2 DEF Brood, Runs

(* A part of a list, in order. *)
Part(part, list) ==
  /\ part \in Seq(Nat) /\ \A i, j \in DOMAIN part : i < j => part[i] < part[j]
  /\ \A i \in DOMAIN part : \E j \in DOMAIN list : part[i] = list[j]

LEMMA HeadIs ==
  ASSUME TreeInv, Reading, run.left # << >>
  PROVE  LET m == Head(run.left) rest == Tail(run.left) IN
         /\ m \in Nat /\ m \in Held(file, current.member) /\ file.size[m] \in Nat
         /\ Part(rest, rest) /\ \A i \in DOMAIN rest : rest[i] \in Held(file, current.member)
         /\ \A i \in DOMAIN run.emitted : run.emitted[i] < m
         /\ \A i \in DOMAIN rest : m < rest[i]
         /\ \A i \in DOMAIN run.emitted, j \in DOMAIN rest : run.emitted[i] < rest[j]
         /\ \A i \in DOMAIN run.left : run.left[i] = m \/ \E j \in DOMAIN rest : rest[j] = run.left[i]
<1> DEFINE m == Head(run.left)
           rest == Tail(run.left)
           E == DOMAIN run.emitted
           L == DOMAIN run.left
           R == DOMAIN rest
<1>1. /\ file \in Forests /\ run.left \in Seq(Nat) /\ Brood(run)
  BY ReadingIs
<1>2. /\ \A i \in L : run.left[i] \in Held(file, current.member)
      /\ \A i, j \in L : i < j => run.left[i] < run.left[j]
      /\ \A i \in E, j \in L : run.emitted[i] < run.left[j]
  BY <1>1 DEF Brood
<1>3. /\ m = run.left[1] /\ m \in Nat /\ 1 \in L
      /\ rest \in Seq(Nat)
      /\ \A i \in R : rest[i] = run.left[i + 1] /\ i + 1 \in L /\ 1 < i + 1
      /\ \A i, j \in R : i < j => i + 1 < j + 1
      /\ \A i \in L : i = 1 \/ (i - 1 \in R /\ rest[i - 1] = run.left[i])
  BY <1>1
<1>4. Held(file, current.member) \subseteq Members(file)
  BY <1>1, InsideIs
<1> HIDE DEF m, rest, E, L, R
<1>5. m \in Held(file, current.member) /\ file.size[m] \in Nat
  BY <1>1, <1>2, <1>3, <1>4, Forest
<1>6. ASSUME NEW i \in R, NEW j \in R, i < j PROVE rest[i] < rest[j]
  <2>1. i + 1 < j + 1 /\ i + 1 \in L /\ j + 1 \in L
    BY <1>3, <1>6
  <2> QED BY <1>2, <1>3, <2>1
<1>7. Part(rest, rest)
  BY <1>3, <1>6 DEF Part, R
<1>8. /\ \A i \in R : rest[i] \in Held(file, current.member) /\ m < rest[i]
      /\ \A i \in E : run.emitted[i] < m
      /\ \A i \in E, j \in R : run.emitted[i] < rest[j]
      /\ \A i \in L : run.left[i] = m \/ \E j \in R : rest[j] = run.left[i]
  BY <1>2, <1>3
<1> QED BY <1>3, <1>5, <1>7, <1>8 DEF m, rest, E, L, R

LEMMA BeyondIs ==
  ASSUME TreeInv, Reading, run.left # << >>, NEW m
  PROVE  Part(Beyond(m), Tail(run.left))
<1> DEFINE rest == Tail(run.left)
           positions == {i \in DOMAIN rest : rest[i] \notin Held(file, m)}
           part == Kept(rest, positions)
<1>1. rest \in Seq(Nat) /\ \A i, j \in DOMAIN rest : i < j => rest[i] < rest[j]
  BY HeadIs DEF Part
<1>2. Beyond(m) = part
  BY DEF Beyond, Held
<1>3. positions \in SUBSET DOMAIN rest
  OBVIOUS
<1> HIDE DEF rest, positions
<1>4. part \in Seq(Nat) /\ Keeps(part, rest, positions)
  BY <1>1, <1>3, KeptIs
<1> HIDE DEF part
<1>5. PICK at \in [DOMAIN part -> positions] :
        /\ \A i \in DOMAIN part : part[i] = rest[at[i]]
        /\ \A i, j \in DOMAIN part : i < j => at[i] < at[j]
  BY <1>4 DEF Keeps
<1>6. \A i \in DOMAIN part : at[i] \in DOMAIN rest
  BY <1>3, <1>5
<1>7. Part(part, rest)
  BY <1>1, <1>4, <1>5, <1>6 DEF Part
<1> QED BY <1>2, <1>7 DEF rest

(* One more member is emitted, or not; and what is left of the list is a part *)
(* of its rest, or nothing.                                                   *)
LEMMA BroodOn ==
  ASSUME TreeInv, Reading, run.left # << >>, NEW next, next.parser = run.parser,
         Part(next.left, Tail(run.left)), next.over => next.left = << >>,
         next.emitted = run.emitted \/ (/\ Head(run.left) \in Showing(file, current.member)
                                        /\ next.emitted = Append(run.emitted, Head(run.left))),
         next.budget.status = "Ok" /\ next.verdict \in Silent =>
           /\ run.verdict \in Silent
           /\ \/ /\ next.left = Tail(run.left)
                 /\ \/ next.emitted = Append(run.emitted, Head(run.left))
                    \/ Head(run.left) \notin Showing(file, current.member)
              \/ \A c \in Certain(file, current.member) : c < Head(run.left)
  PROVE  Brood(next)
<1> DEFINE m == Head(run.left)
           rest == Tail(run.left)
           E == DOMAIN run.emitted
           D == DOMAIN next.emitted
           L == DOMAIN next.left
           R == DOMAIN rest
           shown == Showing(file, current.member)
           held == Held(file, current.member)
           certain == Certain(file, current.member)
<1>1. /\ run.left \in Seq(Nat) /\ run.emitted \in Seq(Nat) /\ run.parser \in Listers
      /\ results = << >> /\ file.format[current.member] \in Containers
      /\ certain \subseteq shown
      /\ \A i \in E : run.emitted[i] \in shown
      /\ \A i, j \in E : i < j => run.emitted[i] < run.emitted[j]
      /\ run.budget.status = "Ok"
      /\ run.verdict \in Silent => \A c \in certain :
           (\E i \in E : run.emitted[i] = c) \/ \E i \in DOMAIN run.left : run.left[i] = c
  BY ReadingIs, ShowingIs DEF Brood
<1>2. /\ m \in Nat /\ rest \in Seq(Nat) /\ \A i \in R : rest[i] \in held
      /\ \A i \in E : run.emitted[i] < m
      /\ \A i \in R : m < rest[i]
      /\ \A i \in E, j \in R : run.emitted[i] < rest[j]
      /\ \A i \in DOMAIN run.left : run.left[i] = m \/ \E j \in R : rest[j] = run.left[i]
  BY HeadIs DEF Part
<1>3. /\ next.left \in Seq(Nat) /\ \A i, j \in L : i < j => next.left[i] < next.left[j]
      /\ \A i \in L : \E j \in R : next.left[i] = rest[j]
  BY DEF Part
<1>4. \/ next.emitted = run.emitted
      \/ /\ m \in shown /\ next.emitted = Append(run.emitted, m)
         /\ D = 1..(Len(run.emitted) + 1) /\ E = 1..Len(run.emitted) /\ Len(run.emitted) \in Nat
         /\ next.emitted[Len(run.emitted) + 1] = m
         /\ \A i \in E : next.emitted[i] = run.emitted[i]
  <2>1. \/ next.emitted = run.emitted
        \/ m \in shown /\ next.emitted = Append(run.emitted, m)
    OBVIOUS
  <2> HIDE DEF m, shown, certain, held, rest
  <2>2. CASE next.emitted = Append(run.emitted, m)
    <3> DEFINE old == run.emitted
               more == Append(old, m)
    <3>1. old \in Seq(Nat) /\ m \in Nat /\ next.emitted = more
      BY <1>1, <1>2, <2>2
    <3> HIDE DEF old
    <3>2. /\ DOMAIN more = 1..(Len(old) + 1) /\ DOMAIN old = 1..Len(old) /\ Len(old) \in Nat
          /\ more[Len(old) + 1] = m /\ \A i \in DOMAIN old : more[i] = old[i]
      BY <3>1
    <3> HIDE DEF more
    <3>3. /\ D = 1..(Len(old) + 1) /\ E = 1..Len(old) /\ Len(old) \in Nat
          /\ next.emitted[Len(old) + 1] = m /\ \A i \in E : next.emitted[i] = old[i]
      BY <3>1, <3>2 DEF old
    <3> QED BY <2>1, <2>2, <3>3 DEF old
  <2> QED BY <2>1, <2>2
<1> HIDE DEF m, rest, E, D, L, R, shown, held, certain
<1>5. \A i \in D : \/ i \in E /\ next.emitted[i] = run.emitted[i]
                   \/ /\ i = Len(run.emitted) + 1 /\ next.emitted[i] = m /\ m \in shown
                      /\ \A j \in E : j < i
                      /\ \A j \in D : j < i => j \in E
  BY <1>4 DEF D, E
<1>6. \A i \in D : next.emitted[i] \in shown
  BY <1>1, <1>5
<1>7. \A i, j \in D : i < j => next.emitted[i] < next.emitted[j]
  <2>1. ASSUME NEW i \in D, NEW j \in D, i < j PROVE next.emitted[i] < next.emitted[j]
    <3>1. i \in E /\ next.emitted[i] = run.emitted[i]
      BY <1>4, <2>1 DEF D, E
    <3>2. CASE j \in E /\ next.emitted[j] = run.emitted[j]
      BY <1>1, <2>1, <3>1, <3>2
    <3>3. CASE next.emitted[j] = m
      BY <1>2, <3>1, <3>3
    <3> QED BY <1>5, <3>2, <3>3
  <2> QED BY <2>1
<1>8. \A i \in D, j \in L : next.emitted[i] < next.left[j]
  BY <1>2, <1>3, <1>5
<1>9. \A i \in L : next.left[i] \in held
  BY <1>2, <1>3
<1>10. ASSUME next.budget.status = "Ok", next.verdict \in Silent, NEW c \in certain
       PROVE  (\E i \in D : next.emitted[i] = c) \/ \E i \in L : next.left[i] = c
  <2>1. /\ run.verdict \in Silent
        /\ \/ next.left = rest /\ (next.emitted = Append(run.emitted, m) \/ m \notin shown)
           \/ c < m
    BY <1>10 DEF m, rest, shown, certain
  <2>2. (\E i \in E : run.emitted[i] = c) \/ c = m \/ \E j \in R : rest[j] = c
    BY <1>1, <1>2, <2>1
  <2>3. CASE \E i \in E : run.emitted[i] = c
    <3>1. PICK i \in E : run.emitted[i] = c
      BY <2>3
    <3>2. i \in D /\ next.emitted[i] = c
      BY <1>4, <3>1 DEF D, E
    <3> QED BY <3>2
  <2>4. c \in shown /\ c \in Nat
    <3>1. shown \subseteq Nat
      BY ReadingIs, ShowingIs DEF shown
    <3> QED BY <1>1, <3>1
  <2>5. CASE ~(c < m) /\ c = m
    <3>1. next.emitted = Append(run.emitted, m)
      BY <2>1, <2>4, <2>5
    <3>2. Len(run.emitted) + 1 \in D /\ next.emitted[Len(run.emitted) + 1] = m
      BY <1>1, <1>2, <3>1 DEF D
    <3> QED BY <2>5, <3>2
  <2>6. CASE ~(c < m) /\ \E j \in R : rest[j] = c
    BY <2>1, <2>6 DEF L, R
  <2>7. CASE c < m
    <3>1. ~(\E j \in R : rest[j] = c) /\ c # m
      BY <1>2, <2>4, <2>7 DEF R
    <3> QED BY <2>2, <2>3, <3>1
  <2> QED BY <2>2, <2>3, <2>5, <2>6, <2>7
<1>11. \A i, j \in L : i < j => next.left[i] < next.left[j]
  BY <1>3
<1>12. /\ next.parser \in Listers /\ results = << >> /\ file.format[current.member] \in Containers
       /\ next.over => next.left = << >>
  BY <1>1
<1>13. next.budget.status = "Ok" /\ next.verdict \in Silent =>
         \A c \in certain : (\E i \in D : next.emitted[i] = c) \/ \E i \in L : next.left[i] = c
  BY <1>10
<1> USE DEF D, L, shown, held, certain
<1>14. Brood(next)
  BY <1>6, <1>7, <1>8, <1>9, <1>11, <1>12, <1>13, ZenonT(60) DEF Brood
<1> QED BY <1>14

LEMMA ReadMemberInv == ASSUME TreeInv, ReadMember PROVE TreeInv'
<1> DEFINE m == Head(run.left)
           format == file.format[current.member]
           size == file.size[m]
           body == Body(HeaderRead, format, size)
           whole == Payload(body, size)
           emitted == IF whole.status = "Ok" THEN Append(run.emitted, m) ELSE run.emitted
<1>1. Reading /\ run.left # << >> /\ place = "native" /\ run \in Runs /\ format \in Containers
      /\ run.verdict \in {Nobody, "unsupported", "malformed"}
      /\ Within(run.budget) /\ run.emitted \in Seq(Nat) /\ m \in Nat /\ size \in Nat
  <2>1. Reading /\ run.left # << >>
    BY DEF ReadMember
  <2> QED BY <2>1, ReadingIs, HeadIs
<1>2. PICK mark \in Marks(m), rest \in {Tail(run.left), Beyond(m)} :
        /\ m \in Showing(file, current.member)
        /\ rest = Tail(run.left) \/ mark = "malformed"
        /\ Native([run EXCEPT
             !.left = rest, !.budget = whole, !.verdict = Worse(@, mark),
             !.emitted = IF whole.status = "Ok" THEN Append(@, m) ELSE @])
  BY DEF ReadMember
<1>3. Within(whole) /\ whole.limits = run.budget.limits
  <2>1. Within(HeaderRead) /\ HeaderRead.limits = run.budget.limits
    BY <1>1, MemberFits DEF HeaderRead
  <2>2. Within(body) /\ body.limits = HeaderRead.limits
    BY <1>1, <2>1, MemberFits
  <2> HIDE DEF body
  <2>3. Within(whole) /\ whole.limits = body.limits
    BY <1>1, <2>2, MemberFits
  <2> HIDE DEF whole
  <2> QED BY <2>1, <2>2, <2>3
<1>4. mark \in {Nobody, "unsupported", "malformed"}
  BY DEF Marks
<1>5. Part(rest, Tail(run.left)) /\ rest \in Seq(Nat)
  <2>1. Part(Tail(run.left), Tail(run.left))
    BY <1>1, HeadIs
  <2>2. Part(Beyond(m), Tail(run.left))
    BY <1>1, BeyondIs
  <2>3. Part(rest, Tail(run.left))
    BY <1>2, <2>1, <2>2
  <2> QED BY <2>3 DEF Part
<1> DEFINE verdict == Worse(run.verdict, mark)
           next == [run EXCEPT !.left = rest, !.budget = whole, !.verdict = verdict,
                               !.emitted = emitted]
<1>6. verdict \in {Nobody, "unsupported", "malformed"}
      /\ (verdict \in Silent => run.verdict \in Silent /\ mark # "malformed")
  BY <1>1, <1>4, TreeAssumption DEF Worse, Silent
<1>7. Native(next)
  <2>1. next = [run EXCEPT !.left = rest, !.budget = whole, !.verdict = Worse(@, mark),
                           !.emitted = IF whole.status = "Ok" THEN Append(@, m) ELSE @]
    <3> HIDE DEF whole, m
    <3> QED BY <1>1 DEF Runs
  <2> QED BY <1>2, <2>1
<1>8. emitted \in Seq(Nat) /\ (whole.status = "Ok" => emitted = Append(run.emitted, m))
      /\ (emitted = run.emitted \/ emitted = Append(run.emitted, m))
  <2> HIDE DEF whole, m
  <2> QED BY <1>1
<1> HIDE DEF whole, verdict, emitted, m
<1>9. /\ next \in Runs /\ next.parser = run.parser /\ next.budget = whole /\ next.left = rest
      /\ next.emitted = emitted /\ next.verdict = verdict /\ next.over = run.over
  BY <1>1, <1>3, <1>5, <1>6, <1>8 DEF Runs, Within
<1> HIDE DEF next
<1>10. Brood(next)
  <2>1. ~run.over
    BY <1>1 DEF Reading
  <2> QED BY <1>1, <1>2, <1>5, <1>6, <1>8, <1>9, <2>1, BroodOn DEF m
<1> QED BY <1>3, <1>7, <1>9, <1>10, NativeInv

LEMMA LoseMemberInv == ASSUME TreeInv, LoseMember PROVE TreeInv'
<1> DEFINE m == Head(run.left)
           rest == Beyond(m)
           next == [run EXCEPT !.left = rest, !.budget = HeaderRead, !.verdict = "malformed"]
<1>1. Reading /\ run.left # << >> /\ Native(next)
  BY DEF LoseMember
<1>2. run \in Runs /\ Within(HeaderRead) /\ HeaderRead.limits = run.budget.limits /\ ~run.over
  BY <1>1, ReadingIs, MemberFits DEF HeaderRead
<1>3. Part(rest, Tail(run.left)) /\ rest \in Seq(Nat)
  BY <1>1, BeyondIs DEF Part
<1> HIDE DEF rest
<1>4. /\ next \in Runs /\ next.parser = run.parser /\ next.budget = HeaderRead
      /\ next.left = rest /\ next.emitted = run.emitted /\ next.verdict = "malformed"
      /\ next.over = run.over
  BY <1>2, <1>3 DEF Runs, Within
<1> HIDE DEF next
<1>5. "malformed" \notin Silent
  BY TreeAssumption DEF Silent
<1>6. Brood(next)
  BY <1>1, <1>2, <1>3, <1>4, <1>5, BroodOn
<1> QED BY <1>1, <1>2, <1>4, <1>6, NativeInv

LEMMA SkipSealedInv == ASSUME TreeInv, SkipSealed PROVE TreeInv'
<1> DEFINE m == Head(run.left)
           format == file.format[current.member]
<1>1. Reading /\ run.left # << >> /\ m \notin Showing(file, current.member)
  BY DEF SkipSealed
<1>2. PICK ended \in BOOLEAN :
        /\ format = "email" => ~ended
        /\ Native([run EXCEPT
             !.left = IF ended THEN << >> ELSE Tail(@), !.budget = HeaderRead,
             !.verdict = Worse(@, "unsupported"), !.over = ended])
  BY DEF SkipSealed
<1> DEFINE rest == IF ended THEN << >> ELSE Tail(run.left)
           verdict == Worse(run.verdict, "unsupported")
           next == [run EXCEPT !.left = rest, !.budget = HeaderRead, !.verdict = verdict,
                               !.over = ended]
<1>3. /\ run \in Runs /\ Within(HeaderRead) /\ HeaderRead.limits = run.budget.limits
      /\ file \in Forests /\ format \in Containers /\ Part(Tail(run.left), Tail(run.left))
      /\ run.verdict \in {Nobody, "unsupported", "malformed"}
      /\ m \in Held(file, current.member)
  BY <1>1, ReadingIs, MemberFits, HeadIs DEF HeaderRead
<1>4. Native(next)
  <2>1. next = [run EXCEPT !.left = IF ended THEN << >> ELSE Tail(@), !.budget = HeaderRead,
                           !.verdict = Worse(@, "unsupported"), !.over = ended]
    BY <1>3 DEF Runs
  <2> QED BY <1>2, <2>1
<1>5. Part(rest, Tail(run.left)) /\ rest \in Seq(Nat)
  <2>1. Part(<< >>, Tail(run.left))
    BY DEF Part
  <2> QED BY <1>3, <2>1 DEF Part
<1>6. verdict \in {Nobody, "unsupported", "malformed"}
      /\ (verdict \in Silent => run.verdict \in Silent)
  BY <1>3, TreeAssumption DEF Worse, Silent
<1>7. ended => \A c \in Certain(file, current.member) : c < m
  <2> SUFFICES ASSUME ended PROVE \A c \in Certain(file, current.member) : c < m
    OBVIOUS
  <2>1. format # "email" /\ format # "ole"
    BY <1>1, <1>2, <1>3, ShowingIs
  <2>2. format \in Archives \cup {"pdf"}
    BY <1>3, <2>1 DEF Containers
  <2> QED BY <1>1, <1>3, <2>2, ShowingIs
<1>8. (ended => rest = << >>) /\ (~ended => rest = Tail(run.left))
  OBVIOUS
<1> HIDE DEF rest, verdict
<1>9. /\ next \in Runs /\ next.parser = run.parser /\ next.budget = HeaderRead
      /\ next.left = rest /\ next.emitted = run.emitted /\ next.verdict = verdict
      /\ next.over = ended
  BY <1>3, <1>5, <1>6 DEF Runs, Within
<1> HIDE DEF next
<1>10. Brood(next)
  BY <1>1, <1>5, <1>6, <1>7, <1>8, <1>9, BroodOn
<1> QED BY <1>3, <1>4, <1>9, <1>10, NativeInv

LEMMA EndListingInv == ASSUME TreeInv, EndListing PROVE TreeInv'
<1> DEFINE n == Rounds[file.format[current.member]].after
           budget == Enter(run.budget, n)
           next == [run EXCEPT !.budget = budget, !.over = TRUE]
<1>1. Reading /\ run.left = << >>
  BY DEF EndListing
<1>2. run \in Runs /\ Within(run.budget) /\ Brood(run) /\ n \in Nat /\ run.budget.status = "Ok"
      /\ run.parser \in Listers
  BY <1>1, ReadingIs, RoundsAre
<1>3. Native(next)
  <2>1. next = [run EXCEPT !.budget = Enter(@, n), !.over = TRUE]
    BY <1>2 DEF Runs
  <2> QED BY <2>1 DEF EndListing
<1> HIDE DEF n
<1>4. Within(budget) /\ budget.limits = run.budget.limits
  BY <1>2, EnterFits
<1> HIDE DEF budget
<1>5. /\ next \in Runs /\ next.parser = run.parser /\ next.budget = budget
      /\ next.left = run.left /\ next.emitted = run.emitted /\ next.verdict = run.verdict
      /\ next.over = TRUE
  BY <1>2, <1>4 DEF Runs, Within
<1> HIDE DEF next
<1>6. Brood(next)
  BY <1>1, <1>2, <1>5 DEF Brood
<1> QED BY <1>3, <1>4, <1>5, <1>6, NativeInv

-----------------------------------------------------------------------------
(* A node is finished.                                                      *)

LEMMA FinishNodeInv == ASSUME TreeInv, FinishNode PROVE TreeInv'
<1> DEFINE n == Len(nodes)
           node == [member |-> current.member, parent |-> current.parent,
                    depth |-> current.depth, results |-> results]
<1>1. /\ place = "parser" /\ todo = << >> /\ nodes' = Append(nodes, node)
      /\ place' = IF stop \in Limits \ {"member", "entries"} THEN "done" ELSE "pop"
      /\ current' = Nobody /\ results' = << >>
      /\ UNCHANGED <<file, policy, source, late, pendingWork, todo, run, usage, queued, stop>>
  BY DEF FinishNode
<1>2. /\ TreeShape /\ TreeRoom /\ TreeParsers /\ TreeWhole /\ file \in Forests
      /\ nodes \in Seq(Extracted) /\ n \in Nat /\ current \in Works /\ results \in Seq(Outcomes)
      /\ Busy /\ ~Busy' /\ place' \in {"pop", "done"} /\ Len(results) \in Nat
  BY <1>1, TreeFacts DEF TreeInv, Busy, TreeShape
<1>3. node \in Extracted
  BY <1>2 DEF Extracted, Works
<1> HIDE DEF node
<1>4. /\ nodes' \in Seq(Extracted) /\ Len(nodes') = n + 1 /\ DOMAIN nodes' = 1..(n + 1)
      /\ DOMAIN nodes = 1..n /\ nodes'[n + 1] = node
      /\ \A i \in 1..n : nodes'[i] = nodes[i]
  BY <1>1, <1>2, <1>3
<1>5. Popped' = Popped /\ Popped = n + 1
  BY <1>2, <1>4 DEF Popped
<1>6. /\ node.member = current.member /\ node.parent = current.parent
      /\ node.depth = current.depth /\ node.results = results
  BY DEF node
<1>7. SameLine
  <2>1. ASSUME NEW i \in 1..Popped
        PROVE  /\ Node(i).member' = Node(i).member /\ Node(i).parent' = Node(i).parent
               /\ Node(i).depth' = Node(i).depth
    <3>1. CASE i \in 1..n
      BY <1>2, <1>4, <3>1 DEF Node
    <3>2. CASE i = n + 1
      BY <1>2, <1>4, <1>6, <3>2 DEF Node
    <3> QED BY <1>2, <1>5, <3>1, <3>2
  <2> QED BY <1>1, <1>5, <2>1 DEF SameLine
<1>8. TreeShape'
  <2>1. run = NoRun
    BY <1>1, <1>2 DEF TreeShape
  <2> QED BY <1>1, <1>2, <1>4, <2>1 DEF TreeShape, TreeTypeOK
<1>9. TreeRoom'
  <2>1. RootExpansion' = RootExpansion
    BY <1>1, AvailableKept
  <2> QED BY <1>1, <1>2, <1>5, <2>1 DEF TreeRoom
<1>10. TreeBorn' /\ TreeOnce'
  BY <1>7, LineKept DEF TreeInv
<1>11. TreeFresh' /\ TreeParsers' /\ TreeBrood'
  BY <1>2 DEF TreeFresh, TreeParsers, TreeBrood
<1>12. TreeWhole'
  <2> SUFFICES ASSUME stop = Nobody PROVE TreeWhole'
    BY <1>1 DEF TreeWhole
  <2>1. stop \notin Limits
    BY TreeAssumption
  <2>2. place' = "pop"
    BY <1>1, <2>1
  <2>3. \A m : Parsers(file, m)' = Parsers(file, m)
    BY <1>1, SameFile
  <2>4. \A i \in 1..(n + 1) : Served(i) => Served(i)'
    BY <1>5, <1>7, ServedKept
  <2>5. current.member \in Members(file) /\ Node(n + 1) = current
    <3>1. n + 1 \in 1..Popped /\ ~(n + 1 <= Len(nodes))
      BY <1>2, <1>5
    <3>2. Born(Node(n + 1), n + 1 - 1)
      BY <3>1 DEF TreeInv, TreeBorn
    <3> QED BY <3>1, <3>2 DEF Born, Node
  <2>6. Len(results) = Len(Parsers(file, current.member))
    <3>1. Rest(Len(results)) /\ Len(todo) = 0
      BY <1>1, <1>2, <2>1 DEF TreeParsers
    <3> QED BY <1>2, <3>1 DEF Rest
  <2>7. Trusty(results) => Served(n + 1)
    <3>1. CASE results # << >>
      BY <1>2, <3>1 DEF TreeWhole
    <3>2. CASE results = << >>
      <4>1. Certain(file, current.member) = {}
        BY <1>2, <2>5, <2>6, <3>2, ParsersAre
      <4> QED BY <2>5, <4>1 DEF Served
    <3> QED BY <3>1, <3>2
  <2>8. ASSUME NEW i \in 1..(n + 1)
        PROVE  /\ Len(nodes'[i].results) = Len(Parsers(file, nodes'[i].member))
               /\ Trusty(nodes'[i].results) => Served(i)
    <3>1. CASE i \in 1..n
      BY <1>2, <1>4, <3>1 DEF TreeWhole
    <3>2. CASE i = n + 1
      BY <1>4, <1>6, <2>6, <2>7, <3>2
    <3> QED BY <1>2, <3>1, <3>2
  <2> QED BY <1>1, <1>2, <1>4, <2>2, <2>3, <2>4, <2>8 DEF TreeWhole, Trusty
<1> QED BY <1>8, <1>9, <1>10, <1>11, <1>12 DEF TreeInv

-----------------------------------------------------------------------------
(* The result of a parser is taken over.                                    *)

LEMMA RenamedIs ==
  ASSUME NEW code
  PROVE  /\ code \in Limits => Renamed(code) \in Limits
         /\ code \notin Limits => Renamed(code) = code
<1>1. {"decoded", "member", "expansion"} \subseteq Limits
  BY DEF Limits, Resources
<1>2. Renamed(code) \in {code, "expansion", "decoded"}
      /\ (Renamed(code) # code => code \in {"decoded", "member"})
  BY DEF Renamed
<1> QED BY <1>1, <1>2

LEMMA ErrorIs ==
  ASSUME TreeShape, place = "native", NEW verdict \in Verdicts
  PROVE  LET error == Renamed(Code(Checkpoint(run.budget), verdict)) IN
         /\ error \in Errors
         /\ error \in Limits \/ (run.budget.status = "Ok" /\ error = verdict)
         /\ verdict \in Silent => run.verdict \in Silent
<1> DEFINE b == Checkpoint(run.budget)
           code == Code(b, verdict)
<1>1. run.budget.status \in Limits \cup {"Ok"} /\ "deadline" \in Limits
  BY DEF TreeShape, Runs, Budgets, Limits
<1>2. \/ b = run.budget
      \/ b = Stopped(run.budget, "deadline") /\ run.budget.status = "Ok"
  BY DEF Checkpoint
<1>3. b.status \in Limits \/ (b.status = "Ok" /\ run.budget.status = "Ok")
  <2>1. run.budget \in Budgets
    BY DEF TreeShape, Runs
  <2>2. Stopped(run.budget, "deadline").status = "deadline"
    BY <2>1 DEF Stopped, Budgets
  <2> HIDE DEF b
  <2> QED BY <1>1, <1>2, <2>2
<1>4. verdict \in {Nobody, "unsupported", "malformed"} /\ (verdict \in Silent => run.verdict \in Silent)
  <2>1. run.verdict \in {Nobody, "unsupported", "malformed"} /\ "malformed" \notin Silent
    BY TreeAssumption DEF TreeShape, Runs, Silent
  <2> QED BY <2>1 DEF Verdicts, Worse, Silent
<1>5. "Ok" \notin Limits /\ "unsupported" \notin Limits /\ "malformed" \notin Limits
      /\ Nobody \notin Limits
  BY TreeAssumption DEF Limits, Resources
<1> HIDE DEF b
<1>6. code \in Limits \/ (code = verdict /\ run.budget.status = "Ok")
  BY <1>3, <1>5 DEF Code
<1> HIDE DEF code
<1>7. CASE code \in Limits
  <2>1. Renamed(code) \in Limits
    BY <1>7, RenamedIs
  <2> QED BY <1>4, <2>1 DEF Errors, code, b
<1>8. CASE code \notin Limits
  <2>1. Renamed(code) = code
    BY <1>8, RenamedIs
  <2> QED BY <1>4, <1>6, <1>8, <2>1 DEF Errors, code, b
<1> QED BY <1>4, <1>7, <1>8

(* What a parser yields was neither popped nor pending before. *)
LEMMA EmittedAre ==
  ASSUME TreeInv, place = "native", run.emitted # << >>
  PROVE  /\ \A i \in 1..Popped : Node(i).parent # Popped
         /\ \A k \in DOMAIN pendingWork : pendingWork[k].parent # Popped
         /\ \A j \in DOMAIN run.emitted : /\ run.emitted[j] \in Showing(file, current.member)
                                         /\ run.emitted[j] \in Members(file)
<1>1. /\ TreeShape /\ TreeBorn /\ TreeFresh /\ Brood(run) /\ file \in Forests /\ Busy
      /\ Popped = Len(nodes) + 1 /\ Popped \in Nat /\ Len(nodes) \in Nat
  <2>1. TreeShape /\ Busy
    BY DEF TreeInv, Busy
  <2>2. Popped = Len(nodes) + 1 /\ Popped \in Nat /\ Len(nodes) \in Nat /\ file \in Forests
    BY <2>1, TreeFacts
  <2> QED BY <2>1, <2>2 DEF TreeInv, TreeBrood
<1>2. results = << >>
  BY <1>1 DEF Brood
<1>3. ASSUME NEW i \in 1..Popped PROVE Node(i).parent # Popped
  <2>1. Born(Node(i), i - 1) /\ Popped \notin 1..(i - 1) /\ Popped # 0
    BY <1>1 DEF TreeBorn
  <2> QED BY <2>1 DEF Born
<1>4. \A k \in DOMAIN pendingWork : pendingWork[k].parent # Popped
  BY <1>1, <1>2 DEF TreeFresh
<1> QED BY <1>1, <1>3, <1>4, ShowingIs DEF Brood

LEMMA CollectInv ==
  ASSUME TreeInv, place = "native", NEW verdict \in Verdicts, Collect(verdict)
  PROVE  TreeInv'
<1> DEFINE error == Renamed(Code(Checkpoint(run.budget), verdict))
           used == [r \in Resources |-> usage[r] + run.budget.used[r]]
           first == [alloc |-> used["alloc"], queued |-> queued, pending |-> pendingWork,
                     stop |-> IF error \in Limits THEN error ELSE stop]
           next == Enqueued(first, run.emitted)
           old == Len(pendingWork)
           N == Len(run.emitted)
<1>1. /\ run.over \/ run.budget.status # "Ok" \/ verdict = "malformed"
      /\ usage' = [used EXCEPT !["alloc"] = next.alloc]
      /\ queued' = next.queued /\ pendingWork' = next.pending /\ stop' = next.stop
      /\ results' = Append(results, [parser |-> run.parser, error |-> error])
      /\ todo' = IF next.stop \in Limits THEN << >> ELSE todo
      /\ place' = "parser" /\ run' = NoRun
      /\ UNCHANGED <<file, policy, source, late, current, nodes>>
  BY DEF Collect
<1>2. /\ TreeShape /\ TreeRoom /\ TreeBorn /\ TreeOnce /\ TreeParsers /\ Brood(run)
      /\ TreeWhole /\ Busy /\ Busy' /\ run \in Runs /\ current \in Works /\ file \in Forests
  BY <1>1, TreeFacts DEF TreeInv, TreeShape, Busy, TreeBrood
<1>3. /\ error \in Errors
      /\ error \in Limits \/ (run.budget.status = "Ok" /\ error = verdict)
      /\ verdict \in Silent => run.verdict \in Silent
  BY <1>2, ErrorIs
<1> HIDE DEF error
<1>4. /\ used \in [Resources -> Nat] /\ \A r \in Resources : used[r] <= policy.limits[r]
      /\ used["decoded"] <= RootExpansion /\ "alloc" \in Resources /\ "decoded" \in Resources
  <2>1. "alloc" \in Resources /\ "decoded" \in Resources
    BY DEF Resources
  <2>2. ASSUME NEW r \in Resources
        PROVE  /\ usage[r] + run.budget.used[r] \in Nat
               /\ usage[r] + run.budget.used[r] <= policy.limits[r]
               /\ (r = "decoded" => usage[r] + run.budget.used[r] <= RootExpansion)
    <3> DEFINE a == usage[r]
               b == run.budget.used[r]
               c == Available[r]
    <3>1. a \in Nat /\ b \in Nat /\ c \in Nat /\ b <= c /\ policy.limits[r] \in Nat
          /\ RootExpansion \in Nat
      BY <1>2, AvailableIs, TreeFacts DEF TreeRoom, Runs, Budgets
    <3>2. a + c <= policy.limits[r] /\ (r = "decoded" => a + c <= RootExpansion)
      BY <1>2, AvailableIs
    <3> HIDE DEF a, b, c
    <3>3. a + b \in Nat /\ a + b <= policy.limits[r] /\ (r = "decoded" => a + b <= RootExpansion)
      BY <3>1, <3>2
    <3> QED BY <3>3 DEF a, b
  <2> QED BY <2>1, <2>2
<1> HIDE DEF used
<1>5. /\ first \in Queues /\ first.pending = pendingWork /\ first.queued <= policy.total
      /\ first.alloc <= policy.limits["alloc"]
      /\ (first.stop = Nobody => stop = Nobody /\ error \notin Limits)
  <2>1. Nobody \notin Limits
    BY TreeAssumption
  <2> QED BY <1>2, <1>3, <1>4, <2>1, TreeFacts DEF Queues, TreeShape, TreeTypeOK, TreeRoom
<1> HIDE DEF first
<1>6. Grown(next, first, N)
  <2>1. TreeBrood
    BY DEF TreeInv
  <2> QED BY <1>2, <1>5, <2>1, QueueGrows
<1> HIDE DEF next
<1>7. /\ next \in Queues /\ next.pending \in Seq(Works) /\ DOMAIN next.pending = 1..Len(next.pending)
      /\ old \in Nat /\ Len(next.pending) \in Nat /\ old <= Len(next.pending)
      /\ DOMAIN pendingWork = 1..old /\ DOMAIN pendingWork \subseteq DOMAIN next.pending
      /\ next.stop \in Limits \cup {"depth", Nobody} /\ next.alloc \in Nat /\ next.queued \in Nat
  <2>1. old \in Nat /\ DOMAIN pendingWork = 1..old
    BY <1>2, TreeFacts
  <2>2. next \in Queues /\ old <= Len(next.pending)
    BY <1>6, <2>1 DEF Grown, Queues
  <2> HIDE DEF old
  <2> QED BY <2>1, <2>2 DEF Queues
<1>8. /\ DOMAIN run.emitted = 1..N /\ N \in Nat
      /\ \A k \in DOMAIN pendingWork : next.pending[k] = pendingWork[k]
      /\ \A k \in DOMAIN next.pending : k \in DOMAIN pendingWork \/ k > old
  <2>1. DOMAIN run.emitted = 1..N /\ N \in Nat
    BY <1>2 DEF Runs
  <2> HIDE DEF old, N
  <2> QED BY <1>6, <1>7, <2>1 DEF Grown
<1>9. /\ Popped' = Popped /\ Popped = Len(nodes) + 1 /\ Popped \in Nat /\ Len(nodes) \in Nat
      /\ Popped \in 1..Popped /\ Node(Popped) = current
      /\ \A i \in 1..Popped : Node(i)' = Node(i)
  <2>1. Popped' = Popped /\ Popped = Len(nodes) + 1 /\ Popped \in Nat /\ Len(nodes) \in Nat
    BY <1>1, <1>2, TreeFacts DEF Popped
  <2> QED BY <1>1, <2>1 DEF Node
<1>10. /\ Len(results) \in Nat /\ Len(results') = Len(results) + 1 /\ results' \in Seq(Outcomes)
       /\ results' # << >> /\ results \in Seq(Outcomes)
       /\ \A k \in DOMAIN results : k \in DOMAIN results' /\ results'[k] = results[k]
       /\ Len(results) + 1 \in DOMAIN results' /\ results'[Len(results) + 1].error = error
  <2> DEFINE outcome == [parser |-> run.parser, error |-> error]
  <2>1. outcome \in Outcomes /\ outcome.error = error
    BY <1>2, <1>3 DEF Outcomes, Runs
  <2> HIDE DEF outcome
  <2>2. results \in Seq(Outcomes)
    BY <1>2 DEF TreeShape
  <2> QED BY <1>1, <2>1, <2>2 DEF outcome
<1>11. TreeShape'
  <2>1. todo' \in Seq(ParserNames)
    BY <1>1, <1>2, TreeFacts
  <2>2. usage' \in [Resources -> Nat]
    BY <1>1, <1>4, <1>7
  <2> QED BY <1>1, <1>2, <1>7, <1>10, <2>1, <2>2 DEF TreeShape, TreeTypeOK
<1>12. TreeRoom'
  <2>1. RootExpansion' = RootExpansion
    BY <1>1 DEF RootExpansion
  <2>2. /\ \A r \in Resources : usage'[r] <= policy.limits[r]
        /\ usage'["decoded"] = used["decoded"]
    BY <1>1, <1>4, <1>6, <1>7 DEF Grown
  <2>3. queued' <= policy.total
    BY <1>1, <1>6 DEF Grown
  <2>4. Popped + Len(next.pending) <= policy.nodes
    <3>1. Popped + old <= policy.nodes /\ policy.nodes \in Nat
      BY <1>2, TreeFacts DEF TreeRoom
    <3>2. Len(next.pending) = old \/ Len(next.pending) + Len(nodes) + 1 <= policy.nodes
      BY <1>6 DEF Grown
    <3> DEFINE n == Len(nodes)
               p == Len(next.pending)
    <3>3. n \in Nat /\ p \in Nat /\ Popped = n + 1
      BY <1>7, <1>9
    <3> HIDE DEF old, n, p
    <3>4. p = old \/ p + n + 1 <= policy.nodes
      BY <3>2 DEF n, p
    <3>5. Popped + p <= policy.nodes
      BY <1>7, <3>1, <3>3, <3>4
    <3> QED BY <3>5 DEF p
  <2> QED BY <1>1, <1>4, <1>9, <2>1, <2>2, <2>3, <2>4 DEF TreeRoom
(* A member that was queued just now. *)
<1>13. ASSUME NEW k \in DOMAIN next.pending, k > old
       PROVE  LET w == next.pending[k] IN
              /\ w.parent = Popped /\ w.depth = current.depth + 1 /\ w.depth <= policy.depth
              /\ w.member \in Showing(file, current.member) /\ w.member \in Members(file)
              /\ \A i \in 1..Popped : ~Same(Node(i), w)
              /\ \A l \in DOMAIN pendingWork : ~Same(pendingWork[l], w) /\ ~Same(w, pendingWork[l])
  <2> DEFINE w == next.pending[k]
  <2>1. /\ w.parent = Popped /\ w.depth = current.depth + 1 /\ w.depth <= policy.depth
        /\ \E j \in 1..N : w.member = run.emitted[j]
    BY <1>6, <1>9, <1>13 DEF Grown
  <2> HIDE DEF w
  <2>2. PICK j \in DOMAIN run.emitted : w.member = run.emitted[j]
    BY <1>8, <2>1
  <2>3. /\ \A i \in 1..Popped : Node(i).parent # Popped
        /\ \A l \in DOMAIN pendingWork : pendingWork[l].parent # Popped
        /\ run.emitted[j] \in Showing(file, current.member) /\ run.emitted[j] \in Members(file)
    <3>1. run.emitted # << >>
      BY <2>2
    <3> QED BY <3>1, EmittedAre
  <2> QED BY <2>1, <2>2, <2>3 DEF w, Same
<1> HIDE DEF old, N
<1>14. TreeBorn'
  <2>1. ASSUME NEW w, NEW k \in 0..Popped, Born(w, k)
        PROVE  Born(w, k)'
    <3>1. w.parent \in 1..k => w.parent \in 1..Popped
      BY <1>9
    <3>2. w.parent \in 1..k => Node(w.parent)' = Node(w.parent)
      BY <1>9, <3>1
    <3> QED BY <1>1, <2>1, <3>2, SameFile DEF Born
  <2>2. ASSUME NEW i \in 1..Popped PROVE Born(Node(i), i - 1)'
    <3>1. Born(Node(i), i - 1) /\ i - 1 \in 0..Popped /\ Node(i)' = Node(i)
      BY <1>2, <1>9 DEF TreeBorn
    <3> QED BY <2>1, <3>1
  <2>3. ASSUME NEW k \in DOMAIN next.pending PROVE Born(pendingWork[k], Popped)'
    <3>1. CASE k \in DOMAIN pendingWork
      <4>1. Born(pendingWork[k], Popped) /\ pendingWork'[k] = pendingWork[k] /\ Popped \in 0..Popped
        BY <1>1, <1>2, <1>8, <1>9, <3>1 DEF TreeBorn
      <4> QED BY <1>9, <2>1, <4>1
    <3>2. CASE k > old
      <4>1. ASSUME NEW w, w.parent = Popped, w.depth = current.depth + 1,
                   w.depth <= policy.depth, w.member \in Members(file),
                   w.member \in Showing(file, current.member)
            PROVE  Born(w, Popped)'
        <5>1. Node(w.parent)' = current /\ Popped # 0
          BY <1>9, <4>1
        <5> QED BY <1>1, <1>9, <4>1, <5>1, SameFile DEF Born
      <4>2. pendingWork'[k] = next.pending[k]
        BY <1>1
      <4>3. LET w == next.pending[k] IN
            /\ w.parent = Popped /\ w.depth = current.depth + 1 /\ w.depth <= policy.depth
            /\ w.member \in Members(file) /\ w.member \in Showing(file, current.member)
        BY <1>13, <3>2
      <4> QED BY <1>9, <4>1, <4>2, <4>3
    <3> QED BY <1>8, <3>1, <3>2
  <2> QED BY <1>1, <1>9, <2>2, <2>3 DEF TreeBorn
<1>15. TreeOnce'
  <2>1. ASSUME NEW k \in DOMAIN next.pending, NEW l \in DOMAIN next.pending,
               Same(next.pending[k], next.pending[l])
        PROVE  k = l
    <3>1. CASE k \in DOMAIN pendingWork /\ l \in DOMAIN pendingWork
      BY <1>2, <1>8, <2>1, <3>1 DEF TreeOnce
    <3>2. CASE k \in DOMAIN pendingWork /\ l > old
      BY <1>8, <1>13, <2>1, <3>2
    <3>3. CASE l \in DOMAIN pendingWork /\ k > old
      BY <1>8, <1>13, <2>1, <3>3
    <3>4. CASE k > old /\ l > old
      <4>1. \A i, j \in DOMAIN next.pending :
              old < i /\ i < j => next.pending[i].member < next.pending[j].member
        BY <1>6 DEF Grown, old
      <4>2. \A i \in DOMAIN next.pending : next.pending[i].member \in Nat
        <5>1. \A i \in DOMAIN next.pending : next.pending[i] \in Works
          BY <1>7
        <5> QED BY <5>1 DEF Works
      <4>3. k \in Nat /\ l \in Nat /\ old \in Nat
        BY <1>7
      <4>4. ~(k < l) /\ ~(l < k)
        BY <2>1, <3>4, <4>1, <4>2, <4>3 DEF Same
      <4> QED BY <4>3, <4>4
    <3> QED BY <1>8, <3>1, <3>2, <3>3, <3>4
  <2>2. ASSUME NEW i \in 1..Popped, NEW k \in DOMAIN next.pending
        PROVE  ~Same(Node(i), next.pending[k])
    <3>1. CASE k \in DOMAIN pendingWork
      BY <1>2, <1>8, <3>1 DEF TreeOnce
    <3>2. CASE k > old
      BY <1>13, <3>2
    <3> QED BY <1>8, <3>1, <3>2
  <2>3. \A i, j \in 1..Popped : Same(Node(i), Node(j)) => i = j
    BY <1>2 DEF TreeOnce
  <2> QED BY <1>1, <1>9, <2>1, <2>2, <2>3 DEF TreeOnce, Same
<1>16. TreeFresh' /\ TreeBrood'
  BY <1>1, <1>10 DEF TreeFresh, TreeBrood
<1>18. TreeParsers'
  <2>1. Rest(Len(results) + 1) /\ \A x : Parsers(file, x)' = Parsers(file, x)
    BY <1>1, <1>2, SameFile DEF TreeParsers
  <2>2. CASE next.stop \in Limits
    BY <1>1, <2>2 DEF TreeParsers
  <2>3. CASE next.stop \notin Limits
    <3>1. todo' = todo /\ current' = current
      BY <1>1, <2>3
    <3>2. Rest(Len(results))'
      BY <1>10, <2>1, <3>1 DEF Rest
    <3> QED BY <1>1, <3>2 DEF TreeParsers
  <2> QED BY <2>2, <2>3
<1>19. TreeWhole'
  <2> SUFFICES ASSUME next.stop = Nobody PROVE TreeWhole'
    BY <1>1 DEF TreeWhole
  <2>1. /\ stop = Nobody /\ error \notin Limits
        /\ \A j \in 1..N : \E i \in DOMAIN next.pending :
             next.pending[i].member = run.emitted[j] /\ next.pending[i].parent = Len(nodes) + 1
    BY <1>5, <1>6 DEF Grown, N
  <2>2. ASSUME NEW h \in 1..Popped, Served(h) PROVE Served(h)'
    <3>1. ASSUME NEW c \in Certain(file, Node(h).member)
          PROVE  \/ \E i \in 1..Popped : Node(i)'.parent = h /\ Node(i)'.member = c
                 \/ \E k \in DOMAIN next.pending : next.pending[k].parent = h /\ next.pending[k].member = c
      BY <1>7, <1>8, <1>9, <2>2, <3>1 DEF Served
    <3>2. Certain(file, Node(h).member)' = Certain(file, Node(h).member)
      BY <1>1, <1>9, SameFile
    <3> QED BY <1>1, <1>9, <3>1, <3>2 DEF Served
  <2>3. ASSUME Trusty(results') PROVE Served(Popped)'
    <3>1. CASE results # << >>
      <4>1. Trusty(results)
        BY <1>10, <2>3 DEF Trusty
      <4>2. Served(Popped)
        BY <1>2, <1>9, <2>1, <3>1, <4>1 DEF TreeWhole
      <4> QED BY <1>9, <2>2, <4>2
    <3>2. CASE results = << >>
      <4>1. error \in Silent
        BY <1>10, <2>3 DEF Trusty
      <4>2. run.budget.status = "Ok" /\ run.over /\ run.left = << >> /\ run.verdict \in Silent
        <5>1. "malformed" \notin Silent
          BY TreeAssumption DEF Silent
        <5>2. run.budget.status = "Ok" /\ error = verdict
          BY <1>3, <2>1
        <5>3. run.over
          BY <1>1, <4>1, <5>1, <5>2
        <5> QED BY <1>2, <1>3, <4>1, <5>2, <5>3 DEF Brood
      <4>3. ASSUME NEW c \in Certain(file, current.member)
            PROVE  \E k \in DOMAIN next.pending :
                     next.pending[k].parent = Popped /\ next.pending[k].member = c
        <5>1. current.member \in Members(file)
          <6>1. Born(Node(Popped), Popped - 1)
            BY <1>2, <1>9 DEF TreeBorn
          <6> QED BY <1>9, <6>1 DEF Born
        <5>2. run.parser \in Listers
          <6> DEFINE order == Parsers(file, current.member)
          <6>1. run.parser = order[1]
            BY <1>2, <3>2 DEF TreeParsers
          <6>2. order[1] \in Listers
            BY <1>2, <4>3, <5>1, ParsersAre
          <6> QED BY <6>1, <6>2
        <5>3. DOMAIN run.left = {}
          BY <4>2
        <5>4. PICK i \in DOMAIN run.emitted : run.emitted[i] = c
          BY <1>2, <4>2, <4>3, <5>2, <5>3 DEF Brood
        <5>5. PICK k \in DOMAIN next.pending : /\ next.pending[k].member = c
                                               /\ next.pending[k].parent = Popped
          BY <1>8, <1>9, <2>1, <5>4
        <5> QED BY <5>5
      <4>4. Certain(file, Node(Popped).member)' = Certain(file, current.member)
        BY <1>1, <1>9, SameFile
      <4> QED BY <1>1, <1>9, <4>3, <4>4 DEF Served
    <3> QED BY <3>1, <3>2
  <2>4. \A x : Parsers(file, x)' = Parsers(file, x)
    BY <1>1, SameFile
  <2>5. Len(nodes) + 1 \in 1..Popped /\ \A i \in DOMAIN nodes : i \in 1..Popped
    BY <1>2, <1>9, TreeFacts
  <2> QED BY <1>1, <1>2, <1>9, <2>1, <2>2, <2>3, <2>4, <2>5 DEF TreeWhole
<1> QED BY <1>11, <1>12, <1>14, <1>15, <1>16, <1>18, <1>19 DEF TreeInv

-----------------------------------------------------------------------------
(* The extraction begins, and every step keeps the invariant.               *)

LEMMA TreeStart == ASSUME TreeInit PROVE TreeInv
<1> DEFINE root == [member |-> 1, parent |-> 0, depth |-> 0]
<1>1. /\ file \in Forests /\ policy \in RecursiveLimits /\ source \in {"file", "bytes"}
      /\ source = "bytes" => file.size[1] <= Least(policy.member, policy.total)
      /\ late = FALSE /\ place = "pop" /\ pendingWork = <<root>>
      /\ current = Nobody /\ todo = << >> /\ run = NoRun /\ results = << >>
      /\ usage = Zero /\ stop = Nobody /\ nodes = << >>
      /\ queued = IF source = "bytes" THEN file.size[1] ELSE 0
  BY DEF TreeInit
<1>2. /\ policy.depth \in Nat /\ policy.nodes \in Nat \ {0} /\ policy.member \in Nat
      /\ policy.total \in Nat /\ policy.ratio \in Nat /\ policy.limits \in [Resources -> Nat]
  BY <1>1, TreeAssumption
<1>3. /\ 1 \in Members(file) /\ file.size[1] \in Nat /\ "decoded" \in Resources
  BY <1>1, Forest DEF Resources
<1>4. /\ root \in Works /\ pendingWork \in Seq(Works) /\ Len(pendingWork) = 1
      /\ DOMAIN pendingWork = {1} /\ pendingWork[1] = root
      /\ root.member = 1 /\ root.parent = 0 /\ root.depth = 0
  <2>1. root \in Works /\ root.member = 1 /\ root.parent = 0 /\ root.depth = 0
    BY DEF Works
  <2> HIDE DEF root
  <2>2. <<root>> \in Seq(Works) /\ Len(<<root>>) = 1 /\ DOMAIN <<root>> = {1} /\ <<root>>[1] = root
    BY <2>1
  <2> QED BY <1>1, <2>1, <2>2
<1> HIDE DEF root
<1>5. ~Busy /\ Popped = 0 /\ 1..Popped = {} /\ DOMAIN nodes = {} /\ Len(nodes) = 0
  BY <1>1 DEF Busy, Popped
<1>6. Zero \in [Resources -> Nat] /\ \A r \in Resources : Zero[r] = 0
  BY DEF Zero
<1>7. queued \in Nat /\ queued <= policy.total
  BY <1>1, <1>2, <1>3 DEF Least
<1>8. TreeShape
  <2>1. TreeTypeOK
    <3>1. late \in BOOLEAN
      BY <1>1
    <3>2. usage \in [Resources -> Nat]
      BY <1>1, <1>6
    <3> QED BY <1>1, <1>7, <3>1, <3>2 DEF TreeTypeOK
  <2>2. nodes \in Seq(Extracted) /\ results \in Seq(Outcomes) /\ todo \in Seq(ParserNames)
    BY <1>1
  <2>3. place # "native"
    BY <1>1
  <2> QED BY <1>1, <1>4, <1>5, <2>1, <2>2, <2>3 DEF TreeShape
<1>9. TreeRoom
  <2>1. RootExpansion \in Nat
    BY <1>8, RootExpansionIs
  <2> QED BY <1>1, <1>2, <1>3, <1>4, <1>5, <1>6, <1>7, <2>1 DEF TreeRoom
<1>10. TreeBorn /\ TreeOnce
  <2>1. Born(root, 0)
    BY <1>2, <1>3, <1>4 DEF Born
  <2> QED BY <1>4, <1>5, <2>1 DEF TreeBorn, TreeOnce
<1>12. TreeFresh /\ TreeParsers /\ TreeBrood
  BY <1>1, <1>5 DEF TreeFresh, TreeParsers, TreeBrood
<1>13. TreeWhole
  BY <1>1, <1>5 DEF TreeWhole
<1> QED BY <1>8, <1>9, <1>10, <1>12, <1>13 DEF TreeInv

LEMMA TreeStep == ASSUME TreeInv, [TreeNext]_treeVars PROVE TreeInv'
<1>1. CASE TreeNext
  <2>1. CASE place = "native" /\ \E verdict \in Verdicts : Collect(verdict)
    BY <2>1, CollectInv
  <2> QED BY <1>1, <2>1, DeadlineInv, InterruptedInv, PopInv, StartParserInv, ReadMemberInv,
             LoseMemberInv, SkipSealedInv, EndListingInv, FinishNodeInv DEF TreeNext
<1>2. CASE UNCHANGED treeVars
  <2>1. /\ UNCHANGED <<file, policy, source, late, place, pendingWork, current, todo, run, results,
                       usage, queued, stop, nodes>>
        /\ Busy' = Busy
    BY <1>2 DEF treeVars, Busy
  <2>2. SameLine /\ Popped' = Popped
    BY <2>1, SameNodes DEF SameLine
  <2>3. TreeBorn' /\ TreeOnce'
    BY <2>2, LineKept DEF TreeInv
  <2>4. TreeShape' /\ TreeRoom'
    <3>1. Available' = Available /\ RootExpansion' = RootExpansion
      BY <2>1, AvailableKept
    <3>2. TreeShape'
      BY <2>1 DEF TreeInv, TreeShape, TreeTypeOK
    <3> QED BY <2>1, <2>2, <3>1, <3>2 DEF TreeInv, TreeRoom
  <2>5. /\ \A m : Parsers(file, m)' = Parsers(file, m)
        /\ \A m : Held(file, m)' = Held(file, m) /\ Showing(file, m)' = Showing(file, m)
        /\ \A m : Certain(file, m)' = Certain(file, m)
    BY <2>1, SameFile
  <2>6. TreeFresh' /\ TreeParsers'
    BY <2>1, <2>5 DEF TreeInv, TreeFresh, TreeParsers, Rest
  <2>7. TreeBrood'
    BY <2>1, <2>5 DEF TreeInv, TreeBrood, Brood
  <2>8. TreeWhole'
    BY <2>1, <2>2, WholeKept DEF TreeInv
  <2> QED BY <2>3, <2>4, <2>6, <2>7, <2>8 DEF TreeInv
<1> QED BY <1>1, <1>2

-----------------------------------------------------------------------------
(* What the invariant says.                                                 *)

LEMMA BoundsHold == ASSUME TreeInv PROVE TreeBounded
<1>1. TreeShape /\ TreeRoom /\ TreeBorn /\ (Busy \/ current = Nobody)
  BY DEF TreeInv, TreeShape
<1>2. ASSUME NEW r \in Resources
      PROVE  usage[r] + (IF run = NoRun THEN 0 ELSE run.budget.used[r]) <= policy.limits[r]
  <2>1. usage[r] \in Nat /\ policy.limits[r] \in Nat /\ usage[r] <= policy.limits[r]
    BY <1>1, TreeFacts DEF TreeRoom
  <2>2. CASE run = NoRun
    BY <2>1, <2>2
  <2>3. CASE run # NoRun
    <3> DEFINE a == run.budget.used[r]
               b == Available[r]
    <3>1. a \in Nat /\ b \in Nat /\ a <= b /\ usage[r] + b <= policy.limits[r]
      BY <1>1, <2>3, AvailableIs DEF TreeShape, TreeRoom, Runs, Budgets
    <3> HIDE DEF a, b
    <3>2. usage[r] + a <= policy.limits[r]
      BY <2>1, <3>1
    <3> QED BY <2>3, <3>2 DEF a
  <2> QED BY <2>2, <2>3
<1>3. policy.ratio # 0 => usage["decoded"] <= file.size[1] * policy.ratio
  BY <1>1 DEF TreeRoom, RootExpansion
<1>4. Len(nodes) + Len(pendingWork) + (IF current = Nobody THEN 0 ELSE 1) <= policy.nodes
  <2>1. Popped + Len(pendingWork) <= policy.nodes /\ policy.nodes \in Nat /\ Popped \in Nat
        /\ Len(nodes) \in Nat /\ Len(pendingWork) \in Nat
        /\ Popped = Len(nodes) + (IF Busy THEN 1 ELSE 0)
    BY <1>1, TreeFacts DEF TreeRoom
  <2> QED BY <1>1, <2>1
<1>5. \A i \in DOMAIN nodes : nodes[i].depth <= policy.depth
  <2>1. ASSUME NEW i \in DOMAIN nodes PROVE nodes[i].depth <= policy.depth
    <3>1. i \in 1..Popped /\ Node(i) = nodes[i]
      BY <1>1, TreeFacts DEF Node
    <3> QED BY <1>1, <3>1 DEF TreeBorn, Born
  <2> QED BY <2>1
<1> QED BY <1>1, <1>2, <1>3, <1>4, <1>5 DEF TreeBounded, TreeRoom

LEMMA SilenceHolds == ASSUME TreeInv PROVE SilenceMeansWhole
<1> SUFFICES ASSUME place = "done", nodes # << >>,
                    \A i \in DOMAIN nodes : Status(i, TRUE) \in {"Complete", "Unsupported"}
             PROVE  /\ nodes[1].member = 1
                    /\ \A i \in DOMAIN nodes :
                         /\ Len(nodes[i].results) = Len(Parsers(file, nodes[i].member))
                         /\ Certain(file, nodes[i].member) \subseteq MembersBelow(i)
  BY DEF SilenceMeansWhole
<1> DEFINE N == Len(nodes)
<1>1. /\ TreeShape /\ TreeBorn /\ TreeWhole /\ file \in Forests
      /\ Popped = N /\ N \in Nat \ {0} /\ DOMAIN nodes = 1..N /\ 1 \in DOMAIN nodes
      /\ \A i \in 1..N : Node(i) = nodes[i]
  <2>1. ~Busy
    BY DEF Busy
  <2> QED BY <2>1, TreeFacts DEF TreeInv, Node
<1>2. \A i \in DOMAIN nodes : ~Diagnosed(i)
  BY DEF Status
<1>3. stop = Nobody /\ \A i \in DOMAIN nodes : Trusty(nodes[i].results)
  BY <1>1, <1>2 DEF Diagnosed, Trusty, Silent
<1>4. /\ pendingWork = << >>
      /\ \A i \in DOMAIN nodes : /\ Len(nodes[i].results) = Len(Parsers(file, nodes[i].member))
                                 /\ Served(i)
  BY <1>1, <1>3 DEF TreeWhole
<1>5. nodes[1].member = 1
  <2>1. Born(nodes[1], 0)
    BY <1>1 DEF TreeBorn
  <2> QED BY <2>1 DEF Born
<1>6. ASSUME NEW i \in DOMAIN nodes, NEW c \in Certain(file, nodes[i].member)
      PROVE  c \in MembersBelow(i)
  <2>1. Served(i) /\ DOMAIN pendingWork = {} /\ Node(i) = nodes[i]
    BY <1>1, <1>4
  <2>2. PICK j \in 1..N : Node(j).parent = i /\ Node(j).member = c
    BY <1>1, <1>6, <2>1 DEF Served
  <2>3. j \in DOMAIN nodes /\ nodes[j].parent = i /\ nodes[j].member = c
    BY <1>1, <2>2
  <2> QED BY <2>3 DEF MembersBelow
<1> QED BY <1>4, <1>5, <1>6

-----------------------------------------------------------------------------
(* The paths of the nodes.                                                  *)

Nth(i, paths) ==
  IF nodes[i].parent = 0 THEN << >>
  ELSE Append(paths[nodes[i].parent], Ordinal(nodes[i]))
Lengthens(g) ==
  /\ g[0] = << >>
  /\ \A n \in 1..Len(nodes) : g[n] = Append(g[n - 1], Nth(n, g[n - 1]))

LEMMA OrdinalIs ==
  ASSUME file \in Forests, NEW node, node.member \in Showing(file, nodes[node.parent].member)
  PROVE  LET listing == Inside(file, nodes[node.parent].member)
         IN  /\ Ordinal(node) \in Nat /\ Ordinal(node) \in DOMAIN listing
             /\ listing[Ordinal(node)] = node.member
<1> DEFINE above == nodes[node.parent].member
           listing == Inside(file, above)
           Is(i) == i \in DOMAIN listing /\ listing[i] = node.member
<1>1. DOMAIN listing \subseteq Nat /\ \E i \in DOMAIN listing : listing[i] = node.member
  <2> HIDE DEF above
  <2> QED BY InsideIs, ShowingIs DEF above
<1> HIDE DEF listing
<1>2. (CHOOSE i \in DOMAIN listing : listing[i] = node.member) \in DOMAIN listing
      /\ listing[CHOOSE i \in DOMAIN listing : listing[i] = node.member] = node.member
  BY <1>1
<1>3. Ordinal(node) = CHOOSE i \in DOMAIN listing : listing[i] = node.member
  BY DEF Ordinal, listing
<1> QED BY <1>1, <1>2, <1>3 DEF listing

(* The nodes, as evidence_paths meets them. *)
LEMMA NodesAre ==
  ASSUME TreeInv
  PROVE  /\ file \in Forests /\ Len(nodes) \in Nat /\ DOMAIN nodes = 1..Len(nodes)
         /\ \A i \in 1..Len(nodes) :
              IF nodes[i].parent = 0 THEN i = 1 /\ nodes[i].member = 1
              ELSE /\ nodes[i].parent \in 1..(i - 1) /\ nodes[i].parent \in 1..Len(nodes)
                   /\ nodes[i].depth = nodes[nodes[i].parent].depth + 1
                   /\ nodes[i].member \in Showing(file, nodes[nodes[i].parent].member)
                   /\ Ordinal(nodes[i]) \in Nat
         /\ \A i, j \in 1..Len(nodes) : Same(nodes[i], nodes[j]) => i = j
<1>1. /\ TreeShape /\ TreeBorn /\ TreeOnce /\ file \in Forests /\ Len(nodes) \in Nat
      /\ DOMAIN nodes = 1..Len(nodes) /\ \A i \in 1..Len(nodes) : i \in 1..Popped /\ Node(i) = nodes[i]
  BY TreeFacts DEF TreeInv, Node
<1>2. ASSUME NEW i \in 1..Len(nodes)
      PROVE  IF nodes[i].parent = 0 THEN i = 1 /\ nodes[i].member = 1
             ELSE /\ nodes[i].parent \in 1..(i - 1) /\ nodes[i].parent \in 1..Len(nodes)
                  /\ nodes[i].depth = nodes[nodes[i].parent].depth + 1
                  /\ nodes[i].member \in Showing(file, nodes[nodes[i].parent].member)
                  /\ Ordinal(nodes[i]) \in Nat
  <2>1. Born(nodes[i], i - 1)
    BY <1>1 DEF TreeBorn
  <2>2. \A p \in 1..(i - 1) : p \in 1..Len(nodes)
    BY <1>1
  <2>3. nodes[i].parent # 0 => nodes[i].member \in Showing(file, nodes[nodes[i].parent].member)
    BY <1>1, <2>1, <2>2 DEF Born
  <2>4. nodes[i].parent # 0 => Ordinal(nodes[i]) \in Nat
    BY <1>1, <2>3, OrdinalIs
  <2> QED BY <1>1, <2>1, <2>2, <2>3, <2>4 DEF Born
<1>3. \A i, j \in 1..Len(nodes) : Same(nodes[i], nodes[j]) => i = j
  BY <1>1 DEF TreeOnce
<1> QED BY <1>1, <1>2, <1>3

Way == Seq(Nat)

LEMMA PathsSteps ==
  ASSUME TreeInv
  PROVE  \E g \in [0..Len(nodes) -> Seq(Way)] : Lengthens(g) /\ Paths = g[Len(nodes)]
<1> DEFINE N == Len(nodes)
           S == Seq(Way)
           base == << >>
           Safe(x, n) == Append(x, IF nodes[n].parent = 0 \/ nodes[n].parent \notin DOMAIN x
                                   THEN << >> ELSE Nth(n, x))
           step == [x \in S \X (1..N) |-> Safe(x[1], x[2])]
           Rec(g, n) == IF n = 0 THEN << >> ELSE Append(g[n - 1], Nth(n, g[n - 1]))
           Is(g) == g = [n \in 0..N |-> Rec(g, n)]
<1>1. N \in Nat /\ base \in S /\ 0 \in 0..N /\ \A n \in 1..N : n \in 0..N /\ n \in Nat \ {0} /\ n - 1 \in 0..N
  BY NodesAre
<1>2. \A x \in S, n \in 1..N :
        nodes[n].parent # 0 /\ nodes[n].parent \in DOMAIN x => Nth(n, x) \in Way
  <2>1. ASSUME NEW x \in S, NEW n \in 1..N, nodes[n].parent # 0, nodes[n].parent \in DOMAIN x
        PROVE  Nth(n, x) \in Way
    <3>1. x[nodes[n].parent] \in Seq(Nat) /\ Ordinal(nodes[n]) \in Nat
      BY <2>1, NodesAre DEF Way
    <3> QED BY <2>1, <3>1 DEF Nth, Way
  <2> QED BY <2>1
<1>3. \A x \in S, n \in 1..N : Safe(x, n) \in S
  <2>1. << >> \in Way
    BY DEF Way
  <2> QED BY <1>2, <2>1
<1>4. step \in [S \X (1..N) -> S] /\ \A x \in S, n \in 1..N : step[<<x, n>>] = Safe(x, n)
  <2> HIDE DEF S, N, Safe
  <2> QED BY <1>3
<1>5. Recursive(N, S, base, step)
  <2> HIDE DEF S, N, step, base
  <2> QED BY <1>1, <1>4, Recursion
<1>6. \E g : Is(g)
  <2>1. PICK g \in [0..N -> S] : g[0] = base /\ \A n \in 1..N : g[n] = step[<<g[n - 1], n>>]
    BY <1>5 DEF Recursive
  <2>2. \A n \in 1..N : g[n] = Safe(g[n - 1], n)
    <3> HIDE DEF S, N, step, Safe
    <3> QED BY <1>1, <1>4, <2>1
  <2> DEFINE R == {n \in 0..N : Len(g[n]) = n}
  <2>3. 0..N \subseteq R
    <3>1. 0 \in R
      BY <1>1, <2>1
    <3>2. ASSUME NEW n \in 1..N, n - 1 \in R PROVE n \in R
      <4>1. g[n - 1] \in S /\ Len(g[n - 1]) = n - 1
        BY <1>1, <2>1, <3>2
      <4>2. Len(g[n]) = Len(g[n - 1]) + 1
        <5> DEFINE e == IF nodes[n].parent = 0 \/ nodes[n].parent \notin DOMAIN g[n - 1]
                        THEN << >> ELSE Nth(n, g[n - 1])
        <5>1. g[n] = Append(g[n - 1], e)
          BY <2>2
        <5> HIDE DEF e
        <5> QED BY <4>1, <5>1
      <4> QED BY <1>1, <4>1, <4>2
    <3> HIDE DEF R, N
    <3> QED BY <1>1, <3>1, <3>2, UpTo
  <2>4. \A n \in 1..N : g[n] = Rec(g, n)
    <3>1. ASSUME NEW n \in 1..N PROVE g[n] = Rec(g, n)
      <4>1. g[n - 1] \in S /\ Len(g[n - 1]) = n - 1 /\ n # 0
        BY <1>1, <2>1, <2>3
      <4>2. DOMAIN g[n - 1] = 1..(n - 1)
        BY <4>1
      <4>3. nodes[n].parent = 0 \/ nodes[n].parent \in DOMAIN g[n - 1]
        BY <4>2, NodesAre
      <4>4. nodes[n].parent = 0 => Nth(n, g[n - 1]) = << >>
        BY DEF Nth
      <4> QED BY <2>2, <4>1, <4>3, <4>4
    <3> QED BY <3>1
  <2>5. \A n \in 0..N : g[n] = Rec(g, n)
    <3>1. \A n \in 0..N : n = 0 \/ n \in 1..N
      BY <1>1
    <3> HIDE DEF N
    <3> QED BY <1>1, <2>1, <2>4, <3>1
  <2>6. Is(g)
    <3> HIDE DEF Rec, N
    <3> QED BY <2>1, <2>5
  <2> QED BY <2>6
<1>7. PICK g : Is(g) /\ g = CHOOSE h : Is(h)
  <2> HIDE DEF Is
  <2> QED BY <1>6
<1>8. Paths = g[N]
  BY <1>7 DEF Paths, Nth
<1>9. DOMAIN g = 0..N /\ \A n \in 0..N : g[n] = Rec(g, n)
  <2> HIDE DEF Rec, N
  <2> QED BY <1>7
<1>10. g[0] = << >> /\ \A n \in 1..N : g[n] = Append(g[n - 1], Nth(n, g[n - 1]))
  <2> HIDE DEF N
  <2> QED BY <1>1, <1>9
<1> DEFINE R == {n \in 0..N : g[n] \in S /\ Len(g[n]) = n}
<1>11. 0..N \subseteq R
  <2>1. 0 \in R
    BY <1>1, <1>10
  <2>2. ASSUME NEW n \in 1..N, n - 1 \in R PROVE n \in R
    <3>1. g[n - 1] \in S /\ Len(g[n - 1]) = n - 1 /\ DOMAIN g[n - 1] = 1..(n - 1)
      BY <2>2
    <3> DEFINE e == Nth(n, g[n - 1])
    <3>2. e \in Way
      <4>1. CASE nodes[n].parent = 0
        BY <4>1 DEF Nth, Way
      <4>2. CASE nodes[n].parent # 0
        <5>1. nodes[n].parent \in DOMAIN g[n - 1]
          BY <3>1, <4>2, NodesAre
        <5> QED BY <1>2, <3>1, <4>2, <5>1
      <4> QED BY <4>1, <4>2
    <3>3. g[n] = Append(g[n - 1], e)
      BY <1>10
    <3> HIDE DEF e
    <3>4. g[n] \in S /\ Len(g[n]) = Len(g[n - 1]) + 1
      BY <3>1, <3>2, <3>3
    <3>5. n - 1 + 1 = n /\ n \in 0..N
      BY <1>1
    <3> QED BY <3>1, <3>4, <3>5
  <2> HIDE DEF R, N
  <2> QED BY <1>1, <2>1, <2>2, UpTo
<1>12. g \in [0..N -> S]
  <2>1. g = [n \in 0..N |-> g[n]]
    <3> HIDE DEF Rec, N
    <3> QED BY <1>7, <1>9
  <2>2. \A n \in 0..N : g[n] \in S
    BY <1>11
  <2> HIDE DEF N, S
  <2> QED BY <2>1, <2>2
<1> QED BY <1>8, <1>10, <1>12 DEF Lengthens

LEMMA PathsAre ==
  ASSUME TreeInv
  PROVE  /\ Paths \in Seq(Way) /\ DOMAIN Paths = 1..Len(nodes)
         /\ \A i \in 1..Len(nodes) : Paths[i] = Nth(i, Paths)
<1> DEFINE N == Len(nodes)
<1>1. PICK g \in [0..N -> Seq(Way)] : Lengthens(g) /\ Paths = g[N]
  BY PathsSteps
<1>2. N \in Nat /\ 0 \in 0..N /\ N \in 0..N /\ \A n \in 1..N : n \in 0..N /\ n \in Nat \ {0} /\ n - 1 \in 0..N
  BY NodesAre
<1> DEFINE Done(x, n) == x \in Seq(Way) /\ Len(x) = n /\ \A i \in 1..n : x[i] = Nth(i, x)
<1>3. ASSUME NEW n \in 1..N, NEW x, Done(x, n - 1) PROVE Done(Append(x, Nth(n, x)), n)
  <2> DEFINE e == Nth(n, x)
             y == Append(x, e)
  <2>1. x \in Seq(Way) /\ Len(x) = n - 1 /\ DOMAIN x = 1..(n - 1)
    BY <1>3
  <2>2. \A i \in 1..n : nodes[i].parent # 0 =>
          nodes[i].parent \in DOMAIN x /\ Ordinal(nodes[i]) \in Nat
    <3>1. ASSUME NEW i \in 1..n, nodes[i].parent # 0
          PROVE  nodes[i].parent \in 1..(n - 1) /\ Ordinal(nodes[i]) \in Nat
      <4>1. i \in 1..Len(nodes) /\ \A p \in 1..(i - 1) : p \in 1..(n - 1)
        BY <1>2
      <4> QED BY <3>1, <4>1, NodesAre
    <3> QED BY <2>1, <3>1
  <2>3. n \in 1..n /\ n \in Nat /\ \A i \in 1..n : i = n \/ i \in 1..(n - 1)
    BY <1>2
  <2>4. e \in Way
    <3>1. CASE nodes[n].parent = 0
      BY <3>1 DEF Nth, Way
    <3>2. CASE nodes[n].parent # 0
      <4>1. x[nodes[n].parent] \in Seq(Nat) /\ Ordinal(nodes[n]) \in Nat
        BY <2>1, <2>2, <2>3, <3>2 DEF Way
      <4> QED BY <3>2, <4>1 DEF Nth, Way
    <3> QED BY <3>1, <3>2
  <2> HIDE DEF e
  <2>5. /\ y \in Seq(Way) /\ Len(y) = n /\ y[n] = e
        /\ \A i \in DOMAIN x : y[i] = x[i]
    <3>1. Len(y) = Len(x) + 1 /\ y[Len(x) + 1] = e /\ y \in Seq(Way)
          /\ \A i \in DOMAIN x : y[i] = x[i]
      BY <2>1, <2>4
    <3>2. Len(x) + 1 = n
      BY <2>1, <2>3
    <3> QED BY <3>1, <3>2
  <2> HIDE DEF y
  <2>6. \A i \in 1..n : Nth(i, y) = Nth(i, x)
    BY <2>2, <2>5 DEF Nth
  <2>7. \A i \in 1..n : y[i] = Nth(i, x)
    <3>1. y[n] = Nth(n, x)
      BY <2>5 DEF e
    <3>2. \A i \in 1..(n - 1) : y[i] = Nth(i, x)
      BY <1>3, <2>1, <2>5
    <3> QED BY <2>3, <3>1, <3>2
  <2>8. Done(y, n)
    BY <2>5, <2>6, <2>7
  <2> QED BY <2>8 DEF y, e
<1> DEFINE R == {n \in 0..N : Done(g[n], n)}
<1>4. 0 \in R
  <2>1. << >> \in Seq(Way) /\ Len(<< >>) = 0 /\ 1..0 = {}
    OBVIOUS
  <2> QED BY <1>1, <1>2, <2>1 DEF Lengthens
<1>5. ASSUME NEW n \in 1..N, n - 1 \in R PROVE n \in R
  <2> HIDE DEF Done
  <2> QED BY <1>1, <1>2, <1>3, <1>5 DEF Lengthens
<1>6. Done(g[N], N)
  <2>1. 0..N \subseteq R
    <3> HIDE DEF R, N
    <3> QED BY <1>2, <1>4, <1>5, UpTo
  <2> HIDE DEF Done
  <2> QED BY <1>2, <2>1
<1> QED BY <1>1, <1>2, <1>6

LEMMA Appended ==
  ASSUME NEW s \in Seq(Nat), NEW t \in Seq(Nat), NEW d \in Nat, NEW e \in Nat
  PROVE  /\ Append(s, d) # << >>
         /\ Append(s, d) = Append(t, e) => s = t /\ d = e
<1>1. Append(s, d) # << >>
  OBVIOUS
<1> QED BY <1>1, AppendInjective

LEMMA PathsInjective == ASSUME TreeInv PROVE IsInjective(Paths)
<1> DEFINE N == Len(nodes)
           p == Paths
           parent(i) == nodes[i].parent
           ordinal(i) == Ordinal(nodes[i])
           R == {n \in 0..N : \A a, b \in 1..n : p[a] = p[b] => a = b}
<1>1. N \in Nat /\ 0 \in 0..N /\ N \in 0..N /\ p \in Seq(Way) /\ DOMAIN p = 1..N
  BY NodesAre, PathsAre
<1>2. \A i \in 1..N : p[i] \in Seq(Nat)
  BY <1>1 DEF Way
<1>3. /\ \A i \in 1..N : parent(i) = 0 => i = 1 /\ p[i] = << >>
      /\ \A i \in 1..N : parent(i) # 0 => /\ parent(i) \in 1..(i - 1) /\ parent(i) \in 1..N
                                          /\ p[i] = Append(p[parent(i)], ordinal(i))
                                          /\ p[parent(i)] \in Seq(Nat) /\ ordinal(i) \in Nat
  BY <1>2, NodesAre, PathsAre DEF Nth
<1>4. ASSUME NEW i \in 1..N, NEW j \in 1..N, parent(i) # 0, parent(i) = parent(j),
             ordinal(i) = ordinal(j)
      PROVE  i = j
  <2>1. /\ file \in Forests
        /\ nodes[i].member \in Showing(file, nodes[nodes[i].parent].member)
        /\ nodes[j].member \in Showing(file, nodes[nodes[j].parent].member)
    BY <1>4, NodesAre
  <2>2. /\ Inside(file, nodes[nodes[i].parent].member)[Ordinal(nodes[i])] = nodes[i].member
        /\ Inside(file, nodes[nodes[j].parent].member)[Ordinal(nodes[j])] = nodes[j].member
    BY <2>1, OrdinalIs
  <2>3. Same(nodes[i], nodes[j])
    BY <1>4, <2>2 DEF Same
  <2> QED BY <2>3, NodesAre
<1> HIDE DEF p, parent, ordinal
<1>5. 0 \in R
  <2>1. 1..0 = {}
    OBVIOUS
  <2> QED BY <1>1, <2>1
<1>6. ASSUME NEW n \in 1..N, n - 1 \in R PROVE n \in R
  <2>1. n \in 0..N /\ n \in Nat /\ n - 1 \in 0..N /\ \A i \in 1..n : i \in 1..N
        /\ \A k \in 1..(i - 1) : k \in 1..(n - 1)
    BY <1>1
  <2>2. ASSUME NEW a \in 1..n, NEW b \in 1..n, p[a] = p[b] PROVE a = b
    <3>1. a \in 1..N /\ b \in 1..N
      BY <2>1
    <3>2. CASE parent(a) = 0 /\ parent(b) = 0
      BY <1>3, <3>1, <3>2
    <3>3. CASE parent(a) # 0 /\ parent(b) # 0
      <4>1. /\ p[a] = Append(p[parent(a)], ordinal(a)) /\ p[b] = Append(p[parent(b)], ordinal(b))
            /\ p[parent(a)] \in Seq(Nat) /\ p[parent(b)] \in Seq(Nat)
            /\ ordinal(a) \in Nat /\ ordinal(b) \in Nat
            /\ parent(a) \in 1..(n - 1) /\ parent(b) \in 1..(n - 1)
        BY <1>3, <2>1, <3>1, <3>3
      <4>2. p[parent(a)] = p[parent(b)] /\ ordinal(a) = ordinal(b)
        <5> DEFINE s == p[parent(a)]
                   t == p[parent(b)]
                   d == ordinal(a)
                   e == ordinal(b)
        <5>1. /\ s \in Seq(Nat) /\ t \in Seq(Nat) /\ d \in Nat /\ e \in Nat
              /\ Append(s, d) = Append(t, e)
          BY <2>2, <4>1
        <5> HIDE DEF s, t, d, e
        <5>2. s = t /\ d = e
          BY <5>1, Appended
        <5> QED BY <5>2 DEF s, t, d, e
      <4>3. parent(a) = parent(b)
        BY <1>6, <4>1, <4>2
      <4> QED BY <1>4, <3>1, <3>3, <4>2, <4>3
    <3>4. CASE parent(a) = 0 /\ parent(b) # 0
      <4>1. p[a] = << >> /\ p[b] = Append(p[parent(b)], ordinal(b))
            /\ p[parent(b)] \in Seq(Nat) /\ ordinal(b) \in Nat
        BY <1>3, <3>1, <3>4
      <4>2. Append(p[parent(b)], ordinal(b)) # << >>
        BY <4>1, Appended
      <4> QED BY <2>2, <4>1, <4>2
    <3>5. CASE parent(a) # 0 /\ parent(b) = 0
      <4>1. p[b] = << >> /\ p[a] = Append(p[parent(a)], ordinal(a))
            /\ p[parent(a)] \in Seq(Nat) /\ ordinal(a) \in Nat
        BY <1>3, <3>1, <3>5
      <4>2. Append(p[parent(a)], ordinal(a)) # << >>
        BY <4>1, Appended
      <4> QED BY <2>2, <4>1, <4>2
    <3> QED BY <3>2, <3>3, <3>4, <3>5
  <2> QED BY <2>1, <2>2
<1>7. N \in R
  <2>1. 0..N \subseteq R
    <3> HIDE DEF R, N
    <3> QED BY <1>1, <1>5, <1>6, UpTo
  <2> HIDE DEF R
  <2> QED BY <1>1, <2>1
<1>8. IsInjective(p)
  BY <1>1, <1>7 DEF IsInjective
<1> QED BY <1>8 DEF p

LEMMA OrderHolds == ASSUME TreeInv PROVE TreeOrdered
<1>1. \A i \in DOMAIN nodes :
        IF nodes[i].parent = 0 THEN i = 1 /\ nodes[i].member = 1
        ELSE /\ nodes[i].parent < i
             /\ nodes[i].depth = nodes[nodes[i].parent].depth + 1
             /\ nodes[i].member \in Showing(file, nodes[nodes[i].parent].member)
  BY NodesAre
<1> QED BY <1>1, PathsInjective DEF TreeOrdered

(* The tree of a file stays within the limits of a single file, its         *)
(* containers come before what is in them with no path twice, and records   *)
(* without a diagnosis mean that every parser of every node ran and that    *)
(* whatever a container shows is below it, but for what comes after a       *)
(* sealed member of an archive or a PDF: extract_input, the listings of the *)
(* native parsers and canonical_records, for all files, limits and verdicts.*)
THEOREM TreeIsSound == TreeSpec => []TreeSound
<1>1. TreeInit => TreeInv
  BY TreeStart
<1>2. TreeInv /\ [TreeNext]_treeVars => TreeInv'
  BY TreeStep
<1>3. TreeInv => TreeSound
  BY BoundsHold, OrderHolds, SilenceHolds DEF TreeSound, TreeInv, TreeShape
<1> QED BY <1>1, <1>2, <1>3, PTL DEF TreeSpec
=============================================================================
