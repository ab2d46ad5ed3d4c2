--------------------------- MODULE WorkbenchProofs ---------------------------
(***************************************************************************)
(* Proofs about CaseReading, RecordsView, RedactionPreview and             *)
(* EvidenceWalk, for any cases, records, queries, profiles, budgets, trees *)
(* and policies.                                                           *)
(*                                                                         *)
(* Reading.  A cursor names the case, the revision and the query it is of, *)
(* so that a page goes on where the last one ended or is refused; what has *)
(* been read is always the beginning of one answer (ReadUpTo).  What has   *)
(* been answered is of the revision that was noted first for as long as    *)
(* that is the case's, and the last comparison makes sure that it was      *)
(* until then (AnswersInv); the anchor of a verified log is later than     *)
(* that revision, and no later than the present one (AnchorInv).           *)
(*                                                                         *)
(* The record explorer.  The way back from the page on the screen is the   *)
(* trail of the cursors of the pages before it, of one query at one        *)
(* revision (Trail, Shows).  A task ends in a later state of the screen    *)
(* than it was begun in, which has changed by no more than the order, or   *)
(* is loaded again (Begun); the cursor it was given names the trail it     *)
(* goes on from, so that the page is the next or the last one on that      *)
(* trail, or the first of another (NewTrail).                              *)
(*                                                                         *)
(* Redaction.  The code carries actions along links until a pass adds      *)
(* nothing; what it promises is the least set that is closed under links.  *)
(* What it takes is never more, since all of it is linked to a selection   *)
(* (Grounded); and never less, since what the rules select is taken        *)
(* (RulesInv), and after a pass that adds nothing all parts of a claim are *)
(* taken alike, or none of them (LinksInv), so that what is taken is       *)
(* closed.  A refusal has found metadata that two rules want in two ways   *)
(* (Torn).                                                                 *)
(*                                                                         *)
(* The walk.  An entry is only looked at while a file may still be opened, *)
(* and lies as deep as the listing it comes from (Places).  While the tree *)
(* stays what it is, a file that nothing has been said of is still ahead:  *)
(* its path goes through a name that one of the open listings has left, or *)
(* through the entry that is looked at (Ahead).  When the walk ends        *)
(* nothing is ahead, so that silence means that everything was seen.  What *)
(* is listed was reached by no path that the policy leaves out (Clean),    *)
(* and by one path only (Once): the directories whose paths are in use are *)
(* among the visited ones, and the next one is not, or it would have been  *)
(* seen.                                                                   *)
(***************************************************************************)
EXTENDS CaseReading, RecordsView, RedactionPreview, EvidenceWalk, RecursionLemmas, SequenceTheorems

-----------------------------------------------------------------------------
(* The order of records is total.                                           *)

LEMMA SmallerOne == ASSUME NEW x, NEW a PROVE Smaller(<<x>>, <<a>>) <=> x < a
<1>1. DOMAIN <<x>> = 1..1 /\ <<x>>[1] = x /\ <<a>>[1] = a
  OBVIOUS
<1>2. 1..1 = {1} /\ 1..(1 - 1) = {}
  OBVIOUS
<1> QED BY <1>1, <1>2 DEF Smaller

LEMMA SmallerTwo ==
  ASSUME NEW x, NEW y, NEW a, NEW b
  PROVE  Smaller(<<x, y>>, <<a, b>>) <=> x < a \/ (x = a /\ y < b)
<1>1. DOMAIN <<x, y>> = {1, 2} /\ 1..(1 - 1) = {} /\ 1..(2 - 1) = {1}
  OBVIOUS
<1> QED BY <1>1 DEF Smaller

LEMMA SmallerThree ==
  ASSUME NEW p, NEW r, DOMAIN p = 1..3
  PROVE  Smaller(p, r) <=> \/ p[1] < r[1] \/ (p[1] = r[1] /\ p[2] < r[2])
                           \/ (p[1] = r[1] /\ p[2] = r[2] /\ p[3] < r[3])
<1>1. DOMAIN p = {1, 2, 3} /\ 1..(1 - 1) = {} /\ 1..(2 - 1) = {1} /\ 1..(3 - 1) = {1, 2}
  OBVIOUS
<1> QED BY <1>1 DEF Smaller

(* Record i comes before record j.                                          *)
Lower(rows, q, i, j) == Precedes(q, Position(rows, q, i), Position(rows, q, j))

LEMMA Order ==
  ASSUME NEW rows \in Seq(RowType), NEW q, NEW i \in DOMAIN rows, NEW j \in DOMAIN rows
  PROVE  /\ Lower(rows, q, i, j) => i # j /\ ~Lower(rows, q, j, i)
         /\ i # j => Lower(rows, q, i, j) \/ Lower(rows, q, j, i)
         /\ \A k \in DOMAIN rows :
              Lower(rows, q, i, j) /\ Lower(rows, q, j, k) => Lower(rows, q, i, k)
<1>1. \A n \in DOMAIN rows : n \in Nat /\ rows[n].path \in Nat /\ rows[n].mime \in Nat
  <2>1. \A n \in DOMAIN rows : n \in Nat /\ rows[n] \in RowType
    OBVIOUS
  <2>2. \A row \in RowType : row.path \in Nat /\ row.mime \in Nat
    BY DEF RowType
  <2> QED BY <2>1, <2>2
<1>2. CASE q.order = "insertion"
  <2>1. \A n, m \in DOMAIN rows : Lower(rows, q, n, m) <=> n < m
    BY <1>2, SmallerOne DEF Lower, Precedes, Position
  <2> QED BY <1>1, <2>1
<1>3. CASE q.order = "mimePath"
  <2>0. \A n \in DOMAIN rows : Position(rows, q, n) = <<rows[n].mime, rows[n].path, n>>
    BY <1>3 DEF Position
  <2>1. \A n, m \in DOMAIN rows :
          Lower(rows, q, n, m) <=>
            \/ rows[n].mime < rows[m].mime
            \/ rows[n].mime = rows[m].mime /\ rows[n].path < rows[m].path
            \/ rows[n].mime = rows[m].mime /\ rows[n].path = rows[m].path /\ n < m
    <3> SUFFICES ASSUME NEW n \in DOMAIN rows, NEW m \in DOMAIN rows
                 PROVE  Smaller(Position(rows, q, n), Position(rows, q, m)) <=>
                          \/ rows[n].mime < rows[m].mime
                          \/ rows[n].mime = rows[m].mime /\ rows[n].path < rows[m].path
                          \/ rows[n].mime = rows[m].mime /\ rows[n].path = rows[m].path /\ n < m
      BY <1>3 DEF Lower, Precedes
    <3>1. /\ Position(rows, q, n) = <<rows[n].mime, rows[n].path, n>>
          /\ Position(rows, q, m) = <<rows[m].mime, rows[m].path, m>>
      BY <2>0
    <3>2. PICK p, r : p = Position(rows, q, n) /\ r = Position(rows, q, m)
      OBVIOUS
    <3>3. p = <<rows[n].mime, rows[n].path, n>> /\ r = <<rows[m].mime, rows[m].path, m>>
      BY <3>1, <3>2
    <3>4. Smaller(p, r) <=> \/ rows[n].mime < rows[m].mime
                            \/ rows[n].mime = rows[m].mime /\ rows[n].path < rows[m].path
                            \/ rows[n].mime = rows[m].mime /\ rows[n].path = rows[m].path /\ n < m
      <4>1. DOMAIN p = 1..3 /\ p[1] = rows[n].mime /\ p[2] = rows[n].path /\ p[3] = n
        BY <3>3
      <4>2. r[1] = rows[m].mime /\ r[2] = rows[m].path /\ r[3] = m
        BY <3>3
      <4> QED BY <4>1, <4>2, SmallerThree
    <3> QED BY <3>2, <3>4
  <2>2. \A n, m, k \in DOMAIN rows :
          /\ Lower(rows, q, n, m) => n # m /\ ~Lower(rows, q, m, n)
          /\ n # m => Lower(rows, q, n, m) \/ Lower(rows, q, m, n)
          /\ Lower(rows, q, n, m) /\ Lower(rows, q, m, k) => Lower(rows, q, n, k)
    <3> SUFFICES ASSUME NEW n \in DOMAIN rows, NEW m \in DOMAIN rows, NEW k \in DOMAIN rows
                 PROVE  /\ Lower(rows, q, n, m) => n # m /\ ~Lower(rows, q, m, n)
                        /\ n # m => Lower(rows, q, n, m) \/ Lower(rows, q, m, n)
                        /\ Lower(rows, q, n, m) /\ Lower(rows, q, m, k) => Lower(rows, q, n, k)
      OBVIOUS
    <3> DEFINE Than(x, y) == Lower(rows, q, x, y)
    <3>1. PICK a, b, c, d, e, f :
            /\ a = rows[n].mime /\ b = rows[m].mime /\ c = rows[k].mime
            /\ d = rows[n].path /\ e = rows[m].path /\ f = rows[k].path
      OBVIOUS
    <3>2. {a, b, c, d, e, f, n, m, k} \subseteq Nat
      BY <1>1, <3>1
    <3>3. /\ Than(n, m) <=> a < b \/ (a = b /\ d < e) \/ (a = b /\ d = e /\ n < m)
          /\ Than(m, n) <=> b < a \/ (b = a /\ e < d) \/ (b = a /\ e = d /\ m < n)
          /\ Than(m, k) <=> b < c \/ (b = c /\ e < f) \/ (b = c /\ e = f /\ m < k)
          /\ Than(n, k) <=> a < c \/ (a = c /\ d < f) \/ (a = c /\ d = f /\ n < k)
      BY <2>1, <3>1
    <3> HIDE DEF Than
    <3>4. /\ Than(n, m) => n # m /\ ~Than(m, n)
          /\ n # m => Than(n, m) \/ Than(m, n)
          /\ Than(n, m) /\ Than(m, k) => Than(n, k)
      BY <3>2, <3>3
    <3> QED BY <3>4 DEF Than
  <2> QED BY <2>2
<1>4. CASE q.order \notin {"insertion", "mimePath"}
  <2>1. \A n \in DOMAIN rows : Position(rows, q, n) = <<rows[n].path, n>>
    BY <1>4 DEF Position
  <2>2. CASE q.order = "pathDescending"
    <3>1. \A n, m \in DOMAIN rows :
            Lower(rows, q, n, m) <=>
              rows[m].path < rows[n].path \/ (rows[m].path = rows[n].path /\ m < n)
      BY <2>1, <2>2, SmallerTwo DEF Lower, Precedes
    <3> QED BY <1>1, <3>1, SMTT(30)
  <2>3. CASE q.order # "pathDescending"
    <3>1. \A n, m \in DOMAIN rows :
            Lower(rows, q, n, m) <=>
              rows[n].path < rows[m].path \/ (rows[n].path = rows[m].path /\ n < m)
      BY <2>1, <2>3, SmallerTwo DEF Lower, Precedes
    <3> QED BY <1>1, <3>1
  <2> QED BY <2>2, <2>3
<1> QED BY <1>2, <1>3, <1>4

(* As many come before a record as say its place, and no two have the same. *)
LEMMA Ranks ==
  ASSUME NEW rows \in Seq(RowType), NEW q
  PROVE  LET M == Matches(rows, q)
             N == Cardinality(M)
             rank(i) == Cardinality(Earlier(rows, q, i))
         IN  /\ N \in Nat /\ M \subseteq DOMAIN rows
             /\ \A i \in M : rank(i) \in 0..(N - 1)
             /\ \A i, j \in M : Lower(rows, q, i, j) => rank(i) < rank(j)
             /\ \A n \in 0..(N - 1) : \E i \in M : rank(i) = n
<1> DEFINE M == Matches(rows, q)
           N == Cardinality(M)
           E(i) == Earlier(rows, q, i)
           rank(i) == Cardinality(E(i))
<1>1. M \subseteq DOMAIN rows /\ IsFiniteSet(DOMAIN rows)
  <2>1. DOMAIN rows = 1..Len(rows) /\ Len(rows) \in Nat
    OBVIOUS
  <2> QED BY <2>1, FS_Interval DEF Matches
<1>2. IsFiniteSet(M) /\ N \in Nat
  BY <1>1, FS_Subset, FS_CardinalityType
<1>3. ASSUME NEW i \in M
      PROVE  E(i) \subseteq M /\ i \notin E(i) /\ IsFiniteSet(E(i)) /\ rank(i) \in Nat /\ rank(i) < N
  <2>1. E(i) \subseteq M /\ i \notin E(i)
    BY <1>1, Order DEF Earlier, Lower
  <2>2. IsFiniteSet(E(i)) /\ rank(i) \in Nat /\ rank(i) <= N /\ rank(i) # N
    <3> HIDE DEF M, E
    <3> QED BY <1>2, <2>1, FS_Subset, FS_CardinalityType
  <2> QED BY <1>2, <2>1, <2>2
<1>4. ASSUME NEW i \in M, NEW j \in M, Lower(rows, q, i, j)
      PROVE  rank(i) < rank(j)
  <2>1. E(i) \subseteq E(j) /\ i \in E(j) /\ i \notin E(i)
    BY <1>1, <1>3, <1>4, Order DEF Earlier, Lower
  <2>2. rank(i) <= rank(j) /\ rank(i) # rank(j)
    <3> HIDE DEF M, E
    <3> QED BY <1>3, <2>1, FS_Subset
  <2> QED BY <1>3, <2>2
<1>5. ASSUME NEW n \in 0..(N - 1) PROVE \E i \in M : rank(i) = n
  <2> SUFFICES ASSUME \A i \in M : rank(i) # n PROVE FALSE
    OBVIOUS
  <2> DEFINE T == (0..(N - 1)) \ {n}
             f == [i \in M |-> rank(i)]
  <2>1. f \in [M -> T]
    <3>1. \A i \in M : rank(i) \in T
      <4> HIDE DEF M, E
      <4> QED BY <1>2, <1>3
    <3> HIDE DEF M, T, E
    <3> QED BY <3>1
  <2>2. IsFiniteSet(T) /\ Cardinality(T) < N
    <3>1. IsFiniteSet(0..(N - 1)) /\ Cardinality(0..(N - 1)) = N
      <4>1. 0 \in Int /\ N - 1 \in Int /\ (0 > N - 1 => N = 0) /\ (N - 1) - 0 + 1 = N
        <5> HIDE DEF N
        <5> QED BY <1>2
      <4> HIDE DEF N
      <4> QED BY <4>1, FS_Interval
    <3>2. IsFiniteSet(T) /\ Cardinality(T) = N - 1
      <4> HIDE DEF N
      <4> QED BY <3>1, FS_RemoveElement
    <3> HIDE DEF N, T
    <3> QED BY <1>2, <3>2
  <2>3. PICK i \in M, j \in M : i # j /\ f[i] = f[j]
    <3> HIDE DEF M, T, f
    <3> QED BY <1>2, <2>1, <2>2, FS_PigeonHole
  <2>4. rank(i) = rank(j) /\ rank(i) \in Nat
    BY <1>3, <2>3
  <2>5. Lower(rows, q, i, j) \/ Lower(rows, q, j, i)
    BY <1>1, <2>3, Order
  <2> HIDE DEF M, E
  <2> QED BY <1>4, <2>4, <2>5
<1> HIDE DEF M, E
<1>6. \A i \in M : rank(i) \in 0..(N - 1)
  BY <1>2, <1>3
<1> QED BY <1>1, <1>2, <1>4, <1>5, <1>6 DEF M, E

(* The answer to a query is in order.                                       *)
LEMMA SortedIs ==
  ASSUME NEW rows \in Seq(RowType), NEW q
  PROVE  LET all == Sorted(rows, q)
         IN  /\ all \in Seq(DOMAIN rows)
             /\ \A m, n \in DOMAIN all : Lower(rows, q, all[m], all[n]) <=> m < n
<1> DEFINE M == Matches(rows, q)
           N == Cardinality(M)
           E(i) == Earlier(rows, q, i)
           rank(i) == Cardinality(E(i))
           all == Sorted(rows, q)
<1>1. /\ N \in Nat /\ M \subseteq DOMAIN rows
      /\ \A i \in M : rank(i) \in 0..(N - 1)
      /\ \A i, j \in M : Lower(rows, q, i, j) => rank(i) < rank(j)
      /\ \A n \in 0..(N - 1) : \E i \in M : rank(i) = n
  BY Ranks
<1>2. all = [n \in 1..N |-> CHOOSE i \in M : rank(i) = n - 1]
  BY DEF Sorted
<1> HIDE DEF M, E, all
<1>3. ASSUME NEW n \in 1..N PROVE all[n] \in M /\ rank(all[n]) = n - 1
  <2>1. n - 1 \in 0..(N - 1)
    BY <1>1
  <2>2. \E i \in M : rank(i) = n - 1
    BY <1>1, <2>1
  <2> QED BY <1>2, <2>2
<1>4. all \in [1..N -> DOMAIN rows]
  BY <1>1, <1>2, <1>3
<1>5. all \in Seq(DOMAIN rows) /\ DOMAIN all = 1..N
  BY <1>1, <1>4
<1>6. ASSUME NEW m \in 1..N, NEW n \in 1..N PROVE Lower(rows, q, all[m], all[n]) <=> m < n
  <2>1. all[m] \in M /\ all[n] \in M /\ rank(all[m]) = m - 1 /\ rank(all[n]) = n - 1
    BY <1>3
  <2>2. Lower(rows, q, all[m], all[n]) => m < n
    BY <1>1, <2>1
  <2>3. Lower(rows, q, all[n], all[m]) => n < m
    BY <1>1, <2>1
  <2>4. m < n => all[m] # all[n]
    BY <1>1, <2>1
  <2>5. all[m] # all[n] => Lower(rows, q, all[m], all[n]) \/ Lower(rows, q, all[n], all[m])
    BY <1>1, <2>1, Order
  <2> QED BY <1>1, <2>2, <2>3, <2>4, <2>5
<1> QED BY <1>5, <1>6 DEF all

-----------------------------------------------------------------------------
(* Pages.                                                                   *)

(* What a cursor leaves of the answer.                                      *)
LEMMA KeptTail ==
  ASSUME NEW E, NEW list \in Seq(E), NEW k \in 0..Len(list), NEW positions,
         \A n \in 1..Len(list) : n \in positions <=> n > k
  PROVE  Kept(list, positions) = SubSeq(list, k + 1, Len(list))
<1> DEFINE N == Len(list)
<1>1. N \in Nat /\ k \in 0..N /\ DOMAIN list = 1..N /\ \A n \in 1..N : list[n] \in E
  OBVIOUS
<1>2. PICK f :
        /\ f[0] = << >>
        /\ \A n \in 1..N : f[n] = IF n \in positions THEN Append(f[n - 1], list[n]) ELSE f[n - 1]
        /\ Kept(list, positions) = f[N]
  <2>1. PICK f \in [0..Len(list) -> Seq(E)] :
          /\ f[0] = << >>
          /\ \A n \in 1..Len(list) :
               f[n] = IF n \in positions THEN Append(f[n - 1], list[n]) ELSE f[n - 1]
          /\ Kept(list, positions) = f[Len(list)]
    BY KeptSteps
  <2> QED BY <2>1
<1> DEFINE R == {n \in 0..N : f[n] = SubSeq(list, k + 1, n)}
<1>3. \A n \in 0..N : n <= k => SubSeq(list, k + 1, n) = << >>
  <2>1. \A n \in 0..N : n <= k => n \in Int /\ k + 1 \in Int /\ n < k + 1
    BY <1>1
  <2> QED BY <2>1, SubSeqEmpty
<1>4. 0 \in R
  <2>1. 0 \in 0..N /\ 0 <= k
    BY <1>1
  <2> QED BY <1>2, <1>3, <2>1
<1>5. ASSUME NEW n \in 1..N, n - 1 \in R PROVE n \in R
  <2>1. n \in 0..N /\ n - 1 \in 0..N /\ n \in Nat /\ f[n - 1] = SubSeq(list, k + 1, n - 1)
    BY <1>1, <1>5
  <2>2. CASE n <= k
    <3>1. n \notin positions /\ n - 1 <= k
      BY <1>1, <2>2
    <3>2. f[n] = f[n - 1]
      BY <1>2, <3>1
    <3> QED BY <1>3, <2>1, <2>2, <3>1, <3>2
  <2>3. CASE n > k
    <3>1. n \in positions /\ k + 1 \in 1..N /\ n \in (k + 1)..N
      BY <1>1, <2>3
    <3>2. SubSeq(list, k + 1, n) = SubSeq(list, k + 1, n - 1) \o <<list[n]>>
      BY <3>1, SubSeqRecursiveSecond
    <3>3. SubSeq(list, k + 1, n - 1) \in Seq(E) /\ list[n] \in E
      <4>1. k + 1 \in Int /\ n - 1 \in Int /\ \A i \in (k + 1)..(n - 1) : list[i] \in E
        BY <1>1
      <4> QED BY <1>1, <4>1, SubSeqProperties
    <3>4. f[n] = Append(f[n - 1], list[n])
      BY <1>2, <3>1
    <3>5. Append(f[n - 1], list[n]) = f[n - 1] \o <<list[n]>>
      BY <2>1, <3>3, AppendIsConcat
    <3> QED BY <2>1, <3>2, <3>4, <3>5
  <2> QED BY <1>1, <2>1, <2>2, <2>3
<1>6. 0..N \subseteq R
  <2> HIDE DEF R, N
  <2> QED BY <1>1, <1>4, <1>5, UpTo
<1>7. N \in R
  <2>1. N \in 0..N
    BY <1>1
  <2> HIDE DEF R
  <2> QED BY <1>6, <2>1
<1> QED BY <1>2, <1>7

(* The width of the first rows.                                             *)
LEMMA WidthsAre ==
  ASSUME NEW db, db.rows \in Seq(RowType), NEW left \in Seq(DOMAIN db.rows)
  PROVE  Widths(db, left)[0] = 0 /\ \A n \in 0..Len(left) : Widths(db, left)[n] \in Nat
<1> DEFINE N == Len(left)
           Of(n) == db.rows[left[n]].width
           At(f, n) == IF n = 0 THEN 0 ELSE f[n - 1] + Of(n)
           step == [x \in Nat \X (1..N) |-> x[1] + Of(x[2])]
           Is(f) == f = [n \in 0..N |-> At(f, n)]
<1>1. N \in Nat /\ \A n \in 1..N : n \in Nat \ {0} /\ n - 1 \in 0..N /\ n \in 0..N
  OBVIOUS
<1>2. \A n \in 1..N : Of(n) \in Nat
  <2>1. \A n \in 1..N : left[n] \in DOMAIN db.rows
    OBVIOUS
  <2>2. \A i \in DOMAIN db.rows : db.rows[i] \in RowType
    OBVIOUS
  <2>3. \A row \in RowType : row.width \in Nat
    BY DEF RowType
  <2> QED BY <2>1, <2>2, <2>3
<1> HIDE DEF Of, N
<1>3. step \in [Nat \X (1..N) -> Nat] /\ \A x \in Nat, n \in 1..N : step[<<x, n>>] = x + Of(n)
  BY <1>2
<1>4. Recursive(N, Nat, 0, step)
  <2> HIDE DEF step
  <2> QED BY <1>1, <1>3, Recursion
<1>5. \E g : Is(g)
  <2>1. PICK g \in [0..N -> Nat] : g[0] = 0 /\ \A n \in 1..N : g[n] = step[<<g[n - 1], n>>]
    BY <1>4 DEF Recursive
  <2>2. \A n \in 1..N : g[n] = g[n - 1] + Of(n)
    <3> HIDE DEF step
    <3> QED BY <1>1, <1>3, <2>1
  <2>3. \A n \in 0..N : g[n] = At(g, n)
    <3>1. \A n \in 0..N : n = 0 \/ n \in 1..N
      BY <1>1
    <3> QED BY <1>1, <2>1, <2>2, <3>1
  <2>4. Is(g)
    <3> HIDE DEF At
    <3> QED BY <2>1, <2>3
  <2> QED BY <2>4
<1>6. PICK f : Is(f) /\ f = CHOOSE g : Is(g)
  <2> HIDE DEF Is
  <2> QED BY <1>5
<1>7. Widths(db, left) = f
  BY <1>6 DEF Widths, Of, N
<1>8. \A n \in 0..N : f[n] = At(f, n)
  <2> HIDE DEF At
  <2> QED BY <1>6
<1> DEFINE R == {n \in 0..N : f[n] \in Nat}
<1>9. f[0] = 0 /\ 0 \in R
  BY <1>1, <1>8
<1>10. ASSUME NEW n \in 1..N, n - 1 \in R PROVE n \in R
  <2>1. f[n] = f[n - 1] + Of(n) /\ f[n - 1] \in Nat
    BY <1>1, <1>8, <1>10
  <2> QED BY <1>1, <1>2, <2>1
<1>11. 0..N \subseteq R
  <2> HIDE DEF R
  <2> QED BY <1>1, <1>9, <1>10, UpTo
<1> QED BY <1>7, <1>9, <1>11 DEF N

(* A page holds some of the rows that are left.                             *)
LEMMA FittingIs ==
  ASSUME NEW db, db.rows \in Seq(RowType), NEW left \in Seq(DOMAIN db.rows), NEW limit \in Nat
  PROVE  Fitting(db, left, limit) \in 0..Len(left) /\ Fitting(db, left, limit) <= limit
<1> DEFINE N == Len(left)
           width == Widths(db, left)
           Fits(n) == /\ n <= limit /\ width[n] <= PageBytes
                      /\ n < N => n = limit \/ width[n + 1] > PageBytes
           S == {n \in 0..N : n <= limit /\ width[n] <= PageBytes}
<1>1. N \in Nat /\ PageBytes \in Nat /\ width[0] = 0 /\ \A n \in 0..N : width[n] \in Nat
  BY WidthsAre, ReadingAssumption
<1> HIDE DEF N, width
<1>2. \E n \in 0..N : Fits(n)
  <2> SUFFICES ASSUME \A n \in 0..N : ~Fits(n) PROVE FALSE
    OBVIOUS
  <2>1. 0 \in S
    BY <1>1
  <2>2. ASSUME NEW n \in 1..N, n - 1 \in S PROVE n \in S
    <3>1. n - 1 \in 0..N /\ n \in 0..N /\ (n - 1) + 1 = n /\ n - 1 <= limit /\ n - 1 < N
      BY <1>1, <2>2
    <3>2. n - 1 # limit /\ ~(width[n] > PageBytes)
      BY <2>2, <3>1
    <3>3. width[n] \in Nat /\ n \in Nat
      BY <1>1, <3>1
    <3> QED BY <1>1, <3>1, <3>2, <3>3
  <2>3. 0..N \subseteq S
    <3> HIDE DEF S
    <3> QED BY <1>1, <2>1, <2>2, UpTo
  <2>4. N \in S
    <3>1. N \in 0..N
      BY <1>1
    <3> HIDE DEF S
    <3> QED BY <2>3, <3>1
  <2> QED BY <1>1, <2>4
<1>3. Fitting(db, left, limit) = CHOOSE n \in 0..N : Fits(n)
  BY DEF Fitting, N, width
<1>4. \A n \in 0..N : Fits(n) => n <= limit
  OBVIOUS
<1> HIDE DEF Fits
<1> QED BY <1>2, <1>3, <1>4 DEF N

(* The cursor is at the k-th record of the answer, or before the first.     *)
AtRecord(cursor, db, q, k) ==
  /\ k \in 0..Len(Sorted(db.rows, q))
  /\ k = 0 <=> cursor = None
  /\ k > 0 => cursor.position = Position(db.rows, q, Sorted(db.rows, q)[k])

(* The page has the records after the k-th, up to one that its cursor is at.*)
GoesOn(page, db, q, k) ==
  LET all == Sorted(db.rows, q) IN
  \E m \in k..Len(all) :
    /\ page.items = SubSeq(all, k + 1, m)
    /\ IF m = Len(all) THEN page.next = None ELSE m > k /\ page.next = Cursor(db, q, all[m])

(* A page goes on from the cursor it was given.                             *)
LEMMA PageIs ==
  ASSUME NEW db, db.rows \in Seq(RowType), NEW q, NEW limit \in Nat, NEW cursor,
         NEW k, AtRecord(cursor, db, q, k), Page(db, q, cursor, limit) # Refused
  PROVE  /\ cursor = None \/ Current(db, q, cursor)
         /\ GoesOn(Page(db, q, cursor, limit), db, q, k)
         /\ Len(Page(db, q, cursor, limit).items) <= limit
<1> DEFINE all == Sorted(db.rows, q)
           D == DOMAIN db.rows
           left == Remaining(db, q, cursor)
           n == Fitting(db, left, limit)
           page == Page(db, q, cursor, limit)
<1>1. all \in Seq(D) /\ \A m, j \in DOMAIN all : Lower(db.rows, q, all[m], all[j]) <=> m < j
  BY SortedIs
<1>0. /\ k \in 0..Len(all) /\ (k = 0 <=> cursor = None)
      /\ k > 0 => cursor.position = Position(db.rows, q, all[k])
  BY DEF AtRecord
<1> DEFINE positions == {j \in DOMAIN all :
                           cursor = None \/ Precedes(q, cursor.position, Position(db.rows, q, all[j]))}
<1>2. left = SubSeq(all, k + 1, Len(all))
  <2>1. left = Kept(all, positions)
    BY DEF Remaining
  <2>2. \A j \in 1..Len(all) : j \in positions <=> j > k
    <3>1. DOMAIN all = 1..Len(all) /\ Len(all) \in Nat /\ k \in 0..Len(all)
      BY <1>0, <1>1
    <3>2. CASE k = 0
      BY <1>0, <3>1, <3>2
    <3>3. CASE k # 0
      <4>1. k \in DOMAIN all /\ cursor # None /\ cursor.position = Position(db.rows, q, all[k])
        BY <1>0, <3>1, <3>3
      <4>2. \A j \in DOMAIN all : j \in positions <=> Lower(db.rows, q, all[k], all[j])
        BY <4>1 DEF Lower
      <4> HIDE DEF positions, all
      <4> QED BY <1>1, <3>1, <4>1, <4>2
    <3> QED BY <3>2, <3>3
  <2>3. k \in 0..Len(all)
    BY <1>0
  <2> HIDE DEF positions, all, left, D
  <2> QED BY <1>1, <2>1, <2>2, <2>3, KeptTail
<1>3. (cursor = None \/ Current(db, q, cursor)) /\ (left = << >> \/ n # 0)
      /\ page = [items |-> SubSeq(left, 1, n), ok |-> TRUE,
                 next |-> IF n < Len(left) THEN Cursor(db, q, left[n]) ELSE None]
  BY DEF Page
<1> HIDE DEF all, page, D
<1>4. /\ left \in Seq(D) /\ Len(left) = Len(all) - k
      /\ \A i \in 1..Len(left) : left[i] = all[k + i]
  <2>1. k + 1 \in Int /\ Len(all) \in Int /\ k \in 0..Len(all) /\ Len(all) \in Nat
    BY <1>0, <1>1 DEF all
  <2>2. \A i \in (k + 1)..Len(all) : all[i] \in D
    BY <1>1, <2>1
  <2>3. /\ left \in Seq(D)
        /\ Len(left) = IF k + 1 <= Len(all) THEN Len(all) - (k + 1) + 1 ELSE 0
        /\ \A i \in 1..(Len(all) - (k + 1) + 1) : left[i] = all[(k + 1) + i - 1]
    <3> HIDE DEF left
    <3> QED BY <1>2, <2>1, <2>2, SubSeqProperties
  <2>4. Len(left) = Len(all) - k
    BY <2>1, <2>3
  <2>5. \A i \in 1..Len(left) : left[i] = all[k + i]
    <3> SUFFICES ASSUME NEW i \in 1..Len(left) PROVE left[i] = all[k + i]
      OBVIOUS
    <3>1. i \in 1..(Len(all) - (k + 1) + 1) /\ (k + 1) + i - 1 = k + i
      BY <2>1, <2>4
    <3> QED BY <2>3, <3>1
  <2> QED BY <2>3, <2>4, <2>5
<1>5. n \in 0..Len(left) /\ n <= limit
  <2>1. left \in Seq(DOMAIN db.rows)
    BY <1>4 DEF D
  <2> HIDE DEF left
  <2> QED BY <2>1, FittingIs
<1> HIDE DEF left, n
<1>6. k \in Nat /\ n \in Nat /\ Len(all) \in Nat /\ Len(left) = Len(all) - k /\ n <= Len(left)
      /\ k \in 0..Len(all)
  BY <1>0, <1>1, <1>4, <1>5 DEF all
<1>7. SubSeq(left, 1, n) = SubSeq(all, k + 1, k + n)
  <2>1. CASE n = 0
    <3>1. SubSeq(left, 1, n) = << >>
      BY <1>6, <2>1, SubSeqEmpty
    <3>2. SubSeq(all, k + 1, k + n) = << >>
      <4>1. k + 1 \in Int /\ k + n \in Int /\ k + n < k + 1
        BY <1>6, <2>1
      <4> QED BY <4>1, SubSeqEmpty
    <3> QED BY <3>1, <3>2
  <2>2. CASE n # 0
    <3>1. k + 1 \in 1..Len(all) /\ Len(all) \in 1..Len(all)
          /\ 1 \in 1..(Len(all) - (k + 1) + 1) /\ n \in 1..(Len(all) - (k + 1) + 1)
          /\ (k + 1) + 1 - 1 = k + 1 /\ (k + 1) + n - 1 = k + n
      BY <1>6, <2>2
    <3>2. SubSeq(SubSeq(all, k + 1, Len(all)), 1, n) = SubSeq(all, (k + 1) + 1 - 1, (k + 1) + n - 1)
      BY <1>1, <3>1, SubSeqOfSubSeq, SMTT(30)
    <3> QED BY <1>2, <3>1, <3>2
  <2> QED BY <2>1, <2>2
<1>8. k + n \in k..Len(all) /\ page.items = SubSeq(all, k + 1, k + n)
  <2>1. page.items = SubSeq(left, 1, n)
    BY <1>3
  <2> QED BY <1>6, <1>7, <2>1
<1>9. IF k + n = Len(all) THEN page.next = None ELSE k + n > k /\ page.next = Cursor(db, q, all[k + n])
  <2>1. CASE n = Len(left)
    BY <1>3, <1>6, <2>1
  <2>2. CASE n < Len(left)
    <3>1. n # 0
      BY <1>3, <1>6, <2>2
    <3>2. left[n] = all[k + n]
      <4>1. n \in 1..Len(left)
        BY <1>6, <3>1
      <4> QED BY <1>4, <4>1
    <3> QED BY <1>3, <1>6, <2>2, <3>1, <3>2
  <2> QED BY <1>6, <2>1, <2>2
<1>10. GoesOn(page, db, q, k)
  BY <1>8, <1>9 DEF GoesOn, all
<1>11. Len(page.items) <= limit
  <2>1. page.items = SubSeq(left, 1, n) /\ 1 \in Int /\ n \in Int /\ \A i \in 1..n : left[i] \in D
    BY <1>3, <1>4, <1>6
  <2>2. Len(SubSeq(left, 1, n)) = IF 1 <= n THEN n - 1 + 1 ELSE 0
    BY <2>1, SubSeqProperties
  <2> QED BY <1>5, <1>6, <2>1, <2>2
<1> QED BY <1>3, <1>10, <1>11 DEF page

-----------------------------------------------------------------------------
(* The invariant.                                                           *)

(* The databases are what their histories end with; the history is only     *)
(* added to.                                                                *)
HistoryInv ==
  /\ cases \in [Cases -> [id : Cases, revision : Nat, head : Nat, rows : Seq(RowType)]]
  /\ history \in [Cases -> Seq(Seq(RowType))]
  /\ \A c \in Cases :
       /\ cases[c].id = c /\ cases[c].head = cases[c].revision + 1
       /\ Len(history[c]) = cases[c].revision + 1
       /\ cases[c].rows = RowsOf(c, cases[c].revision)

(* What has been read is the beginning of an answer, up to the record that  *)
(* the cursor is at, or all of it.                                          *)
ReadUpTo(items, next, c, n, q) ==
  LET rows == RowsOf(c, n)
      all == Sorted(rows, q)
  IN \E k \in 0..Len(all) :
       /\ items = SubSeq(all, 1, k)
       /\ IF next = None THEN k = Len(all)
          ELSE k > 0 /\ next = [case |-> c, revision |-> n, query |-> q,
                                position |-> Position(rows, q, all[k])]

PagerInv ==
  pager # NoWalk =>
    /\ DOMAIN pager = DOMAIN NoWalk
    /\ pager.case \in Cases /\ pager.query \in Queries
    /\ pager.revision \in 0..cases[pager.case].revision
    /\ ReadUpTo(pager.items, pager.next, pager.case, pager.revision, pager.query)

(* The first look at the revision that an operation answers for, and the    *)
(* last step that compares it; diff and search have none.                   *)
FirstLook == [collect |-> 1, export |-> 1, report |-> 1, compare |-> 1, graph |-> 1, facets |-> 1,
              originals |-> 1, metrics |-> 1, diff |-> 7, against |-> 4, search |-> 3]
LastCheck == [collect |-> 3, export |-> 6, report |-> 7, compare |-> 8, graph |-> 4, facets |-> 4,
              originals |-> 3, metrics |-> 3, diff |-> 7, against |-> 10, search |-> 3]

Anchored == {"export", "report", "against"}

(* The revision an operation answers for, which it notes first.             *)
Named == IF reader.kind = "collect" THEN reader.inner ELSE reader.outer

(* Each answer is of its own revision.                                      *)
AnswersTyped ==
  \A k \in DOMAIN reader.answers :
    /\ reader.answers[k].op \in {"walk", "page", "count"}
    /\ reader.answers[k].step \in 1..(reader.step - 1) /\ reader.answers[k].at \in 0..case.revision
AnswersHold ==
  \A k \in DOMAIN reader.answers : HoldsAt(reader.answers[k], reader.case, reader.answers[k].at)
AnswersOwn == AnswersTyped /\ AnswersHold

(* Those that are surrounded are of the one that is named.                  *)
AnswersAre ==
  \A k \in DOMAIN reader.answers :
    Surrounded(reader.kind, reader.answers[k].step) => HoldsAt(reader.answers[k], reader.case, Named)

ReaderTypes ==
  /\ DOMAIN reader = DOMAIN NoReader
  /\ reader.kind \in DOMAIN Plans /\ reader.case \in Cases
  /\ reader.queries \in Seq(QueryType) /\ reader.queries # << >>
  /\ reader.step \in 1..(Len(Plans[reader.kind]) + 1)
  /\ Len(reader.part) <= MaxCollected
  /\ {reader.outer, reader.inner, reader.anchor} \subseteq Nat
  /\ \E S : reader.answers \in Seq(S)

PartInv ==
  IF reader.cursor = None THEN reader.part = << >>
  ELSE \E n \in 0..case.revision : ReadUpTo(reader.part, reader.cursor, reader.case, n, Asked)

(* As long as the revision is the one that was noted, all answers are of    *)
(* it; after the last comparison they are whatever becomes of the case.     *)
AnswersInv ==
  /\ AnswersOwn
  /\ reader.step > FirstLook[reader.kind] => Named \in 0..case.revision /\ (Named = case.revision => AnswersAre)
  /\ reader.step > LastCheck[reader.kind] => AnswersAre

AnchorInv ==
  reader.kind \in Anchored =>
    /\ reader.step > FirstLook[reader.kind] + 1 => Named < reader.anchor /\ reader.anchor <= case.revision + 1
    /\ reader.step > LastCheck[reader.kind] => reader.anchor = Named + 1

ReaderInv == reader # NoReader => ReaderTypes /\ PartInv /\ AnswersInv /\ AnchorInv

ReadingInv == HistoryInv /\ PagerInv /\ ReaderInv

-----------------------------------------------------------------------------
(* Pages are joined.                                                        *)

LEMMA CursorIs ==
  ASSUME HistoryInv, NEW c \in Cases, NEW q \in QueryType, NEW i \in DOMAIN cases[c].rows
  PROVE  /\ Cursor(cases[c], q, i) # None
         /\ Cursor(cases[c], q, i) = [case |-> c, revision |-> cases[c].revision, query |-> q,
                                      position |-> Position(RowsOf(c, cases[c].revision), q, i)]
<1> DEFINE rows == cases[c].rows
           r == cases[c].revision
<1>1. /\ rows \in Seq(RowType) /\ r \in Nat /\ cases[c].id = c /\ rows = RowsOf(c, r)
  BY DEF HistoryInv
<1>2. i \in Nat /\ rows[i].path \in Nat /\ rows[i].mime \in Nat
  <2>1. i \in Nat /\ rows[i] \in RowType
    BY <1>1
  <2> QED BY <2>1 DEF RowType
<1>3. Position(rows, q, i) \in Seq(Nat)
  <2> HIDE DEF rows
  <2> QED BY <1>2 DEF Position
<1>4. Cursor(cases[c], q, i) = [case |-> c, revision |-> r, query |-> q, position |-> Position(rows, q, i)]
  BY <1>1 DEF Cursor
<1>5. [case |-> c, revision |-> r, query |-> q, position |-> Position(rows, q, i)]
        \in [case : Cases, revision : Nat, query : QueryType, position : Seq(Nat)]
  <2> HIDE DEF rows, r
  <2> QED BY <1>1, <1>3
<1> QED BY <1>1, <1>4, <1>5, ReadingAssumption

LEMMA FirstPageIs ==
  ASSUME HistoryInv, NEW c \in Cases, NEW q \in QueryType, Page(cases[c], q, None, Limit) # Refused
  PROVE  LET page == Page(cases[c], q, None, Limit)
         IN  ReadUpTo(page.items, page.next, c, cases[c].revision, q)
<1> DEFINE page == Page(cases[c], q, None, Limit)
           r == cases[c].revision
           rows == RowsOf(c, r)
           all == Sorted(rows, q)
<1>1. rows \in Seq(RowType) /\ cases[c].rows = rows /\ Limit \in Nat
  BY ReadingAssumption DEF HistoryInv
<1>2. all \in Seq(DOMAIN rows)
  BY <1>1, SortedIs
<1>3. PICK m \in 0..Len(all) :
        /\ page.items = SubSeq(all, 1, m)
        /\ IF m = Len(all) THEN page.next = None ELSE m > 0 /\ page.next = Cursor(cases[c], q, all[m])
  <2>1. AtRecord(None, cases[c], q, 0)
    BY <1>1, <1>2 DEF AtRecord
  <2>2. GoesOn(page, cases[c], q, 0)
    BY <1>1, <2>1, PageIs
  <2> QED BY <1>1, <2>2 DEF GoesOn
<1>4. m = Len(all) \/ m \in DOMAIN all
  <2> HIDE DEF all
  <2> QED BY <1>2, <1>3
<1>5. CASE m = Len(all)
  BY <1>3, <1>5 DEF ReadUpTo
<1>6. CASE m # Len(all)
  <2>1. all[m] \in DOMAIN cases[c].rows
    <3> HIDE DEF all, rows
    <3> QED BY <1>1, <1>2, <1>4, <1>6
  <2>2. page.next # None /\ page.next = [case |-> c, revision |-> r, query |-> q,
                                         position |-> Position(rows, q, all[m])]
    BY <1>3, <1>6, <2>1, CursorIs
  <2>3. IF page.next = None THEN m = Len(all)
        ELSE m > 0 /\ page.next = [case |-> c, revision |-> r, query |-> q,
                                   position |-> Position(rows, q, all[m])]
    BY <1>3, <1>6, <2>2
  <2>4. ReadUpTo(page.items, page.next, c, r, q)
    <3> HIDE DEF page
    <3> QED BY <1>3, <2>3 DEF ReadUpTo
  <2> QED BY <2>4
<1> QED BY <1>5, <1>6

LEMMA NextPageIs ==
  ASSUME HistoryInv, NEW c \in Cases, NEW q \in QueryType,
         NEW d \in Cases, NEW n \in 0..cases[d].revision, NEW p,
         NEW items, NEW cursor, cursor # None, ReadUpTo(items, cursor, d, n, p),
         Page(cases[c], q, cursor, Limit) # Refused
  PROVE  LET page == Page(cases[c], q, cursor, Limit)
         IN  /\ c = d /\ n = cases[c].revision /\ q = p
             /\ ReadUpTo(items \o page.items, page.next, c, n, q)
<1> DEFINE page == Page(cases[c], q, cursor, Limit)
           r == cases[c].revision
           rows == RowsOf(c, r)
           all == Sorted(rows, q)
<1>1. rows \in Seq(RowType) /\ cases[c].rows = rows /\ cases[c].id = c /\ Limit \in Nat
  BY ReadingAssumption DEF HistoryInv
<1>2. all \in Seq(DOMAIN rows)
  BY <1>1, SortedIs
<1>3. PICK k \in 0..Len(Sorted(RowsOf(d, n), p)) :
        /\ items = SubSeq(Sorted(RowsOf(d, n), p), 1, k) /\ k > 0
        /\ cursor = [case |-> d, revision |-> n, query |-> p,
                     position |-> Position(RowsOf(d, n), p, Sorted(RowsOf(d, n), p)[k])]
  BY DEF ReadUpTo
<1>4. c = d /\ n = r /\ q = p
  <2>1. Current(cases[c], q, cursor)
    BY DEF Page
  <2> QED BY <1>1, <1>3, <2>1 DEF Current
<1>5. /\ k \in 0..Len(all) /\ k > 0 /\ items = SubSeq(all, 1, k)
      /\ cursor.position = Position(rows, q, all[k])
  BY <1>3, <1>4
<1>6. PICK m \in k..Len(all) :
        /\ page.items = SubSeq(all, k + 1, m)
        /\ IF m = Len(all) THEN page.next = None ELSE m > 0 /\ page.next = Cursor(cases[c], q, all[m])
  <2>1. AtRecord(cursor, cases[c], q, k)
    BY <1>1, <1>5 DEF AtRecord
  <2>2. GoesOn(page, cases[c], q, k)
    BY <1>1, <2>1, PageIs
  <2> QED BY <1>1, <2>2 DEF GoesOn
<1> HIDE DEF all
<1>7. m \in 0..Len(all) /\ (m = Len(all) \/ m \in DOMAIN all)
  BY <1>2, <1>5, <1>6
<1>8. items \o page.items = SubSeq(all, 1, m)
  <2>1. 1 \in 1..(Len(all) + 1) /\ k \in (1 - 1)..Len(all) /\ m \in k..Len(all)
    BY <1>2, <1>5, <1>6
  <2>2. SubSeq(all, 1, k) \o SubSeq(all, k + 1, m) = SubSeq(all, 1, m)
    <3> HIDE DEF rows
    <3> QED BY <1>2, <2>1, ConcatAdjacentSubSeq
  <2> QED BY <1>5, <1>6, <2>2
<1>9. IF page.next = None THEN m = Len(all)
      ELSE m > 0 /\ page.next = [case |-> c, revision |-> r, query |-> q, position |-> Position(rows, q, all[m])]
  <2>1. CASE m = Len(all)
    BY <1>6, <2>1
  <2>2. CASE m # Len(all)
    <3>1. all[m] \in DOMAIN cases[c].rows
      <4> HIDE DEF rows
      <4> QED BY <1>1, <1>2, <1>7, <2>2
    <3>2. page.next # None /\ page.next = [case |-> c, revision |-> r, query |-> q,
                                           position |-> Position(rows, q, all[m])]
      BY <1>6, <2>2, <3>1, CursorIs
    <3> QED BY <1>6, <2>2, <3>2
  <2> QED BY <2>1, <2>2
<1>10. ReadUpTo(items \o page.items, page.next, c, r, q)
  <2> HIDE DEF page
  <2> QED BY <1>7, <1>8, <1>9 DEF ReadUpTo, all
<1> QED BY <1>4, <1>10

-----------------------------------------------------------------------------
(* The cases are written to.                                                *)

LEMMA WritesAre ==
  ASSUME NEW rows \in Seq(RowType), NEW after \in Writes(rows)
  PROVE  after \in Seq(RowType)
<1>1. CASE after \in {Append(rows, r) : r \in Inserts}
  BY <1>1, ReadingAssumption
<1>2. CASE after \in {[rows EXCEPT ![i].noted = ~@] : i \in DOMAIN rows}
  <2>1. PICK i \in DOMAIN rows : after = [rows EXCEPT ![i].noted = ~@]
    BY <1>2
  <2>2. rows[i] \in RowType
    OBVIOUS
  <2>3. [rows[i] EXCEPT !.noted = ~@] \in RowType
    BY <2>2 DEF RowType
  <2>4. after = [rows EXCEPT ![i] = [rows[i] EXCEPT !.noted = ~@]]
    BY <2>1
  <2> QED BY <2>3, <2>4
<1> QED BY <1>1, <1>2 DEF Writes

(* What the rows were at a revision is never changed.                       *)
LEMMA HistoryGrows ==
  ASSUME HistoryInv, NEW c \in Cases, Write(c)
  PROVE  /\ HistoryInv'
         /\ \A d \in Cases : /\ cases[d].revision \in Nat /\ cases'[d].revision \in Nat
                              /\ cases[d].revision <= cases'[d].revision
                              /\ \A n \in 0..cases[d].revision : RowsOf(d, n)' = RowsOf(d, n)
<1>1. PICK rows \in Writes(cases[c].rows) :
        /\ cases' = [cases EXCEPT ![c].rows = rows, ![c].revision = @ + 1, ![c].head = @ + 1]
        /\ history' = [history EXCEPT ![c] = Append(@, rows)]
  BY DEF Write
<1>2. rows \in Seq(RowType)
  BY WritesAre DEF HistoryInv
<1>3. PICK r \in Nat, past \in Seq(Seq(RowType)) :
        /\ r = cases[c].revision /\ past = history[c] /\ Len(past) = r + 1
        /\ cases[c].id = c /\ cases[c].head = r + 1
  BY DEF HistoryInv
<1>4. /\ cases' \in [Cases -> [id : Cases, revision : Nat, head : Nat, rows : Seq(RowType)]]
      /\ cases'[c] = [id |-> c, revision |-> r + 1, head |-> r + 2, rows |-> rows]
      /\ \A d \in Cases : d # c => cases'[d] = cases[d]
  <2>1. cases'[c] = [id |-> c, revision |-> r + 1, head |-> r + 2, rows |-> rows]
    BY <1>1, <1>3 DEF HistoryInv
  <2>2. cases' = [cases EXCEPT ![c] = cases'[c]]
    BY <1>1 DEF HistoryInv
  <2>3. PICK v : v = cases'[c]
    OBVIOUS
  <2>4. v \in [id : Cases, revision : Nat, head : Nat, rows : Seq(RowType)]
    BY <1>2, <1>3, <2>1, <2>3
  <2>5. cases \in [Cases -> [id : Cases, revision : Nat, head : Nat, rows : Seq(RowType)]]
    BY DEF HistoryInv
  <2> QED BY <2>1, <2>2, <2>3, <2>4, <2>5
<1>5. /\ history' \in [Cases -> Seq(Seq(RowType))]
      /\ history'[c] = Append(past, rows)
      /\ \A d \in Cases : d # c => history'[d] = history[d]
  BY <1>1, <1>2, <1>3 DEF HistoryInv
<1>6. /\ Len(Append(past, rows)) = r + 2 /\ Append(past, rows)[r + 2] = rows
      /\ \A n \in 0..r : Append(past, rows)[n + 1] = past[n + 1]
  BY <1>2, <1>3, SMTT(30)
<1>7. HistoryInv'
  <2>1. /\ cases'[c].id = c /\ cases'[c].head = cases'[c].revision + 1
        /\ Len(history'[c]) = cases'[c].revision + 1
        /\ cases'[c].rows = history'[c][cases'[c].revision + 1]
    <3>1. /\ cases'[c].id = c /\ cases'[c].head = r + 2 /\ cases'[c].revision = r + 1
          /\ cases'[c].rows = rows /\ (r + 1) + 1 = r + 2
      BY <1>3, <1>4
    <3> QED BY <1>5, <1>6, <3>1
  <2>2. \A d \in Cases : d # c =>
          /\ cases'[d].id = d /\ cases'[d].head = cases'[d].revision + 1
          /\ Len(history'[d]) = cases'[d].revision + 1
          /\ cases'[d].rows = history'[d][cases'[d].revision + 1]
    BY <1>4, <1>5 DEF HistoryInv, RowsOf
  <2> QED BY <1>4, <1>5, <2>1, <2>2 DEF HistoryInv, RowsOf
<1>8. ASSUME NEW d \in Cases
      PROVE  /\ cases[d].revision \in Nat /\ cases'[d].revision \in Nat
             /\ cases[d].revision <= cases'[d].revision
             /\ \A n \in 0..cases[d].revision : RowsOf(d, n)' = RowsOf(d, n)
  <2>1. CASE d = c
    <3>1. cases[d].revision = r /\ cases'[d].revision = r + 1
      BY <1>3, <1>4, <2>1
    <3>2. \A n \in 0..r : history'[d][n + 1] = history[d][n + 1]
      BY <1>3, <1>5, <1>6, <2>1
    <3> QED BY <1>3, <3>1, <3>2 DEF RowsOf
  <2>2. CASE d # c
    <3>1. cases[d].revision \in Nat
      BY DEF HistoryInv
    <3> QED BY <1>4, <1>5, <2>2, <3>1 DEF RowsOf
  <2> QED BY <2>1, <2>2
<1> QED BY <1>7, <1>8

LEMMA WriteStep ==
  ASSUME ReadingInv, NEW c \in Cases, Write(c)
  PROVE  ReadingInv'
<1>1. /\ HistoryInv'
      /\ \A d \in Cases : /\ cases[d].revision \in Nat /\ cases'[d].revision \in Nat
                           /\ cases[d].revision <= cases'[d].revision
                           /\ \A n \in 0..cases[d].revision : RowsOf(d, n)' = RowsOf(d, n)
  BY HistoryGrows DEF ReadingInv
<1>2. pager' = pager /\ reader' = reader
  BY DEF Write
<1>3. \A d \in Cases : \A n \in 0..cases[d].revision :
        n \in 0..cases'[d].revision /\
        \A items, next, q : ReadUpTo(items, next, d, n, q)' <=> ReadUpTo(items, next, d, n, q)
  <2>1. \A d \in Cases : \A n \in 0..cases[d].revision :
          \A items, next, q : ReadUpTo(items, next, d, n, q)' <=> ReadUpTo(items, next, d, n, q)
    BY <1>1 DEF ReadUpTo
  <2> QED BY <1>1, <2>1
<1>4. PagerInv'
  <2>1. PagerInv
    BY DEF ReadingInv
  <2> QED BY <1>2, <1>3, <2>1 DEF PagerInv
<1>5. ASSUME reader # NoReader PROVE (ReaderTypes /\ PartInv /\ AnswersInv /\ AnchorInv)'
  <2> DEFINE r == case.revision
  <2>1. ReaderTypes /\ PartInv /\ AnswersInv /\ AnchorInv
    BY <1>5 DEF ReadingInv, ReaderInv
  <2>2. r \in Nat /\ r' \in Nat /\ r <= r' /\ reader.case \in Cases /\ Named' = Named /\ Asked' = Asked
    BY <1>1, <1>2, <2>1 DEF ReaderTypes, case, Named, Asked
  <2>3. ReaderTypes'
    BY <1>2, <2>1 DEF ReaderTypes
  <2>4. PartInv'
    BY <1>2, <1>3, <2>1, <2>2 DEF PartInv, case
  <2>5. Named \in 0..r => (AnswersAre' <=> AnswersAre)
    <3>1. r = cases[reader.case].revision
      BY DEF case
    <3>2. ASSUME Named \in 0..r
          PROVE  \A answer : HoldsAt(answer, reader.case, Named)' <=> HoldsAt(answer, reader.case, Named)
      BY <1>1, <1>2, <2>2, <3>1, <3>2 DEF HoldsAt
    <3>3. \A step : Surrounded(reader.kind, step)' <=> Surrounded(reader.kind, step)
      BY <1>2 DEF Surrounded
    <3> QED BY <1>2, <3>2, <3>3 DEF AnswersAre
  <2>6. /\ FirstLook[reader.kind] \in 1..7 /\ LastCheck[reader.kind] \in 3..10
        /\ FirstLook[reader.kind] <= LastCheck[reader.kind] /\ reader.step \in Nat
    <3>1. reader.kind \in DOMAIN Plans /\ reader.step \in Nat
      BY <2>1 DEF ReaderTypes
    <3> QED BY <3>1 DEF FirstLook, LastCheck, Plans
  <2>9. AnswersOwn'
    <3>1. \A k \in DOMAIN reader.answers :
            reader.answers[k].at \in 0..r => reader.answers[k].at \in 0..r' /\ reader.answers[k].at \in 0..cases[reader.case].revision
      BY <2>2 DEF case
    <3>2. \A k \in DOMAIN reader.answers : reader.answers[k].at \in 0..r =>
            (HoldsAt(reader.answers[k], reader.case, reader.answers[k].at)' <=>
               HoldsAt(reader.answers[k], reader.case, reader.answers[k].at))
      BY <1>1, <1>2, <2>2, <3>1 DEF HoldsAt
    <3> QED BY <1>2, <2>1, <3>1, <3>2 DEF AnswersInv, AnswersOwn, AnswersTyped, AnswersHold
  <2> HIDE DEF r
  <2>7. AnswersInv'
    <3>1. reader.step > FirstLook[reader.kind] => Named \in 0..r /\ (Named = r => AnswersAre)
      BY <2>1 DEF AnswersInv, r
    <3>2. reader.step > FirstLook[reader.kind] => Named \in 0..r' /\ (Named = r' => AnswersAre')
      BY <2>2, <2>5, <3>1
    <3>3. reader.step > LastCheck[reader.kind] => AnswersAre'
      BY <2>1, <2>5, <2>6, <3>1 DEF AnswersInv
    <3> QED BY <1>2, <2>1, <2>2, <2>9, <3>2, <3>3 DEF AnswersInv, r
  <2>8. AnchorInv'
    <3>1. reader.anchor \in Nat
      BY <2>1 DEF ReaderTypes
    <3> QED BY <1>2, <2>1, <2>2, <3>1 DEF AnchorInv, r
  <2> QED BY <2>3, <2>4, <2>7, <2>8
<1> QED BY <1>1, <1>2, <1>4, <1>5 DEF ReadingInv, ReaderInv

-----------------------------------------------------------------------------
(* What the operations do, and in which order.                              *)
LEMMA PlansAre ==
  ASSUME NEW kind \in DOMAIN Plans, NEW step \in 1..Len(Plans[kind])
  PROVE  LET op == Plans[kind][step]
             first == FirstLook[kind]
             last == LastCheck[kind]
         IN  /\ first \in 1..7 /\ last \in 3..10 /\ first <= last
             /\ Len(Plans[kind]) \in Nat /\ (kind \in Anchored => first + 2 < last)
             /\ op = "info" => kind # "collect" /\ step = first /\ step < last
             /\ op = "begin" => step < last /\ (IF kind = "collect" THEN step = first
                                              ELSE step < first \/ (first < step /\ kind \notin Anchored))
             /\ op = "verify" => kind \in Anchored /\ step = first + 1
             /\ kind \in Anchored /\ step = first + 1 => op = "verify"
             /\ op = "check" => kind # "collect" /\ first < step
             /\ op = "end" => IF kind = "collect" THEN step = last
                              ELSE step < first \/ (first < step /\ step < last)
             /\ op = "head" => kind \in Anchored /\ first + 1 < step /\ step # last
             /\ op \in {"walk", "page", "count"} => step # first /\ step # last
             /\ step = first => op = "info" \/ (kind = "collect" /\ op = "begin")
             /\ step = last => op = "check" \/ (kind = "collect" /\ op = "end")
             /\ Surrounded(kind, step) /\ op \in {"walk", "page", "count"} => first < step /\ step < last
<1> DEFINE op == Plans[kind][step]
<1>1. kind \in {"collect", "export", "report", "compare", "graph", "facets",
            "originals", "metrics", "diff", "against", "search"}
  BY DEF Plans
<1>2. CASE kind = "collect"
  <2>1. /\ Plans[kind] = <<"begin", "walk", "end">>
        /\ FirstLook[kind] = 1 /\ LastCheck[kind] = 3
    BY <1>2 DEF Plans, FirstLook, LastCheck
  <2>2. step \in {1, 2, 3} /\ Len(Plans[kind]) = 3
    BY <2>1
  <2> QED BY <1>2, <2>1, <2>2 DEF Anchored
<1>3. CASE kind = "export"
  <2>1. /\ Plans[kind] = <<"info", "verify", "check", "head", "walk", "check", "head">>
        /\ FirstLook[kind] = 1 /\ LastCheck[kind] = 6
    BY <1>3 DEF Plans, FirstLook, LastCheck
  <2>2. step \in {1, 2, 3, 4, 5, 6, 7} /\ Len(Plans[kind]) = 7
    BY <2>1
  <2>3. Surrounded(kind, step) /\ op \in {"walk", "page", "count"} => FirstLook[kind] < step /\ step < LastCheck[kind]
    BY <1>3, <2>1, <2>2 DEF Surrounded
  <2> QED BY <1>3, <2>1, <2>2, <2>3 DEF Anchored
<1>4. CASE kind = "report"
  <2>1. /\ Plans[kind] = <<"info", "verify", "check", "head", "count", "walk", "check", "head">>
        /\ FirstLook[kind] = 1 /\ LastCheck[kind] = 7
    BY <1>4 DEF Plans, FirstLook, LastCheck
  <2>2. step \in {1, 2, 3, 4, 5, 6, 7, 8} /\ Len(Plans[kind]) = 8
    BY <2>1
  <2>3. Surrounded(kind, step) /\ op \in {"walk", "page", "count"} => FirstLook[kind] < step /\ step < LastCheck[kind]
    BY <1>4, <2>1, <2>2 DEF Surrounded
  <2> QED BY <1>4, <2>1, <2>2, <2>3 DEF Anchored
<1>5. CASE kind = "compare"
  <2>1. /\ Plans[kind] = <<"info", "begin", "walk", "end", "begin", "walk", "end", "check">>
        /\ FirstLook[kind] = 1 /\ LastCheck[kind] = 8
    BY <1>5 DEF Plans, FirstLook, LastCheck
  <2>2. step \in {1, 2, 3, 4, 5, 6, 7, 8} /\ Len(Plans[kind]) = 8
    BY <2>1
  <2>3. Surrounded(kind, step) /\ op \in {"walk", "page", "count"} => FirstLook[kind] < step /\ step < LastCheck[kind]
    BY <1>5, <2>1, <2>2 DEF Surrounded
  <2> QED BY <1>5, <2>1, <2>2, <2>3 DEF Anchored
<1>6. CASE kind = "graph"
  <2>1. /\ Plans[kind] = <<"info", "count", "page", "check">>
        /\ FirstLook[kind] = 1 /\ LastCheck[kind] = 4
    BY <1>6 DEF Plans, FirstLook, LastCheck
  <2>2. step \in {1, 2, 3, 4} /\ Len(Plans[kind]) = 4
    BY <2>1
  <2>3. Surrounded(kind, step) /\ op \in {"walk", "page", "count"} => FirstLook[kind] < step /\ step < LastCheck[kind]
    BY <1>6, <2>1, <2>2 DEF Surrounded
  <2> QED BY <1>6, <2>1, <2>2, <2>3 DEF Anchored
<1>7. CASE kind = "facets"
  <2>1. /\ Plans[kind] = <<"info", "count", "count", "check">>
        /\ FirstLook[kind] = 1 /\ LastCheck[kind] = 4
    BY <1>7 DEF Plans, FirstLook, LastCheck
  <2>2. step \in {1, 2, 3, 4} /\ Len(Plans[kind]) = 4
    BY <2>1
  <2>3. Surrounded(kind, step) /\ op \in {"walk", "page", "count"} => FirstLook[kind] < step /\ step < LastCheck[kind]
    BY <1>7, <2>1, <2>2 DEF Surrounded
  <2> QED BY <1>7, <2>1, <2>2, <2>3 DEF Anchored
<1>8. CASE kind = "originals"
  <2>1. /\ Plans[kind] = <<"info", "walk", "check">>
        /\ FirstLook[kind] = 1 /\ LastCheck[kind] = 3
    BY <1>8 DEF Plans, FirstLook, LastCheck
  <2>2. step \in {1, 2, 3} /\ Len(Plans[kind]) = 3
    BY <2>1
  <2>3. Surrounded(kind, step) /\ op \in {"walk", "page", "count"} => FirstLook[kind] < step /\ step < LastCheck[kind]
    BY <1>8, <2>1, <2>2 DEF Surrounded
  <2> QED BY <1>8, <2>1, <2>2, <2>3 DEF Anchored
<1>9. CASE kind = "metrics"
  <2>1. /\ Plans[kind] = <<"info", "count", "check", "count">>
        /\ FirstLook[kind] = 1 /\ LastCheck[kind] = 3
    BY <1>9 DEF Plans, FirstLook, LastCheck
  <2>2. step \in {1, 2, 3, 4} /\ Len(Plans[kind]) = 4
    BY <2>1
  <2>3. Surrounded(kind, step) /\ op \in {"walk", "page", "count"} => FirstLook[kind] < step /\ step < LastCheck[kind]
    BY <1>9, <2>1, <2>2 DEF Surrounded
  <2> QED BY <1>9, <2>1, <2>2, <2>3 DEF Anchored
<1>10. CASE kind = "diff"
  <2>1. /\ Plans[kind] = <<"begin", "walk", "end", "begin", "walk", "end">>
        /\ FirstLook[kind] = 7 /\ LastCheck[kind] = 7
    BY <1>10 DEF Plans, FirstLook, LastCheck
  <2>2. step \in {1, 2, 3, 4, 5, 6} /\ Len(Plans[kind]) = 6
    BY <2>1
  <2>3. Surrounded(kind, step) /\ op \in {"walk", "page", "count"} => FirstLook[kind] < step /\ step < LastCheck[kind]
    BY <1>10, <2>1, <2>2 DEF Surrounded
  <2> QED BY <1>10, <2>1, <2>2, <2>3 DEF Anchored
<1>11. CASE kind = "against"
  <2>1. /\ Plans[kind] = <<"begin", "walk", "end", "info",
                        "verify", "check", "head", "count", "walk", "check", "head">>
        /\ FirstLook[kind] = 4 /\ LastCheck[kind] = 10
    BY <1>11 DEF Plans, FirstLook, LastCheck
  <2>2. step \in {1, 2, 3, 4, 5, 6, 7, 8, 9, 10, 11} /\ Len(Plans[kind]) = 11
    BY <2>1
  <2>3. Surrounded(kind, step) /\ op \in {"walk", "page", "count"} => FirstLook[kind] < step /\ step < LastCheck[kind]
    BY <1>11, <2>1, <2>2 DEF Surrounded
  <2> QED BY <1>11, <2>1, <2>2, <2>3 DEF Anchored
<1>12. CASE kind = "search"
  <2>1. /\ Plans[kind] = <<"page", "count">>
        /\ FirstLook[kind] = 3 /\ LastCheck[kind] = 3
    BY <1>12 DEF Plans, FirstLook, LastCheck
  <2>2. step \in {1, 2} /\ Len(Plans[kind]) = 2
    BY <2>1
  <2>3. Surrounded(kind, step) /\ op \in {"walk", "page", "count"} => FirstLook[kind] < step /\ step < LastCheck[kind]
    BY <1>12, <2>1, <2>2 DEF Surrounded
  <2> QED BY <1>12, <2>1, <2>2, <2>3 DEF Anchored
<1> QED BY <1>1, <1>2, <1>3, <1>4, <1>5, <1>6, <1>7, <1>8, <1>9, <1>10, <1>11, <1>12

LEMMA PlanSizes ==
  ASSUME NEW kind \in DOMAIN Plans
  PROVE  /\ Len(Plans[kind]) \in 2..11 /\ FirstLook[kind] \in 1..7 /\ LastCheck[kind] \in 3..10
         /\ LastCheck[kind] <= Len(Plans[kind]) + 1
         /\ LastCheck[kind] = Len(Plans[kind]) + 1 => kind \in {"diff", "search"}
         /\ kind \in {"diff", "search"} => FirstLook[kind] = LastCheck[kind]
<1>1. kind \in {"collect", "export", "report", "compare", "graph", "facets",
            "originals", "metrics", "diff", "against", "search"}
  BY DEF Plans
<1>2. CASE kind = "collect"
  BY <1>2 DEF Plans, FirstLook, LastCheck
<1>3. CASE kind = "export"
  BY <1>3 DEF Plans, FirstLook, LastCheck
<1>4. CASE kind = "report"
  BY <1>4 DEF Plans, FirstLook, LastCheck
<1>5. CASE kind = "compare"
  BY <1>5 DEF Plans, FirstLook, LastCheck
<1>6. CASE kind = "graph"
  BY <1>6 DEF Plans, FirstLook, LastCheck
<1>7. CASE kind = "facets"
  BY <1>7 DEF Plans, FirstLook, LastCheck
<1>8. CASE kind = "originals"
  BY <1>8 DEF Plans, FirstLook, LastCheck
<1>9. CASE kind = "metrics"
  BY <1>9 DEF Plans, FirstLook, LastCheck
<1>10. CASE kind = "diff"
  BY <1>10 DEF Plans, FirstLook, LastCheck
<1>11. CASE kind = "against"
  BY <1>11 DEF Plans, FirstLook, LastCheck
<1>12. CASE kind = "search"
  BY <1>12 DEF Plans, FirstLook, LastCheck
<1> QED BY <1>1, <1>2, <1>3, <1>4, <1>5, <1>6, <1>7, <1>8, <1>9, <1>10, <1>11, <1>12

(* An operation under way: what is due, and what holds of it.               *)
UnderWay(op) ==
  /\ HistoryInv /\ PagerInv /\ ReaderTypes /\ PartInv /\ AnswersInv /\ AnchorInv
  /\ reader.step \in 1..Len(Plans[reader.kind]) /\ Plans[reader.kind][reader.step] = op
  /\ case = cases[reader.case] /\ case.revision \in Nat /\ case.head = case.revision + 1
  /\ Asked \in QueryType
  /\ reader.kind # None

LEMMA StepIs ==
  ASSUME NEW op, UnderWay(op)
  PROVE  LET kind == reader.kind
             step == reader.step
             first == FirstLook[kind]
             last == LastCheck[kind]
         IN  /\ kind \in DOMAIN Plans /\ step \in Nat \ {0} /\ step <= Len(Plans[kind])
             /\ first \in 1..7 /\ last \in 3..10 /\ first <= last
             /\ Len(Plans[kind]) \in Nat /\ (kind \in Anchored => first + 2 < last)
             /\ op = "info" => kind # "collect" /\ step = first /\ step < last
             /\ op = "begin" => step < last /\ (IF kind = "collect" THEN step = first
                                              ELSE step < first \/ (first < step /\ kind \notin Anchored))
             /\ op = "verify" => kind \in Anchored /\ step = first + 1
             /\ kind \in Anchored /\ step = first + 1 => op = "verify"
             /\ op = "check" => kind # "collect" /\ first < step
             /\ op = "end" => IF kind = "collect" THEN step = last
                              ELSE step < first \/ (first < step /\ step < last)
             /\ op = "head" => kind \in Anchored /\ first + 1 < step /\ step # last
             /\ op \in {"walk", "page", "count"} => step # first /\ step # last
             /\ step = first => op = "info" \/ (kind = "collect" /\ op = "begin")
             /\ step = last => op = "check" \/ (kind = "collect" /\ op = "end")
             /\ Surrounded(kind, step) /\ op \in {"walk", "page", "count"} => first < step /\ step < last
<1>1. PICK kind \in DOMAIN Plans : kind = reader.kind
  BY DEF UnderWay, ReaderTypes
<1>2. PICK step \in 1..Len(Plans[kind]) : step = reader.step /\ Plans[kind][step] = op
  BY <1>1 DEF UnderWay
<1>3. Len(Plans[kind]) \in Nat
  BY PlansAre
<1>4. step \in Nat \ {0} /\ step <= Len(Plans[kind])
  BY <1>3
<1> QED BY <1>1, <1>2, <1>3, <1>4, PlansAre

LEMMA DueIs ==
  ASSUME ReadingInv, NEW op, Due(op)
  PROVE  UnderWay(op)
<1>1. reader.kind # None /\ ~(reader.step > Len(Plans[reader.kind])) /\ Plans[reader.kind][reader.step] = op
  BY DEF Due, Done
<1>2. HistoryInv /\ PagerInv /\ ReaderTypes /\ PartInv /\ AnswersInv /\ AnchorInv
  <2>1. reader # NoReader
    BY <1>1 DEF NoReader
  <2> QED BY <2>1 DEF ReadingInv, ReaderInv
<1>3. reader.step \in 1..Len(Plans[reader.kind])
  <2>1. reader.kind \in DOMAIN Plans /\ reader.step \in 1..(Len(Plans[reader.kind]) + 1)
    BY <1>2 DEF ReaderTypes
  <2>2. Len(Plans[reader.kind]) \in Nat
    BY <2>1 DEF Plans
  <2> QED BY <1>1, <2>1, <2>2
<1>4. case = cases[reader.case] /\ case.revision \in Nat /\ case.head = case.revision + 1
  BY <1>2 DEF case, HistoryInv, ReaderTypes
<1>5. Asked \in QueryType
  <2>1. reader.queries \in Seq(QueryType) /\ reader.queries # << >>
    BY <1>2 DEF ReaderTypes
  <2> QED BY <2>1 DEF Asked
<1> QED BY <1>1, <1>2, <1>3, <1>4, <1>5 DEF UnderWay

(* The case is as it was, whatever has been read of it.                     *)
LEMMA SameCases ==
  ASSUME HistoryInv, PagerInv, UNCHANGED <<cases, history, pager>>
  PROVE  /\ HistoryInv' /\ PagerInv'
         /\ \A items, next, c, n, q : ReadUpTo(items, next, c, n, q)' <=> ReadUpTo(items, next, c, n, q)
         /\ \A answer, c, n : HoldsAt(answer, c, n)' <=> HoldsAt(answer, c, n)
<1>1. \A items, next, c, n, q : ReadUpTo(items, next, c, n, q)' <=> ReadUpTo(items, next, c, n, q)
  BY DEF ReadUpTo, RowsOf
<1>2. \A answer, c, n : HoldsAt(answer, c, n)' <=> HoldsAt(answer, c, n)
  BY DEF HoldsAt, RowsOf
<1>3. HistoryInv'
  <2>1. cases' = cases /\ \A c, n : RowsOf(c, n)' = RowsOf(c, n)
    BY DEF RowsOf
  <2> QED BY <2>1 DEF HistoryInv
<1>4. PagerInv'
  BY <1>1 DEF PagerInv
<1> QED BY <1>1, <1>2, <1>3, <1>4

(* Nothing is known of an operation that was given up.                      *)
LEMMA GiveUpStep == ASSUME ReadingInv, GiveUp PROVE ReadingInv'
<1>1. HistoryInv' /\ PagerInv'
  BY SameCases DEF GiveUp, ReadingInv
<1> QED BY <1>1 DEF GiveUp, ReadingInv, ReaderInv

(* An operation that goes on with the next step.                            *)
LEMMA Proceeds ==
  ASSUME NEW op, UnderWay(op), UNCHANGED <<cases, history, pager>>,
         reader'.kind = reader.kind, reader'.case = reader.case, reader'.step = reader.step + 1,
         ReaderTypes', PartInv', AnswersOwn',
         reader.step >= FirstLook[reader.kind] =>
           Named' \in 0..case.revision /\ (Named' = case.revision => AnswersAre'),
         reader.step >= LastCheck[reader.kind] => AnswersAre',
         reader.kind \in Anchored /\ reader.step > FirstLook[reader.kind] =>
           Named' < reader'.anchor /\ reader'.anchor <= case.revision + 1,
         reader.kind \in Anchored /\ reader.step >= LastCheck[reader.kind] =>
           reader'.anchor = Named' + 1
  PROVE  ReadingInv'
<1>1. HistoryInv' /\ PagerInv'
  BY SameCases DEF UnderWay
<1>2. case' = case
  BY DEF case
<1>3. reader.step \in Nat \ {0} /\ LastCheck[reader.kind] \in 3..10 /\ FirstLook[reader.kind] \in 1..7
  BY StepIs
<1>4. AnswersInv'
  BY <1>2, <1>3 DEF AnswersInv
<1>5. AnchorInv'
  BY <1>2, <1>3 DEF AnchorInv
<1> QED BY <1>1, <1>4, <1>5 DEF ReadingInv, ReaderInv

(* The answers that there are stay what they are.                           *)
LEMMA AnswersKept ==
  ASSUME NEW op, UnderWay(op), UNCHANGED <<cases, history, pager>>,
         reader'.kind = reader.kind, reader'.case = reader.case, reader'.answers = reader.answers,
         reader'.step \in {reader.step, reader.step + 1}
  PROVE  AnswersOwn' /\ (Named' = Named => (AnswersAre' <=> AnswersAre))
<1>1. reader.step \in Nat /\ case' = case
  BY StepIs DEF case
<1>2. AnswersOwn
  BY DEF UnderWay, AnswersInv
<1>3. \A answer, c, n : HoldsAt(answer, c, n)' <=> HoldsAt(answer, c, n)
  BY SameCases DEF UnderWay
<1>4. \A m \in 1..(reader.step - 1) : m \in 1..(reader'.step - 1)
  BY <1>1
<1>5. AnswersOwn'
  BY <1>1, <1>2, <1>3, <1>4 DEF AnswersOwn, AnswersTyped, AnswersHold
<1>6. Named' = Named => (AnswersAre' <=> AnswersAre)
  BY <1>3 DEF AnswersAre, Surrounded
<1> QED BY <1>5, <1>6

(* No answer is surrounded before the first look.                           *)
LEMMA NoneBefore ==
  ASSUME NEW op, UnderWay(op), reader.step = FirstLook[reader.kind]
  PROVE  \A k \in DOMAIN reader.answers : ~Surrounded(reader.kind, reader.answers[k].step)
<1> SUFFICES ASSUME NEW k \in DOMAIN reader.answers, Surrounded(reader.kind, reader.answers[k].step)
             PROVE FALSE
  OBVIOUS
<1>1. PICK kind \in DOMAIN Plans : kind = reader.kind
  BY DEF UnderWay, ReaderTypes
<1>2. PICK m : m = reader.answers[k].step /\ m \in 1..(reader.step - 1)
  BY DEF UnderWay, AnswersInv, AnswersOwn, AnswersTyped, AnswersHold
<1>3. /\ reader.step \in 1..Len(Plans[kind]) /\ Len(Plans[kind]) \in Nat /\ reader.step = FirstLook[kind]
      /\ FirstLook[kind] \in 1..7
  BY <1>1, PlanSizes DEF UnderWay
<1>4. kind = "collect" \/ \E i \in 1..(m - 1) : Plans[kind][i] = "info"
  BY <1>1, <1>2 DEF Surrounded
<1>5. CASE kind = "collect"
  BY <1>2, <1>3, <1>5 DEF FirstLook
<1>6. CASE \E i \in 1..(m - 1) : Plans[kind][i] = "info"
  <2>1. PICK i \in 1..(m - 1) : Plans[kind][i] = "info"
    BY <1>6
  <2>2. i \in 1..Len(Plans[kind]) /\ i < FirstLook[kind]
    BY <1>2, <1>3
  <2>3. i = FirstLook[kind]
    BY <2>1, <2>2, PlansAre
  <2> QED BY <1>3, <2>2, <2>3
<1> QED BY <1>4, <1>5, <1>6

(* It notes something, and nothing else.                                    *)
LEMMA Marked ==
  ASSUME NEW op, UnderWay(op), UNCHANGED <<cases, history, pager>>,
         NEW outer \in Nat, NEW inner \in Nat, NEW anchor \in Nat,
         reader' = [reader EXCEPT !.outer = outer, !.inner = inner, !.anchor = anchor, !.step = @ + 1]
  PROVE  /\ reader'.kind = reader.kind /\ reader'.case = reader.case /\ reader'.step = reader.step + 1
         /\ reader'.outer = outer /\ reader'.inner = inner /\ reader'.anchor = anchor
         /\ ReaderTypes' /\ PartInv' /\ reader'.answers = reader.answers
<1>1. ReaderTypes /\ DOMAIN reader = {"kind", "case", "queries", "step", "cursor", "outer",
                                      "inner", "anchor", "part", "answers"}
  BY DEF UnderWay, ReaderTypes, NoReader
<1>2. /\ reader'.kind = reader.kind /\ reader'.case = reader.case /\ reader'.step = reader.step + 1
      /\ reader'.outer = outer /\ reader'.inner = inner /\ reader'.anchor = anchor
      /\ reader'.queries = reader.queries /\ reader'.cursor = reader.cursor
      /\ reader'.part = reader.part /\ reader'.answers = reader.answers
      /\ DOMAIN reader' = DOMAIN reader
  BY <1>1
<1>3. ReaderTypes'
  <2>1. /\ reader.kind \in DOMAIN Plans /\ reader.step \in 1..Len(Plans[reader.kind])
        /\ Len(Plans[reader.kind]) \in Nat
    BY StepIs
  <2>2. reader.step + 1 \in 1..(Len(Plans[reader.kind]) + 1)
    BY <2>1
  <2> QED BY <1>1, <1>2, <2>2 DEF ReaderTypes
<1>4. PartInv'
  <2>1. case' = case /\ Asked' = Asked
    BY <1>2 DEF case, Asked
  <2>2. PartInv /\ \A items, next, c, n, q : ReadUpTo(items, next, c, n, q)' <=> ReadUpTo(items, next, c, n, q)
    BY SameCases DEF UnderWay
  <2> QED BY <1>2, <2>1, <2>2 DEF PartInv
<1> QED BY <1>2, <1>3, <1>4

LEMMA NoteStep == ASSUME ReadingInv, Note PROVE ReadingInv'
<1> DEFINE k == reader.kind
           r == case.revision
           step == reader.step
           first == FirstLook[k]
           last == LastCheck[k]
<1>1. CASE Due("info") /\ Continue([reader EXCEPT !.outer = case.revision])
  <2>1. UnderWay("info") /\ k # "collect" /\ step = first /\ step < last /\ first \in 1..7 /\ last \in 3..10
    BY <1>1, DueIs, StepIs
  <2>2. /\ reader' = [reader EXCEPT !.outer = r, !.inner = reader.inner, !.anchor = reader.anchor, !.step = @ + 1]
        /\ UNCHANGED <<cases, history, pager>>
    BY <1>1 DEF Continue
  <2>3. r \in Nat /\ reader.inner \in Nat /\ reader.anchor \in Nat
    BY <2>1 DEF UnderWay, ReaderTypes
  <2>4. /\ reader'.kind = k /\ reader'.case = reader.case /\ reader'.step = step + 1
        /\ reader'.outer = r /\ ReaderTypes' /\ PartInv' /\ reader'.answers = reader.answers
    BY <2>1, <2>2, <2>3, Marked
  <2>5. Named' = r /\ AnswersOwn'
    BY <2>1, <2>2, <2>4, AnswersKept DEF Named
  <2>6. AnswersAre'
    BY <2>1, <2>4, NoneBefore DEF AnswersAre, Surrounded
  <2>7. r \in 0..r /\ ~(step > first) /\ ~(step >= last)
    BY <2>1, <2>3
  <2> QED BY <2>1, <2>2, <2>4, <2>5, <2>6, <2>7, Proceeds
<1>2. CASE Due("begin") /\ Continue([reader EXCEPT !.inner = case.revision])
  <2>1. /\ UnderWay("begin") /\ step < last /\ first \in 1..7 /\ last \in 3..10 /\ first <= last /\ step \in Nat
        /\ IF k = "collect" THEN step = first ELSE step < first \/ (first < step /\ k \notin Anchored)
    BY <1>2, DueIs, StepIs
  <2>2. /\ reader' = [reader EXCEPT !.outer = reader.outer, !.inner = r, !.anchor = reader.anchor, !.step = @ + 1]
        /\ UNCHANGED <<cases, history, pager>>
    BY <1>2 DEF Continue
  <2>3. r \in Nat /\ reader.outer \in Nat /\ reader.anchor \in Nat
    BY <2>1 DEF UnderWay, ReaderTypes
  <2>4. /\ reader'.kind = k /\ reader'.case = reader.case /\ reader'.step = step + 1
        /\ reader'.outer = reader.outer /\ reader'.inner = r /\ reader'.anchor = reader.anchor
        /\ ReaderTypes' /\ PartInv' /\ reader'.answers = reader.answers
    BY <2>1, <2>2, <2>3, Marked
  <2>5. AnswersInv /\ AnswersOwn' /\ (Named' = Named => (AnswersAre' <=> AnswersAre))
    BY <2>1, <2>2, <2>4, AnswersKept DEF UnderWay
  <2>6. CASE k = "collect"
    <3>1. Named' = r /\ ~(step >= last) /\ k \notin Anchored
      BY <2>1, <2>4, <2>6 DEF Named, Anchored
    <3>2. AnswersAre'
      BY <2>1, <2>4, <2>6, NoneBefore DEF AnswersAre, Surrounded
    <3>3. r \in 0..r
      BY <2>3
    <3> QED BY <2>1, <2>2, <2>4, <2>5, <2>6, <3>1, <3>2, <3>3, Proceeds
  <2>7. CASE k # "collect"
    <3>1. Named' = Named /\ ~(step >= last)
      BY <2>1, <2>4, <2>7 DEF Named
    <3>2. step >= first => Named \in 0..r /\ (Named = r => AnswersAre)
      BY <2>1, <2>5, <2>7 DEF AnswersInv
    <3>3. ~(k \in Anchored /\ step > first)
      BY <2>1, <2>7
    <3> QED BY <2>1, <2>2, <2>4, <2>5, <3>1, <3>2, <3>3, Proceeds
  <2> QED BY <2>6, <2>7
<1>3. CASE Due("verify") /\ Continue([reader EXCEPT !.anchor = case.head])
  <2>1. /\ UnderWay("verify") /\ k \in Anchored /\ step = first + 1 /\ first + 2 < last
        /\ first \in 1..7 /\ last \in 3..10
    BY <1>3, DueIs, StepIs
  <2>2. /\ reader' = [reader EXCEPT !.outer = reader.outer, !.inner = reader.inner, !.anchor = r + 1, !.step = @ + 1]
        /\ UNCHANGED <<cases, history, pager>>
    BY <1>3, <2>1 DEF Continue, UnderWay
  <2>3. r \in Nat /\ reader.outer \in Nat /\ reader.inner \in Nat /\ r + 1 \in Nat
    <3>1. r \in Nat /\ reader.outer \in Nat /\ reader.inner \in Nat
      BY <2>1 DEF UnderWay, ReaderTypes
    <3> QED BY <3>1
  <2>4. /\ reader'.kind = k /\ reader'.case = reader.case /\ reader'.step = step + 1
        /\ reader'.outer = reader.outer /\ reader'.inner = reader.inner /\ reader'.anchor = r + 1
        /\ ReaderTypes' /\ PartInv' /\ reader'.answers = reader.answers
    BY <2>1, <2>2, <2>3, Marked
  <2>5. Named' = Named
    BY <2>4 DEF Named
  <2>6. AnswersOwn' /\ (AnswersAre' <=> AnswersAre)
    BY <2>1, <2>2, <2>4, <2>5, AnswersKept
  <2>7. Named \in 0..r /\ (Named = r => AnswersAre)
    BY <2>1 DEF UnderWay, AnswersInv
  <2>8. Named' < reader'.anchor /\ reader'.anchor <= r + 1 /\ ~(step >= last)
    BY <2>1, <2>3, <2>4, <2>5, <2>7
  <2> QED BY <2>1, <2>2, <2>4, <2>5, <2>6, <2>7, <2>8, Proceeds
<1> QED BY <1>1, <1>2, <1>3 DEF Note

(* A comparison finds the case as it was noted, or nothing is returned.     *)
LEMMA CompareStep == ASSUME ReadingInv, Compare PROVE ReadingInv'
<1> DEFINE k == reader.kind
           r == case.revision
           step == reader.step
           first == FirstLook[k]
           last == LastCheck[k]
<1>1. ASSUME NEW op \in {"check", "end", "head"}, Due(op), Continue(reader),
             op = "check" => r = reader.outer, op = "end" => r = reader.inner,
             op = "head" => case.head = reader.anchor
      PROVE  ReadingInv'
  <2>1. UnderWay(op)
    BY <1>1, DueIs
  <2>2. /\ reader' = [reader EXCEPT !.outer = reader.outer, !.inner = reader.inner,
                                  !.anchor = reader.anchor, !.step = @ + 1]
        /\ UNCHANGED <<cases, history, pager>>
    BY <1>1 DEF Continue
  <2>3. r \in Nat /\ reader.outer \in Nat /\ reader.inner \in Nat /\ reader.anchor \in Nat
    BY <2>1 DEF UnderWay, ReaderTypes
  <2>4. /\ reader'.kind = k /\ reader'.case = reader.case /\ reader'.step = step + 1
        /\ reader'.outer = reader.outer /\ reader'.inner = reader.inner /\ reader'.anchor = reader.anchor
        /\ ReaderTypes' /\ PartInv' /\ reader'.answers = reader.answers
    BY <2>1, <2>2, <2>3, Marked
  <2>5. Named' = Named /\ AnswersOwn' /\ (AnswersAre' <=> AnswersAre)
    <3>1. Named' = Named
      BY <2>4 DEF Named
    <3> QED BY <2>1, <2>2, <2>4, <3>1, AnswersKept
  <2>6. /\ step \in Nat /\ first \in 1..7 /\ last \in 3..10 /\ first <= last
        /\ (k \in Anchored => first + 2 < last) /\ (step = first => FALSE)
        /\ (k \in Anchored /\ step = first + 1 => FALSE)
        /\ (step = last => (op = "check" /\ k # "collect") \/ (op = "end" /\ k = "collect"))
    <3>1. op # "info" /\ op # "begin" /\ op # "verify"
      BY <1>1
    <3>2. /\ step \in Nat /\ first \in 1..7 /\ last \in 3..10 /\ first <= last
          /\ (k \in Anchored => first + 2 < last)
      BY <2>1, StepIs
    <3>3. (step = first => FALSE) /\ (k \in Anchored /\ step = first + 1 => FALSE)
      BY <2>1, <3>1, StepIs
    <3>4. step = last => (op = "check" /\ k # "collect") \/ (op = "end" /\ k = "collect")
      <4>1. op = "check" => k # "collect"
        BY <2>1, StepIs
      <4>2. step = last => op = "check" \/ (k = "collect" /\ op = "end")
        BY <2>1, <3>1, StepIs
      <4> QED BY <4>1, <4>2
    <3> QED BY <3>2, <3>3, <3>4
  <2>7. step >= first => Named \in 0..r /\ (Named = r => AnswersAre)
    BY <2>1, <2>6 DEF UnderWay, AnswersInv
  <2>8. step = last => Named = r
    BY <1>1, <2>6 DEF Named
  <2>9. step >= last => AnswersAre
    BY <2>1, <2>6, <2>7, <2>8 DEF UnderWay, AnswersInv
  <2>10. k \in Anchored /\ step > first => Named < reader.anchor /\ reader.anchor <= r + 1
    BY <2>1, <2>6 DEF UnderWay, AnchorInv
  <2>11. k \in Anchored /\ step >= last => reader.anchor = Named + 1
    <3>1. CASE step = last
      BY <2>3, <2>6, <2>7, <2>8, <2>10, <3>1
    <3>2. CASE step # last
      BY <2>1, <2>6, <3>2 DEF UnderWay, AnchorInv
    <3> QED BY <3>1, <3>2
  <2> QED BY <2>1, <2>2, <2>4, <2>5, <2>7, <2>9, <2>10, <2>11, Proceeds
<1>2. CASE Due("check") /\ (IF case.revision = reader.outer THEN Continue(reader) ELSE GiveUp)
  BY <1>1, <1>2, GiveUpStep
<1>3. CASE Due("end") /\ (IF case.revision = reader.inner THEN Continue(reader) ELSE GiveUp)
  BY <1>1, <1>3, GiveUpStep
<1>4. CASE Due("head") /\ (IF case.head = reader.anchor THEN Continue(reader) ELSE GiveUp)
  BY <1>1, <1>4, GiveUpStep
<1> QED BY <1>2, <1>3, <1>4 DEF Compare

LEMMA AnswersGrow ==
  ASSUME NEW op, UnderWay(op), NEW kind, NEW value
  PROVE  \E S : Answer(kind, value) \in Seq(S)
<1>1. PICK S : reader.answers \in Seq(S)
  BY DEF UnderWay, ReaderTypes
<1>2. PICK answer : answer = [op |-> kind, query |-> Asked, value |-> value, at |-> case.revision, step |-> reader.step]
  OBVIOUS
<1>3. reader.answers \in Seq(S \cup {answer})
  BY <1>1
<1>4. Append(reader.answers, answer) \in Seq(S \cup {answer})
  BY <1>3
<1> QED BY <1>2, <1>4 DEF Answer

(* One answer more, of the case as it is.                                   *)
LEMMA Answered ==
  ASSUME NEW op \in {"walk", "page", "count"}, UnderWay(op), NEW value,
         HoldsAt([op |-> op, query |-> Asked, value |-> value, at |-> case.revision, step |-> reader.step],
                 reader.case, case.revision),
         UNCHANGED <<cases, history, pager>>, ReaderTypes', PartInv',
         reader'.kind = reader.kind, reader'.case = reader.case, reader'.step = reader.step + 1,
         reader'.outer = reader.outer, reader'.inner = reader.inner, reader'.anchor = reader.anchor,
         reader'.answers = Answer(op, value)
  PROVE  ReadingInv'
<1> DEFINE k == reader.kind
           r == case.revision
           step == reader.step
           first == FirstLook[k]
           last == LastCheck[k]
<1>1. /\ step \in Nat \ {0} /\ first \in 1..7 /\ last \in 3..10 /\ step # first /\ step # last
      /\ (Surrounded(k, step) => first < step /\ step < last)
      /\ (k \in Anchored /\ step = first + 1 => FALSE)
  BY StepIs
<1>2. /\ Named' = Named /\ AnswersOwn
      /\ (step > first => Named \in 0..r /\ (Named = r => AnswersAre)) /\ (step > last => AnswersAre)
  BY DEF Named, UnderWay, AnswersInv
<1>3. PICK answers : answers = reader.answers /\ \E S : answers \in Seq(S)
  BY DEF UnderWay, ReaderTypes
<1>4. PICK answer : answer = [op |-> op, query |-> Asked, value |-> value, at |-> r, step |-> step]
  OBVIOUS
<1>5. PICK all : all = Append(answers, answer) /\ all = reader'.answers
  BY <1>3, <1>4 DEF Answer
<1>6. \A n \in DOMAIN all : (n \in DOMAIN answers /\ all[n] = answers[n]) \/ all[n] = answer
  <2>1. \A n \in DOMAIN Append(answers, answer) :
          \/ n \in DOMAIN answers /\ Append(answers, answer)[n] = answers[n]
          \/ Append(answers, answer)[n] = answer
    BY <1>3
  <2> QED BY <1>5, <2>1
<1>7. answer.op = op /\ answer.step = step /\ answer.at = r /\ HoldsAt(answer, reader.case, r)
  BY <1>4
<1>8. case' = case /\ r \in Nat /\ \A any, c, n : HoldsAt(any, c, n)' <=> HoldsAt(any, c, n)
  BY SameCases DEF UnderWay, case
<1>9. AnswersOwn'
  <2>1. \A n \in DOMAIN all : /\ all[n].op \in {"walk", "page", "count"} /\ all[n].step \in 1..((step + 1) - 1)
                              /\ all[n].at \in 0..r /\ HoldsAt(all[n], reader.case, all[n].at)
    <3> SUFFICES ASSUME NEW n \in DOMAIN all
                 PROVE  /\ all[n].op \in {"walk", "page", "count"} /\ all[n].step \in 1..((step + 1) - 1)
                        /\ all[n].at \in 0..r /\ HoldsAt(all[n], reader.case, all[n].at)
      OBVIOUS
    <3>1. CASE n \in DOMAIN answers /\ all[n] = answers[n]
      BY <1>1, <1>2, <1>3, <3>1 DEF AnswersOwn, AnswersTyped, AnswersHold
    <3>2. CASE all[n] = answer
      BY <1>1, <1>7, <1>8, <3>2
    <3> QED BY <1>6, <3>1, <3>2
  <2>2. AnswersTyped'
    <3>1. PICK m, rev : m = step + 1 /\ rev = r
      OBVIOUS
    <3>2. reader'.answers = all /\ reader'.step = m /\ case'.revision = rev
      BY <1>5, <1>8, <3>1
    <3>3. \A n \in DOMAIN all : all[n].op \in {"walk", "page", "count"} /\ all[n].step \in 1..(m - 1) /\ all[n].at \in 0..rev
      BY <2>1, <3>1
    <3> QED BY <3>2, <3>3 DEF AnswersTyped
  <2>3. AnswersHold'
    <3>1. PICK list, c : list = all /\ c = reader.case
      OBVIOUS
    <3>2. \A n \in DOMAIN list : HoldsAt(list[n], c, list[n].at)'
      BY <1>8, <2>1, <3>1
    <3> QED BY <1>5, <3>1, <3>2 DEF AnswersHold
  <2> QED BY <2>2, <2>3 DEF AnswersOwn
<1>10. AnswersAre /\ (Surrounded(k, step) => Named = r) => AnswersAre'
  <2> SUFFICES ASSUME AnswersAre, Surrounded(k, step) => Named = r
               PROVE  AnswersAre'
    OBVIOUS
  <2>1. \A n \in DOMAIN all : Surrounded(k, all[n].step) => HoldsAt(all[n], reader.case, Named)
    <3> SUFFICES ASSUME NEW n \in DOMAIN all, Surrounded(k, all[n].step) PROVE HoldsAt(all[n], reader.case, Named)
      OBVIOUS
    <3>1. CASE n \in DOMAIN answers /\ all[n] = answers[n]
      BY <1>3, <3>1 DEF AnswersAre
    <3>2. CASE all[n] = answer
      BY <1>7, <3>2
    <3> QED BY <1>6, <3>1, <3>2
  <2>2. Surrounded(k, 0)' <=> Surrounded(k, 0)
    BY DEF Surrounded
  <2> QED BY <1>2, <1>5, <1>8, <2>1 DEF AnswersAre, Surrounded
<1>11. step >= first => Named' \in 0..r /\ (Named' = r => AnswersAre')
  BY <1>1, <1>2, <1>10
<1>12. step >= last => AnswersAre'
  <2> SUFFICES ASSUME step > last PROVE AnswersAre'
    BY <1>1
  <2>1. ~Surrounded(k, step) /\ AnswersAre
    BY <1>1, <1>2
  <2> QED BY <1>10, <2>1
<1>13. k \in Anchored /\ step > first => Named < reader.anchor /\ reader.anchor <= r + 1
  BY <1>1 DEF UnderWay, AnchorInv
<1>14. k \in Anchored /\ step >= last => reader.anchor = Named + 1
  BY <1>1 DEF UnderWay, AnchorInv
<1> QED BY <1>2, <1>9, <1>11, <1>12, <1>13, <1>14, Proceeds

(* What has been read is a list, of all there is when there is no cursor.   *)
LEMMA ReadIs ==
  ASSUME HistoryInv, NEW c \in Cases, NEW n \in 0..cases[c].revision, NEW q,
         NEW items, NEW next, ReadUpTo(items, next, c, n, q)
  PROVE  LET whole == Sorted(RowsOf(c, n), q)
         IN  /\ items \in Seq(Nat) /\ IsPrefix(items, whole)
             /\ next = None => items = whole
<1> DEFINE rows == RowsOf(c, n)
           whole == Sorted(rows, q)
<1>1. rows \in Seq(RowType)
  <2>1. history[c] \in Seq(Seq(RowType)) /\ cases[c].revision \in Nat /\ Len(history[c]) = cases[c].revision + 1
    BY DEF HistoryInv
  <2>2. n + 1 \in 1..Len(history[c])
    BY <2>1
  <2> QED BY <2>1, <2>2 DEF RowsOf
<1>2. whole \in Seq(Nat)
  <2>1. whole \in Seq(DOMAIN rows)
    BY <1>1, SortedIs
  <2>2. \A m \in 1..Len(whole) : whole[m] \in Nat
    <3>1. DOMAIN rows \subseteq Nat
      BY <1>1
    <3> HIDE DEF whole, rows
    <3> QED BY <2>1, <3>1
  <2>3. whole = [m \in 1..Len(whole) |-> whole[m]] /\ Len(whole) \in Nat
    <3> HIDE DEF whole, rows
    <3> QED BY <2>1
  <2> HIDE DEF whole
  <2> QED BY <2>2, <2>3
<1>3. PICK k \in 0..Len(whole) : items = SubSeq(whole, 1, k) /\ (next = None => k = Len(whole))
  BY DEF ReadUpTo
<1> HIDE DEF whole
<1>4. /\ items \in Seq(Nat) /\ Len(items) = k
      /\ \A i \in 1..k : items[i] = whole[i]
  <2>1. k \in Nat /\ k <= Len(whole) /\ Len(whole) \in Nat /\ \A i \in 1..k : whole[i] \in Nat
    BY <1>2, <1>3
  <2>2. /\ SubSeq(whole, 1, k) \in Seq(Nat)
        /\ Len(SubSeq(whole, 1, k)) = IF 1 <= k THEN k - 1 + 1 ELSE 0
        /\ \A i \in 1..(k - 1 + 1) : SubSeq(whole, 1, k)[i] = whole[1 + i - 1]
    BY <2>1, SubSeqProperties
  <2>3. Len(items) = k
    BY <1>3, <2>1, <2>2
  <2>4. \A i \in 1..k : items[i] = whole[i]
    <3>1. k - 1 + 1 = k /\ \A i \in 1..k : 1 + i - 1 = i
      BY <2>1
    <3> QED BY <1>3, <2>2, <3>1
  <2> QED BY <1>3, <2>2, <2>3, <2>4
<1>5. IsPrefix(items, whole)
  <2>1. SubSeq(items, 1, Len(items)) = items
    BY <1>4, SubSeqFull
  <2> QED BY <1>2, <1>3, <1>4, <2>1 DEF IsPrefix
<1>6. next = None => items = whole
  BY <1>2, <1>3, SubSeqFull
<1> QED BY <1>4, <1>5, <1>6 DEF whole

(* The next page of a walk.                                                 *)
LEMMA Joined ==
  ASSUME NEW op, UnderWay(op), Page(case, Asked, reader.cursor, Limit) # Refused
  PROVE  LET page == Page(case, Asked, reader.cursor, Limit)
         IN  ReadUpTo(reader.part \o page.items, page.next, reader.case, case.revision, Asked)
<1> DEFINE page == Page(case, Asked, reader.cursor, Limit)
<1>0. PICK c \in Cases, q \in QueryType : c = reader.case /\ q = Asked
  BY DEF UnderWay, ReaderTypes
<1>1. PICK cursor, part : cursor = reader.cursor /\ part = reader.part /\ c = reader.case /\ q = Asked
  BY <1>0
<1>2. HistoryInv /\ PartInv /\ case = cases[c] /\ cases[c].revision \in Nat /\ page = Page(cases[c], q, cursor, Limit)
  BY <1>1 DEF UnderWay
<1>3. CASE cursor = None
  <2>1. part = << >>
    BY <1>1, <1>2, <1>3 DEF PartInv
  <2>2. ReadUpTo(page.items, page.next, c, cases[c].revision, q)
    BY <1>1, <1>2, <1>3, FirstPageIs
  <2>3. page.items \in Seq(Nat)
    <3>1. cases[c].revision \in 0..cases[c].revision
      BY <1>2
    <3> HIDE DEF page
    <3> QED BY <1>2, <2>2, <3>1, ReadIs
  <2>4. part \o page.items = page.items
    <3> HIDE DEF page
    <3> QED BY <2>1, <2>3
  <2> QED BY <1>1, <1>2, <2>2, <2>4
<1>4. CASE cursor # None
  <2>1. PICK n \in 0..cases[c].revision : ReadUpTo(part, cursor, c, n, q)
    BY <1>1, <1>2, <1>4 DEF PartInv
  <2>2. n = cases[c].revision /\ ReadUpTo(part \o page.items, page.next, c, n, q)
    BY <1>1, <1>2, <1>4, <2>1, NextPageIs
  <2> QED BY <1>1, <1>2, <2>2
<1> QED BY <1>3, <1>4

LEMMA WalkStep == ASSUME ReadingInv, Walk PROVE ReadingInv'
<1> DEFINE page == Page(case, Asked, reader.cursor, Limit)
           part == reader.part \o page.items
           r == case.revision
           whole == Sorted(RowsOf(reader.case, r), Asked)
           rest == IF Len(reader.queries) > 1 THEN Tail(reader.queries) ELSE reader.queries
<1>1. UnderWay("walk")
  BY DueIs DEF Walk
<1>2. CASE GiveUp
  BY <1>2, GiveUpStep
<1>3. ASSUME ~(~page.ok \/ Len(part) > MaxCollected)
      PROVE  ReadUpTo(part, page.next, reader.case, r, Asked) /\ Len(part) <= MaxCollected
             /\ part \in Seq(Nat) /\ (page.next = None => part = whole)
  <2>1. page # Refused
    <3>1. page.ok
      BY <1>3
    <3>2. ~Refused.ok
      BY DEF Refused
    <3> QED BY <3>1, <3>2
  <2>2. ReadUpTo(part, page.next, reader.case, r, Asked)
    BY <1>1, <2>1, Joined
  <2>3. /\ HistoryInv /\ r \in 0..cases[reader.case].revision /\ r = cases[reader.case].revision
        /\ reader.case \in Cases
    BY <1>1 DEF UnderWay, ReaderTypes
  <2>4. part \in Seq(Nat) /\ (page.next = None => part = whole)
    <3> HIDE DEF page, part
    <3> QED BY <2>2, <2>3, ReadIs
  <2>5. Len(part) <= MaxCollected
    <3>1. Len(part) \in Nat /\ MaxCollected \in Nat
      <4> HIDE DEF part
      <4> QED BY <2>4, ReadingAssumption
    <3> HIDE DEF part
    <3> QED BY <1>3, <3>1
  <2> QED BY <2>2, <2>4, <2>5
<1>4. DOMAIN reader = {"kind", "case", "queries", "step", "cursor", "outer", "inner", "anchor", "part", "answers"}
  BY <1>1 DEF UnderWay, ReaderTypes, NoReader
<1>5. CASE /\ ~(~page.ok \/ Len(part) > MaxCollected) /\ page.next = None
           /\ Continue([reader EXCEPT !.answers = Answer("walk", part), !.part = << >>, !.cursor = None,
                                      !.queries = IF Len(@) > 1 THEN Tail(@) ELSE @])
  <2>1. /\ reader' = [reader EXCEPT !.answers = Answer("walk", part), !.part = << >>, !.cursor = None,
                                   !.queries = rest, !.step = @ + 1]
        /\ UNCHANGED <<cases, history, pager>>
    BY <1>4, <1>5 DEF Continue
  <2> HIDE DEF page, part, rest
  <2>2. /\ reader'.kind = reader.kind /\ reader'.case = reader.case /\ reader'.step = reader.step + 1
        /\ reader'.outer = reader.outer /\ reader'.inner = reader.inner /\ reader'.anchor = reader.anchor
        /\ reader'.queries = rest /\ reader'.cursor = None
        /\ reader'.part = << >> /\ reader'.answers = Answer("walk", part)
        /\ DOMAIN reader' = DOMAIN reader
    BY <1>4, <2>1
  <2>3. rest \in Seq(QueryType) /\ rest # << >>
    <3>1. reader.queries \in Seq(QueryType) /\ reader.queries # << >>
      BY <1>1 DEF UnderWay, ReaderTypes
    <3>2. CASE Len(reader.queries) > 1
      <4>1. Tail(reader.queries) \in Seq(QueryType) /\ Len(Tail(reader.queries)) = Len(reader.queries) - 1
        BY <3>1, HeadTailProperties
      <4>2. Len(reader.queries) \in Nat /\ Len(Tail(reader.queries)) > 0
        BY <3>1, <3>2, <4>1
      <4>3. PICK t \in Seq(QueryType) : t = Tail(reader.queries) /\ Len(t) > 0
        BY <4>1, <4>2
      <4>4. t # << >>
        <5>1. Len(<< >>) = 0
          OBVIOUS
        <5>2. Len(t) # 0
          BY <4>3
        <5> QED BY <5>1, <5>2
      <4>5. rest = t
        BY <3>2, <4>3 DEF rest
      <4> QED BY <4>3, <4>4, <4>5
    <3> QED BY <3>1, <3>2 DEF rest
  <2>4. ReaderTypes'
    <3>1. reader.step + 1 \in 1..(Len(Plans[reader.kind]) + 1)
      BY <1>1, StepIs
    <3>2. Len(<< >>) <= MaxCollected
      BY ReadingAssumption
    <3>3. \E S : Answer("walk", part) \in Seq(S)
      BY <1>1, AnswersGrow
    <3> QED BY <1>1, <2>2, <2>3, <3>1, <3>2, <3>3 DEF UnderWay, ReaderTypes
  <2>5. PartInv'
    BY <2>2 DEF PartInv
  <2>6. HoldsAt([op |-> "walk", query |-> Asked, value |-> part, at |-> r, step |-> reader.step], reader.case, r)
    BY <1>3, <1>5 DEF HoldsAt
  <2> QED BY <1>1, <2>1, <2>2, <2>4, <2>5, <2>6, Answered
<1>6. CASE /\ ~(~page.ok \/ Len(part) > MaxCollected) /\ page.next # None
           /\ reader' = [reader EXCEPT !.part = part, !.cursor = page.next]
           /\ UNCHANGED <<cases, history, pager>>
  <2> HIDE DEF page, part
  <2>1. /\ reader'.kind = reader.kind /\ reader'.case = reader.case /\ reader'.step = reader.step
        /\ reader'.outer = reader.outer /\ reader'.inner = reader.inner /\ reader'.anchor = reader.anchor
        /\ reader'.queries = reader.queries /\ reader'.cursor = page.next
        /\ reader'.part = part /\ reader'.answers = reader.answers
        /\ DOMAIN reader' = DOMAIN reader
    BY <1>4, <1>6
  <2>2. case' = case /\ Asked' = Asked /\ Named' = Named
    BY <1>6, <2>1 DEF case, Asked, Named
  <2>3. ReaderTypes'
    BY <1>1, <1>3, <1>6, <2>1 DEF UnderWay, ReaderTypes
  <2>4. PartInv'
    <3>1. ReadUpTo(part, page.next, reader.case, r, Asked) /\ r \in 0..r
      BY <1>1, <1>3, <1>6 DEF UnderWay
    <3>2. PICK items, next, c, n, q :
            items = part /\ next = page.next /\ c = reader.case /\ n = r /\ q = Asked
      OBVIOUS
    <3>3. ReadUpTo(items, next, c, n, q)'
      BY <1>1, <1>6, <3>1, <3>2, SameCases DEF UnderWay
    <3> QED BY <1>6, <2>1, <2>2, <3>1, <3>2, <3>3 DEF PartInv
  <2>5. AnswersOwn' /\ (AnswersAre' <=> AnswersAre)
    BY <1>1, <1>6, <2>1, <2>2, AnswersKept
  <2>6. AnswersInv' /\ AnchorInv'
    BY <1>1, <2>1, <2>2, <2>5 DEF UnderWay, AnswersInv, AnchorInv
  <2>7. HistoryInv' /\ PagerInv'
    BY <1>1, <1>6, SameCases DEF UnderWay
  <2> QED BY <2>3, <2>4, <2>6, <2>7 DEF ReadingInv, ReaderInv
<1> QED BY <1>2, <1>5, <1>6 DEF Walk

(* The records of a page, or their number.                                  *)
LEMMA Extended ==
  ASSUME NEW op \in {"walk", "page", "count"}, UnderWay(op), NEW value,
         HoldsAt([op |-> op, query |-> Asked, value |-> value, at |-> case.revision, step |-> reader.step],
                 reader.case, case.revision),
         Continue([reader EXCEPT !.answers = Answer(op, value)])
  PROVE  ReadingInv'
<1>1. /\ reader' = [reader EXCEPT !.answers = Answer(op, value), !.step = @ + 1]
      /\ UNCHANGED <<cases, history, pager>>
  BY DEF Continue, UnderWay, ReaderTypes, NoReader
<1>2. DOMAIN reader = {"kind", "case", "queries", "step", "cursor", "outer", "inner", "anchor", "part", "answers"}
  BY DEF UnderWay, ReaderTypes, NoReader
<1>3. /\ reader'.kind = reader.kind /\ reader'.case = reader.case /\ reader'.step = reader.step + 1
      /\ reader'.outer = reader.outer /\ reader'.inner = reader.inner /\ reader'.anchor = reader.anchor
      /\ reader'.queries = reader.queries /\ reader'.cursor = reader.cursor
      /\ reader'.part = reader.part /\ reader'.answers = Answer(op, value)
      /\ DOMAIN reader' = DOMAIN reader
  BY <1>1, <1>2
<1>4. ReaderTypes'
  <2>1. reader.step + 1 \in 1..(Len(Plans[reader.kind]) + 1)
    BY StepIs
  <2>2. \E S : Answer(op, value) \in Seq(S)
    BY AnswersGrow
  <2> QED BY <1>3, <2>1, <2>2 DEF UnderWay, ReaderTypes
<1>5. PartInv'
  <2>1. case' = case /\ Asked' = Asked
    BY <1>1, <1>3 DEF case, Asked
  <2>2. PartInv /\ \A items, next, c, n, q : ReadUpTo(items, next, c, n, q)' <=> ReadUpTo(items, next, c, n, q)
    BY <1>1, SameCases DEF UnderWay
  <2> QED BY <1>3, <2>1, <2>2 DEF PartInv
<1> QED BY <1>1, <1>3, <1>4, <1>5, Answered

LEMMA FirstPageStep == ASSUME ReadingInv, FirstPage PROVE ReadingInv'
<1> DEFINE page == Page(case, Asked, None, Limit)
<1>1. UnderWay("page")
  BY DueIs DEF FirstPage
<1>2. CASE GiveUp
  BY <1>2, GiveUpStep
<1>3. CASE page.ok /\ Continue([reader EXCEPT !.answers = Answer("page", page.items)])
  <2>1. page # Refused
    <3>1. ~Refused.ok
      BY DEF Refused
    <3> QED BY <1>3, <3>1
  <2>2. PICK c \in Cases, q \in QueryType : c = reader.case /\ q = Asked
    BY <1>1 DEF UnderWay, ReaderTypes
  <2>3. HistoryInv /\ case = cases[c] /\ case.revision \in 0..cases[c].revision
    BY <1>1, <2>2 DEF UnderWay
  <2>4. ReadUpTo(page.items, page.next, c, case.revision, q)
    BY <2>1, <2>2, <2>3, FirstPageIs
  <2> HIDE DEF page
  <2>5. IsPrefix(page.items, Sorted(RowsOf(c, case.revision), q))
    BY <2>3, <2>4, ReadIs
  <2>6. HoldsAt([op |-> "page", query |-> Asked, value |-> page.items, at |-> case.revision,
                 step |-> reader.step], reader.case, case.revision)
    BY <2>2, <2>5 DEF HoldsAt
  <2> QED BY <1>1, <1>3, <2>6, Extended
<1> QED BY <1>2, <1>3 DEF FirstPage

LEMMA TotalStep == ASSUME ReadingInv, Total PROVE ReadingInv'
<1>1. UnderWay("count") /\ Continue([reader EXCEPT !.answers = Answer("count", Count(case.rows, Asked))])
  BY DueIs DEF Total
<1>2. case.rows = RowsOf(reader.case, case.revision)
  BY <1>1 DEF UnderWay, HistoryInv, ReaderTypes
<1>3. HoldsAt([op |-> "count", query |-> Asked, value |-> Count(case.rows, Asked), at |-> case.revision,
               step |-> reader.step], reader.case, case.revision)
  BY <1>2 DEF HoldsAt, Count
<1> QED BY <1>1, <1>3, Extended

LEMMA SearchStep == ASSUME ReadingInv, Search PROVE ReadingInv'
<1>1. PICK c \in Cases, q \in Queries : FirstOf(c, q) \/ NextOf(c, q)
  BY DEF Search
<1>2. /\ UNCHANGED <<cases, history, reader>> /\ reader = NoReader
      /\ HistoryInv /\ PagerInv /\ q \in QueryType /\ cases[c].revision \in Nat
  BY ReadingAssumption DEF Search, ReadingInv, HistoryInv
<1>3. ~Refused.ok
  BY DEF Refused
<1>4. HistoryInv' /\ \A items, next, d, n, p : ReadUpTo(items, next, d, n, p)' <=> ReadUpTo(items, next, d, n, p)
  <2>1. cases' = cases /\ \A d, n : RowsOf(d, n)' = RowsOf(d, n)
    BY <1>2 DEF RowsOf
  <2>2. HistoryInv'
    BY <1>2, <2>1 DEF HistoryInv
  <2>3. \A items, next, d, n, p : ReadUpTo(items, next, d, n, p)' <=> ReadUpTo(items, next, d, n, p)
    BY <2>1 DEF ReadUpTo
  <2> QED BY <2>2, <2>3
<1>5. CASE FirstOf(c, q)
  <2> DEFINE page == Page(cases[c], q, None, Limit)
  <2>1. /\ page # Refused
        /\ pager' = [case |-> c, query |-> q, revision |-> cases[c].revision,
                     items |-> page.items, next |-> page.next]
    BY <1>3, <1>5 DEF FirstOf
  <2>2. ReadUpTo(page.items, page.next, c, cases[c].revision, q)
    BY <1>2, <2>1, FirstPageIs
  <2> HIDE DEF page
  <2>3. /\ pager'.case = c /\ pager'.query = q /\ pager'.revision = cases[c].revision
        /\ pager'.items = page.items /\ pager'.next = page.next /\ DOMAIN pager' = DOMAIN NoWalk
    BY <2>1 DEF NoWalk
  <2>4. PICK items, next, n : items = page.items /\ next = page.next /\ n = cases[c].revision
    OBVIOUS
  <2>5. ReadUpTo(items, next, c, n, q)'
    BY <1>4, <2>2, <2>4
  <2>6. PagerInv'
    BY <1>2, <2>3, <2>4, <2>5 DEF PagerInv
  <2> QED BY <1>2, <1>4, <2>6 DEF ReadingInv, ReaderInv
<1>6. CASE NextOf(c, q)
  <2> DEFINE page == Page(cases[c], q, pager.next, Limit)
  <2>1. /\ page # Refused /\ pager.next # None
        /\ pager' = [pager EXCEPT !.items = @ \o page.items, !.next = page.next]
    BY <1>3, <1>6 DEF NextOf
  <2>2. /\ DOMAIN pager = {"case", "query", "revision", "items", "next"}
        /\ pager.case \in Cases /\ pager.revision \in 0..cases[pager.case].revision
        /\ ReadUpTo(pager.items, pager.next, pager.case, pager.revision, pager.query)
    <3>1. pager # NoWalk
      BY <2>1 DEF NoWalk
    <3> QED BY <1>2, <3>1 DEF PagerInv, NoWalk
  <2>0. PICK d \in Cases : d = pager.case
    BY <2>2
  <2>3. PICK n \in 0..cases[d].revision : d = pager.case /\ n = pager.revision
    BY <2>0, <2>2
  <2>4. PICK p, items, cursor : p = pager.query /\ items = pager.items /\ cursor = pager.next
    OBVIOUS
  <2>5. page = Page(cases[c], q, cursor, Limit)
    BY <2>4
  <2>6. /\ c = d /\ n = cases[c].revision /\ q = p
        /\ ReadUpTo(items \o page.items, page.next, c, n, q)
    BY <1>2, <2>1, <2>2, <2>3, <2>4, NextPageIs
  <2> HIDE DEF page
  <2>7. /\ pager'.case = c /\ pager'.query = q /\ pager'.revision = n
        /\ pager'.items = items \o page.items /\ pager'.next = page.next /\ DOMAIN pager' = DOMAIN pager
    BY <2>1, <2>2, <2>3, <2>4, <2>6
  <2>8. PICK more, next : more = items \o page.items /\ next = page.next
    OBVIOUS
  <2>9. ReadUpTo(more, next, c, n, q)'
    BY <1>4, <2>6, <2>8
  <2>10. PagerInv'
    BY <1>2, <2>2, <2>3, <2>6, <2>7, <2>8, <2>9 DEF PagerInv, NoWalk
  <2> QED BY <1>2, <1>4, <2>10 DEF ReadingInv, ReaderInv
<1> QED BY <1>1, <1>5, <1>6

LEMMA BeginStep == ASSUME ReadingInv, BeginReading PROVE ReadingInv'
<1>1. PICK c \in Cases, q \in Queries, kind \in DOMAIN Plans :
        Ask(kind, c, IF kind \in {"compare", "diff", "against"} THEN <<q, [q EXCEPT !.mime = None]>> ELSE <<q>>)
  BY DEF BeginReading
<1> DEFINE queries == IF kind \in {"compare", "diff", "against"} THEN <<q, [q EXCEPT !.mime = None]>> ELSE <<q>>
<1>2. queries \in Seq(QueryType) /\ queries # << >>
  <2>1. q \in QueryType
    BY ReadingAssumption
  <2>2. [q EXCEPT !.mime = None] \in QueryType
    BY <2>1 DEF QueryType
  <2> QED BY <2>1, <2>2
<1>3. /\ reader' = [NoReader EXCEPT !.kind = kind, !.case = c, !.queries = queries, !.step = 1]
      /\ UNCHANGED <<cases, history, pager>>
  BY <1>1 DEF Ask
<1> HIDE DEF queries
<1>4. /\ reader'.kind = kind /\ reader'.case = c /\ reader'.queries = queries /\ reader'.step = 1
      /\ reader'.cursor = None /\ reader'.part = << >> /\ reader'.answers = << >>
      /\ reader'.outer = 0 /\ reader'.inner = 0 /\ reader'.anchor = 0
      /\ DOMAIN reader' = DOMAIN NoReader
  BY <1>3 DEF NoReader
<1>5. Len(Plans[kind]) \in Nat /\ LastCheck[kind] \in 3..10 /\ FirstLook[kind] \in 1..7
  BY PlanSizes
<1>6. ReaderTypes'
  <2>1. 1 \in 1..(Len(Plans[kind]) + 1) /\ Len(<< >>) <= MaxCollected /\ << >> \in Seq({})
    BY <1>5, ReadingAssumption
  <2> QED BY <1>2, <1>4, <2>1 DEF ReaderTypes
<1>7. PartInv' /\ AnswersInv' /\ AnchorInv'
  BY <1>4, <1>5 DEF PartInv, AnswersInv, AnswersOwn, AnswersTyped, AnswersHold, AnchorInv
<1>8. HistoryInv' /\ PagerInv'
  BY <1>3, SameCases DEF ReadingInv
<1> QED BY <1>6, <1>7, <1>8 DEF ReadingInv, ReaderInv

LEMMA InitInv == ASSUME ReadingInit PROVE ReadingInv
<1>1. PICK rows \in Beginnings :
        cases = [c \in Cases |-> [id |-> c, revision |-> 0, head |-> 1, rows |-> rows]]
  BY DEF ReadingInit
<1>2. history = [c \in Cases |-> <<cases[c].rows>>] /\ pager = NoWalk /\ reader = NoReader
  BY DEF ReadingInit
<1>3. rows \in Seq(RowType)
  BY ReadingAssumption
<1>4. HistoryInv
  <2>1. cases \in [Cases -> [id : Cases, revision : Nat, head : Nat, rows : Seq(RowType)]]
    BY <1>1, <1>3
  <2>2. \A c \in Cases : history[c] = <<rows>>
    BY <1>1, <1>2
  <2>3. <<rows>> \in Seq(Seq(RowType)) /\ Len(<<rows>>) = 1 /\ <<rows>>[0 + 1] = rows
    BY <1>3
  <2>4. history \in [Cases -> Seq(Seq(RowType))]
    BY <1>2, <2>2, <2>3
  <2>5. ASSUME NEW c \in Cases
        PROVE  /\ cases[c].id = c /\ cases[c].head = cases[c].revision + 1
               /\ Len(history[c]) = cases[c].revision + 1
               /\ cases[c].rows = history[c][cases[c].revision + 1]
    <3>1. cases[c] = [id |-> c, revision |-> 0, head |-> 1, rows |-> rows] /\ history[c] = <<rows>>
      BY <1>1, <2>2
    <3> QED BY <2>3, <3>1
  <2> QED BY <2>1, <2>4, <2>5 DEF HistoryInv, RowsOf
<1> QED BY <1>2, <1>4 DEF ReadingInv, PagerInv, ReaderInv

LEMMA ReadingStep == ASSUME ReadingInv, [ReadingNext]_readingVars PROVE ReadingInv'
<1>1. CASE UNCHANGED readingVars
  <2>1. cases' = cases /\ history' = history /\ pager' = pager /\ reader' = reader
    BY <1>1 DEF readingVars
  <2>2. HistoryInv' /\ PagerInv' /\ \A items, next, c, n, q : ReadUpTo(items, next, c, n, q)' <=> ReadUpTo(items, next, c, n, q)
    BY <2>1, SameCases DEF ReadingInv
  <2>3. (ReaderTypes' <=> ReaderTypes) /\ (AnchorInv' <=> AnchorInv) /\ case' = case /\ Named' = Named /\ Asked' = Asked
    BY <2>1 DEF ReaderTypes, AnchorInv, case, Named, Asked
  <2>4. (AnswersAre' <=> AnswersAre) /\ (AnswersOwn' <=> AnswersOwn)
    BY <2>1, <2>3, SameCases DEF AnswersAre, AnswersOwn, AnswersTyped, AnswersHold, ReadingInv, Surrounded
  <2>5. (PartInv' <=> PartInv) /\ (AnswersInv' <=> AnswersInv)
    BY <2>1, <2>2, <2>3, <2>4 DEF PartInv, AnswersInv
  <2> QED BY <2>1, <2>2, <2>3, <2>5 DEF ReadingInv, ReaderInv
<1>2. CASE Return \/ ReadFails
  BY <1>2, GiveUpStep DEF Return, ReadFails
<1> QED BY <1>1, <1>2, WriteStep, SearchStep, BeginStep, NoteStep, CompareStep, WalkStep,
            FirstPageStep, TotalStep DEF ReadingNext

-----------------------------------------------------------------------------
LEMMA SoundFromInv == ASSUME ReadingInv PROVE ReadingSound
<1>1. HistoryInv /\ PagerInv /\ ReaderInv
  BY DEF ReadingInv
<1>2. pager # NoWalk =>
        LET whole == Sorted(RowsOf(pager.case, pager.revision), pager.query)
        IN  /\ pager.items \in Seq(Nat) /\ IsPrefix(pager.items, whole)
            /\ pager.next = None => pager.items = whole
  BY <1>1, ReadIs DEF PagerInv
<1>3. PagesAreOneAnswer
  BY <1>2 DEF PagesAreOneAnswer
<1>4. ReadingTypeOK
  <2>1. \A c \in Cases : cases[c].id = c /\ Len(history[c]) = cases[c].revision + 1
                           /\ cases[c].rows = Last(history[c])
    BY <1>1 DEF HistoryInv, RowsOf, Last
  <2>2. pager.items \in Seq(Nat)
    <3>1. << >> \in Seq(Nat)
      OBVIOUS
    <3>2. NoWalk.items = << >>
      BY DEF NoWalk
    <3> QED BY <1>2, <3>1, <3>2
  <2>3. reader.kind \in {None} \cup DOMAIN Plans /\ Len(reader.part) <= MaxCollected
    BY <1>1, ReadingAssumption DEF ReaderInv, ReaderTypes, NoReader
  <2> QED BY <2>1, <2>2, <2>3 DEF ReadingTypeOK
<1>5. AnswersAtOneRevision
  <2> SUFFICES ASSUME Done(reader)
               PROVE  /\ \A k \in DOMAIN reader.answers :
                           LET answer == reader.answers[k]
                           IN /\ HoldsAt(answer, reader.case, answer.at)
                              /\ Surrounded(reader.kind, answer.step) => HoldsAt(answer, reader.case, Named)
                      /\ reader.kind \in Anchored => reader.anchor = Named + 1
    BY DEF AnswersAtOneRevision, Named, Anchored
  <2>1. ReaderTypes /\ AnswersInv /\ AnchorInv
    <3>1. reader # NoReader
      BY DEF Done, NoReader
    <3> QED BY <1>1, <3>1 DEF ReaderInv
  <2>2. PICK kind \in DOMAIN Plans : kind = reader.kind
    BY <2>1 DEF ReaderTypes
  <2>3. /\ Len(Plans[kind]) \in Nat /\ LastCheck[kind] \in Nat /\ LastCheck[kind] <= Len(Plans[kind]) + 1
        /\ LastCheck[kind] = Len(Plans[kind]) + 1 => kind \in {"diff", "search"}
    BY PlanSizes
  <2>4. reader.step > Len(Plans[kind]) /\ reader.step \in Nat
    BY <2>1, <2>2 DEF Done, ReaderTypes
  <2>5. kind \in {"diff", "search"} \/ reader.step > LastCheck[kind]
    BY <2>3, <2>4
  <2>6. AnswersOwn
    BY <2>1 DEF AnswersInv
  <2>7. AnswersAre
    <3>1. CASE kind \in {"diff", "search"}
      <4>1. \A i \in DOMAIN Plans[kind] : Plans[kind][i] # "info"
        BY <3>1 DEF Plans
      <4>2. \A k \in DOMAIN reader.answers : ~Surrounded(kind, reader.answers[k].step)
        <5>1. Len(Plans[kind]) \in Nat /\ DOMAIN Plans[kind] = 1..Len(Plans[kind])
          BY <3>1 DEF Plans
        <5>2. ASSUME NEW k \in DOMAIN reader.answers, Surrounded(kind, reader.answers[k].step) PROVE FALSE
          <6>1. PICK m : m = reader.answers[k].step /\ m \in 1..(reader.step - 1)
            BY <2>6 DEF AnswersOwn, AnswersTyped, AnswersHold
          <6>2. PICK i \in 1..(m - 1) : \E j \in (m + 1)..Len(Plans[kind]) : Plans[kind][i] = "info"
            BY <3>1, <5>2, <6>1 DEF Surrounded
          <6>3. i \in DOMAIN Plans[kind]
            BY <2>4, <5>1, <6>1, <6>2
          <6> QED BY <4>1, <6>2, <6>3
        <5> QED BY <5>2
      <4> QED BY <2>2, <4>2 DEF AnswersAre
    <3>2. CASE reader.step > LastCheck[kind]
      BY <2>1, <2>2, <3>2 DEF AnswersInv
    <3> QED BY <2>5, <3>1, <3>2
  <2>8. kind \in Anchored => reader.anchor = Named + 1
    <3>1. kind \in Anchored => reader.step > LastCheck[kind]
      BY <2>5 DEF Anchored
    <3> QED BY <2>1, <2>2, <3>1 DEF AnchorInv
  <2> QED BY <2>2, <2>6, <2>7, <2>8 DEF AnswersOwn, AnswersTyped, AnswersHold, AnswersAre
<1> QED BY <1>3, <1>4, <1>5 DEF ReadingSound

(* Whatever is written to a case between two reads of it: the pages of a    *)
(* search join to the records the query selects, in order; each answer of   *)
(* an operation, however many pages it took, is of one revision; and what   *)
(* it reads between a look at the revision and a comparison with it is of   *)
(* the one it names, with its anchor (query.rs:131, export.rs:194,          *)
(* lib.rs:55).                                                              *)
THEOREM ReadingIsSound == ReadingSpec => []ReadingSound
<1>1. ReadingInit => ReadingInv
  BY InitInv
<1>2. ReadingInv /\ [ReadingNext]_readingVars => ReadingInv'
  BY ReadingStep
<1>3. ReadingInv => ReadingSound
  BY SoundFromInv
<1> QED BY <1>1, <1>2, <1>3, PTL DEF ReadingSpec

-----------------------------------------------------------------------------
(* The record explorer.                                                     *)

(* The cursors of the pages of a query at one revision, from the first one: *)
(* each is where the page before ends.                                      *)
PageAt(n, q, cursor) == Page(AtRevision(n), q, cursor, PageSize)
Trail(list, n, q) ==
  /\ list # << >> /\ list[1] = None
  /\ \A i \in 1..(Len(list) - 1) : list[i + 1] # None /\ list[i + 1] = PageAt(n, q, list[i]).next

(* A page of the query is on the screen, with the way back from it.         *)
Shows(q) ==
  /\ shownAt \in 0..viewed.revision
  /\ Trail(Append(view.back, view.cursor), shownAt, q)
  /\ PageAt(shownAt, q, view.cursor).ok
  /\ view.headers = PageAt(shownAt, q, view.cursor).items
  /\ view.next = PageAt(shownAt, q, view.cursor).next

Blank == view.back = << >> /\ view.cursor = None /\ view.next = None /\ view.headers = << >>

ViewedInv ==
  /\ viewed \in [id : {1}, revision : Nat, rows : Seq(RowType)]
  /\ revisions \in Seq(Seq(RowType)) /\ Len(revisions) = viewed.revision + 1
  /\ viewed.rows = revisions[viewed.revision + 1]

Filters == [mime : Mimes, noted : BOOLEAN]
ViewTypes ==
  /\ events \in 0..MaxEvents /\ pending \in BOOLEAN /\ trusted \in BOOLEAN
  /\ form \in Filters /\ asked \in Filters
  /\ DOMAIN view = DOMAIN NewView(Query(NoFilters, "path"))
  /\ IsList(view.back)
  /\ view.refresh \in BOOLEAN /\ view.total \in Nat /\ view.revision \in 0..viewed.revision
  /\ view.query = Query(asked, view.query.order)

(* What the task was begun with is still so, but for the order.             *)
Begun ==
  /\ DOMAIN task = DOMAIN NoTask
  /\ task.query = Query(asked, task.query.order)
  /\ ~view.refresh => task.query.order = view.order
  /\ \/ task.direction = 0 /\ task.cursor = None
     \/ task.direction = 1 /\ view.next # None /\ task.cursor = view.next
     \/ task.direction = -1 /\ view.back # << >> /\ task.cursor = Last(view.back)

Read ==
  /\ task.of \in 0..viewed.revision /\ task.restarted \in BOOLEAN
  /\ task.page = PageAt(task.of, task.query, IF task.restarted THEN None ELSE task.cursor)
  /\ task.page.ok

TaskInv ==
  \/ task = NoTask
  \/ /\ task.at \in {"page", "count", "info", "loaded", "failed"} /\ Begun
     /\ task.at \in {"count", "info", "loaded"} => Read
     /\ task.at \in {"info", "loaded"} => task.total \in Nat
     /\ task.at = "loaded" => task.revision \in 0..viewed.revision

ScreenInv ==
  /\ Blank \/ \E q : Shows(q)
  /\ Settled => Shows(Query(asked, view.order))

ViewInv == ViewedInv /\ ViewTypes /\ TaskInv /\ ScreenInv

-----------------------------------------------------------------------------
LEMMA CaseWith ==
  ASSUME NEW S, NEW v \in [id : {1}, revision : Nat, rows : S], NEW n, NEW rows
  PROVE  [v EXCEPT !.rows = rows, !.revision = n] = [id |-> 1, revision |-> n, rows |-> rows]
<1> DEFINE first == [v EXCEPT !.rows = rows]
<1>1. first = [id |-> 1, revision |-> v.revision, rows |-> rows]
  OBVIOUS
<1>2. [v EXCEPT !.rows = rows, !.revision = n] = [first EXCEPT !.revision = n]
  OBVIOUS
<1> HIDE DEF first
<1> QED BY <1>1, <1>2

LEMMA Revisions ==
  ASSUME ViewedInv
  PROVE  /\ AtRevision(viewed.revision) = viewed
         /\ \A n \in 0..viewed.revision :
              /\ AtRevision(n) = [id |-> 1, revision |-> n, rows |-> revisions[n + 1]]
              /\ revisions[n + 1] \in Seq(RowType)
<1>1. \A n : AtRevision(n) = [id |-> 1, revision |-> n, rows |-> revisions[n + 1]]
  BY CaseWith DEF AtRevision, ViewedInv
<1>2. viewed = [id |-> 1, revision |-> viewed.revision, rows |-> revisions[viewed.revision + 1]]
  BY DEF ViewedInv
<1>3. \A n \in 0..viewed.revision : revisions[n + 1] \in Seq(RowType)
  <2>1. \A n \in 0..viewed.revision : n + 1 \in 1..Len(revisions)
    BY DEF ViewedInv
  <2> QED BY <2>1 DEF ViewedInv
<1> QED BY <1>1, <1>2, <1>3

(* A cursor names the revision and the query of its page, and is good for   *)
(* them only.                                                               *)
LEMMA CursorNames ==
  ASSUME NEW db, NEW q, NEW cursor, NEW limit, Page(db, q, cursor, limit).next # None
  PROVE  LET next == Page(db, q, cursor, limit).next IN next.revision = db.revision /\ next.query = q
<1> DEFINE left == Remaining(db, q, cursor)
           n == Fitting(db, left, limit)
<1>1. Page(db, q, cursor, limit).next \in {None, Cursor(db, q, left[n])}
  BY DEF Page, Refused
<1>2. Cursor(db, q, left[n]).revision = db.revision /\ Cursor(db, q, left[n]).query = q
  BY DEF Cursor
<1> QED BY <1>1, <1>2

LEMMA CursorHolds ==
  ASSUME NEW db, NEW q, NEW cursor, NEW limit, Page(db, q, cursor, limit).ok, cursor # None
  PROVE  cursor.revision = db.revision /\ cursor.query = q
<1>1. Current(db, q, cursor)
  BY DEF Page, Refused
<1> QED BY <1>1 DEF Current

LEMMA TrailNames ==
  ASSUME ViewedInv, NEW n \in 0..viewed.revision, NEW q, NEW S, NEW list \in Seq(S), Trail(list, n, q),
         NEW i \in DOMAIN list, list[i] # None
  PROVE  list[i].revision = n /\ list[i].query = q
<1>1. i - 1 \in 1..(Len(list) - 1) /\ (i - 1) + 1 = i
  BY DEF Trail
<1>2. list[i] = PageAt(n, q, list[i - 1]).next
  BY <1>1 DEF Trail
<1>3. AtRevision(n).revision = n
  BY Revisions
<1> QED BY <1>2, <1>3, CursorNames DEF PageAt

LEMMA TrailGoesOn ==
  ASSUME NEW n, NEW q, NEW S, NEW list \in Seq(S), Trail(list, n, q),
         NEW next, next # None, next = PageAt(n, q, list[Len(list)]).next
  PROVE  Trail(Append(list, next), n, q)
<1> DEFINE longer == Append(list, next)
           N == Len(list)
<1>1. /\ N \in Nat \ {0} /\ Len(longer) = N + 1 /\ longer[N + 1] = next
      /\ \A i \in 1..N : longer[i] = list[i]
  BY DEF Trail
<1>2. \A i \in 1..(N - 1) : i \in 1..N /\ i + 1 \in 1..N
  BY <1>1
<1>3. \A i \in 1..N : i \in 1..(N - 1) \/ i = N
  BY <1>1
<1>4. longer # << >> /\ longer[1] = None
  BY <1>1 DEF Trail
<1> HIDE DEF longer
<1>5. \A i \in 1..N : longer[i + 1] # None /\ longer[i + 1] = PageAt(n, q, longer[i]).next
  BY <1>1, <1>2, <1>3 DEF Trail
<1>6. Len(longer) - 1 = N
  BY <1>1
<1>7. Trail(longer, n, q)
  BY <1>4, <1>5, <1>6 DEF Trail
<1> QED BY <1>7 DEF longer

LEMMA TrailGoesBack ==
  ASSUME NEW n, NEW q, NEW S, NEW list \in Seq(S), list # << >>, NEW last, Trail(Append(list, last), n, q)
  PROVE  Trail(list, n, q) /\ Append(Front(list), Last(list)) = list
<1> DEFINE longer == Append(list, last)
           N == Len(list)
<1>1. N \in Nat \ {0} /\ Len(longer) = N + 1 /\ \A i \in 1..N : longer[i] = list[i]
  BY DEF Trail
<1> HIDE DEF longer
<1>2. /\ longer[1] = None
      /\ \A i \in 1..N : longer[i + 1] # None /\ longer[i + 1] = PageAt(n, q, longer[i]).next
  <2>1. Len(longer) - 1 = N
    BY <1>1
  <2> QED BY <2>1 DEF Trail, longer
<1>3. \A i \in 1..(N - 1) : i \in 1..N /\ i + 1 \in 1..N
  BY <1>1
<1>4. list[1] = None /\ \A i \in 1..(N - 1) : list[i + 1] # None /\ list[i + 1] = PageAt(n, q, list[i]).next
  <2>1. 1 \in 1..N
    BY <1>1
  <2> QED BY <1>1, <1>2, <1>3, <2>1
<1>5. Append(Front(list), Last(list)) = list
  <2>1. /\ Front(list) \in Seq(S) /\ Len(Front(list)) = N - 1 /\ Last(list) = list[N]
        /\ \A i \in 1..(N - 1) : Front(list)[i] = list[i]
    <3>1. 1 \in Int /\ N - 1 \in Int /\ \A i \in 1..(N - 1) : list[i] \in S
      BY <1>1
    <3>2. Front(list) = SubSeq(list, 1, N - 1)
      BY DEF Front
    <3>3. \A i \in 1..(N - 1) : 1 + i - 1 = i
      OBVIOUS
    <3>4. /\ SubSeq(list, 1, N - 1) \in Seq(S)
          /\ Len(SubSeq(list, 1, N - 1)) = IF 1 <= N - 1 THEN N - 1 - 1 + 1 ELSE 0
          /\ \A i \in 1..(N - 1 - 1 + 1) : SubSeq(list, 1, N - 1)[i] = list[1 + i - 1]
      <4> HIDE DEF N
      <4> QED BY <3>1, SubSeqProperties
    <3>5. N - 1 - 1 + 1 = N - 1 /\ Last(list) = list[N]
      BY <1>1 DEF Last
    <3> HIDE DEF N
    <3> QED BY <1>1, <3>2, <3>3, <3>4, <3>5
  <2> HIDE DEF N
  <2> QED BY <1>1, <2>1 DEF N
<1> QED BY <1>4, <1>5 DEF Trail

(* The page on the screen is the one its number says.                       *)
LEMMA PageNumberIs ==
  ASSUME NEW n, NEW q, NEW S, NEW list \in Seq(S), Trail(list, n, q)
  PROVE  PageNumber(n, q, Len(list) - 1) = PageAt(n, q, list[Len(list)])
<1> DEFINE K == Len(list) - 1
           At(f, i) == Page(AtRevision(n), q, IF i = 0 THEN None ELSE f[i - 1].next, PageSize)
           Is(f) == f = [i \in 0..K |-> At(f, i)]
           g == [i \in 0..K |-> PageAt(n, q, list[i + 1])]
<1>1. K \in Nat /\ K + 1 = Len(list) /\ list[1] = None
  BY DEF Trail
<1>2. \A i \in 1..K : i \in 0..K /\ i - 1 \in 0..K /\ (i - 1) + 1 = i /\ i # 0
  BY <1>1
<1>3. \A i \in 0..K : g[i] = PageAt(n, q, list[i + 1])
  OBVIOUS
<1> HIDE DEF K
<1>4. \A i \in 1..K : list[i + 1] = PageAt(n, q, list[i]).next
  BY DEF Trail, K
<1>5. Is(g)
  <2>1. At(g, 0) = PageAt(n, q, list[0 + 1])
    BY <1>1 DEF PageAt
  <2>2. \A i \in 1..K : At(g, i) = PageAt(n, q, list[i + 1])
    <3> SUFFICES ASSUME NEW i \in 1..K PROVE At(g, i) = PageAt(n, q, list[i + 1])
      OBVIOUS
    <3>1. g[i - 1] = PageAt(n, q, list[(i - 1) + 1]) /\ (i - 1) + 1 = i /\ i # 0
      BY <1>2, <1>3
    <3>2. g[i - 1].next = list[i + 1]
      BY <1>4, <3>1
    <3> HIDE DEF g
    <3> QED BY <3>1, <3>2 DEF PageAt
  <2>3. \A i \in 0..K : i = 0 \/ i \in 1..K
    BY <1>1
  <2>4. \A i \in 0..K : At(g, i) = PageAt(n, q, list[i + 1])
    <3> HIDE DEF At, g
    <3> QED BY <2>1, <2>2, <2>3
  <2> HIDE DEF At
  <2> QED BY <2>4
<1>6. PICK f : Is(f) /\ f = CHOOSE h : Is(h)
  <2> HIDE DEF Is
  <2> QED BY <1>5
<1>7. PageNumber(n, q, K) = f[K]
  BY <1>6 DEF PageNumber
<1>8. \A i \in 0..K : f[i] = At(f, i) /\ g[i] = At(g, i)
  <2> HIDE DEF At, g
  <2> QED BY <1>5, <1>6
<1> DEFINE R == {i \in 0..K : f[i] = g[i]}
<1> HIDE DEF g
<1>9. 0 \in R
  <2>1. 0 \in 0..K
    BY <1>1
  <2> QED BY <1>8, <2>1
<1>10. ASSUME NEW i \in 1..K, i - 1 \in R PROVE i \in R
  BY <1>2, <1>8, <1>10
<1>11. 0..K \subseteq R
  <2> HIDE DEF R
  <2> QED BY <1>1, <1>9, <1>10, UpTo
<1>12. f[K] = g[K] /\ K \in 0..K
  BY <1>1, <1>11
<1> QED BY <1>1, <1>3, <1>7, <1>12 DEF K

(* Every page before has records.                                           *)
LEMMA TrailIsShort ==
  ASSUME ViewedInv, NEW n \in 0..viewed.revision, NEW q, NEW S, NEW list \in Seq(S), Trail(list, n, q),
         PageAt(n, q, list[Len(list)]).ok
  PROVE  /\ Len(list) = 1 \/ Len(list) - 1 < Count(revisions[n + 1], q)
         /\ Len(PageAt(n, q, list[Len(list)]).items) <= PageSize
<1> DEFINE K == Len(list) - 1
           db == AtRevision(n)
           all == Sorted(db.rows, q)
           R == {i \in 0..K : \E k \in Nat : AtRecord(list[i + 1], db, q, k) /\ i <= k /\ (i = 0 \/ k < Len(all))}
<1>1. K \in Nat /\ K + 1 = Len(list) /\ list[1] = None /\ PageSize \in Nat
  BY ViewAssumption DEF Trail
<1>2. db.rows \in Seq(RowType) /\ db.rows = revisions[n + 1]
  BY Revisions
<1>3. all \in Seq(DOMAIN db.rows)
  <2> HIDE DEF db
  <2> QED BY <1>2, SortedIs
<1> HIDE DEF K, db
<1>4. 0 \in R
  <2>1. AtRecord(list[0 + 1], db, q, 0)
    BY <1>1, <1>3 DEF AtRecord
  <2> QED BY <1>1, <2>1
<1>5. ASSUME NEW i \in 1..K, i - 1 \in R PROVE i \in R
  <2> DEFINE page == PageAt(n, q, list[i])
  <2>1. i \in 0..K /\ i \in Nat /\ (i - 1) + 1 = i
    BY <1>1
  <2>2. list[i + 1] # None /\ list[i + 1] = page.next
    BY DEF Trail, K
  <2>3. PICK k \in Nat : AtRecord(list[i], db, q, k) /\ i - 1 <= k
    BY <1>5, <2>1
  <2>4. page # Refused /\ page = Page(db, q, list[i], PageSize)
    BY <2>2 DEF Refused, PageAt, db
  <2>5. GoesOn(page, db, q, k)
    <3> HIDE DEF page
    <3> QED BY <1>1, <1>2, <2>3, <2>4, PageIs
  <2>6. PICK m \in k..Len(all) :
          IF m = Len(all) THEN page.next = None ELSE m > k /\ page.next = Cursor(db, q, all[m])
    BY <2>5 DEF GoesOn
  <2>7. m # Len(all) /\ m > k /\ page.next = Cursor(db, q, all[m])
    BY <2>2, <2>6
  <2>8. m \in Nat /\ m > 0 /\ m < Len(all) /\ i <= m
    <3>1. Len(all) \in Nat
      BY <1>3
    <3> HIDE DEF all
    <3> QED BY <2>1, <2>3, <2>6, <2>7, <3>1
  <2>9. AtRecord(list[i + 1], db, q, m)
    <3>1. Cursor(db, q, all[m]).position = Position(db.rows, q, all[m])
      BY DEF Cursor
    <3>2. m \in 0..Len(all) /\ m # 0
      BY <1>3, <2>8
    <3> HIDE DEF page
    <3> QED BY <2>2, <2>7, <2>8, <3>1, <3>2 DEF AtRecord
  <2> QED BY <2>1, <2>8, <2>9
<1>6. 0..K \subseteq R
  <2> HIDE DEF R
  <2> QED BY <1>1, <1>4, <1>5, UpTo
<1>7. PICK k \in Nat : AtRecord(list[K + 1], db, q, k) /\ K <= k /\ (K = 0 \/ k < Len(all))
  <2>1. K \in 0..K
    BY <1>1
  <2> QED BY <1>6, <2>1
<1>8. Len(PageAt(n, q, list[Len(list)]).items) <= PageSize
  <2>1. Page(db, q, list[K + 1], PageSize) # Refused
    BY <1>1 DEF Refused, PageAt, db
  <2>2. Len(Page(db, q, list[K + 1], PageSize).items) <= PageSize
    BY <1>1, <1>2, <1>7, <2>1, PageIs
  <2> QED BY <1>1, <2>2 DEF PageAt, db
<1>9. Len(list) = 1 \/ K < Count(revisions[n + 1], q)
  <2>1. Count(revisions[n + 1], q) = Len(all) /\ Len(all) \in Nat
    BY <1>2, <1>3 DEF Count
  <2> HIDE DEF all
  <2> QED BY <1>1, <1>7, <2>1
<1> QED BY <1>8, <1>9 DEF K

-----------------------------------------------------------------------------
(* The case is written to, or left alone: what was, stays.                  *)
Older ==
  /\ ViewedInv /\ ViewedInv' /\ viewed.revision <= viewed'.revision
  /\ \A n \in 0..viewed.revision : revisions'[n + 1] = revisions[n + 1]

LEMMA Untouched == ASSUME ViewedInv, UNCHANGED <<viewed, revisions>> PROVE Older
BY DEF Older, ViewedInv

LEMMA Rewritten == ASSUME ViewedInv, Written PROVE Older
<1>1. PICK rows \in {Append(viewed.rows, r) : r \in MoreRows}
                     \cup {[viewed.rows EXCEPT ![i].noted = ~@] : i \in DOMAIN viewed.rows} :
        /\ viewed' = [viewed EXCEPT !.rows = rows, !.revision = @ + 1]
        /\ revisions' = Append(revisions, rows)
  BY DEF Written
<1>2. viewed.rows \in Seq(RowType) /\ viewed.revision \in Nat /\ MoreRows \subseteq RowType
  BY ViewAssumption DEF ViewedInv
<1>3. rows \in Seq(RowType)
  <2>1. CASE rows \in {Append(viewed.rows, r) : r \in MoreRows}
    BY <1>2, <2>1
  <2>2. CASE rows \in {[viewed.rows EXCEPT ![i].noted = ~@] : i \in DOMAIN viewed.rows}
    <3>1. PICK i \in DOMAIN viewed.rows : rows = [viewed.rows EXCEPT ![i].noted = ~@]
      BY <2>2
    <3>2. [viewed.rows[i] EXCEPT !.noted = ~@] \in RowType
      <4>1. viewed.rows[i] \in RowType
        BY <1>2
      <4> QED BY <4>1 DEF RowType
    <3>3. rows = [viewed.rows EXCEPT ![i] = [viewed.rows[i] EXCEPT !.noted = ~@]]
      BY <3>1
    <3> QED BY <1>2, <3>2, <3>3
  <2> QED BY <1>1, <2>1, <2>2
<1>4. /\ viewed' = [id |-> 1, revision |-> viewed.revision + 1, rows |-> rows]
      /\ viewed' \in [id : {1}, revision : Nat, rows : Seq(RowType)]
  <2>1. viewed' = [viewed EXCEPT !.rows = rows, !.revision = viewed.revision + 1]
    BY <1>1
  <2>2. viewed' = [id |-> 1, revision |-> viewed.revision + 1, rows |-> rows]
    BY <2>1, CaseWith DEF ViewedInv
  <2> QED BY <1>2, <1>3, <2>2
<1>5. /\ revisions' \in Seq(Seq(RowType)) /\ Len(revisions') = Len(revisions) + 1
      /\ revisions'[Len(revisions) + 1] = rows
      /\ \A i \in 1..Len(revisions) : revisions'[i] = revisions[i]
  <2>1. revisions \in Seq(Seq(RowType))
    BY DEF ViewedInv
  <2> QED BY <1>1, <1>3, <2>1
<1>6. Len(revisions) = viewed.revision + 1
  BY DEF ViewedInv
<1>7. \A n \in 0..viewed.revision : n + 1 \in 1..Len(revisions)
  BY <1>2, <1>6
<1> QED BY <1>2, <1>4, <1>5, <1>6, <1>7 DEF Older, ViewedInv

LEMMA PagesStay ==
  ASSUME Older, NEW n \in 0..viewed.revision
  PROVE  /\ n \in 0..viewed'.revision
         /\ \A q, cursor : PageAt(n, q, cursor)' = PageAt(n, q, cursor)
<1>1. n \in 0..viewed'.revision
  BY DEF Older, ViewedInv
<1>2. AtRevision(n)' = [id |-> 1, revision |-> n, rows |-> revisions'[n + 1]]
  <2>1. viewed' \in [id : {1}, revision : Nat, rows : Seq(RowType)]
    BY DEF Older, ViewedInv
  <2>2. AtRevision(n)' = [viewed' EXCEPT !.rows = revisions'[n + 1], !.revision = n]
    BY DEF AtRevision
  <2> QED BY <2>1, <2>2, CaseWith
<1>3. AtRevision(n) = [id |-> 1, revision |-> n, rows |-> revisions[n + 1]]
  BY Revisions DEF Older
<1>4. AtRevision(n)' = AtRevision(n)
  BY <1>2, <1>3 DEF Older
<1> QED BY <1>1, <1>4 DEF PageAt

LEMMA ShownStays ==
  ASSUME Older, NEW q, Shows(q), shownAt' = shownAt, view'.back = view.back, view'.cursor = view.cursor,
         view'.headers = view.headers, view'.next = view.next
  PROVE  Shows(q)'
<1>1. shownAt \in 0..viewed.revision
  BY DEF Shows
<1>2. shownAt \in 0..viewed'.revision /\ \A p, cursor : PageAt(shownAt, p, cursor)' = PageAt(shownAt, p, cursor)
  <2> DEFINE n == shownAt
  <2> QED BY <1>1, PagesStay
<1> QED BY <1>2 DEF Shows, Trail

LEMMA ReadStays ==
  ASSUME Older, Read, task'.of = task.of, task'.restarted = task.restarted, task'.page = task.page,
         task'.query = task.query, task'.cursor = task.cursor
  PROVE  Read'
<1>1. task.of \in 0..viewed.revision
  BY DEF Read
<1>2. task.of \in 0..viewed'.revision /\ \A q, cursor : PageAt(task.of, q, cursor)' = PageAt(task.of, q, cursor)
  <2> DEFINE n == task.of
  <2> QED BY <1>1, PagesStay
<1> QED BY <1>2 DEF Read

(* The screen stays as it is, and either it is not settled or it was.       *)
LEMMA ScreenStays ==
  ASSUME Older, ScreenInv, shownAt' = shownAt, view'.back = view.back, view'.cursor = view.cursor,
         view'.headers = view.headers, view'.next = view.next,
         Settled' => Settled /\ asked' = asked /\ view'.order = view.order
  PROVE  ScreenInv'
<1>1. \A q : Shows(q) => Shows(q)'
  BY ShownStays
<1>2. (Blank \/ \E q : Shows(q))'
  <2>1. CASE Blank
    BY <2>1 DEF Blank
  <2>2. CASE \E q : Shows(q)
    BY <1>1, <2>2
  <2> QED BY <2>1, <2>2 DEF ScreenInv
<1>3. ASSUME Settled' PROVE Shows(Query(asked, view.order))'
  <2> DEFINE q == Query(asked, view.order)
  <2>1. Shows(q) /\ q' = q
    BY <1>3 DEF ScreenInv
  <2>2. asked' = asked /\ view'.order = view.order
    BY <1>3
  <2> QED BY <1>1, <2>1, <2>2 DEF Shows, Trail
<1> QED BY <1>2, <1>3 DEF ScreenInv

LEMMA WrittenStep == ASSUME ViewInv, Written PROVE ViewInv'
<1>1. /\ Older
      /\ UNCHANGED <<form, pending, view, task, events, asked, trusted, shownAt>>
  BY Rewritten DEF ViewInv, Written
<1>2. ViewedInv' /\ \A n \in 0..viewed.revision : n \in 0..viewed'.revision
  BY <1>1 DEF Older, ViewedInv
<1>3. ViewTypes'
  BY <1>1, <1>2 DEF ViewInv, ViewTypes
<1>4. TaskInv'
  <2>1. Read => Read'
    BY <1>1, ReadStays
  <2>2. Begun => Begun'
    BY <1>1 DEF Begun
  <2> QED BY <1>1, <1>2, <2>1, <2>2 DEF ViewInv, TaskInv
<1>5. ScreenInv'
  BY <1>1, ScreenStays DEF ViewInv, Settled, busy
<1> QED BY <1>2, <1>3, <1>4, <1>5 DEF ViewInv

(* A load begins.                                                           *)
LEMMA LoadStep ==
  ASSUME ViewInv, NEW cursor, NEW direction, LoadRecords(cursor, direction),
         \/ direction = 0 /\ cursor = None
         \/ direction = 1 /\ view.next # None /\ cursor = view.next
         \/ direction = -1 /\ view.back # << >> /\ cursor = Last(view.back),
         UNCHANGED <<viewed, revisions, form, pending, asked, trusted, shownAt>>, events' \in 0..MaxEvents
  PROVE  ViewInv'
<1>1. Older
  BY Untouched DEF ViewInv
<1>2. /\ view' = [view EXCEPT !.refresh = FALSE]
      /\ DOMAIN view = DOMAIN NewView(Query(NoFilters, "path"))
      /\ view.query = Query(asked, view.query.order)
  BY DEF ViewInv, ViewTypes, LoadRecords
<1>3. /\ DOMAIN view' = DOMAIN view /\ view'.refresh = FALSE
      /\ view'.query = view.query /\ view'.order = view.order /\ view'.back = view.back
      /\ view'.cursor = view.cursor /\ view'.next = view.next /\ view'.headers = view.headers
      /\ view'.total = view.total /\ view'.revision = view.revision
  BY <1>2 DEF NewView
<1>4. [view.query EXCEPT !.order = view.order] = Query(asked, view.order)
  BY <1>2 DEF Query
<1>5. /\ DOMAIN task' = DOMAIN NoTask /\ task'.at = "page" /\ task'.query = Query(asked, view.order)
      /\ task'.cursor = cursor /\ task'.direction = direction
  BY <1>4 DEF LoadRecords, NoTask
<1>6. ViewTypes'
  BY <1>3 DEF ViewInv, ViewTypes
<1>7. TaskInv'
  <2>1. task'.query = Query(asked', task'.query.order) /\ task'.query.order = view'.order
    BY <1>3, <1>5 DEF Query
  <2>2. Begun'
    BY <1>3, <1>5, <2>1 DEF Begun
  <2> QED BY <1>5, <2>2 DEF TaskInv
<1>8. ScreenInv'
  <2>1. ~Settled'
    BY <1>5 DEF Settled, busy, NoTask
  <2> QED BY <1>1, <1>3, <2>1, ScreenStays DEF ViewInv
<1> QED BY <1>1, <1>6, <1>7, <1>8 DEF ViewInv, Older

LEMMA PollStep == ASSUME ViewInv, Poll PROVE ViewInv'
<1>1. /\ LoadRecords(None, 0) /\ UNCHANGED <<viewed, revisions, form, pending, asked, trusted, shownAt>>
      /\ events' \in 0..MaxEvents
  BY DEF Poll, ViewInv, ViewTypes
<1> QED BY <1>1, LoadStep

LEMMA EventIs == ASSUME ViewInv, UserEvent PROVE events' \in 0..MaxEvents
BY ViewAssumption DEF ViewInv, ViewTypes, UserEvent

LEMMA NextPageStep == ASSUME ViewInv, NextPage PROVE ViewInv'
<1>1. /\ LoadRecords(view.next, 1) /\ view.next # None
      /\ UNCHANGED <<viewed, revisions, form, pending, asked, trusted, shownAt>>
      /\ events' \in 0..MaxEvents
  BY EventIs DEF NextPage, UserEvent
<1> QED BY <1>1, LoadStep

LEMMA PreviousPageStep == ASSUME ViewInv, PreviousPage PROVE ViewInv'
<1>1. /\ LoadRecords(Last(view.back), -1) /\ view.back # << >>
      /\ UNCHANGED <<viewed, revisions, form, pending, asked, trusted, shownAt>>
      /\ events' \in 0..MaxEvents
  BY EventIs DEF PreviousPage, UserEvent
<1> QED BY <1>1, LoadStep

(* The task reads.                                                          *)
TaskStep ==
  /\ task # NoTask /\ DOMAIN task' = DOMAIN task
  /\ task'.query = task.query /\ task'.cursor = task.cursor /\ task'.direction = task.direction
  /\ UNCHANGED <<viewed, revisions, form, pending, view, events, asked, trusted, shownAt>>

LEMMA TaskMoves ==
  ASSUME ViewInv, TaskStep, task'.at \in {"count", "info", "loaded", "failed"},
         task'.at \in {"count", "info", "loaded"} => Read',
         task'.at \in {"info", "loaded"} => task'.total \in Nat,
         task'.at = "loaded" => task'.revision \in 0..viewed.revision
  PROVE  ViewInv'
<1>1. Older
  BY Untouched DEF ViewInv, TaskStep
<1>2. ViewTypes'
  BY DEF ViewInv, ViewTypes, TaskStep
<1>3. TaskInv'
  <2>1. Begun'
    BY DEF ViewInv, TaskInv, TaskStep, Begun
  <2>2. viewed' = viewed
    BY DEF TaskStep
  <2> QED BY <2>1, <2>2 DEF TaskInv
<1>4. ScreenInv'
  <2>1. ~Settled'
    <3>1. task' # NoTask
      BY DEF NoTask
    <3> QED BY <3>1 DEF Settled, busy
  <2> QED BY <1>1, <2>1, ScreenStays DEF ViewInv, TaskStep
<1> QED BY <1>1, <1>2, <1>3, <1>4 DEF ViewInv, Older

LEMMA TaskIs ==
  ASSUME ViewInv, task.at \in {"page", "count", "info", "loaded"}
  PROVE  /\ task # NoTask /\ DOMAIN task = DOMAIN NoTask /\ Begun
         /\ task.at # "page" => Read
         /\ task.at \in {"info", "loaded"} => task.total \in Nat
         /\ task.at = "loaded" => task.revision \in 0..viewed.revision
<1>1. task # NoTask
  BY DEF NoTask
<1> QED BY <1>1 DEF ViewInv, TaskInv, Begun

LEMMA ReadPageStep == ASSUME ViewInv, ReadPage PROVE ViewInv'
<1> DEFINE page == Page(viewed, task.query, task.cursor, PageSize)
           first == Page(viewed, task.query, None, PageSize)
           restarted == ~page.ok /\ task.cursor # None
           ends == IF page.ok \/ (restarted /\ first.ok) THEN "count" ELSE "failed"
           got == IF restarted THEN first ELSE page
<1>1. /\ task.at = "page"
      /\ task' = [task EXCEPT !.at = ends, !.page = got, !.restarted = restarted, !.of = viewed.revision]
      /\ UNCHANGED <<viewed, revisions, form, pending, view, events, asked, trusted, shownAt>>
  BY DEF ReadPage
<1>2. task # NoTask /\ DOMAIN task = DOMAIN NoTask
  BY <1>1, TaskIs
<1> HIDE DEF ends, got
<1>3. /\ DOMAIN task' = DOMAIN task /\ task'.at = ends /\ task'.page = got
      /\ task'.restarted = restarted /\ task'.of = viewed.revision
      /\ task'.query = task.query /\ task'.cursor = task.cursor /\ task'.direction = task.direction
  <2> HIDE DEF restarted
  <2> QED BY <1>1, <1>2 DEF NoTask
<1>4. TaskStep /\ ends \in {"count", "failed"}
  BY <1>1, <1>2, <1>3 DEF TaskStep, ends
<1>5. ASSUME ends = "count" PROVE Read'
  <2>1. got.ok /\ got = Page(viewed, task.query, IF restarted THEN None ELSE task.cursor, PageSize)
    BY <1>5 DEF ends, got
  <2>2. viewed.revision \in Nat /\ AtRevision(viewed.revision) = viewed
    BY Revisions DEF ViewInv, ViewedInv
  <2>3. PICK n \in 0..viewed.revision : n = viewed.revision
    BY <2>2
  <2>5. \A q, cursor : PageAt(n, q, cursor)' = Page(viewed, q, cursor, PageSize)
    BY <1>1, <2>2, <2>3, Untouched, PagesStay DEF ViewInv, PageAt
  <2>4. viewed'.revision = viewed.revision /\ restarted \in BOOLEAN
    BY <1>1
  <2> HIDE DEF restarted
  <2> QED BY <1>3, <2>1, <2>2, <2>3, <2>4, <2>5 DEF Read
<1> QED BY <1>3, <1>4, <1>5, TaskMoves

LEMMA ReadTotalStep == ASSUME ViewInv, ReadTotal PROVE ViewInv'
<1>1. /\ task.at = "count" /\ task' = [task EXCEPT !.at = "info", !.total = Count(viewed.rows, task.query)]
      /\ UNCHANGED <<viewed, revisions, form, pending, view, events, asked, trusted, shownAt>>
  BY DEF ReadTotal
<1>2. task # NoTask /\ DOMAIN task = DOMAIN NoTask /\ Read
  BY <1>1, TaskIs
<1>3. /\ DOMAIN task' = DOMAIN task /\ task'.at = "info" /\ task'.total = Count(viewed.rows, task.query)
      /\ task'.page = task.page /\ task'.restarted = task.restarted /\ task'.of = task.of
      /\ task'.query = task.query /\ task'.cursor = task.cursor /\ task'.direction = task.direction
  BY <1>1, <1>2 DEF NoTask
<1>4. Read'
  BY <1>1, <1>2, <1>3, Untouched, ReadStays DEF ViewInv
<1>5. task'.total \in Nat
  <2>1. Sorted(viewed.rows, task.query) \in Seq(DOMAIN viewed.rows)
    BY SortedIs DEF ViewInv, ViewedInv
  <2> QED BY <1>3, <2>1 DEF Count
<1>6. TaskStep
  BY <1>1, <1>2, <1>3 DEF TaskStep
<1> QED BY <1>3, <1>4, <1>5, <1>6, TaskMoves

LEMMA ReadRevisionStep == ASSUME ViewInv, ReadRevision PROVE ViewInv'
<1>1. /\ task.at = "info" /\ task' = [task EXCEPT !.at = "loaded", !.revision = viewed.revision]
      /\ UNCHANGED <<viewed, revisions, form, pending, view, events, asked, trusted, shownAt>>
  BY DEF ReadRevision
<1>2. task # NoTask /\ DOMAIN task = DOMAIN NoTask /\ Read /\ task.total \in Nat
  BY <1>1, TaskIs
<1>3. /\ DOMAIN task' = DOMAIN task /\ task'.at = "loaded" /\ task'.total = task.total
      /\ task'.page = task.page /\ task'.restarted = task.restarted /\ task'.of = task.of
      /\ task'.query = task.query /\ task'.cursor = task.cursor /\ task'.direction = task.direction
      /\ task'.revision = viewed.revision
  BY <1>1, <1>2 DEF NoTask
<1>4. Read'
  BY <1>1, <1>2, <1>3, Untouched, ReadStays DEF ViewInv
<1>5. viewed.revision \in 0..viewed.revision
  BY DEF ViewInv, ViewedInv
<1>6. TaskStep
  BY <1>1, <1>2, <1>3 DEF TaskStep
<1> QED BY <1>2, <1>3, <1>4, <1>5, <1>6, TaskMoves

LEMMA ReadErrorStep == ASSUME ViewInv, ReadError PROVE ViewInv'
<1>1. /\ task.at \in {"page", "count", "info"} /\ task' = [task EXCEPT !.at = "failed"]
      /\ UNCHANGED <<viewed, revisions, form, pending, view, events, asked, trusted, shownAt>>
  BY DEF ReadError
<1>2. task # NoTask /\ DOMAIN task = DOMAIN NoTask
  BY <1>1, TaskIs
<1>3. /\ DOMAIN task' = DOMAIN task /\ task'.at = "failed"
      /\ task'.query = task.query /\ task'.cursor = task.cursor /\ task'.direction = task.direction
  BY <1>1, <1>2 DEF NoTask
<1>4. TaskStep
  BY <1>1, <1>2, <1>3 DEF TaskStep
<1> QED BY <1>3, <1>4, TaskMoves

LEMMA ListsAre ==
  ASSUME NEW list, IsList(list)
  PROVE  /\ \A x : IsList(Append(list, x))
         /\ list # << >> => /\ IsList(Front(list)) /\ Len(list) \in DOMAIN list
                            /\ Last(list) = list[Len(list)]
<1>1. \A S : \A s \in Seq(S) : IsList(s)
  <2> SUFFICES ASSUME NEW S, NEW s \in Seq(S) PROVE s \in Seq(ToSet(s))
    BY DEF IsList
  <2>1. Len(s) \in Nat /\ DOMAIN s = 1..Len(s) /\ s \in [1..Len(s) -> ToSet(s)]
    BY DEF ToSet
  <2> QED BY <2>1
<1>2. \A x : IsList(Append(list, x))
  <2> SUFFICES ASSUME NEW x PROVE IsList(Append(list, x))
    OBVIOUS
  <2> DEFINE S == ToSet(list) \cup {x}
  <2>1. list \in Seq(S) /\ x \in S
    BY DEF IsList
  <2>2. Append(list, x) \in Seq(S)
    <3> HIDE DEF S
    <3> QED BY <2>1
  <2> QED BY <1>1, <2>2
<1>3. ASSUME list # << >> PROVE IsList(Front(list)) /\ Len(list) \in DOMAIN list
  <2> DEFINE S == ToSet(list)
  <2>1. list \in Seq(S)
    BY DEF IsList
  <2>2. Len(list) \in DOMAIN list /\ 1 \in Int /\ Len(list) - 1 \in Int
        /\ \A i \in 1..(Len(list) - 1) : list[i] \in S
    <3> HIDE DEF S
    <3> QED BY <1>3, <2>1
  <2>3. Front(list) \in Seq(S)
    <3> HIDE DEF S
    <3> QED BY <2>2, SubSeqProperties DEF Front
  <2> QED BY <1>1, <2>2, <2>3
<1> QED BY <1>2, <1>3 DEF Last

(* The trail to the page that was loaded.                                   *)
Loads(back, cursor) ==
  \/ /\ task.restarted \/ task.direction = 0
     /\ back = << >> /\ cursor = None
  \/ /\ ~task.restarted /\ task.direction = 1
     /\ back = Append(view.back, view.cursor) /\ cursor = task.cursor
  \/ /\ ~task.restarted /\ task.direction = -1
     /\ back = Front(view.back) /\ cursor = task.cursor

LEMMA NewTrail ==
  ASSUME ViewInv, task.at = "loaded", NEW back, NEW cursor, Loads(back, cursor)
  PROVE  /\ IsList(back) /\ Trail(Append(back, cursor), task.of, task.query)
         /\ task.page = PageAt(task.of, task.query, cursor)
<1>1. Begun /\ Read /\ IsList(view.back)
  BY TaskIs DEF ViewInv, ViewTypes
<1> DEFINE list == Append(view.back, view.cursor)
           n == task.of
           q == task.query
<1>2. IsList(list)
  BY <1>1, ListsAre
<1>3. CASE back = << >> /\ cursor = None
  <2>1. IsList(back)
    BY <1>3 DEF IsList
  <2>2. Append(back, cursor) = <<None>>
    BY <1>3
  <2>3. Trail(Append(back, cursor), n, q)
    <3>1. Len(<<None>>) - 1 = 0 /\ <<None>>[1] = None /\ <<None>> # << >> /\ 1..0 = {}
      OBVIOUS
    <3> QED BY <2>2, <3>1 DEF Trail
  <2>4. task.page = PageAt(n, q, cursor)
    <3>1. task.restarted \/ task.cursor = None
      BY <1>1, <1>3 DEF Begun, Loads
    <3> QED BY <1>1, <1>3, <3>1 DEF Read
  <2> QED BY <2>1, <2>3, <2>4
<1>4. ASSUME ~task.restarted, task.cursor # None, cursor = task.cursor,
             NEW p, Shows(p), task.cursor.revision = shownAt, task.cursor.query = p
      PROVE  shownAt = n /\ p = q /\ task.page = PageAt(n, q, cursor)
  <2>1. task.page = PageAt(n, q, cursor) /\ PageAt(n, q, cursor).ok /\ n \in 0..viewed.revision
    BY <1>1, <1>4 DEF Read
  <2>2. AtRevision(n).revision = n
    BY <2>1, Revisions DEF ViewInv
  <2>3. cursor.revision = n /\ cursor.query = q
    BY <1>4, <2>1, <2>2, CursorHolds DEF PageAt
  <2> QED BY <1>4, <2>1, <2>3
<1>5. CASE ~task.restarted /\ task.direction = 1
  <2>1. view.next # None /\ cursor = view.next /\ task.cursor = view.next /\ back = list
    BY <1>1, <1>5 DEF Begun, Loads
  <2>2. PICK p : Shows(p)
    BY <2>1 DEF ViewInv, ScreenInv, Blank
  <2>3. AtRevision(shownAt).revision = shownAt
    BY <2>2, Revisions DEF ViewInv, Shows
  <2>4. view.next.revision = shownAt /\ view.next.query = p
    BY <2>1, <2>2, <2>3, CursorNames DEF Shows, PageAt
  <2>5. shownAt = n /\ p = q /\ task.page = PageAt(n, q, cursor)
    BY <1>4, <1>5, <2>1, <2>2, <2>4
  <2>6. Trail(Append(list, cursor), n, q)
    <3>1. PICK S : list \in Seq(S)
      BY <1>2 DEF IsList
    <3>2. list[Len(list)] = view.cursor
      <4>1. PICK T : view.back \in Seq(T)
        BY <1>1 DEF IsList
      <4> QED BY <4>1
    <3>3. Trail(list, n, q) /\ view.next = PageAt(n, q, list[Len(list)]).next
      BY <2>2, <2>5, <3>2 DEF Shows
    <3> HIDE DEF list, n, q
    <3> QED BY <2>1, <3>1, <3>3, TrailGoesOn
  <2> HIDE DEF list, n, q
  <2>7. IsList(back) /\ back = list
    BY <1>2, <2>1
  <2> QED BY <2>5, <2>6, <2>7 DEF n, q
<1>6. CASE ~task.restarted /\ task.direction = -1
  <2>1. /\ view.back # << >> /\ cursor = Last(view.back) /\ task.cursor = cursor
        /\ back = Front(view.back)
    BY <1>1, <1>6 DEF Begun, Loads
  <2>2. PICK p : Shows(p)
    BY <2>1 DEF ViewInv, ScreenInv, Blank
  <2>3. PICK S : view.back \in Seq(S)
    BY <1>1 DEF IsList
  <2>4. Trail(view.back, shownAt, p) /\ Append(back, cursor) = view.back
    <3>1. Trail(Append(view.back, view.cursor), shownAt, p)
      BY <2>2 DEF Shows
    <3>2. Trail(view.back, shownAt, p) /\ Append(Front(view.back), Last(view.back)) = view.back
      <4>1. view.back \in Seq(S) /\ view.back # << >>
        BY <2>1, <2>3
      <4>2. PICK b, c, m : b = view.back /\ c = view.cursor /\ m = shownAt
        OBVIOUS
      <4>3. Trail(Append(b, c), m, p) /\ b \in Seq(S) /\ b # << >>
        BY <3>1, <4>1, <4>2
      <4>4. Trail(b, m, p) /\ Append(Front(b), Last(b)) = b
        BY <4>3, TrailGoesBack
      <4> QED BY <4>2, <4>4
    <3> QED BY <2>1, <3>2
  <2>5. IsList(back) /\ Len(view.back) \in DOMAIN view.back /\ cursor = view.back[Len(view.back)]
    BY <1>1, <2>1, ListsAre
  <2>6. CASE cursor = None
    <3>1. back = << >>
      <4>1. Len(view.back) \in 1..Len(view.back) /\ Len(view.back) \in Nat
        BY <2>3, <2>5
      <4>2. CASE Len(view.back) = 1
        <5>1. back = SubSeq(view.back, 1, 0)
          BY <2>1, <4>2 DEF Front
        <5> QED BY <5>1, SubSeqEmpty
      <4>3. CASE Len(view.back) # 1
        <5>0. \A k \in Nat : k \in 1..k /\ k # 1 => k - 1 \in 1..(k - 1) /\ (k - 1) + 1 = k
          OBVIOUS
        <5>1. Len(view.back) - 1 \in 1..(Len(view.back) - 1) /\ (Len(view.back) - 1) + 1 = Len(view.back)
          BY <4>1, <4>3, <5>0
        <5>2. view.back[Len(view.back)] # None
          BY <2>4, <5>1 DEF Trail
        <5> QED BY <2>5, <2>6, <5>2
      <4> QED BY <4>2, <4>3
    <3> QED BY <1>3, <2>6, <3>1
  <2>7. CASE cursor # None
    <3>1. shownAt \in 0..viewed.revision
      BY <2>2 DEF Shows
    <3>2. cursor.revision = shownAt /\ cursor.query = p
      BY <2>3, <2>4, <2>5, <2>7, <3>1, TrailNames DEF ViewInv
    <3>3. shownAt = n /\ p = q /\ task.page = PageAt(n, q, cursor)
      BY <1>4, <1>6, <2>1, <2>2, <2>7, <3>2
    <3> QED BY <2>4, <2>5, <3>3
  <2> QED BY <2>6, <2>7
<1> QED BY <1>3, <1>5, <1>6 DEF Loads

LEMMA LoadedStep == ASSUME ViewInv, Loaded PROVE ViewInv'
<1>1. /\ task.at = "loaded" /\ task' = NoTask /\ trusted' = TRUE /\ shownAt' = task.of
      /\ view' = [Turned EXCEPT !.query = task.query, !.headers = task.page.items,
                                !.next = task.page.next, !.total = task.total,
                                !.revision = task.revision]
      /\ UNCHANGED <<viewed, revisions, form, pending, events, asked>>
  BY DEF Loaded
<1>2. /\ Begun /\ Read /\ task.total \in Nat /\ task.revision \in 0..viewed.revision
      /\ DOMAIN view = DOMAIN NewView(Query(NoFilters, "path"))
  BY <1>1, TaskIs DEF ViewInv, ViewTypes
<1>3. /\ DOMAIN Turned = DOMAIN view /\ Loads(Turned.back, Turned.cursor)
      /\ Turned.refresh = view.refresh /\ Turned.order = view.order
  <2>1. CASE task.restarted \/ task.direction = 0
    <3>1. Turned = [view EXCEPT !.back = << >>, !.cursor = None]
      BY <2>1 DEF Turned
    <3> QED BY <1>2, <2>1, <3>1 DEF NewView, Loads
  <2>2. CASE ~task.restarted /\ task.direction = 1
    <3>1. Turned = [view EXCEPT !.back = Append(@, view.cursor), !.cursor = task.cursor]
      BY <2>2 DEF Turned
    <3> QED BY <1>2, <2>2, <3>1 DEF NewView, Loads
  <2>3. CASE ~task.restarted /\ task.direction = -1
    <3>1. Turned = [view EXCEPT !.back = Front(view.back), !.cursor = task.cursor]
      BY <1>2, <2>3 DEF Turned, Begun
    <3> QED BY <1>2, <2>3, <3>1 DEF NewView, Loads
  <2> QED BY <1>2, <2>1, <2>2, <2>3 DEF Begun
<1>4. /\ DOMAIN view' = DOMAIN view /\ view'.back = Turned.back /\ view'.cursor = Turned.cursor
      /\ view'.refresh = view.refresh /\ view'.order = view.order /\ view'.query = task.query
      /\ view'.headers = task.page.items /\ view'.next = task.page.next
      /\ view'.total = task.total /\ view'.revision = task.revision
  BY <1>1, <1>2, <1>3 DEF NewView
<1>5. /\ IsList(Turned.back) /\ Trail(Append(Turned.back, Turned.cursor), task.of, task.query)
      /\ task.page = PageAt(task.of, task.query, Turned.cursor)
  BY <1>1, <1>3, NewTrail
<1>6. Older
  BY <1>1, Untouched DEF ViewInv
<1>7. PICK n, q : n \in 0..viewed.revision /\ n = task.of /\ q = task.query
  BY <1>2 DEF Read
<1>8. \A p, cursor : PageAt(n, p, cursor)' = PageAt(n, p, cursor)
  BY <1>6, <1>7, PagesStay
<1>9. Shows(q)'
  <2>1. shownAt' = n /\ n \in 0..viewed'.revision
    BY <1>1, <1>7
  <2>2. Trail(Append(view.back, view.cursor), shownAt, q)'
    BY <1>4, <1>5, <1>7, <1>8, <2>1 DEF Trail
  <2>3. /\ PageAt(n, q, view'.cursor).ok /\ view'.headers = PageAt(n, q, view'.cursor).items
        /\ view'.next = PageAt(n, q, view'.cursor).next
    BY <1>2, <1>4, <1>5, <1>7 DEF Read
  <2> QED BY <1>8, <2>1, <2>2, <2>3 DEF Shows
<1>10. task.query = Query(asked, task.query.order)
  BY <1>2 DEF Begun
<1>11. ViewTypes'
  BY <1>1, <1>2, <1>4, <1>5, <1>10 DEF ViewInv, ViewTypes
<1>12. TaskInv'
  BY <1>1 DEF TaskInv
<1>13. ScreenInv'
  <2>1. ASSUME Settled' PROVE Shows(Query(asked, view.order))'
    <3>1. ~view.refresh
      BY <1>2, <1>4, <2>1 DEF Settled
    <3>2. q = Query(asked', view'.order)
      BY <1>1, <1>2, <1>4, <1>7, <1>10, <3>1 DEF Begun
    <3> QED BY <1>9, <3>2 DEF Shows, Trail
  <2> QED BY <1>9, <2>1 DEF ScreenInv
<1> QED BY <1>6, <1>11, <1>12, <1>13 DEF ViewInv, Older

LEMMA LoadFailedStep == ASSUME ViewInv, LoadFailed PROVE ViewInv'
<1>1. /\ task' = NoTask /\ trusted' = FALSE
      /\ UNCHANGED <<viewed, revisions, form, pending, view, events, asked, shownAt>>
  BY DEF LoadFailed
<1>2. Older
  BY <1>1, Untouched DEF ViewInv
<1>3. ViewTypes' /\ TaskInv'
  BY <1>1 DEF ViewInv, ViewTypes, TaskInv
<1>4. ScreenInv'
  BY <1>1, <1>2, ScreenStays DEF ViewInv, Settled
<1> QED BY <1>2, <1>3, <1>4 DEF ViewInv, Older

(* The user does something that leaves the page on the screen, and a task   *)
(* that runs, as they are; it is loaded again, or it is as it was asked for.*)
EditStep ==
  /\ DOMAIN view' = DOMAIN view /\ view'.back = view.back /\ view'.cursor = view.cursor
  /\ view'.headers = view.headers /\ view'.next = view.next
  /\ view'.total = view.total /\ view'.revision = view.revision
  /\ \/ view'.refresh = TRUE
     \/ view'.refresh = view.refresh /\ view'.order = view.order /\ asked' = asked
  /\ view'.query = Query(asked', view'.query.order)
  /\ UNCHANGED task /\ (asked' = asked \/ task = NoTask)

LEMMA EditKeeps ==
  ASSUME ViewInv, UserEvent, EditStep, form' \in Filters, asked' \in Filters, pending' \in BOOLEAN
  PROVE  ViewInv'
<1>1. events' \in 0..MaxEvents /\ UNCHANGED <<viewed, revisions, trusted, shownAt>>
  BY EventIs DEF UserEvent
<1>2. Older
  BY <1>1, Untouched DEF ViewInv
<1>3. ViewTypes'
  BY <1>1 DEF ViewInv, ViewTypes, EditStep
<1>4. TaskInv'
  <2>1. CASE task = NoTask
    BY <2>1 DEF TaskInv, EditStep
  <2>2. CASE task # NoTask
    <3>1. Begun'
      BY <2>2 DEF ViewInv, TaskInv, EditStep, Begun
    <3>2. Read => Read'
      BY <1>2, ReadStays DEF EditStep
    <3> QED BY <1>1, <2>2, <3>1, <3>2 DEF ViewInv, TaskInv, EditStep
  <2> QED BY <2>1, <2>2
<1>5. ScreenInv'
  <2>1. Settled' => Settled /\ asked' = asked /\ view'.order = view.order
    BY <1>1 DEF Settled, busy, EditStep
  <2> QED BY <1>1, <1>2, <2>1, ScreenStays DEF ViewInv, EditStep
<1> QED BY <1>2, <1>3, <1>4, <1>5 DEF ViewInv, Older

LEMMA ViewIs ==
  ASSUME ViewInv
  PROVE  /\ DOMAIN view = {"query", "order", "headers", "next", "cursor", "back", "total", "revision", "refresh"}
         /\ view.query = Query(asked, view.query.order) /\ asked \in Filters /\ form \in Filters
         /\ pending \in BOOLEAN
BY DEF ViewInv, ViewTypes, NewView

LEMMA EventSteps ==
  ASSUME ViewInv, ChangeOrder \/ Refresh \/ EditFilter \/ ApplyFilters \/ EditSearch
  PROVE  ViewInv'
<1>1. CASE ChangeOrder
  <2>1. PICK order : view' = [view EXCEPT !.order = order, !.refresh = TRUE]
    BY <1>1 DEF ChangeOrder
  <2>2. EditStep
    BY <1>1, <2>1, ViewIs DEF EditStep, ChangeOrder
  <2> QED BY <1>1, <2>2, EditKeeps, ViewIs DEF ChangeOrder
<1>2. CASE Refresh
  <2>1. EditStep
    BY <1>2, ViewIs DEF EditStep, Refresh
  <2> QED BY <1>2, <2>1, EditKeeps, ViewIs DEF Refresh
<1>3. CASE EditFilter
  <2>1. EditStep
    BY <1>3, ViewIs DEF EditStep, EditFilter
  <2>2. form' \in Filters
    BY <1>3, ViewIs DEF EditFilter, Filters
  <2> QED BY <1>3, <2>1, <2>2, EditKeeps, ViewIs DEF EditFilter
<1>4. CASE ApplyFilters
  <2> DEFINE query == [view.query EXCEPT !.mime = form.mime]
  <2>1. /\ view' = [view EXCEPT !.query = query, !.refresh = TRUE]
        /\ asked' = [asked EXCEPT !.mime = form.mime] /\ task = NoTask
        /\ UNCHANGED <<form, pending, task>> /\ UserEvent
    BY <1>4 DEF ApplyFilters, busy
  <2>2. asked' \in Filters
    BY <2>1, ViewIs DEF Filters
  <2>3. query = Query(asked', query.order)
    <3>1. view.query = [mime |-> asked.mime, noted |-> asked.noted, order |-> view.query.order]
      BY ViewIs DEF Query
    <3>2. query = [mime |-> form.mime, noted |-> asked.noted, order |-> view.query.order]
      BY <3>1
    <3>3. asked'.mime = form.mime /\ asked'.noted = asked.noted
      BY <2>1, ViewIs DEF Filters
    <3> HIDE DEF query
    <3> QED BY <3>2, <3>3 DEF Query
  <2> HIDE DEF query
  <2>4. EditStep
    BY <2>1, <2>3, ViewIs DEF EditStep
  <2> QED BY <2>1, <2>2, <2>4, EditKeeps, ViewIs
<1>5. CASE EditSearch
  <2>1. EditStep
    BY <1>5, ViewIs DEF EditStep, EditSearch
  <2>2. form' \in Filters
    BY <1>5, ViewIs DEF EditSearch, Filters
  <2> QED BY <1>5, <2>1, <2>2, EditKeeps, ViewIs DEF EditSearch
<1> QED BY <1>1, <1>2, <1>3, <1>4, <1>5

(* The screen is emptied for another query.                                 *)
LEMMA EmptiedStep ==
  ASSUME ViewInv, NEW filters \in Filters, ApplySearch(filters), task = NoTask, form' \in Filters,
         UNCHANGED <<viewed, revisions, task, trusted, shownAt>>, events' \in 0..MaxEvents
  PROVE  ViewInv'
<1>1. Older
  BY Untouched DEF ViewInv
<1>2. /\ view' = NewView(Query(filters, view.order)) /\ asked' = filters /\ pending' = FALSE
  BY DEF ApplySearch
<1>3. ViewTypes'
  <2>1. 0 \in 0..viewed'.revision /\ 0 \in Nat /\ IsList(<< >>)
    BY <1>1 DEF Older, ViewedInv, IsList
  <2>2. view'.query = Query(asked', view'.query.order)
    BY <1>2 DEF NewView, Query
  <2>3. /\ DOMAIN view' = DOMAIN NewView(Query(NoFilters, "path"))
        /\ view'.back = << >> /\ view'.refresh = TRUE /\ view'.total = 0 /\ view'.revision = 0
    BY <1>2 DEF NewView
  <2> QED BY <1>2, <2>1, <2>2, <2>3 DEF ViewTypes, ViewInv
<1>4. TaskInv' /\ ScreenInv'
  BY <1>2 DEF TaskInv, ScreenInv, Blank, Settled, NewView
<1> QED BY <1>1, <1>3, <1>4 DEF ViewInv, Older

LEMMA SearchDueStep == ASSUME ViewInv, SearchDue PROVE ViewInv'
<1>1. /\ ApplySearch(form) /\ task = NoTask /\ UNCHANGED <<viewed, revisions, form, task, events, trusted, shownAt>>
  BY DEF SearchDue, busy
<1>2. events' \in 0..MaxEvents
  BY <1>1 DEF ViewInv, ViewTypes
<1>3. form \in Filters /\ form' \in Filters
  BY <1>1, ViewIs
<1> QED BY <1>1, <1>2, <1>3, EmptiedStep

LEMMA NoneAsked == NoFilters \in Filters
BY ViewAssumption DEF NoFilters, Filters

LEMMA ResetStep == ASSUME ViewInv, ResetFilters, "reset" \notin Hasty PROVE ViewInv'
<1>1. /\ ApplySearch(NoFilters) /\ task = NoTask /\ form' = NoFilters
      /\ UNCHANGED <<viewed, revisions, task, trusted, shownAt>> /\ events' \in 0..MaxEvents
  BY EventIs DEF ResetFilters, busy, UserEvent
<1> QED BY <1>1, NoneAsked, EmptiedStep

LEMMA ViewStarts == ASSUME ViewInit PROVE ViewInv
<1>1. PICK rows \in FirstRows : viewed = [id |-> 1, revision |-> 0, rows |-> rows] /\ revisions = <<rows>>
  BY DEF ViewInit
<1>2. ViewedInv
  <2>1. rows \in Seq(RowType)
    BY ViewAssumption
  <2> QED BY <1>1, <2>1 DEF ViewedInv
<1>3. /\ form = NoFilters /\ pending = FALSE /\ view = NewView(Query(NoFilters, "path"))
      /\ task = NoTask /\ events = 0 /\ asked = NoFilters /\ trusted = TRUE /\ shownAt = 0
  BY DEF ViewInit
<1>4. ViewTypes
  <2>1. 0 \in 0..viewed.revision /\ 0 \in 0..MaxEvents /\ IsList(<< >>) /\ 0 \in Nat
    BY <1>1, ViewAssumption DEF IsList
  <2>2. view.query = Query(asked, view.query.order)
    BY <1>3 DEF NewView, Query
  <2>3. view.back = << >> /\ view.refresh = TRUE /\ view.total = 0 /\ view.revision = 0
    BY <1>3 DEF NewView
  <2> QED BY <1>3, <2>1, <2>2, <2>3, NoneAsked DEF ViewTypes
<1>5. TaskInv /\ ScreenInv
  BY <1>3 DEF TaskInv, ScreenInv, Blank, Settled, NewView
<1> QED BY <1>2, <1>4, <1>5 DEF ViewInv

LEMMA ViewStep ==
  ASSUME "reset" \notin Hasty, ViewInv, [ViewNext]_viewVars
  PROVE  ViewInv'
<1>1. CASE Written
  BY <1>1, WrittenStep
<1>2. CASE Poll \/ NextPage \/ PreviousPage
  BY <1>2, PollStep, NextPageStep, PreviousPageStep
<1>3. CASE ReadPage \/ ReadTotal \/ ReadRevision \/ ReadError
  BY <1>3, ReadPageStep, ReadTotalStep, ReadRevisionStep, ReadErrorStep
<1>4. CASE Loaded \/ LoadFailed
  BY <1>4, LoadedStep, LoadFailedStep
<1>5. CASE ChangeOrder \/ Refresh \/ EditFilter \/ ApplyFilters \/ EditSearch
  BY <1>5, EventSteps
<1>6. CASE SearchDue \/ ResetFilters
  BY <1>6, SearchDueStep, ResetStep
<1>7. CASE UNCHANGED viewVars
  <2>1. UNCHANGED <<viewed, revisions, form, pending, view, task, events, asked, trusted, shownAt>>
    BY <1>7 DEF viewVars
  <2>2. Older
    BY <2>1, Untouched DEF ViewInv
  <2>3. ViewTypes'
    BY <2>1 DEF ViewInv, ViewTypes
  <2>4. TaskInv'
    <3>1. (Read => Read') /\ (Begun => Begun')
      BY <2>1, <2>2, ReadStays DEF Begun
    <3> QED BY <2>1, <3>1 DEF ViewInv, TaskInv
  <2>5. ScreenInv'
    BY <2>1, <2>2, ScreenStays DEF ViewInv, Settled, busy
  <2> QED BY <2>2, <2>3, <2>4, <2>5 DEF ViewInv, Older
<1> QED BY <1>1, <1>2, <1>3, <1>4, <1>5, <1>6, <1>7 DEF ViewNext

LEMMA ShownIsPage ==
  ASSUME ViewInv, NEW q, Shows(q)
  PROVE  /\ view.headers = PageNumber(shownAt, q, Len(view.back)).items
         /\ view.next = PageNumber(shownAt, q, Len(view.back)).next
         /\ Len(view.headers) <= PageSize
         /\ view.back = << >> \/ Len(view.back) < Count(revisions[shownAt + 1], q)
<1>1. PICK back, cursor, n, list : /\ back = view.back /\ cursor = view.cursor /\ n = shownAt
                                   /\ list = Append(back, cursor)
  OBVIOUS
<1>2. /\ n \in 0..viewed.revision /\ Trail(list, n, q) /\ PageAt(n, q, cursor).ok
      /\ view.headers = PageAt(n, q, cursor).items /\ view.next = PageAt(n, q, cursor).next
  BY <1>1 DEF Shows
<1>3. PICK S : back \in Seq(S) /\ list \in Seq(S)
  <2>1. IsList(back) /\ IsList(list)
    BY <1>1, ListsAre DEF ViewInv, ViewTypes
  <2> DEFINE S == ToSet(back) \cup ToSet(list)
  <2>2. back \in Seq(S) /\ list \in Seq(S)
    BY <2>1 DEF IsList
  <2> HIDE DEF S
  <2> QED BY <2>2
<1>4. /\ Len(back) \in Nat /\ Len(list) = Len(back) + 1 /\ list[Len(list)] = cursor
      /\ Len(back) = 0 => back = << >>
  BY <1>1, <1>3
<1>5. PageNumber(n, q, Len(back)) = PageAt(n, q, cursor)
  <2>1. PageNumber(n, q, Len(list) - 1) = PageAt(n, q, list[Len(list)])
    BY <1>2, <1>3, PageNumberIs
  <2>2. Len(list) - 1 = Len(back)
    BY <1>4
  <2> QED BY <1>4, <2>1, <2>2
<1>6. /\ Len(list) = 1 \/ Len(list) - 1 < Count(revisions[n + 1], q)
      /\ Len(PageAt(n, q, cursor).items) <= PageSize
  <2>1. PageAt(n, q, list[Len(list)]).ok
    BY <1>2, <1>4
  <2>2. /\ Len(list) = 1 \/ Len(list) - 1 < Count(revisions[n + 1], q)
        /\ Len(PageAt(n, q, list[Len(list)]).items) <= PageSize
    BY <1>2, <1>3, <2>1, TrailIsShort DEF ViewInv
  <2> QED BY <1>4, <2>2
<1>7. back = << >> \/ Len(back) < Count(revisions[n + 1], q)
  <2>1. Len(list) - 1 = Len(back) /\ (Len(list) = 1 => back = << >>)
    BY <1>4
  <2> QED BY <1>6, <2>1
<1> QED BY <1>1, <1>2, <1>5, <1>6, <1>7

LEMMA ViewIsTrue == ASSUME ViewInv PROVE ViewSound
<1>1. ViewTypeOK
  <2>1. Len(view.headers) <= PageSize
    <3>1. CASE Blank
      BY <3>1, ViewAssumption DEF Blank
    <3>2. CASE \E q : Shows(q)
      BY <3>2, ShownIsPage
    <3> QED BY <3>1, <3>2 DEF ViewInv, ScreenInv
  <2>2. task.at \in {"none", "page", "count", "info", "loaded", "failed"}
    BY DEF ViewInv, TaskInv, NoTask
  <2> QED BY <2>1, <2>2 DEF ViewTypeOK, ViewInv, ViewTypes, Filters
<1>2. ASSUME Settled
      PROVE  /\ Shows(Query(asked, view.order))
             /\ [view.query EXCEPT !.order = view.order] = Query(asked, view.order)
  <2>1. view.query = Query(asked, view.query.order)
    BY ViewIs
  <2> QED BY <1>2, <2>1 DEF ViewInv, ScreenInv, Query
<1>3. PageNumberTrue
  BY <1>2, ShownIsPage DEF PageNumberTrue
<1>4. AskedIsShown
  BY <1>2, ShownIsPage DEF AskedIsShown
<1> QED BY <1>1, <1>3, <1>4 DEF ViewSound

(* The page on the screen of the record explorer is the one its number      *)
(* says, of one revision, of the filters that were last applied and the     *)
(* order on the screen, and has no more than a page holds - whatever is     *)
(* written to the case between and during the loads, and however loads end  *)
(* -, for a user who does not reset the filters during a load               *)
(* (records.rs:126, docs/application.md:314).                               *)
THEOREM ViewIsSound == ASSUME "reset" \notin Hasty PROVE ViewSpec => []ViewSound
<1>1. ViewInit => ViewInv
  BY ViewStarts
<1>2. ViewInv /\ [ViewNext]_viewVars => ViewInv'
  BY ViewStep
<1>3. ViewInv => ViewSound
  BY ViewIsTrue
<1> QED BY <1>1, <1>2, <1>3, PTL DEF ViewSpec

-----------------------------------------------------------------------------
(* What is closed.                                                          *)

LEMMA Extending == \A set : set \subseteq Parts => set \subseteq Closure(set)
  BY DEF Closure

LEMMA Least ==
  \A set, t : set \subseteq t /\ t \subseteq Parts /\ Closed(t) => Closure(set) \subseteq t
  BY DEF Closure

(* What a claim rests on is there.                                          *)
LEMMA PartsOfClaims ==
  ASSUME WellLinked(record), NEW c \in ToSet(record.claims)
  PROVE  ClaimParts(c) \subseteq Parts
<1>1. Linked(c) \subseteq Ids(record.observations)
  BY DEF WellLinked
<1>2. {"o"} \X Linked(c) \subseteq {"o"} \X Ids(record.observations)
  BY <1>1
<1>3. c.key \in {x.key : x \in ToSet(record.claims)}
  OBVIOUS
<1>4. <<"k", c.key>> \in {"k"} \X {x.key : x \in ToSet(record.claims)}
  BY <1>3
<1> QED BY <1>2, <1>4 DEF ClaimParts, Parts

(* So that a claim with a part in a closure has them all there.             *)
LEMMA ClosureIsClosed ==
  ASSUME WellLinked(record), NEW set, NEW c \in ToSet(record.claims),
         NEW p \in ClaimParts(c), p \in Closure(set)
  PROVE  ClaimParts(c) \subseteq Closure(set)
<1> SUFFICES ASSUME NEW x \in ClaimParts(c) PROVE x \in Closure(set)
  OBVIOUS
<1>1. x \in Parts
  BY PartsOfClaims
<1>2. ASSUME NEW t \in SUBSET Parts, set \subseteq t, Closed(t) PROVE x \in t
  <2>1. p \in t
    BY <1>2 DEF Closure
  <2>2. ClaimParts(c) \cap t # {}
    BY <2>1
  <2> QED BY <1>2, <2>2 DEF Closed
<1> QED BY <1>1, <1>2 DEF Closure

(* What a rule selects.                                                     *)
LEMMA ChosenObservation ==
  ASSUME NEW r \in ToSet(profile.rules), NEW o \in ToSet(record.observations),
         SelectedObservation(r.selector, o)
  PROVE  <<"o", o.id>> \in Chosen(r.action)
  BY DEF Chosen

LEMMA ChosenClaim ==
  ASSUME NEW r \in ToSet(profile.rules), NEW c \in ToSet(record.claims), SelectedClaim(r.selector, c)
  PROVE  <<"k", c.key>> \in Chosen(r.action)
  BY DEF Chosen

LEMMA ChosenIs ==
  ASSUME NEW a, NEW p \in Chosen(a)
  PROVE  \E r \in ToSet(profile.rules) :
           /\ r.action = a
           /\ \/ \E o \in ToSet(record.observations) : SelectedObservation(r.selector, o) /\ p = <<"o", o.id>>
              \/ \E c \in ToSet(record.claims) : SelectedClaim(r.selector, c) /\ p = <<"k", c.key>>
  BY DEF Chosen

LEMMA ChosenParts == ASSUME NEW a PROVE Chosen(a) \subseteq Parts
<1>1. \A o \in ToSet(record.observations) : <<"o", o.id>> \in Parts
  <2>1. \A o \in ToSet(record.observations) : o.id \in Ids(record.observations)
    BY DEF Ids, ToSet
  <2> QED BY <2>1 DEF Parts
<1>2. \A c \in ToSet(record.claims) : <<"k", c.key>> \in Parts
  BY DEF Parts
<1> QED BY <1>1, <1>2, ChosenIs

-----------------------------------------------------------------------------
(* What the rules with an action reach.                                     *)
Reached == [a \in Actions |-> Closure(Chosen(a))]

(* What is taken is linked to what a rule with its action selects.          *)
Grounded ==
  /\ \A x \in DOMAIN observations :
       observations[x] \in Actions /\ <<"o", x>> \in Reached[observations[x]]
  /\ \A k \in DOMAIN keys : keys[k] \in Actions /\ <<"k", k>> \in Reached[keys[k]]

Obeyed(rule) ==
  /\ \A o \in ToSet(record.observations) : SelectedObservation(rule.selector, o) =>
       o.id \in DOMAIN observations /\ observations[o.id] = rule.action
  /\ \A c \in ToSet(record.claims) : SelectedClaim(rule.selector, c) =>
       c.key \in DOMAIN keys /\ keys[c.key] = rule.action

(* The parts of a claim have one action, or none.                           *)
Level(c) ==
  \/ c.key \notin DOMAIN keys /\ \A x \in Linked(c) : x \notin DOMAIN observations
  \/ /\ c.key \in DOMAIN keys
     /\ \A x \in Linked(c) : x \in DOMAIN observations /\ observations[x] = keys[c.key]

RulesInv ==
  /\ stage = "rules" => \A n \in DOMAIN profile.rules : n < at => Obeyed(profile.rules[n])
  /\ stage \in {"links", "derive", "done", "dangling"} =>
       \A n \in DOMAIN profile.rules : Obeyed(profile.rules[n])

(* As long as a pass adds nothing, the claims it has passed are level.      *)
LinksInv ==
  /\ stage = "links" /\ ~changed =>
       \A n \in DOMAIN record.claims : n < at => Level(record.claims[n])
  /\ stage \in {"derive", "done", "dangling"} =>
       \A n \in DOMAIN record.claims : Level(record.claims[n])

(* Some metadata is wanted in two ways.                                     *)
Torn == \E a, b \in Actions : a # b /\ Reached[a] \cap Reached[b] # {}

RedactionInv ==
  /\ record \in Originals /\ profile \in Requests
  /\ at \in Nat \ {0} /\ changed \in BOOLEAN
  /\ stage \in {"rules", "links", "derive", "done", "alias", "budget", "incompatible"}
  /\ Grounded /\ RulesInv /\ LinksInv
  /\ stage = "done" => preview = Previewed
  /\ stage = "incompatible" => Torn

LEMMA ReachedStays ==
  ASSUME record' = record, profile' = profile PROVE Reached' = Reached /\ Actions' = Actions
<1>1. Parts' = Parts /\ Actions' = Actions
  BY DEF Parts, Actions, Ids
<1>2. \A set : Closed(set)' <=> Closed(set)
  BY DEF Closed, ClaimParts, Linked
<1>3. \A set : Closure(set)' = Closure(set)
  BY <1>1, <1>2 DEF Closure
<1>4. \A a : Chosen(a)' = Chosen(a)
  BY DEF Chosen
<1> QED BY <1>1, <1>3, <1>4 DEF Reached

(* A reached part of a claim brings the others.                             *)
LEMMA ReachedClaim ==
  ASSUME WellLinked(record), NEW a \in Actions, NEW c \in ToSet(record.claims),
         \/ <<"k", c.key>> \in Reached[a]
         \/ \E x \in Linked(c) : <<"o", x>> \in Reached[a]
  PROVE  <<"k", c.key>> \in Reached[a] /\ \A x \in Linked(c) : <<"o", x>> \in Reached[a]
<1>1. Reached[a] = Closure(Chosen(a))
  BY DEF Reached
<1>2. <<"k", c.key>> \in ClaimParts(c) /\ \A x \in Linked(c) : <<"o", x>> \in ClaimParts(c)
  BY DEF ClaimParts
<1>3. PICK p \in ClaimParts(c) : p \in Closure(Chosen(a))
  BY <1>1, <1>2
<1>4. ClaimParts(c) \subseteq Closure(Chosen(a))
  BY <1>3, ClosureIsClosed
<1> QED BY <1>1, <1>2, <1>4

(* And what a rule selects is reached.                                      *)
LEMMA ReachedRule ==
  ASSUME NEW r \in ToSet(profile.rules)
  PROVE  /\ r.action \in Actions
         /\ \A o \in ToSet(record.observations) :
              SelectedObservation(r.selector, o) => <<"o", o.id>> \in Reached[r.action]
         /\ \A c \in ToSet(record.claims) :
              SelectedClaim(r.selector, c) => <<"k", c.key>> \in Reached[r.action]
<1>1. r.action \in Actions
  BY DEF Actions
<1>2. Reached[r.action] = Closure(Chosen(r.action)) /\ Chosen(r.action) \subseteq Closure(Chosen(r.action))
  BY <1>1, ChosenParts, Extending DEF Reached
<1> QED BY <1>1, <1>2, ChosenObservation, ChosenClaim

LEMMA Merged ==
  ASSUME NEW actions, NEW chosen, NEW action, NEW now, now = Merge(actions, chosen, action)
  PROVE  /\ DOMAIN now = DOMAIN actions \cup chosen
         /\ \A x \in DOMAIN actions : now[x] = actions[x]
         /\ \A x \in chosen : x \notin DOMAIN actions => now[x] = action
  BY DEF Merge

-----------------------------------------------------------------------------
LEMMA RefuseStep ==
  ASSUME RedactionInv, NEW why \in {"alias", "budget", "incompatible"}, Refuse(why),
         why = "incompatible" => Torn
  PROVE  RedactionInv'
<1>1. Reached' = Reached /\ Actions' = Actions
  BY ReachedStays DEF Refuse
<1>2. Grounded' /\ (Torn => Torn')
  BY <1>1 DEF RedactionInv, Grounded, Torn, Refuse
<1>3. RulesInv' /\ LinksInv'
  BY DEF Refuse, RulesInv, LinksInv
<1> QED BY <1>2, <1>3 DEF RedactionInv, Refuse

LEMMA NoAliasStep == ASSUME RedactionInv, NoAlias PROVE RedactionInv'
  BY RefuseStep DEF NoAlias

(* What a record and a profile are.                                         *)
LEMMA Given ==
  ASSUME RedactionAssumption, RedactionInv
  PROVE  /\ record.observations \in Seq(ToSet(record.observations))
         /\ record.claims \in Seq(ToSet(record.claims))
         /\ profile.rules \in Seq(ToSet(profile.rules))
         /\ WellLinked(record)
         /\ \A i \in DOMAIN record.claims : record.claims[i] \in ToSet(record.claims)
  BY DEF RedactionAssumption, RedactionInv, Accepted, IsList, ToSet

(* A merge of what is reached, without a clash, grows what is taken.        *)
LEMMA ApplyRuleStep ==
  ASSUME RedactionAssumption, RedactionInv, ApplyRule PROVE RedactionInv'
<1> DEFINE rule == profile.rules[at]
           os == {o.id : o \in {x \in ToSet(record.observations) : SelectedObservation(rule.selector, x)}}
           ks == {c.key : c \in {x \in ToSet(record.claims) : SelectedClaim(rule.selector, x)}}
<1>1. stage = "rules" /\ at \in DOMAIN profile.rules /\ at \in Nat /\ rule \in ToSet(profile.rules)
  <2>1. /\ profile.rules \in Seq(ToSet(profile.rules)) /\ at \in Nat \ {0} /\ at <= Len(profile.rules)
        /\ stage = "rules"
    BY Given DEF RedactionInv, ApplyRule
  <2> QED BY <2>1
<1>2. /\ rule.action \in Actions
      /\ \A x \in os : <<"o", x>> \in Reached[rule.action]
      /\ \A k \in ks : <<"k", k>> \in Reached[rule.action]
  BY <1>1, ReachedRule
<1>3. ASSUME Clash(observations, os, rule.action) \/ Clash(keys, ks, rule.action) PROVE Torn
  <2>1. CASE Clash(observations, os, rule.action)
    <3>1. PICK x \in os : x \in DOMAIN observations /\ observations[x] # rule.action
      BY <2>1 DEF Clash
    <3>2. <<"o", x>> \in Reached[observations[x]] /\ observations[x] \in Actions
      BY <3>1 DEF RedactionInv, Grounded
    <3> QED BY <1>2, <3>1, <3>2 DEF Torn
  <2>2. CASE Clash(keys, ks, rule.action)
    <3>1. PICK k \in ks : k \in DOMAIN keys /\ keys[k] # rule.action
      BY <2>2 DEF Clash
    <3>2. <<"k", k>> \in Reached[keys[k]] /\ keys[k] \in Actions
      BY <3>1 DEF RedactionInv, Grounded
    <3> QED BY <1>2, <3>1, <3>2 DEF Torn
  <2> QED BY <1>3, <2>1, <2>2
<1>4. CASE Refuse("budget")
  BY <1>4, RefuseStep
<1>5. CASE /\ Clash(observations, os, rule.action) \/ Clash(keys, ks, rule.action)
           /\ Refuse("incompatible")
  BY <1>3, <1>5, RefuseStep
<1>6. CASE /\ ~Clash(observations, os, rule.action) /\ ~Clash(keys, ks, rule.action)
           /\ observations' = Merge(observations, os, rule.action)
           /\ keys' = Merge(keys, ks, rule.action)
           /\ at' = at + 1
           /\ UNCHANGED <<record, profile, stage, changed, preview>>
  <2>1. Reached' = Reached /\ Actions' = Actions
    BY <1>6, ReachedStays
  <2> HIDE DEF os, ks
  <2>2. /\ DOMAIN observations' = DOMAIN observations \cup os
        /\ \A x \in DOMAIN observations : observations'[x] = observations[x]
        /\ \A x \in os : observations'[x] = rule.action
        /\ DOMAIN keys' = DOMAIN keys \cup ks
        /\ \A k \in DOMAIN keys : keys'[k] = keys[k]
        /\ \A k \in ks : keys'[k] = rule.action
    <3> DEFINE a == rule.action
    <3>1. ~Clash(observations, os, a) /\ ~Clash(keys, ks, a)
      BY <1>6
    <3>2. observations' = Merge(observations, os, a) /\ keys' = Merge(keys, ks, a)
      BY <1>6
    <3> HIDE DEF a
    <3>3. /\ DOMAIN observations' = DOMAIN observations \cup os
          /\ \A x \in DOMAIN observations : observations'[x] = observations[x]
          /\ \A x \in os : observations'[x] = a
      <4>1. DOMAIN observations' = DOMAIN observations \cup os
        BY <3>2, Merged
      <4>2. \A x \in DOMAIN observations : observations'[x] = observations[x]
        BY <3>2 DEF Merge
      <4>3. \A x \in os : observations'[x] = a
        BY <3>1, <3>2 DEF Clash, Merge
      <4> QED BY <4>1, <4>2, <4>3
    <3>4. /\ DOMAIN keys' = DOMAIN keys \cup ks
          /\ \A k \in DOMAIN keys : keys'[k] = keys[k]
          /\ \A k \in ks : keys'[k] = a
      <4>1. DOMAIN keys' = DOMAIN keys \cup ks
        BY <3>2, Merged
      <4>2. \A k \in DOMAIN keys : keys'[k] = keys[k]
        BY <3>2 DEF Merge
      <4>3. \A k \in ks : keys'[k] = a
        BY <3>1, <3>2 DEF Clash, Merge
      <4> QED BY <4>1, <4>2, <4>3
    <3> QED BY <3>3, <3>4 DEF a
  <2>3. Grounded'
    <3>1. Grounded
      BY DEF RedactionInv
    <3>2. \A x \in DOMAIN observations' : observations'[x] \in Actions /\ <<"o", x>> \in Reached[observations'[x]]
      BY <1>2, <2>2, <3>1 DEF Grounded
    <3>3. \A k \in DOMAIN keys' : keys'[k] \in Actions /\ <<"k", k>> \in Reached[keys'[k]]
      BY <1>2, <2>2, <3>1 DEF Grounded
    <3> QED BY <2>1, <3>2, <3>3 DEF Grounded
  <2>4. RulesInv'
    <3>1. \A n \in DOMAIN profile.rules : n < at => Obeyed(profile.rules[n])'
      BY <1>1, <1>6, <2>2 DEF RedactionInv, RulesInv, Obeyed
    <3>2. PICK m \in DOMAIN profile.rules : m = at
      BY <1>1
    <3>3. Obeyed(profile.rules[m])'
      <4>1. /\ \A o \in ToSet(record.observations) : SelectedObservation(rule.selector, o) => o.id \in os
            /\ \A c \in ToSet(record.claims) : SelectedClaim(rule.selector, c) => c.key \in ks
        BY DEF os, ks
      <4>2. profile'.rules[m] = rule /\ record' = record
        BY <1>6, <3>2
      <4> QED BY <2>2, <4>1, <4>2 DEF Obeyed
    <3>4. \A n \in DOMAIN profile.rules : n < at + 1 => n < at \/ n = m
      <4>1. DOMAIN profile.rules \subseteq Nat
        BY Given
      <4> QED BY <1>1, <3>2, <4>1
    <3> QED BY <1>1, <1>6, <3>1, <3>3, <3>4 DEF RulesInv
  <2>5. LinksInv'
    BY <1>1, <1>6 DEF LinksInv
  <2> QED BY <1>1, <1>6, <2>3, <2>4, <2>5 DEF RedactionInv
<1> QED BY <1>4, <1>5, <1>6 DEF ApplyRule

LEMMA RulesEndStep == ASSUME RedactionAssumption, RedactionInv, RulesEnd PROVE RedactionInv'
<1>1. Reached' = Reached /\ Actions' = Actions
  BY ReachedStays DEF RulesEnd
<1>2. Grounded'
  BY <1>1 DEF RedactionInv, Grounded, RulesEnd
<1>3. RulesInv'
  <2>1. \A n \in DOMAIN profile.rules : n < at
    BY Given DEF RedactionInv, RulesEnd
  <2> QED BY <2>1 DEF RedactionInv, RulesInv, RulesEnd, Obeyed
<1>4. LinksInv'
  <2>1. \A n \in DOMAIN record.claims : ~(n < 1)
    BY Given
  <2> QED BY <2>1 DEF LinksInv, RulesEnd
<1> QED BY <1>2, <1>3, <1>4 DEF RedactionInv, RulesEnd

LEMMA PassEndsStep == ASSUME RedactionAssumption, RedactionInv, PassEnds PROVE RedactionInv'
<1>1. Reached' = Reached /\ Actions' = Actions
  BY ReachedStays DEF PassEnds
<1>2. Grounded'
  BY <1>1 DEF RedactionInv, Grounded, PassEnds
<1>3. RulesInv'
  BY DEF RedactionInv, RulesInv, PassEnds, Obeyed
<1>4. LinksInv'
  <2>1. \A n \in DOMAIN record.claims : ~(n < 1) /\ n < at
    BY Given DEF RedactionInv, PassEnds
  <2>2. ASSUME ~changed PROVE \A n \in DOMAIN record.claims : Level(record.claims[n])'
    BY <2>1, <2>2 DEF RedactionInv, LinksInv, PassEnds, Level
  <2>3. stage' = (IF changed THEN "links" ELSE "derive") /\ at' = 1 /\ record' = record
    BY DEF PassEnds
  <2>4. CASE changed
    <3>1. stage' = "links" /\ \A n \in DOMAIN record'.claims : ~(n < at')
      BY <2>1, <2>3, <2>4
    <3> QED BY <3>1 DEF LinksInv
  <2>5. CASE ~changed
    <3>1. stage' = "derive" /\ \A n \in DOMAIN record.claims : Level(record.claims[n])'
      BY <2>2, <2>3, <2>5
    <3> QED BY <2>3, <3>1 DEF LinksInv
  <2> QED BY <2>4, <2>5
<1>5. stage' \in {"links", "derive"} /\ at' \in Nat \ {0} /\ changed' \in BOOLEAN
  <2>1. stage' \in {"links", "derive"}
    BY Zenon DEF PassEnds
  <2>2. changed' \in BOOLEAN
    BY Zenon DEF PassEnds
  <2>3. at' \in Nat \ {0}
    <3>1. at' = 1
      BY Zenon DEF PassEnds
    <3> QED BY <3>1
  <2> QED BY Zenon, <2>1, <2>2, <2>3
<1>6. record' \in Originals /\ profile' \in Requests
  BY DEF RedactionInv, PassEnds
<1> QED BY <1>2, <1>3, <1>4, <1>5, <1>6 DEF RedactionInv

(* What a claim brings of one action has that action, or some metadata is   *)
(* wanted in two ways.                                                      *)
LEMMA FollowClaimStep ==
  ASSUME RedactionAssumption, RedactionInv, FollowClaim PROVE RedactionInv'
<1> DEFINE claim == record.claims[at]
           linked == Linked(claim)
           said == {observations[i] : i \in linked \cap DOMAIN observations}
           actions == IF claim.key \in DOMAIN keys THEN {keys[claim.key]} ELSE said
           chosen == CHOOSE a \in actions : TRUE
<1>1. stage = "links" /\ at \in DOMAIN record.claims /\ at \in Nat /\ claim \in ToSet(record.claims)
  <2>1. /\ record.claims \in Seq(ToSet(record.claims)) /\ at \in Nat \ {0} /\ at <= Len(record.claims)
        /\ stage = "links"
    BY Given DEF RedactionInv, FollowClaim
  <2> QED BY <2>1
<1>2. Grounded /\ WellLinked(record)
  BY Given DEF RedactionInv
<1>3. ASSUME NEW a, a \in said \/ a \in actions
      PROVE  /\ a \in Actions
             /\ <<"k", claim.key>> \in Reached[a] /\ \A x \in linked : <<"o", x>> \in Reached[a]
  <2>1. CASE a \in said
    <3>1. PICK x \in linked : x \in DOMAIN observations /\ a = observations[x]
      BY <2>1
    <3>2. a \in Actions /\ <<"o", x>> \in Reached[a]
      BY <1>2, <3>1 DEF Grounded
    <3> QED BY <1>1, <1>2, <3>2, ReachedClaim
  <2>2. CASE claim.key \in DOMAIN keys /\ a = keys[claim.key]
    <3>1. a \in Actions /\ <<"k", claim.key>> \in Reached[a]
      BY <1>2, <2>2 DEF Grounded
    <3> QED BY <1>1, <1>2, <3>1, ReachedClaim
  <2> QED BY <1>3, <2>1, <2>2
<1>4. ASSUME Cardinality(said) > 1 \/ \E a \in actions : Clash(observations, linked, a) PROVE Torn
  <2>1. \E a, b \in Actions : a # b /\ <<"k", claim.key>> \in Reached[a] \cap Reached[b]
    <3>1. CASE Cardinality(said) > 1
      <4>1. \E a, b \in said : a # b
        <5>1. ASSUME \A a, b \in said : a = b PROVE FALSE
          <6>1. said = {} \/ \E a \in said : said = {a}
            BY <5>1
          <6>2. Cardinality(said) = 0 \/ Cardinality(said) = 1
            BY <6>1, FS_EmptySet, FS_Singleton
          <6> QED BY <3>1, <6>2
        <5> QED BY <5>1
      <4> QED BY <1>3, <4>1
    <3>2. CASE \E a \in actions : Clash(observations, linked, a)
      <4>1. PICK a \in actions : Clash(observations, linked, a)
        BY <3>2
      <4>2. PICK x \in linked : x \in DOMAIN observations /\ observations[x] # a
        BY <4>1 DEF Clash
      <4>3. observations[x] \in said
        BY <4>2
      <4> QED BY <1>3, <4>2, <4>3
    <3> QED BY <1>4, <3>1, <3>2
  <2> QED BY <2>1 DEF Torn
<1>5. CASE Refuse("budget")
  BY <1>5, RefuseStep
<1>6. CASE /\ Cardinality(said) > 1 \/ \E a \in actions : Clash(observations, linked, a)
           /\ Refuse("incompatible")
  BY <1>4, <1>6, RefuseStep
<1>7. CASE /\ Cardinality(said) <= 1 /\ \A a \in actions : ~Clash(observations, linked, a)
           /\ observations' = IF actions = {} THEN observations ELSE Merge(observations, linked, chosen)
           /\ keys' = IF actions = {} THEN keys ELSE Merge(keys, {claim.key}, chosen)
           /\ changed' = (changed \/ observations' # observations \/ keys' # keys)
           /\ at' = at + 1
           /\ UNCHANGED <<record, profile, stage, preview>>
  <2>1. Reached' = Reached /\ Actions' = Actions
    BY <1>7, ReachedStays
  <2>2. /\ \A x \in DOMAIN observations : x \in DOMAIN observations' /\ observations'[x] = observations[x]
        /\ \A k \in DOMAIN keys : k \in DOMAIN keys' /\ keys'[k] = keys[k]
    <3>1. CASE actions = {}
      BY <1>7, <3>1
    <3>2. CASE actions # {}
      <4>1. observations' = Merge(observations, linked, chosen) /\ keys' = Merge(keys, {claim.key}, chosen)
        BY <1>7, <3>2
      <4> HIDE DEF chosen, linked, claim
      <4> QED BY <4>1 DEF Merge
    <3> QED BY <3>1, <3>2
  <2>3. ASSUME actions = {}
        PROVE  claim.key \notin DOMAIN keys /\ \A x \in linked : x \notin DOMAIN observations
    <3>1. observations' = observations /\ keys' = keys /\ said = {} /\ claim.key \notin DOMAIN keys
      BY <1>7, <2>3
    <3>2. ASSUME NEW x \in linked, x \in DOMAIN observations PROVE FALSE
      <4>1. observations[x] \in said
        BY <3>2
      <4>2. \A x1 : x1 \notin said
        BY <3>1
      <4> QED BY <4>1, <4>2
    <3> QED BY <3>1, <3>2
  <2>4. ASSUME actions # {}
        PROVE  /\ chosen \in actions
               /\ DOMAIN observations' = DOMAIN observations \cup linked
               /\ DOMAIN keys' = DOMAIN keys \cup {claim.key}
               /\ \A x \in linked : observations'[x] = chosen
               /\ keys'[claim.key] = chosen
    <3>1. chosen \in actions
      BY <2>4
    <3>2. ASSUME claim.key \in DOMAIN keys PROVE chosen = keys[claim.key]
      <4>1. actions = {keys[claim.key]}
        BY <3>2
      <4> HIDE DEF actions, chosen
      <4> QED BY <3>1, <4>1
    <3>3. /\ observations' = Merge(observations, linked, chosen) /\ keys' = Merge(keys, {claim.key}, chosen)
          /\ ~Clash(observations, linked, chosen)
      BY <1>7, <2>4, <3>1
    <3>4. DOMAIN observations' = DOMAIN observations \cup linked /\ DOMAIN keys' = DOMAIN keys \cup {claim.key}
      <4> HIDE DEF chosen, linked, claim
      <4> QED BY <3>3 DEF Merge
    <3>5. \A x \in linked : observations'[x] = chosen
      <4> HIDE DEF chosen, linked, claim
      <4> QED BY <3>3 DEF Merge, Clash
    <3>6. keys'[claim.key] = chosen
      <4> DEFINE k == claim.key
      <4>1. k \in DOMAIN keys => chosen = keys[k]
        BY <3>2
      <4>2. keys' = Merge(keys, {k}, chosen)
        BY <3>3
      <4> HIDE DEF chosen, k
      <4>3. keys'[k] = chosen
        BY <4>1, <4>2 DEF Merge
      <4> QED BY <4>3 DEF k
    <3> HIDE DEF chosen, actions, linked, claim
    <3> QED BY <3>1, <3>4, <3>5, <3>6
  <2>5. /\ \A x \in DOMAIN observations' \ DOMAIN observations :
               observations'[x] \in Actions /\ <<"o", x>> \in Reached[observations'[x]]
        /\ \A k \in DOMAIN keys' \ DOMAIN keys : keys'[k] \in Actions /\ <<"k", k>> \in Reached[keys'[k]]
    <3>1. CASE actions = {}
      BY <1>7, <3>1
    <3>2. CASE actions # {}
      <4>1. /\ chosen \in Actions /\ <<"k", claim.key>> \in Reached[chosen]
            /\ \A x \in linked : <<"o", x>> \in Reached[chosen]
        BY <1>3, <2>4, <3>2
      <4> HIDE DEF chosen, linked, claim
      <4> QED BY <2>4, <3>2, <4>1
    <3> QED BY <3>1, <3>2
  <2>6. Grounded'
    <3>1. \A x \in DOMAIN observations' : observations'[x] \in Actions /\ <<"o", x>> \in Reached[observations'[x]]
      BY <1>2, <2>2, <2>5 DEF Grounded
    <3>2. \A k \in DOMAIN keys' : keys'[k] \in Actions /\ <<"k", k>> \in Reached[keys'[k]]
      BY <1>2, <2>2, <2>5 DEF Grounded
    <3> QED BY <2>1, <3>1, <3>2 DEF Grounded
  <2>7. RulesInv'
    <3>1. stage' = "links" /\ record' = record /\ profile' = profile
      BY <1>1, <1>7
    <3>2. \A n \in DOMAIN profile.rules : Obeyed(profile.rules[n])
      BY <1>1 DEF RedactionInv, RulesInv
    <3>3. \A n \in DOMAIN profile.rules : Obeyed(profile.rules[n])'
      BY <2>2, <3>1, <3>2 DEF Obeyed
    <3> QED BY <3>1, <3>3 DEF RulesInv
  <2>8. LinksInv'
    <3>1. stage' = "links" /\ record' = record /\ at' = at + 1
      BY <1>1, <1>7
    <3>2. SUFFICES ASSUME ~changed', NEW n \in DOMAIN record.claims, n < at + 1
                   PROVE  Level(record.claims[n])'
      BY <3>1 DEF LinksInv
    <3>3. ~changed /\ observations' = observations /\ keys' = keys
      BY <1>7, <3>2
    <3>4. Level(record.claims[n])
      <4>1. CASE n < at
        BY <1>1, <3>3, <4>1 DEF RedactionInv, LinksInv
      <4>2. CASE n = at
        <5>1. CASE actions = {}
          BY <2>3, <4>2, <5>1 DEF Level
        <5>2. CASE actions # {}
          BY <2>4, <3>3, <4>2, <5>2 DEF Level
        <5> QED BY <5>1, <5>2
      <4>3. n \in Nat
        BY Given
      <4> QED BY <1>1, <3>2, <4>1, <4>2, <4>3
    <3> QED BY <3>1, <3>3, <3>4 DEF Level
  <2>9. changed' \in BOOLEAN /\ at' \in Nat \ {0} /\ stage' = "links"
    <3>1. changed' \in BOOLEAN
      BY <1>7, Zenon
    <3> QED BY <1>1, <1>7, <3>1
  <2> QED BY <1>7, <2>6, <2>7, <2>8, <2>9 DEF RedactionInv
<1> QED BY <1>5, <1>6, <1>7 DEF FollowClaim

(* A part of a list has the elements at its positions.                      *)
LEMMA KeptSet ==
  ASSUME NEW T, NEW list \in Seq(T), NEW positions \in SUBSET DOMAIN list
  PROVE  ToSet(Kept(list, positions)) = {list[p] : p \in positions}
<1>1. DOMAIN list = 1..Len(list) /\ Len(list) \in Nat
  OBVIOUS
<1>2. Kept(list, positions) \in Seq(T)
  BY KeptIs
<1> QED BY <1>1, <1>2, KeptElements DEF ToSet

-----------------------------------------------------------------------------
(* A derivative of level claims holds together: a claim that is kept lost   *)
(* nothing it rests on.                                                     *)
LEMMA KeptParts ==
  ASSUME RedactionAssumption, RedactionInv
  PROVE  /\ ToSet(KeptObservations) = {o \in ToSet(record.observations) : ~Removed(o)}
         /\ ToSet(KeptClaims) = {c \in ToSet(record.claims) : c.key \notin DOMAIN keys}
         /\ KeptObservations \in Seq(ToSet(record.observations))
         /\ KeptClaims \in Seq(ToSet(record.claims))
<1>1. record.observations \in Seq(ToSet(record.observations)) /\ record.claims \in Seq(ToSet(record.claims))
  BY Given
<1> DEFINE os == {i \in DOMAIN record.observations : ~Removed(record.observations[i])}
           cs == {i \in DOMAIN record.claims : record.claims[i].key \notin DOMAIN keys}
<1>2. ToSet(KeptObservations) = {record.observations[i] : i \in os}
  BY <1>1, KeptSet DEF KeptObservations
<1>3. ToSet(KeptClaims) = {record.claims[i] : i \in cs}
  BY <1>1, KeptSet DEF KeptClaims
<1>4. {record.observations[i] : i \in os} = {o \in ToSet(record.observations) : ~Removed(o)}
  BY DEF ToSet
<1>5. {record.claims[i] : i \in cs} = {c \in ToSet(record.claims) : c.key \notin DOMAIN keys}
  BY DEF ToSet
<1>6. KeptObservations \in Seq(ToSet(record.observations)) /\ KeptClaims \in Seq(ToSet(record.claims))
  BY <1>1, KeptIs DEF KeptObservations, KeptClaims
<1> QED BY <1>2, <1>3, <1>4, <1>5, <1>6

(* What becomes of an observation.                                          *)
LEMMA ShownIs ==
  ASSUME RedactionAssumption, RedactionInv, NEW o \in ToSet(record.observations)
  PROVE  /\ Shown(o).id = o.id
         /\ Shown(o).source = IF profile.hide THEN "alias" ELSE o.source
         /\ Shown(o).payload =
              LET p == IF o.id \in DOMAIN observations THEN observations[o.id] ELSE o.payload
              IN  IF profile.strip THEN Stripped(p) ELSE p
<1>1. PICK r : o = [id |-> r.id, space |-> r.space, private |-> r.private, payload |-> r.payload,
                    source |-> r.source]
  BY DEF RedactionAssumption, RedactionInv, Accepted
<1> DEFINE p == IF o.id \in DOMAIN observations THEN observations[o.id] ELSE o.payload
           masked == IF o.id \in DOMAIN observations THEN [o EXCEPT !.payload = observations[o.id]] ELSE o
           strip == IF profile.strip THEN [masked EXCEPT !.payload = Stripped(@)] ELSE masked
<1>2. masked = [id |-> r.id, space |-> r.space, private |-> r.private, payload |-> p, source |-> r.source]
  BY <1>1
<1>3. strip = [id |-> r.id, space |-> r.space, private |-> r.private,
               payload |-> IF profile.strip THEN Stripped(p) ELSE p, source |-> r.source]
  <2> HIDE DEF p, masked
  <2> QED BY <1>2
<1>4. Shown(o) = [strip EXCEPT !.source = IF profile.hide THEN "alias" ELSE @]
  BY DEF Shown
<1> HIDE DEF p, strip
<1>5. /\ Shown(o).id = r.id
      /\ Shown(o).source = IF profile.hide THEN "alias" ELSE r.source
      /\ Shown(o).payload = IF profile.strip THEN Stripped(p) ELSE p
  BY <1>3, <1>4
<1> QED BY <1>1, <1>5 DEF p

LEMMA DerivedIs ==
  ASSUME RedactionAssumption, RedactionInv
  PROVE  /\ ToSet(Derived.observations) = {Shown(o) : o \in {x \in ToSet(record.observations) : ~Removed(x)}}
         /\ Derived.claims = KeptClaims
         /\ ToSet(Derived.claims) = {c \in ToSet(record.claims) : c.key \notin DOMAIN keys}
         /\ Derived.source = IF profile.hide THEN "alias" ELSE record.source
         /\ Ids(Derived.observations) = Ids(KeptObservations)
<1>1. /\ Derived.observations = [i \in DOMAIN KeptObservations |-> Shown(KeptObservations[i])]
      /\ Derived.claims = KeptClaims
      /\ Derived.source = IF profile.hide THEN "alias" ELSE record.source
  BY DEF Derived
<1>2. /\ ToSet(KeptObservations) = {o \in ToSet(record.observations) : ~Removed(o)}
      /\ ToSet(KeptClaims) = {c \in ToSet(record.claims) : c.key \notin DOMAIN keys}
  BY KeptParts
<1>3. ToSet(Derived.observations) = {Shown(o) : o \in ToSet(KeptObservations)}
  BY <1>1 DEF ToSet
<1>4. Ids(Derived.observations) = Ids(KeptObservations)
  <2>1. \A i \in DOMAIN KeptObservations : KeptObservations[i] \in ToSet(record.observations)
    BY <1>2 DEF ToSet
  <2>2. \A i \in DOMAIN KeptObservations : Shown(KeptObservations[i]).id = KeptObservations[i].id
    BY <2>1, ShownIs
  <2> QED BY <1>1, <2>2 DEF Ids
<1> QED BY <1>1, <1>2, <1>3, <1>4

LEMMA LevelHolds ==
  ASSUME RedactionAssumption, RedactionInv, stage = "derive" PROVE WellLinked(Derived)
<1>1. \A o \in ToSet(Derived.observations) : o.source = Derived.source
  <2>1. SUFFICES ASSUME NEW o \in ToSet(record.observations) PROVE Shown(o).source = Derived.source
    BY DerivedIs
  <2>2. o.source = record.source
    BY Given DEF WellLinked
  <2> QED BY <2>2, ShownIs, DerivedIs
<1>2. ASSUME NEW c \in ToSet(Derived.claims), NEW x \in Linked(c) PROVE x \in Ids(Derived.observations)
  <2>1. c \in ToSet(record.claims) /\ c.key \notin DOMAIN keys
    BY <1>2, DerivedIs
  <2>2. Level(c)
    BY <2>1 DEF RedactionInv, LinksInv, ToSet
  <2>3. x \notin DOMAIN observations
    BY <1>2, <2>1, <2>2 DEF Level
  <2>4. x \in Ids(record.observations)
    BY <1>2, <2>1, Given DEF WellLinked
  <2>5. PICK o \in ToSet(record.observations) : o.id = x
    BY <2>4 DEF Ids, ToSet
  <2>6. o \in ToSet(KeptObservations)
    BY <2>3, <2>5, KeptParts DEF Removed
  <2>7. x \in Ids(KeptObservations)
    BY <2>5, <2>6 DEF Ids, ToSet
  <2> QED BY <2>7, DerivedIs
<1> QED BY <1>1, <1>2 DEF WellLinked

LEMMA PreviewedStays ==
  ASSUME record' = record, profile' = profile, observations' = observations, keys' = keys
  PROVE  Previewed' = Previewed
<1>1. KeptObservations' = KeptObservations /\ KeptClaims' = KeptClaims
  BY DEF KeptObservations, KeptClaims, Removed
<1>2. Alternatives' = Alternatives
  BY <1>1 DEF Alternatives, Ids
<1>3. Derived' = Derived
  BY <1>1, <1>2 DEF Derived, Shown, Ids
<1>4. Changes' = Changes /\ StrippedIds' = StrippedIds
  BY <1>1 DEF Changes, StrippedIds, Ids
<1> QED BY <1>1, <1>3, <1>4 DEF Previewed, Ids

LEMMA DeriveStep == ASSUME RedactionAssumption, RedactionInv, Derive PROVE RedactionInv'
<1>1. stage' = "done"
  BY LevelHolds DEF Derive
<1>2. Reached' = Reached /\ Actions' = Actions
  BY ReachedStays DEF Derive
<1>3. Grounded' /\ RulesInv' /\ LinksInv'
  BY <1>1, <1>2 DEF RedactionInv, Grounded, RulesInv, LinksInv, Obeyed, Level, Derive
<1>4. preview' = Previewed'
  BY PreviewedStays DEF Derive
<1> QED BY <1>1, <1>3, <1>4 DEF RedactionInv, Derive

LEMMA RedactionStarts == ASSUME RedactionAssumption, RedactionInit PROVE RedactionInv
<1>1. Grounded
  <2>1. DOMAIN observations = {} /\ DOMAIN keys = {}
    BY DEF RedactionInit
  <2> QED BY <2>1 DEF Grounded
<1>2. stage = "rules" /\ at = 1 /\ changed = FALSE /\ record \in Originals /\ profile \in Requests
  BY Zenon DEF RedactionInit
<1>3. RulesInv
  <2>1. profile.rules \in Seq(ToSet(profile.rules))
    BY <1>2 DEF RedactionAssumption, IsList
  <2>2. \A n \in DOMAIN profile.rules : ~(n < 1)
    BY <2>1
  <2> QED BY <1>2, <2>2 DEF RulesInv
<1>4. LinksInv
  BY <1>2 DEF LinksInv
<1>5. changed \in BOOLEAN
  BY Zenon, <1>2
<1> QED BY <1>1, <1>2, <1>3, <1>4, <1>5 DEF RedactionInv

LEMMA RedactionStep == ASSUME RedactionAssumption, RedactionInv, [RedactionNext]_vars PROVE RedactionInv'
<1>1. CASE UNCHANGED vars
  <2>1. /\ record' = record /\ profile' = profile /\ stage' = stage /\ at' = at /\ changed' = changed
        /\ observations' = observations /\ keys' = keys /\ preview' = preview
    BY <1>1 DEF vars
  <2>2. Reached' = Reached /\ Actions' = Actions
    BY <2>1, ReachedStays
  <2>3. Grounded' /\ (Torn => Torn')
    BY <2>1, <2>2 DEF RedactionInv, Grounded, Torn
  <2>4. RulesInv' /\ LinksInv'
    BY <2>1 DEF RedactionInv, RulesInv, LinksInv, Obeyed, Level
  <2>5. Previewed' = Previewed
    BY <2>1, PreviewedStays
  <2> QED BY <2>1, <2>3, <2>4, <2>5 DEF RedactionInv
<1> QED BY <1>1, NoAliasStep, ApplyRuleStep, RulesEndStep, FollowClaimStep, PassEndsStep, DeriveStep
        DEF RedactionNext

-----------------------------------------------------------------------------
(* What is left when the preview is done.                                   *)

(* What has an action is what the rules with it reach.                      *)
LEMMA TakenIsReached ==
  ASSUME RedactionAssumption, RedactionInv, stage = "done", NEW a \in Actions
  PROVE  /\ \A x : <<"o", x>> \in Reached[a] <=> x \in DOMAIN observations /\ observations[x] = a
         /\ \A k : <<"k", k>> \in Reached[a] <=> k \in DOMAIN keys /\ keys[k] = a
<1> DEFINE os == {x \in DOMAIN observations : observations[x] = a}
           ks == {k \in DOMAIN keys : keys[k] = a}
           taken == ({"o"} \X os) \cup ({"k"} \X ks)
<1>1. /\ \A x : <<"o", x>> \in taken <=> x \in os
      /\ \A k : <<"k", k>> \in taken <=> k \in ks
  OBVIOUS
<1>2. Reached[a] = Closure(Chosen(a))
  BY DEF Reached
<1>3. taken \subseteq Closure(Chosen(a))
  BY <1>2 DEF RedactionInv, Grounded
<1>4. taken \subseteq Parts
  BY <1>3 DEF Closure
<1>5. Chosen(a) \subseteq taken
  <2>1. SUFFICES ASSUME NEW p \in Chosen(a) PROVE p \in taken
    OBVIOUS
  <2>2. PICK r \in ToSet(profile.rules) :
           /\ r.action = a
           /\ \/ \E o \in ToSet(record.observations) : SelectedObservation(r.selector, o) /\ p = <<"o", o.id>>
              \/ \E c \in ToSet(record.claims) : SelectedClaim(r.selector, c) /\ p = <<"k", c.key>>
    BY ChosenIs
  <2>3. Obeyed(r)
    BY DEF RedactionInv, RulesInv, ToSet
  <2> QED BY <1>1, <2>2, <2>3 DEF Obeyed
<1>6. Closed(taken)
  <2>1. SUFFICES ASSUME NEW c \in ToSet(record.claims), ClaimParts(c) \cap taken # {}
                 PROVE  ClaimParts(c) \subseteq taken
    BY DEF Closed
  <2>2. Level(c)
    BY DEF RedactionInv, LinksInv, ToSet
  <2>3. \A p \in ClaimParts(c) : p = <<"k", c.key>> \/ \E x \in Linked(c) : p = <<"o", x>>
    BY DEF ClaimParts
  <2>4. PICK p \in ClaimParts(c) : p \in taken
    BY <2>1
  <2>5. c.key \in ks /\ \A x \in Linked(c) : x \in os
    BY <1>1, <2>2, <2>3, <2>4 DEF Level
  <2> QED BY <1>1, <2>3, <2>5
<1>7. Closure(Chosen(a)) \subseteq taken
  BY <1>4, <1>5, <1>6, Least
<1> HIDE DEF taken
<1> QED BY <1>1, <1>2, <1>3, <1>7

(* Together, all that has an action.                                        *)
LEMMA GoneIs ==
  ASSUME RedactionAssumption, RedactionInv, stage = "done"
  PROVE  LET gone == UNION {Closure(Chosen(a)) : a \in Actions}
         IN  /\ \A x : <<"o", x>> \in gone <=> x \in DOMAIN observations
             /\ \A k : <<"k", k>> \in gone <=> k \in DOMAIN keys
<1>1. \A a \in Actions : Reached[a] = Closure(Chosen(a))
  BY DEF Reached
<1>2. /\ \A x \in DOMAIN observations : observations[x] \in Actions
      /\ \A k \in DOMAIN keys : keys[k] \in Actions
  BY DEF RedactionInv, Grounded
<1> QED BY <1>1, <1>2, TakenIsReached

LEMMA WhatIsLinkedIsGone == ASSUME RedactionAssumption, RedactionInv PROVE RedactsWhatIsLinked
<1> SUFFICES ASSUME stage = "done" PROVE RedactsWhatIsLinked
  BY DEF RedactsWhatIsLinked
<1> DEFINE gone == UNION {Closure(Chosen(a)) : a \in Actions}
           left == preview.record
<1>1. left = Derived
  BY DEF RedactionInv, Previewed
<1>2. /\ \A x : <<"o", x>> \in gone <=> x \in DOMAIN observations
      /\ \A k : <<"k", k>> \in gone <=> k \in DOMAIN keys
  BY GoneIs
<1> HIDE DEF gone
<1>3. ToSet(left.claims) = {c \in ToSet(record.claims) : <<"k", c.key>> \notin gone}
  BY <1>1, <1>2, DerivedIs
<1>4. ASSUME NEW o \in ToSet(record.observations), <<"o", o.id>> \in gone,
             NEW x \in ToSet(left.observations), x.id = o.id
      PROVE  x.payload \in Actions
  <2>1. PICK was \in ToSet(record.observations) : ~Removed(was) /\ x = Shown(was)
    BY <1>1, <1>4, DerivedIs
  <2>2. was.id = o.id
    BY <1>4, <2>1, ShownIs
  <2> DEFINE a == observations[was.id]
  <2>3. was.id \in DOMAIN observations /\ a \in Actions
    BY <1>2, <1>4, <2>2 DEF RedactionInv, Grounded
  <2>4. a \notin {"bytes", "encoded"}
    BY <2>3 DEF RedactionAssumption, RedactionInv, Actions
  <2>5. x.payload = IF profile.strip THEN Stripped(a) ELSE a
    BY <2>1, <2>3, ShownIs
  <2> HIDE DEF a
  <2> QED BY <2>3, <2>4, <2>5 DEF Stripped
<1>5. ASSUME NEW o \in ToSet(record.observations), <<"o", o.id>> \notin gone
      PROVE  \E x \in ToSet(left.observations) : x.id = o.id /\ x.payload \in {o.payload, Stripped(o.payload)}
  <2>1. o.id \notin DOMAIN observations /\ ~Removed(o)
    BY <1>2, <1>5 DEF Removed
  <2>2. Shown(o) \in ToSet(left.observations)
    BY <1>1, <2>1, DerivedIs
  <2>3. Shown(o).id = o.id /\ Shown(o).payload = IF profile.strip THEN Stripped(o.payload) ELSE o.payload
    BY <2>1, ShownIs
  <2> QED BY <2>2, <2>3
<1>6. \A o \in ToSet(record.observations) :
        LET now == {x \in ToSet(left.observations) : x.id = o.id}
        IN  IF <<"o", o.id>> \in gone
              THEN \A x \in now : x.payload \in Actions
              ELSE \E x \in now : x.payload \in {o.payload, Stripped(o.payload)}
  BY <1>4, <1>5
<1> QED BY <1>3, <1>6 DEF RedactsWhatIsLinked, gone

LEMMA TornIsRefused == ASSUME RedactionAssumption, RedactionInv PROVE MixedIsRefused
<1>1. \A a \in Actions : Reached[a] = Closure(Chosen(a))
  BY DEF Reached
<1>2. ASSUME stage = "incompatible"
      PROVE  \E a, b \in Actions : a # b /\ Closure(Chosen(a)) \cap Closure(Chosen(b)) # {}
  BY <1>1, <1>2 DEF RedactionInv, Torn
<1>3. ASSUME stage = "done", NEW a \in Actions, NEW b \in Actions, a # b
      PROVE  Closure(Chosen(a)) \cap Closure(Chosen(b)) = {}
  <2>1. SUFFICES ASSUME NEW p, p \in Reached[a], p \in Reached[b] PROVE FALSE
    BY <1>1
  <2>2. p \in Parts
    BY <1>1, <2>1 DEF Closure
  <2>3. (\E x : p = <<"o", x>>) \/ (\E k : p = <<"k", k>>)
    BY <2>2 DEF Parts
  <2> QED BY <1>3, <2>1, <2>3, TakenIsReached
<1> QED BY <1>2, <1>3 DEF MixedIsRefused

(* As many images as things, when no two have one.                          *)
LEMMA OneToOne ==
  ASSUME NEW S, IsFiniteSet(S), NEW f, \A x, y \in S : f[x] = f[y] => x = y
  PROVE  IsFiniteSet({f[x] : x \in S}) /\ Cardinality({f[x] : x \in S}) = Cardinality(S)
<1> DEFINE T == {f[x] : x \in S}
           g == [x \in S |-> f[x]]
<1>1. g \in Bijection(S, T)
  BY DEF Bijection, Injection, Surjection, IsInjective
<1>2. ExistsBijection(S, T)
  BY <1>1 DEF ExistsBijection
<1> HIDE DEF T
<1>3. IsFiniteSet(T) /\ Cardinality(T) = Cardinality(S)
  BY <1>2, FS_Bijection
<1> QED BY <1>3 DEF T

(* What nobody has to look at again is what no rule and no strip changed.   *)
LEMMA CountIsTrue ==
  ASSUME RedactionAssumption, RedactionInv, stage = "done"
  PROVE  preview.unselected =
           Cardinality({o \in ToSet(record.observations) :
                          \E x \in ToSet(preview.record.observations) :
                            x.id = o.id /\ x.payload = o.payload})
<1> DEFINE list == record.observations
           touched == Changes \cup StrippedIds
           P == {i \in DOMAIN list : list[i].id \in touched}
           id == [i \in DOMAIN list |-> list[i].id]
           same == {o \in ToSet(list) : \E x \in ToSet(Derived.observations) : x.id = o.id /\ x.payload = o.payload}
<1>1. /\ DOMAIN list = 1..Len(list) /\ Len(list) \in Nat
      /\ \A i, j \in DOMAIN list : list[i].id = list[j].id => i = j
  <2>1. list \in Seq(ToSet(list))
    BY Given
  <2>2. \A i, j \in DOMAIN list : list[i].id = list[j].id => i = j
    BY DEF RedactionAssumption, RedactionInv, Accepted
  <2> QED BY <2>1, <2>2
<1>2. touched \subseteq Ids(list)
  <2>1. StrippedIds \subseteq Ids(list)
    BY KeptParts DEF StrippedIds, Ids, ToSet
  <2> QED BY <2>1 DEF Changes
<1>3. IsFiniteSet(DOMAIN list) /\ Cardinality(DOMAIN list) = Len(list)
  <2> DEFINE n == Len(list)
  <2>1. n \in Nat /\ DOMAIN list = 1..n
    BY <1>1
  <2> HIDE DEF n
  <2>2. IsFiniteSet(1..n) /\ Cardinality(1..n) = IF 1 > n THEN 0 ELSE n - 1 + 1
    BY <2>1, FS_Interval
  <2>3. Cardinality(1..n) = n
    BY <2>1, <2>2
  <2> QED BY <2>1, <2>2, <2>3 DEF n
<1>4. IsFiniteSet(P) /\ Cardinality(DOMAIN list \ P) = Len(list) - Cardinality(P)
  <2>1. P \in SUBSET DOMAIN list /\ DOMAIN list \cap P = P
    OBVIOUS
  <2> DEFINE all == DOMAIN list
  <2> HIDE DEF P, all
  <2>2. IsFiniteSet(all) /\ Cardinality(all) = Len(list) /\ P \in SUBSET all /\ all \cap P = P
    BY <1>3, <2>1 DEF all
  <2>3. IsFiniteSet(P)
    BY <2>2, FS_Subset
  <2>4. Cardinality(all \ P) = Cardinality(all) - Cardinality(all \cap P)
    BY <2>2, FS_Difference
  <2> QED BY <2>2, <2>3, <2>4 DEF all
<1>5. Cardinality(touched) = Cardinality(P)
  <2>1. \A i, j \in P : id[i] = id[j] => i = j
    BY <1>1
  <2>2. {id[i] : i \in P} = touched
    BY <1>2 DEF Ids
  <2> HIDE DEF P, id, touched
  <2> QED BY <1>4, <2>1, <2>2, OneToOne
<1>6. ASSUME NEW i \in DOMAIN list PROVE list[i] \in same <=> i \notin P
  <2> DEFINE o == list[i]
  <2>1. o \in ToSet(list)
    BY DEF ToSet
  <2>2. ASSUME NEW x \in ToSet(Derived.observations), x.id = o.id PROVE x = Shown(o) /\ ~Removed(o)
    <3>1. PICK was \in ToSet(list) : ~Removed(was) /\ x = Shown(was)
      BY <2>2, DerivedIs
    <3>2. was.id = o.id
      BY <2>2, <3>1, ShownIs
    <3>3. was = o
      BY <1>1, <3>1, <3>2 DEF ToSet
    <3> QED BY <3>1, <3>3
  <2>3. CASE o.id \in DOMAIN observations
    <3> DEFINE a == observations[o.id]
    <3>1. i \in P
      BY <2>3 DEF Changes, Ids
    <3>2. PICK rule \in ToSet(profile.rules) : rule.action = a
      BY <2>3 DEF RedactionInv, Grounded, Actions
    <3>3. a \notin {"bytes", "encoded"} /\ a # o.payload
      BY <2>1, <3>2 DEF RedactionAssumption, RedactionInv
    <3>4. Shown(o).payload = IF profile.strip THEN Stripped(a) ELSE a
      BY <2>1, <2>3, ShownIs
    <3>5. Shown(o).payload # o.payload
      <4> HIDE DEF a, o
      <4> QED BY <3>3, <3>4 DEF Stripped
    <3>6. list[i] \notin same
      BY <2>2, <3>5
    <3> QED BY <3>1, <3>6
  <2>4. CASE o.id \notin DOMAIN observations
    <3>1. ~Removed(o) /\ Shown(o) \in ToSet(Derived.observations) /\ o \in ToSet(KeptObservations)
      BY <2>1, <2>4, DerivedIs, KeptParts DEF Removed
    <3>2. Shown(o).id = o.id /\ Shown(o).payload = IF profile.strip THEN Stripped(o.payload) ELSE o.payload
      BY <2>1, <2>4, ShownIs
    <3>3. i \in P <=> profile.strip /\ o.payload \in {"bytes", "encoded"}
      <4>1. i \in P <=> o.id \in StrippedIds
        BY <2>4 DEF Changes
      <4>2. o.id \in StrippedIds <=> profile.strip /\ o.payload \in {"bytes", "encoded"}
        <5>1. ASSUME NEW x \in ToSet(KeptObservations), x.id = o.id PROVE x = o
          BY <1>1, <5>1, KeptParts, SMTT(30) DEF ToSet
        <5> QED BY <2>4, <3>1, <5>1 DEF StrippedIds
      <4> QED BY <4>1, <4>2
    <3>4. list[i] \in same <=> Shown(o).payload = o.payload
      BY <2>1, <2>2, <3>1, <3>2
    <3>5. Shown(o).payload = o.payload <=> ~(profile.strip /\ o.payload \in {"bytes", "encoded"})
      <4>1. profile.strip \in BOOLEAN
        BY DEF RedactionAssumption, RedactionInv
      <4> HIDE DEF o
      <4> QED BY <3>2, <4>1 DEF Stripped
    <3> QED BY <3>3, <3>4, <3>5
  <2> QED BY <2>3, <2>4
<1>7. Cardinality(same) = Cardinality(DOMAIN list \ P)
  <2>1. same = {list[i] : i \in DOMAIN list \ P}
    <3>1. \A o \in same : \E i \in DOMAIN list : o = list[i]
      BY DEF ToSet
    <3> HIDE DEF same, P
    <3> QED BY <1>6, <3>1
  <2>2. \A i, j \in DOMAIN list \ P : list[i] = list[j] => i = j
    BY <1>1
  <2>3. IsFiniteSet(DOMAIN list \ P)
    BY <1>3, FS_Difference
  <2> HIDE DEF same, P, list
  <2> QED BY <2>1, <2>2, <2>3, OneToOne
<1>8. preview = Previewed /\ preview.record = Derived /\ preview.unselected = Len(list) - Cardinality(touched)
  BY DEF RedactionInv, Previewed
<1> HIDE DEF touched, P
<1>9. preview.unselected = Cardinality(same)
  BY <1>4, <1>5, <1>7, <1>8
<1> QED BY <1>8, <1>9

LEMMA DerivativeIsWhole == ASSUME RedactionAssumption, RedactionInv PROVE DerivativeHolds
<1>1. stage # "dangling"
  BY DEF RedactionInv
<1> SUFFICES ASSUME stage = "done" PROVE DerivativeHolds
  BY <1>1 DEF DerivativeHolds
<1>2. preview.record = Derived
  BY DEF RedactionInv, Previewed
<1>3. ASSUME NEW c \in ToSet(Derived.conflicts) PROVE Cardinality(c) > 1 /\ c \subseteq Ids(Derived.claims)
  <2> DEFINE cut == [i \in DOMAIN record.conflicts |-> record.conflicts[i] \cap Ids(KeptClaims)]
             positions == {i \in DOMAIN cut : Cardinality(cut[i]) > 1}
  <2>1. c \in ToSet(Alternatives)
    <3>1. Derived.conflicts = IF profile.omit THEN << >> ELSE Alternatives
      BY DEF Derived
    <3> QED BY <1>3, <3>1 DEF ToSet
  <2>2. cut \in Seq(SUBSET Ids(KeptClaims))
    <3>1. record.conflicts \in Seq(ToSet(record.conflicts))
      BY DEF RedactionAssumption, RedactionInv, Accepted, IsList
    <3>2. DOMAIN record.conflicts = 1..Len(record.conflicts) /\ Len(record.conflicts) \in Nat
      BY <3>1
    <3> QED BY <3>2
  <2>3. Alternatives = Kept(cut, positions) /\ positions \in SUBSET DOMAIN cut
    BY DEF Alternatives
  <2> HIDE DEF cut
  <2>4. PICK i \in positions : c = cut[i]
    BY <2>1, <2>2, <2>3, KeptSet
  <2>5. cut[i] \in SUBSET Ids(KeptClaims) /\ Cardinality(cut[i]) > 1
    BY <2>2, <2>4
  <2> QED BY <2>4, <2>5, DerivedIs
<1>4. ASSUME NEW d \in ToSet(Derived.diagnostics) PROVE d \subseteq Ids(Derived.observations)
  <2>1. Derived.diagnostics =
          IF profile.omit THEN << >>
          ELSE [i \in DOMAIN record.diagnostics |-> record.diagnostics[i] \cap Ids(KeptObservations)]
    BY DEF Derived
  <2>2. d \subseteq Ids(KeptObservations)
    BY <1>4, <2>1 DEF ToSet
  <2> QED BY <2>2, DerivedIs
<1> QED BY <1>1, <1>2, <1>3, <1>4, CountIsTrue DEF DerivativeHolds

-----------------------------------------------------------------------------
(* The state of a preview, from its first rule to its derivative.           *)
THEOREM RedactionInductive == ASSUME RedactionAssumption PROVE RedactionSpec => []RedactionInv
<1>1. RedactionInit => RedactionInv
  BY RedactionStarts
<1>2. RedactionInv /\ [RedactionNext]_vars => RedactionInv'
  BY RedactionStep
<1> QED BY <1>1, <1>2, PTL DEF RedactionSpec

(* A redaction takes away its selection and all that is linked to it, by    *)
(* chains of claims of any length, and nothing else, or is refused because  *)
(* rules want linked metadata in two ways; and what it leaves holds         *)
(* together and is counted truly: for every record, profile and budget.     *)
THEOREM RedactionIsSound == ASSUME RedactionAssumption PROVE RedactionSpec => []RedactionSound
<1>1. RedactionInv => RedactionSound
  BY WhatIsLinkedIsGone, TornIsRefused, DerivativeIsWhole DEF RedactionSound
<1> QED BY <1>1, RedactionInductive, PTL

-----------------------------------------------------------------------------
(* EvidenceWalk *)

Paths == Seq(EntryName)
Listings == [path : Paths, depth : Nat, left : SUBSET EntryName]

(* The files of the walker have their types, and the tree is one.           *)
WalkTypes ==
  /\ swaps \in Nat /\ options \in Policies /\ done \in BOOLEAN
  /\ {entries, opened, directories} \subseteq Nat
  /\ RootDir \in DOMAIN tree /\ DOMAIN tree \cap Files = {}
  /\ \A d \in DOMAIN tree : DOMAIN tree[d] \subseteq EntryName
  /\ stack \in Seq(Listings)
  /\ entry \in [at : {"none", "metadata", "file", "directory"}, path : Paths, depth : Nat]
  /\ entry.at # "none" => entry.path # << >>
  /\ \A y \in yielded : y.path \in Paths /\ y.path # << >> /\ y.evidence = EvidencePath(y.path)

(* The root that was chosen is a file: it is looked at when the walk is     *)
(* over, or not at all.                                                     *)
Alone ==
  /\ stack = << >> /\ entry.at \in {"none", "file"}
  /\ entry.at = "file" => entry.path = options.selected /\ done
  /\ ~done \/ entry.at = "file" => opened = 0 /\ yielded = {}
  /\ \A y \in yielded : y.path = options.selected

(* It is a directory: the entry is one of the innermost listing.            *)
Within ==
  /\ entry.at = "none" => stack # << >> \/ done
  /\ entry.at # "none" =>
       /\ ~done /\ stack # << >>
       /\ Front(entry.path) = Last(stack).path /\ entry.depth = Last(stack).depth
       /\ opened < options.max_files
  /\ done => stack = << >> \/ \E n \in notices : n.code = "walk.limit"

Places ==
  /\ WalkBounded
  /\ \A k \in DOMAIN stack : Len(stack[k].path) = k - 1
  /\ entry.at = "none" => entry = NoEntry
  /\ entry.at = "directory" =>
       entry.depth < options.max_depth /\ directories < options.max_directories
  /\ IF options.selected = Absent THEN Within ELSE Alone

-----------------------------------------------------------------------------
(* What the policy lets through. *)
Clean(path) ==
  ~LeftOut(path) /\ (options.follow \/ \A p \in Along(path) : ~IsLink(p))

(* The paths under which directories are or have been listed. *)
Walked == {stack[k].path : k \in DOMAIN stack} \cup {Front(y.path) : y \in yielded}

Once ==
  /\ RootDir \in visited
  /\ \A d \in Walked : Resolve(d) \in visited
  /\ \A d, e \in Walked : Resolve(d) = Resolve(e) => d = e
  /\ entry.at = "directory" =>
       Resolve(entry.path) \in visited /\ \A d \in Walked : Resolve(d) # Resolve(entry.path)

Ahead(path) ==
  \/ \E k \in DOMAIN stack :
       k <= Len(path) /\ SubSeq(path, 1, k - 1) = stack[k].path /\ path[k] \in stack[k].left
  \/ entry.at # "none" /\ IsPrefix(entry.path, path)

Said(path) ==
  \/ LeftOut(path)
  \/ \E y \in yielded : y.path = path
  \/ \E n \in notices : n.code = "walk.limit" \/ IsPrefix(n.path, path)

(* The walk in a tree that stays what it is. *)
Steady ==
  /\ Once
  /\ options.selected = Absent =>
       /\ \A k \in DOMAIN stack : Clean(stack[k].path)
       /\ entry.at # "none" => Clean(entry.path)
       /\ \A y \in yielded : Clean(y.path)
       /\ \A path \in Reach : Resolve(path) \in Files => Said(path) \/ Ahead(path)
  /\ options.selected # Absent =>
       /\ \A y \in yielded : IsLink(y.path) => options.follow
       /\ Excluded(options.selected) => entry.at = "none" /\ yielded = {}
       /\ done => \/ Excluded(options.selected) \/ entry.at = "file"
                  \/ \E y \in yielded : y.path = options.selected
                  \/ \E n \in notices : n.path = options.selected
  /\ \A y \in yielded : y.file = Resolve(y.path)

WalkInv == WalkTypes /\ Places /\ (swaps = 0 => Steady)

-----------------------------------------------------------------------------
(* Paths. *)

LEMMA LongerPath ==
  ASSUME NEW path \in Paths, NEW name \in EntryName
  PROVE  LET longer == Append(path, name)
         IN /\ longer \in Paths /\ longer # << >> /\ Len(longer) = Len(path) + 1
            /\ Front(longer) = path /\ Last(longer) = name
            /\ Along(longer) = Along(path) \cup {longer}
<1> DEFINE longer == Append(path, name)
           n == Len(path)
<1>1. longer \in Paths /\ longer # << >> /\ Len(longer) = n + 1 /\ n \in Nat
  BY AppendProperties DEF Paths
<1>2. Front(longer) = path /\ Last(longer) = name
  BY DEF Front, Last, Paths
<1>3. \A k \in 1..n : SubSeq(longer, 1, k) = SubSeq(path, 1, k)
  BY DEF Paths
<1>4. SubSeq(longer, 1, n + 1) = longer
  BY <1>1 DEF Paths
<1>5. 1..(n + 1) = (1..n) \cup {n + 1}
  BY <1>1
<1>6. Along(longer) = Along(path) \cup {longer}
  <2>1. Along(longer) = {SubSeq(longer, 1, k) : k \in 1..(n + 1)}
    BY <1>1 DEF Along
  <2>2. Along(path) = {SubSeq(path, 1, k) : k \in 1..n}
    BY DEF Along
  <2> HIDE DEF longer, n
  <2> QED BY <1>3, <1>4, <1>5, <2>1, <2>2
<1> QED BY <1>1, <1>2, <1>6

(* How a path goes on. *)
LEMMA PathSteps ==
  ASSUME NEW path \in Paths, NEW k \in 1..Len(path)
  PROVE  LET upto == SubSeq(path, 1, k)
         IN /\ upto \in Along(path) /\ upto \in Paths /\ upto # << >> /\ Len(upto) = k
            /\ Front(upto) = SubSeq(path, 1, k - 1) /\ Last(upto) = path[k]
            /\ upto = Append(SubSeq(path, 1, k - 1), path[k])
            /\ IsPrefix(upto, path) /\ IsPrefix(SubSeq(path, 1, k - 1), path)
<1>1. Len(path) \in Nat /\ k \in Nat /\ k - 1 \in Nat /\ 1 <= k /\ k <= Len(path)
  BY DEF Paths
<1>2. SubSeq(path, 1, k) \in Along(path)
  BY DEF Along
<1>3. SubSeq(path, 1, k) \in Paths /\ SubSeq(path, 1, k) # << >> /\ Len(SubSeq(path, 1, k)) = k
  BY <1>1, SubSeqProperties DEF Paths
<1>4. Front(SubSeq(path, 1, k)) = SubSeq(path, 1, k - 1) /\ Last(SubSeq(path, 1, k)) = path[k]
  BY <1>1, <1>3 DEF Front, Last, Paths
<1>5. SubSeq(path, 1, k) = Append(SubSeq(path, 1, k - 1), path[k])
  BY <1>1 DEF Paths
<1>6. IsPrefix(SubSeq(path, 1, k), path)
  BY <1>1, <1>3 DEF IsPrefix, Paths
<1>7. IsPrefix(SubSeq(path, 1, k - 1), path)
  <2>1. Len(SubSeq(path, 1, k - 1)) = k - 1
    BY <1>1 DEF Paths
  <2> QED BY <1>1, <2>1 DEF IsPrefix, Paths
<1> QED BY <1>2, <1>3, <1>4, <1>5, <1>6, <1>7

LEMMA PrefixIs ==
  ASSUME NEW path \in Paths, NEW part \in Paths, IsPrefix(part, path)
  PROVE  /\ Len(part) <= Len(path) /\ SubSeq(path, 1, Len(part)) = part
         /\ Len(part) = Len(path) => part = path
<1>1. SubSeq(part, 1, Len(part)) = part /\ SubSeq(path, 1, Len(path)) = path
  BY SubSeqFull DEF Paths
<1>2. Len(part) <= Len(path) /\ SubSeq(path, 1, Len(part)) = part
  BY <1>1 DEF IsPrefix
<1>3. Len(part) = Len(path) => part = path
  BY <1>1, <1>2
<1> QED BY <1>2, <1>3

LEMMA TheRoot == ASSUME NEW t PROVE ResolveIn(t, << >>) = RootDir
<1> DEFINE N == Len(<< >>)
           At(node, k) == IF k = 0 THEN RootDir
                          ELSE IF node[k - 1] \in DOMAIN t /\ << >>[k] \in DOMAIN t[node[k - 1]]
                          THEN t[node[k - 1]][<< >>[k]].to ELSE Absent
           Is(node) == node = [k \in 0..N |-> At(node, k)]
<1>1. N = 0 /\ 0..N = {0}
  OBVIOUS
<1>2. Is([k \in 0..N |-> RootDir])
  BY <1>1
<1>3. Is(CHOOSE node : Is(node))
  <2> HIDE DEF Is
  <2> QED BY <1>2
<1>4. (CHOOSE node : Is(node))[0] = RootDir
  BY <1>1, <1>3
<1> QED BY <1>1, <1>4 DEF ResolveIn

LEMMA SameTree ==
  ASSUME tree' = tree, options' = options
  PROVE  /\ \A path : /\ Resolve(path)' = Resolve(path) /\ IsLink(path)' = IsLink(path)
                      /\ LeftOut(path)' = LeftOut(path) /\ Clean(path)' = Clean(path)
         /\ Reach' = Reach
<1>1. \A path : Resolve(path)' = Resolve(path)
  BY DEF Resolve
<1>2. \A path : Parent(path)' = Parent(path)
  BY <1>1 DEF Parent
<1>3. \A path : IsNamed(path)' = IsNamed(path) /\ IsLink(path)' = IsLink(path)
  BY <1>2 DEF IsNamed, IsLink
<1>4. \A path : LeftOut(path)' = LeftOut(path)
  BY DEF LeftOut, Excluded
<1>5. \A path : Clean(path)' = Clean(path)
  BY <1>3, <1>4 DEF Clean
<1>6. Reach' = Reach
  BY <1>3 DEF Reach, Names
<1> QED BY <1>1, <1>3, <1>4, <1>5, <1>6

(* What a walk looks for. *)
LEMMA ReachIs ==
  ASSUME WalkTypes, NEW path \in Reach
  PROVE  path \in Paths /\ path # << >> /\ \A p \in Along(path) : IsNamed(p)
<1>1. Names \subseteq EntryName
  BY DEF Names, WalkTypes
<1>2. PICK n \in 0..MaxPath : path \in [1..n -> Names]
  BY DEF Reach, SeqOf
<1>3. n \in Nat /\ path \in [1..n -> EntryName]
  BY <1>1, <1>2, WalkAssumption
<1>4. path \in Paths
  BY <1>3, SeqDef DEF Paths
<1> QED BY <1>4 DEF Reach

-----------------------------------------------------------------------------
(* The parts of steps. *)

NextPath(name) == Append(Last(stack).path, name)
Hidden(name) == Head(name) = "." /\ ~options.include_hidden

LEMMA NextEntryCases ==
  ASSUME NEW name, NextEntry(name)
  PROVE  /\ ~done /\ entry = NoEntry /\ ~Limited /\ stack # << >> /\ name \in Last(stack).left
         /\ entries' = entries + 1
         /\ stack' = [stack EXCEPT ![Len(stack)].left = @ \ {name}]
         /\ UNCHANGED <<tree, swaps, options, visited, opened, directories, done, yielded>>
         /\ \/ /\ entry' = entry
               /\ \/ (Excluded(NextPath(name)) \/ Hidden(name)) /\ notices' = notices
                  \/ Notice("walk.symlink", NextPath(name))
                  \/ Notice("walk.read", Front(NextPath(name)))
            \/ /\ ~Excluded(NextPath(name)) /\ ~Hidden(name)
               /\ IsLink(NextPath(name)) => options.follow
               /\ entry' = [at |-> "metadata", path |-> NextPath(name), depth |-> Last(stack).depth]
               /\ notices' = notices
BY DEF NextEntry, NextPath, Hidden

LEMMA MetadataCases ==
  ASSUME Metadata
  PROVE  /\ entry.at = "metadata"
         /\ UNCHANGED <<tree, swaps, options, stack, entries, opened, directories, done, yielded>>
         /\ \/ entry' = NoEntry /\ visited' = visited /\ \E code : Notice(code, entry.path)
            \/ entry' = [entry EXCEPT !.at = "file"] /\ UNCHANGED <<visited, notices>>
            \/ /\ ~DirectoryLimit /\ Resolve(entry.path) \notin visited
               /\ visited' = visited \cup {Resolve(entry.path)}
               /\ entry' = [entry EXCEPT !.at = "directory"] /\ notices' = notices
BY DEF Metadata, Seen

-----------------------------------------------------------------------------
(* Types. *)

LEMMA ListingsKept ==
  ASSUME stack \in Seq(Listings), NEW name, stack # << >>,
         stack' = [stack EXCEPT ![Len(stack)].left = @ \ {name}]
  PROVE  /\ stack' \in Seq(Listings) /\ Len(stack') = Len(stack) /\ DOMAIN stack' = DOMAIN stack
         /\ \A k \in DOMAIN stack :
              /\ stack'[k].path = stack[k].path /\ stack'[k].depth = stack[k].depth
              /\ stack'[k].left = IF k = Len(stack) THEN stack[k].left \ {name} ELSE stack[k].left
<1> DEFINE n == Len(stack)
           last == [stack[n] EXCEPT !.left = @ \ {name}]
<1>1. n \in Nat /\ n \in DOMAIN stack /\ DOMAIN stack = 1..n /\ \A k \in 1..n : stack[k] \in Listings
  OBVIOUS
<1>2. stack' = [stack EXCEPT ![n] = last]
  OBVIOUS
<1>3. /\ last \in Listings /\ last.path = stack[n].path /\ last.depth = stack[n].depth
      /\ last.left = stack[n].left \ {name}
  <2>1. stack[n] \in Listings
    BY <1>1
  <2> HIDE DEF n
  <2> QED BY <2>1 DEF Listings
<1>4. \A k \in DOMAIN stack : stack'[k] = IF k = n THEN last ELSE stack[k]
  <2> HIDE DEF n, last
  <2> QED BY <1>1, <1>2
<1>5. stack' \in Seq(Listings) /\ Len(stack') = n /\ DOMAIN stack' = DOMAIN stack
  <2>1. stack' = [stack EXCEPT ![n] = last] /\ n \in 1..Len(stack) /\ last \in Listings
    BY <1>1, <1>2, <1>3
  <2> HIDE DEF last, n
  <2>2. /\ [stack EXCEPT ![n] = last] \in Seq(Listings)
        /\ Len([stack EXCEPT ![n] = last]) = Len(stack)
    BY <2>1, ExceptSeq
  <2> QED BY <2>1, <2>2 DEF n
<1> HIDE DEF last, n
<1> QED BY <1>3, <1>4, <1>5 DEF n

LEMMA TheEntry ==
  ASSUME WalkTypes, stack # << >>
  PROVE  /\ Len(stack) \in Nat \ {0} /\ Last(stack) \in Listings /\ Last(stack) = stack[Len(stack)]
         /\ Last(stack).path \in Paths /\ Last(stack).depth \in Nat
         /\ Last(stack).left \subseteq EntryName
         /\ \A name \in Last(stack).left :
              NextPath(name) \in Paths /\ Front(NextPath(name)) = Last(stack).path
<1>1. stack \in Seq(Listings)
  BY DEF WalkTypes
<1>2. Len(stack) \in Nat \ {0} /\ Last(stack) \in Listings /\ Last(stack) = stack[Len(stack)]
  BY <1>1 DEF Last
<1>3. /\ Last(stack).path \in Paths /\ Last(stack).depth \in Nat
      /\ Last(stack).left \subseteq EntryName
  BY <1>2 DEF Listings
<1> QED BY <1>2, <1>3, LongerPath DEF NextPath

LEMMA TypesStart == ASSUME WalkInit PROVE WalkTypes
<1>1. << >> \in Paths
  BY DEF Paths
<1>2. /\ options \in Policies /\ swaps = 0 /\ done = FALSE /\ entries = 0 /\ opened = 0
      /\ directories = 1 /\ entry = NoEntry /\ yielded = {} /\ tree \in Trees
  BY DEF WalkInit
<1>3. /\ RootDir \in DOMAIN tree /\ DOMAIN tree \cap Files = {}
      /\ \A d \in DOMAIN tree : DOMAIN tree[d] \subseteq EntryName
  BY <1>2, WalkAssumption
<1>4. stack \in Seq(Listings)
  <2>1. Listing(<< >>, 0, RootDir) \in Listings
    BY <1>1, <1>3 DEF Listing, Listings
  <2>2. stack = <<Listing(<< >>, 0, RootDir)>> \/ stack = << >>
    BY DEF WalkInit
  <2>3. << >> \in Seq(Listings)
    OBVIOUS
  <2>4. \A l \in Listings : <<l>> \in Seq(Listings)
    OBVIOUS
  <2> QED BY <2>1, <2>2, <2>3, <2>4
<1>5. entry \in [at : {"none", "metadata", "file", "directory"}, path : Paths, depth : Nat]
  <2>1. entry.at = "none" /\ entry.path = << >> /\ entry.depth = 0
    BY <1>2 DEF NoEntry
  <2> QED BY <1>1, <1>2, <2>1 DEF NoEntry
<1>6. entry.at = "none"
  BY <1>2 DEF NoEntry
<1>7. swaps \in Nat /\ done \in BOOLEAN /\ {entries, opened, directories} \subseteq Nat
  <2>1. done = FALSE /\ swaps = 0 /\ entries = 0 /\ opened = 0 /\ directories = 1
    BY <1>2
  <2>2. swaps \in Nat /\ {entries, opened, directories} \subseteq Nat
    BY <2>1
  <2> QED BY <2>1, <2>2, Zenon
<1>8. \A y \in yielded : y.path \in Paths /\ y.path # << >> /\ y.evidence = EvidencePath(y.path)
  BY <1>2
<1> QED BY <1>2, <1>3, <1>4, <1>5, <1>6, <1>7, <1>8, Zenon DEF WalkTypes

LEMMA TypesKept == ASSUME WalkTypes, [WalkNext]_walkVars PROVE WalkTypes'
<1> DEFINE Entries == [at : {"none", "metadata", "file", "directory"}, path : Paths, depth : Nat]
           YieldsTyped ==
             \A y \in yielded : y.path \in Paths /\ y.path # << >> /\ y.evidence = EvidencePath(y.path)
           Numbers == swaps \in Nat /\ {entries, opened, directories} \subseteq Nat /\ done \in BOOLEAN
           HasPath == entry.at # "none" => entry.path # << >>
           TreeIs == /\ RootDir \in DOMAIN tree /\ DOMAIN tree \cap Files = {}
                     /\ \A d \in DOMAIN tree : DOMAIN tree[d] \subseteq EntryName
<1>1. /\ options \in Policies /\ Numbers /\ TreeIs /\ stack \in Seq(Listings) /\ entry \in Entries
      /\ YieldsTyped /\ NoEntry \in Entries /\ HasPath
  <2>1. << >> \in Paths
    BY DEF Paths
  <2> QED BY <2>1 DEF WalkTypes, NoEntry
<1>2. ASSUME /\ options' = options /\ Numbers' /\ TreeIs' /\ stack' \in Seq(Listings)
             /\ entry' \in Entries /\ YieldsTyped' /\ HasPath'
      PROVE  WalkTypes'
  BY <1>1, <1>2 DEF WalkTypes
<1>3. CASE UNCHANGED walkVars
  BY <1>1, <1>2, <1>3 DEF walkVars
<1>4. CASE Swap
  <2>1. PICK d \in DOMAIN tree : \E name \in DOMAIN tree[d], other \in Replacements :
          tree' = [tree EXCEPT ![d][name] = other]
    BY <1>4 DEF Swap
  <2>2. DOMAIN tree' = DOMAIN tree /\ \A e \in DOMAIN tree : DOMAIN tree'[e] = DOMAIN tree[e]
    BY <2>1
  <2>3. TreeIs'
    BY <1>1, <2>2
  <2>4. Numbers'
    BY <1>1, <1>4 DEF Swap
  <2> QED BY <1>1, <1>2, <1>4, <2>3, <2>4 DEF Swap
<1>5. CASE SelectedFile
  <2>1. options.selected \in Paths /\ options.selected # << >>
    <3>1. options \in Policies /\ options.selected # Absent
      BY <1>1, <1>5 DEF SelectedFile
    <3>2. options.selected \in Seq(EntryName) /\ Len(options.selected) = 1
      <4>1. \A o \in Policies : o.selected # Absent => o.selected \in Seq(EntryName) /\ Len(o.selected) = 1
        BY WalkAssumption
      <4> QED BY <3>1, <4>1
    <3>3. \A path \in Seq(EntryName) : Len(path) = 1 => path # << >>
      OBVIOUS
    <3> QED BY <3>2, <3>3, Zenon DEF Paths
  <2>2. entry' \in Entries /\ HasPath'
    BY <1>1, <1>5, <2>1 DEF SelectedFile, NoEntry
  <2> QED BY <1>1, <1>2, <1>5, <2>2 DEF SelectedFile
<1>6. CASE LimitReached
  BY <1>1, <1>2, <1>6 DEF LimitReached, Notice
<1>7. CASE PopDirectory
  <2>1. stack' \in Seq(Listings)
    BY <1>1, <1>7, SubSeqProperties DEF PopDirectory, Front
  <2>2. Numbers'
    BY <1>1, <1>7 DEF PopDirectory
  <2> QED BY <1>1, <1>2, <1>7, <2>1, <2>2 DEF PopDirectory
<1>8. ASSUME NEW name, NextEntry(name) PROVE WalkTypes'
  <2>1. stack # << >> /\ name \in Last(stack).left
    BY <1>8, NextEntryCases
  <2>2. stack' \in Seq(Listings)
    BY <1>1, <1>8, <2>1, NextEntryCases, ListingsKept
  <2>3. entry' \in Entries
    <3>1. NextPath(name) \in Paths /\ Last(stack).depth \in Nat
      BY <2>1, TheEntry
    <3>2. \/ entry' = entry
          \/ entry' = [at |-> "metadata", path |-> NextPath(name), depth |-> Last(stack).depth]
      BY <1>8, NextEntryCases
    <3> QED BY <1>1, <3>1, <3>2
  <2>6. HasPath'
    <3>1. NextPath(name) # << >>
      BY <2>1, TheEntry, LongerPath DEF NextPath
    <3>2. \/ entry' = entry
          \/ entry' = [at |-> "metadata", path |-> NextPath(name), depth |-> Last(stack).depth]
      BY <1>8, NextEntryCases
    <3> QED BY <1>1, <3>1, <3>2
  <2>4. Numbers'
    BY <1>1, <1>8, NextEntryCases
  <2>5. UNCHANGED <<tree, options, yielded>>
    BY <1>8, NextEntryCases
  <2> QED BY <1>1, <1>2, <2>2, <2>3, <2>4, <2>5, <2>6
<1>9. CASE Metadata
  <2>1. UNCHANGED <<tree, swaps, options, stack, entries, opened, directories, done, yielded>>
    BY <1>9, MetadataCases
  <2>2. entry' = NoEntry \/ entry' = [entry EXCEPT !.at = "file"] \/ entry' = [entry EXCEPT !.at = "directory"]
    BY <1>9, MetadataCases
  <2>3. entry' \in Entries /\ HasPath'
    BY <1>1, <1>9, <2>2, MetadataCases DEF NoEntry
  <2> QED BY <1>1, <1>2, <2>1, <2>3
<1>10. CASE OpenDirectory
  <2>1. stack' \in Seq(Listings)
    <3>1. CASE stack' = stack
      BY <1>1, <3>1
    <3>2. CASE /\ Resolve(entry.path) \in DOMAIN tree
               /\ stack' = Append(stack, Listing(entry.path, entry.depth + 1, Resolve(entry.path)))
      <4>1. Listing(entry.path, entry.depth + 1, Resolve(entry.path)) \in Listings
        BY <1>1, <3>2 DEF Listing, Listings
      <4> QED BY <1>1, <3>2, <4>1
    <3> QED BY <1>10, <3>1, <3>2 DEF OpenDirectory
  <2>2. Numbers'
    BY <1>1, <1>10 DEF OpenDirectory
  <2> QED BY <1>1, <1>2, <1>10, <2>1, <2>2 DEF OpenDirectory, NoEntry
<1>11. CASE OpenFile
  <2>1. Numbers'
    BY <1>1, <1>11 DEF OpenFile
  <2>2. YieldsTyped'
    <3>1. entry.path \in Paths /\ entry.path # << >>
      BY <1>1, <1>11 DEF OpenFile
    <3>2. CASE yielded' = yielded
      BY <1>1, <3>2
    <3>3. CASE yielded' = yielded \cup {[path |-> entry.path, evidence |-> EvidencePath(entry.path),
                                         file |-> Resolve(entry.path)]}
      BY <1>1, <3>1, <3>3
    <3> QED BY <1>11, <3>2, <3>3 DEF OpenFile
  <2> QED BY <1>1, <1>2, <1>11, <2>1, <2>2 DEF OpenFile, NoEntry
<1> QED BY <1>3, <1>4, <1>5, <1>6, <1>7, <1>8, <1>9, <1>10, <1>11 DEF WalkNext

-----------------------------------------------------------------------------
(* Limits. *)

LEMMA Limits ==
  ASSUME WalkTypes
  PROVE  /\ options.max_files \in Nat \ {0} /\ options.max_entries \in Nat \ {0}
         /\ options.max_directories \in Nat \ {0} /\ options.max_depth \in Nat
         /\ {entries, opened, directories} \subseteq Nat
<1>1. \A o \in Policies :
        {o.max_files, o.max_entries, o.max_directories} \subseteq Nat \ {0} /\ o.max_depth \in Nat
  BY WalkAssumption
<1>2. options \in Policies /\ {entries, opened, directories} \subseteq Nat
  BY DEF WalkTypes
<1> QED BY <1>1, <1>2

Counted == /\ opened <= options.max_files /\ entries <= options.max_entries
           /\ directories <= options.max_directories
Deep == \A k \in DOMAIN stack :
          stack[k].depth <= options.max_depth /\ stack[k].depth = k - 1 /\ Len(stack[k].path) = k - 1
EntryIs ==
  /\ entry.at = "none" => entry = NoEntry
  /\ entry.at = "directory" =>
       entry.depth < options.max_depth /\ directories < options.max_directories

LEMMA PlacesAre ==
  Places <=> /\ Counted /\ Deep /\ EntryIs
             /\ IF options.selected = Absent THEN Within ELSE Alone
BY DEF Places, WalkBounded, Counted, Deep, EntryIs

LEMMA PlacesAreNext ==
  ASSUME options' = options
  PROVE  Places' <=> /\ Counted' /\ Deep' /\ EntryIs'
                     /\ IF options.selected = Absent THEN Within' ELSE Alone'
BY DEF Places, WalkBounded, Counted, Deep, EntryIs

LEMMA PlacesStart == ASSUME WalkInit PROVE Places
<1>1. WalkTypes
  BY TypesStart
<1>2. /\ done = FALSE /\ entries = 0 /\ opened = 0 /\ directories = 1 /\ entry = NoEntry
      /\ yielded = {} /\ entry.at = "none"
      /\ stack = IF options.selected = Absent THEN <<Listing(<< >>, 0, RootDir)>> ELSE << >>
  BY DEF WalkInit, NoEntry
<1>3. Counted
  BY <1>1, <1>2, Limits DEF Counted
<1>4. Deep
  <2>1. CASE stack = <<Listing(<< >>, 0, RootDir)>>
    <3>1. DOMAIN stack = {1} /\ stack[1] = Listing(<< >>, 0, RootDir)
      BY <2>1
    <3>2. stack[1].depth = 0 /\ stack[1].path = << >>
      BY <3>1 DEF Listing
    <3> QED BY <1>1, <3>1, <3>2, Limits DEF Deep
  <2>2. CASE stack = << >>
    BY <2>2 DEF Deep
  <2> QED BY <1>2, <2>1, <2>2
<1>5. EntryIs
  BY <1>2 DEF EntryIs
<1>6. options.selected = Absent => Within
  BY <1>2 DEF Within
<1>7. options.selected # Absent => Alone
  BY <1>2 DEF Alone
<1> QED BY <1>3, <1>4, <1>5, <1>6, <1>7, PlacesAre

LEMMA PlacesKept == ASSUME WalkTypes, Places, [WalkNext]_walkVars PROVE Places'
<1>1. /\ Counted /\ Deep /\ EntryIs /\ (options.selected = Absent => Within)
      /\ (options.selected # Absent => Alone)
  BY PlacesAre
<1>2. ASSUME options' = options, Counted', Deep', EntryIs',
             options.selected = Absent => Within', options.selected # Absent => Alone'
      PROVE  Places'
  BY <1>2, PlacesAreNext
<1>3. /\ options.max_files \in Nat \ {0} /\ options.max_entries \in Nat \ {0}
      /\ options.max_directories \in Nat \ {0} /\ options.max_depth \in Nat
      /\ entries \in Nat /\ opened \in Nat /\ directories \in Nat
  BY Limits
<1>4. NoEntry.at = "none" /\ stack \in Seq(Listings)
  BY DEF NoEntry, WalkTypes
<1>5. ASSUME /\ UNCHANGED <<options, stack, entry, entries, opened, directories, done, yielded, notices>>
      PROVE  Places'
  BY <1>1, <1>2, <1>5 DEF Counted, Deep, EntryIs, Within, Alone
<1>6. CASE UNCHANGED walkVars
  BY <1>5, <1>6 DEF walkVars
<1>7. CASE Swap
  BY <1>5, <1>7 DEF Swap
<1>8. CASE SelectedFile
  <2>1. options.selected # Absent /\ Alone /\ ~done
    BY <1>1, <1>8 DEF SelectedFile
  <2>2. UNCHANGED <<options, stack, entries, opened, directories, yielded>> /\ done'
    BY <1>8 DEF SelectedFile
  <2>3. \/ entry' = NoEntry
        \/ entry'.at = "file" /\ entry'.path = options.selected
    BY <1>8 DEF SelectedFile, NoEntry
  <2>4. Counted' /\ Deep'
    BY <1>1, <2>2 DEF Counted, Deep
  <2>5. EntryIs'
    BY <1>4, <2>3 DEF EntryIs
  <2>6. Alone'
    BY <1>4, <2>1, <2>2, <2>3 DEF Alone
  <2> QED BY <1>2, <2>1, <2>2, <2>4, <2>5, <2>6
<1>9. CASE LimitReached
  <2>1. options.selected = Absent /\ Within /\ entry = NoEntry
    BY <1>1, <1>9 DEF LimitReached
  <2>2. UNCHANGED <<options, stack, entry, entries, opened, directories, yielded>> /\ done'
    BY <1>9 DEF LimitReached
  <2>3. \E n \in notices' : n.code = "walk.limit"
    <3> DEFINE said == [code |-> "walk.limit", path |-> << >>]
    <3>1. said \in notices' /\ said.code = "walk.limit"
      BY <1>9 DEF LimitReached, Notice
    <3> QED BY <3>1
  <2>4. Counted' /\ Deep' /\ EntryIs'
    BY <1>1, <2>2 DEF Counted, Deep, EntryIs
  <2>5. Within'
    BY <1>4, <2>1, <2>2, <2>3 DEF Within
  <2> QED BY <1>2, <2>1, <2>2, <2>4, <2>5
<1>10. CASE PopDirectory
  <2>1. /\ UNCHANGED <<options, entry, entries, opened, directories, yielded>> /\ entry = NoEntry
        /\ stack # << >> /\ stack' = Front(stack) /\ done' = (stack' = << >>)
    BY <1>10 DEF PopDirectory
  <2>2. options.selected = Absent
    BY <1>1, <2>1 DEF Alone
  <2>3. DOMAIN stack' \subseteq DOMAIN stack /\ \A k \in DOMAIN stack' : stack'[k] = stack[k]
    BY <1>4, <2>1 DEF Front
  <2>4. Counted' /\ Deep' /\ EntryIs'
    BY <1>1, <2>1, <2>3 DEF Counted, Deep, EntryIs
  <2>5. Within'
    BY <1>4, <2>1 DEF Within
  <2> QED BY <1>2, <2>1, <2>2, <2>4, <2>5
<1>11. ASSUME NEW name, NextEntry(name) PROVE Places'
  <2>1. /\ ~done /\ entry = NoEntry /\ ~Limited /\ stack # << >> /\ name \in Last(stack).left
        /\ entries' = entries + 1 /\ stack' = [stack EXCEPT ![Len(stack)].left = @ \ {name}]
        /\ UNCHANGED <<options, opened, directories, done, yielded>>
        /\ \/ entry' = entry
           \/ entry' = [at |-> "metadata", path |-> NextPath(name), depth |-> Last(stack).depth]
    BY <1>11, NextEntryCases
  <2>2. options.selected = Absent
    BY <1>1, <2>1 DEF Alone
  <2>3. opened < options.max_files /\ entries < options.max_entries
    BY <1>3, <2>1 DEF Limited
  <2>4. /\ DOMAIN stack' = DOMAIN stack /\ Len(stack') = Len(stack)
        /\ \A k \in DOMAIN stack : stack'[k].path = stack[k].path /\ stack'[k].depth = stack[k].depth
    BY <1>4, <2>1, ListingsKept
  <2>5. Counted'
    BY <1>1, <1>3, <2>1, <2>3 DEF Counted
  <2>6. Deep'
    BY <1>1, <2>1, <2>4 DEF Deep
  <2>7. EntryIs'
    BY <1>1, <2>1 DEF EntryIs
  <2>8. /\ Len(stack) \in Nat \ {0} /\ Last(stack) = stack[Len(stack)] /\ Len(stack) \in DOMAIN stack
        /\ Front(NextPath(name)) = Last(stack).path
    BY <1>4, <2>1, TheEntry
  <2>9. /\ Last(stack').path = Last(stack).path /\ Last(stack').depth = Last(stack).depth
        /\ stack' # << >>
    BY <2>4, <2>8 DEF Last
  <2>10. Within'
    <3>1. CASE entry' = entry
      BY <1>4, <2>1, <2>9, <3>1 DEF Within
    <3>2. CASE entry' = [at |-> "metadata", path |-> NextPath(name), depth |-> Last(stack).depth]
      <4>1. entry'.at = "metadata" /\ entry'.path = NextPath(name) /\ entry'.depth = Last(stack).depth
        BY <3>2
      <4> QED BY <2>1, <2>3, <2>8, <2>9, <4>1 DEF Within
    <3> QED BY <2>1, <3>1, <3>2
  <2> QED BY <1>2, <2>1, <2>2, <2>5, <2>6, <2>7, <2>10
<1>12. ASSUME entry.at \in {"metadata", "directory"} PROVE options.selected = Absent /\ Within
  BY <1>1, <1>12 DEF Alone
<1>13. CASE Metadata
  <2>1. /\ entry.at = "metadata"
        /\ UNCHANGED <<options, stack, entries, opened, directories, done, yielded>>
        /\ \/ entry' = NoEntry
           \/ entry' = [entry EXCEPT !.at = "file"]
           \/ ~DirectoryLimit /\ entry' = [entry EXCEPT !.at = "directory"]
    BY <1>13, MetadataCases
  <2>2. entry \in [at : {"none", "metadata", "file", "directory"}, path : Paths, depth : Nat]
    BY DEF WalkTypes
  <2>3. \/ entry' = NoEntry
        \/ /\ entry'.path = entry.path /\ entry'.depth = entry.depth
           /\ entry'.at = "file" \/ (~DirectoryLimit /\ entry'.at = "directory")
    <3>1. CASE entry' = [entry EXCEPT !.at = "file"]
      <4>1. entry'.path = entry.path /\ entry'.depth = entry.depth /\ entry'.at = "file"
        BY <2>2, <3>1
      <4> QED BY <4>1
    <3>2. CASE ~DirectoryLimit /\ entry' = [entry EXCEPT !.at = "directory"]
      <4>1. entry'.path = entry.path /\ entry'.depth = entry.depth /\ entry'.at = "directory"
        BY <2>2, <3>2
      <4> QED BY <3>2, <4>1
    <3> QED BY <2>1, <3>1, <3>2
  <2>4. Counted' /\ Deep'
    BY <1>1, <2>1 DEF Counted, Deep
  <2>5. EntryIs'
    BY <1>3, <1>4, <2>1, <2>2, <2>3 DEF EntryIs, DirectoryLimit
  <2>6. Within'
    <3>1. /\ ~done' /\ stack' = stack /\ stack # << >> /\ opened' = opened /\ options' = options
          /\ Front(entry.path) = Last(stack).path /\ entry.depth = Last(stack).depth
          /\ opened < options.max_files
      BY <1>12, <2>1 DEF Within
    <3>2. CASE entry' = NoEntry
      BY <1>4, <3>1, <3>2 DEF Within
    <3>3. CASE entry'.path = entry.path /\ entry'.depth = entry.depth
      BY <3>1, <3>3 DEF Within
    <3> QED BY <2>3, <3>2, <3>3
  <2> QED BY <1>2, <1>12, <2>1, <2>4, <2>5, <2>6
<1>14. CASE OpenDirectory
  <2>1. /\ entry.at = "directory" /\ entry' = NoEntry
        /\ UNCHANGED <<options, entries, opened, done, yielded>>
        /\ \/ /\ directories' = directories + 1
              /\ stack' = Append(stack, Listing(entry.path, entry.depth + 1, Resolve(entry.path)))
           \/ UNCHANGED <<directories, stack>>
    BY <1>14 DEF OpenDirectory
  <2>2. /\ ~done /\ stack # << >> /\ Front(entry.path) = Last(stack).path /\ options.selected = Absent
        /\ entry.depth = Last(stack).depth
    BY <1>12, <2>1 DEF Within
  <2>3. /\ entry.depth < options.max_depth /\ directories < options.max_directories
        /\ entry.path \in Paths /\ entry.path # << >> /\ entry.depth \in Nat
    BY <1>1, <2>1 DEF EntryIs, WalkTypes
  <2>4. Counted'
    BY <1>1, <1>3, <2>1, <2>3 DEF Counted
  <2>5. Deep' /\ stack' # << >>
    <3>1. CASE stack' = stack
      BY <1>1, <2>1, <2>2, <3>1 DEF Deep
    <3>2. CASE stack' = Append(stack, Listing(entry.path, entry.depth + 1, Resolve(entry.path)))
      <4> DEFINE n == Len(stack)
                 new == Listing(entry.path, entry.depth + 1, Resolve(entry.path))
      <4>1. new.path = entry.path /\ new.depth = entry.depth + 1
        BY DEF Listing
      <4>2. n \in Nat \ {0} /\ n \in DOMAIN stack /\ Last(stack) = stack[n]
        BY <1>4, <2>2, TheEntry
      <4>3. Len(stack[n].path) = n - 1 /\ stack[n].depth = n - 1
        BY <1>1, <4>2 DEF Deep
      <4>4. Len(entry.path) = n /\ entry.depth = n - 1
        <5>1. Len(entry.path) \in Nat \ {0} /\ Len(Front(entry.path)) = Len(entry.path) - 1
          BY <2>3 DEF Front, Paths
        <5> HIDE DEF n
        <5> QED BY <2>2, <4>2, <4>3, <5>1
      <4>5. DOMAIN stack' = 1..(n + 1) /\ stack'[n + 1] = new /\ \A k \in DOMAIN stack : stack'[k] = stack[k]
        <5>1. stack' = Append(stack, new)
          BY <3>2
        <5> HIDE DEF new
        <5> QED BY <1>4, <5>1
      <4>6. \A k \in 1..(n + 1) : k \in DOMAIN stack \/ k = n + 1
        BY <1>4, <4>2
      <4>7. new.depth <= options.max_depth /\ new.depth = (n + 1) - 1 /\ Len(new.path) = (n + 1) - 1
        <5> HIDE DEF n, new
        <5> QED BY <1>3, <2>3, <4>1, <4>2, <4>4
      <4>8. Deep'
        <5> HIDE DEF n, new
        <5>1. \A k \in DOMAIN stack' :
                stack'[k].depth <= options.max_depth /\ stack'[k].depth = k - 1 /\ Len(stack'[k].path) = k - 1
          BY <1>1, <4>5, <4>6, <4>7 DEF Deep
        <5> QED BY <2>1, <5>1 DEF Deep
      <4>9. stack' # << >>
        <5> HIDE DEF new, n
        <5> QED BY <4>2, <4>5
      <4> QED BY <4>8, <4>9
    <3> QED BY <2>1, <3>1, <3>2
  <2>6. EntryIs'
    BY <1>4, <2>1 DEF EntryIs
  <2>7. Within'
    BY <1>4, <2>1, <2>2, <2>5 DEF Within
  <2> QED BY <1>2, <2>1, <2>2, <2>4, <2>5, <2>6, <2>7
<1>15. CASE OpenFile
  <2>1. /\ entry.at = "file" /\ entry' = NoEntry
        /\ UNCHANGED <<options, stack, entries, directories, done>>
        /\ \/ UNCHANGED <<opened, yielded>>
           \/ /\ opened' = opened + 1
              /\ yielded' = yielded \cup {[path |-> entry.path, evidence |-> EvidencePath(entry.path),
                                           file |-> Resolve(entry.path)]}
    BY <1>15 DEF OpenFile
  <2>2. Deep' /\ EntryIs'
    BY <1>1, <1>4, <2>1 DEF Deep, EntryIs
  <2>3. CASE options.selected = Absent
    <3>1. ~done /\ stack # << >> /\ opened < options.max_files
      BY <1>1, <2>1, <2>3 DEF Within
    <3>2. Counted'
      BY <1>1, <1>3, <2>1, <3>1 DEF Counted
    <3>3. Within'
      BY <1>4, <2>1, <3>1 DEF Within
    <3> QED BY <1>2, <2>1, <2>2, <2>3, <3>2, <3>3
  <2>4. CASE options.selected # Absent
    <3>1. stack = << >> /\ entry.path = options.selected /\ done /\ opened = 0
      BY <1>1, <2>1, <2>4 DEF Alone
    <3>2. Counted'
      BY <1>1, <1>3, <2>1, <3>1 DEF Counted
    <3>3. \A y \in yielded' : y.path = options.selected
      BY <1>1, <2>1, <2>4, <3>1 DEF Alone
    <3>4. Alone'
      BY <1>4, <2>1, <3>1, <3>3 DEF Alone
    <3> QED BY <1>2, <2>1, <2>2, <2>4, <3>2, <3>4
  <2> QED BY <2>3, <2>4
<1> QED BY <1>6, <1>7, <1>8, <1>9, <1>10, <1>11, <1>13, <1>14, <1>15 DEF WalkNext

-----------------------------------------------------------------------------
(* Completeness, while the tree stays what it is. *)

SteadyPaths ==
  options.selected = Absent =>
    /\ \A k \in DOMAIN stack : Clean(stack[k].path)
    /\ entry.at # "none" => Clean(entry.path)
    /\ \A y \in yielded : Clean(y.path)
SteadyReach ==
  options.selected = Absent =>
    \A path \in Reach : Resolve(path) \in Files => Said(path) \/ Ahead(path)
SteadyChoice ==
  options.selected # Absent =>
    /\ \A y \in yielded : IsLink(y.path) => options.follow
    /\ Excluded(options.selected) => entry.at = "none" /\ yielded = {}
    /\ done => \/ Excluded(options.selected) \/ entry.at = "file"
               \/ \E y \in yielded : y.path = options.selected
               \/ \E n \in notices : n.path = options.selected
SteadyFiles == \A y \in yielded : y.file = Resolve(y.path)

LEMMA SteadyIs == Steady <=> Once /\ SteadyPaths /\ SteadyReach /\ SteadyChoice /\ SteadyFiles
BY DEF Steady, SteadyPaths, SteadyReach, SteadyChoice, SteadyFiles
LEMMA SteadyIsNext == Steady' <=> Once' /\ SteadyPaths' /\ SteadyReach' /\ SteadyChoice' /\ SteadyFiles'
BY SteadyIs, PTL

(* A walk from the root has everything ahead. *)
LEMMA SteadyStart == ASSUME WalkInit PROVE Steady
<1>1. /\ visited = {RootDir} /\ entry.at = "none" /\ yielded = {} /\ done = FALSE
      /\ stack = IF options.selected = Absent THEN <<Listing(<< >>, 0, RootDir)>> ELSE << >>
  BY DEF WalkInit, NoEntry
<1>2. WalkTypes
  BY TypesStart
<1>3. Resolve(<< >>) = RootDir
  BY TheRoot DEF Resolve
<1>4. options.selected = Absent =>
        /\ DOMAIN stack = {1} /\ stack[1].path = << >> /\ stack[1].left = DOMAIN tree[RootDir]
  <2>1. ASSUME options.selected = Absent
        PROVE  DOMAIN stack = {1} /\ stack[1] = Listing(<< >>, 0, RootDir)
    <3> DEFINE all == Listing(<< >>, 0, RootDir)
    <3>1. stack = <<all>>
      BY <1>1, <2>1
    <3> HIDE DEF all
    <3>2. DOMAIN stack = {1} /\ stack[1] = all
      BY <3>1
    <3> QED BY <3>2 DEF all
  <2> QED BY <2>1 DEF Listing
<1>5. options.selected # Absent => DOMAIN stack = {}
  BY <1>1
<1>6. \A d \in Walked : d = << >>
  BY <1>1, <1>4, <1>5 DEF Walked
<1>7. Once
  BY <1>1, <1>3, <1>6 DEF Once
<1>8. Clean(<< >>)
  BY DEF Clean, LeftOut, Along
<1>9. SteadyPaths
  BY <1>1, <1>4, <1>8 DEF SteadyPaths
<1>10. SteadyReach
  <2>1. ASSUME options.selected = Absent, NEW path \in Reach PROVE Ahead(path)
    <3>1. path \in Paths /\ path # << >> /\ \A p \in Along(path) : IsNamed(p)
      BY <1>2, ReachIs
    <3>2. 1 \in 1..Len(path) /\ 1 <= Len(path)
      BY <3>1 DEF Paths
    <3>3. SubSeq(path, 1, 1) \in Along(path) /\ Front(SubSeq(path, 1, 1)) = SubSeq(path, 1, 1 - 1)
      BY <3>1, <3>2, PathSteps
    <3>4. Last(SubSeq(path, 1, 1)) = path[1]
      BY <3>1, <3>2, PathSteps
    <3>5. SubSeq(path, 1, 1 - 1) = << >>
      BY <3>1 DEF Paths
    <3>6. path[1] \in DOMAIN tree[RootDir]
      BY <1>3, <3>1, <3>3, <3>4, <3>5 DEF IsNamed, Parent
    <3> QED BY <1>4, <2>1, <3>2, <3>5, <3>6 DEF Ahead
  <2> QED BY <2>1 DEF SteadyReach
<1>11. SteadyChoice /\ SteadyFiles
  BY <1>1 DEF SteadyChoice, SteadyFiles
<1> QED BY <1>7, <1>9, <1>10, <1>11, SteadyIs

(* What each step does to the walk in a tree that stays. *)
Stays == tree' = tree /\ options' = options

LEMMA YieldSteps ==
  ASSUME [WalkNext]_walkVars
  PROVE  \/ yielded' = yielded
         \/ /\ entry.at = "file" /\ entry' = NoEntry /\ Resolve(entry.path) \in Files
            /\ IsLink(entry.path) => options.follow
            /\ yielded' = yielded \cup {[path |-> entry.path, evidence |-> EvidencePath(entry.path),
                                         file |-> Resolve(entry.path)]}
            /\ UNCHANGED <<stack, visited, notices>>
<1>1. CASE UNCHANGED walkVars
  BY <1>1 DEF walkVars
<1>2. CASE Swap \/ SelectedFile \/ LimitReached \/ PopDirectory
  BY <1>2 DEF Swap, SelectedFile, LimitReached, PopDirectory
<1>3. ASSUME NEW name, NextEntry(name) PROVE yielded' = yielded
  BY <1>3, NextEntryCases
<1>4. CASE Metadata
  BY <1>4, MetadataCases
<1>5. CASE OpenDirectory
  BY <1>5 DEF OpenDirectory
<1>6. CASE OpenFile
  BY <1>6 DEF OpenFile
<1> QED BY <1>1, <1>2, <1>3, <1>4, <1>5, <1>6 DEF WalkNext

LEMMA FilesKept ==
  ASSUME Stays, SteadyFiles, [WalkNext]_walkVars PROVE SteadyFiles'
<1>1. \A path : Resolve(path)' = Resolve(path)
  BY SameTree DEF Stays
<1>2. CASE yielded' = yielded
  BY <1>1, <1>2 DEF SteadyFiles
<1>3. CASE yielded' = yielded \cup {[path |-> entry.path, evidence |-> EvidencePath(entry.path),
                                     file |-> Resolve(entry.path)]}
  BY <1>1, <1>3 DEF SteadyFiles
<1> QED BY <1>2, <1>3, YieldSteps

LEMMA OnceStays ==
  ASSUME Stays, Once, Walked' \subseteq Walked, visited \subseteq visited',
         entry'.at = "directory" => entry' = entry
  PROVE  Once'
<1>1. \A path : Resolve(path)' = Resolve(path)
  BY SameTree DEF Stays
<1>2. RootDir \in visited' /\ \A d \in Walked' : Resolve(d)' \in visited'
  BY <1>1 DEF Once
<1>3. \A d, e \in Walked' : Resolve(d)' = Resolve(e)' => d = e
  BY <1>1 DEF Once
<1>4. ASSUME entry'.at = "directory"
      PROVE  /\ Resolve(entry.path)' \in visited'
             /\ \A d \in Walked' : Resolve(d)' # Resolve(entry.path)'
  <2>1. entry' = entry /\ entry.at = "directory"
    BY <1>4
  <2>2. Resolve(entry.path) \in visited /\ \A d \in Walked : Resolve(d) # Resolve(entry.path)
    BY <2>1 DEF Once
  <2>3. Resolve(entry.path)' = Resolve(entry.path)
    BY <2>1 DEF Resolve, Stays
  <2> QED BY <1>1, <2>2, <2>3
<1> QED BY <1>2, <1>3, <1>4 DEF Once

LEMMA OnceKept ==
  ASSUME WalkTypes, Places, Stays, Once, [WalkNext]_walkVars
  PROVE  Once'
<1>1. stack \in Seq(Listings) /\ NoEntry.at = "none"
  BY DEF WalkTypes, NoEntry
<1>2. ASSUME UNCHANGED <<stack, yielded>> PROVE Walked' = Walked
  BY <1>2 DEF Walked
<1>3. CASE UNCHANGED walkVars
  BY <1>2, <1>3, OnceStays DEF walkVars
<1>4. CASE Swap
  BY <1>2, <1>4, OnceStays DEF Swap
<1>5. CASE SelectedFile
  BY <1>1, <1>2, <1>5, OnceStays DEF SelectedFile, NoEntry
<1>6. CASE LimitReached
  BY <1>2, <1>6, OnceStays DEF LimitReached
<1>7. CASE PopDirectory
  <2>1. /\ UNCHANGED <<entry, visited, yielded>> /\ stack # << >> /\ stack' = Front(stack)
    BY <1>7 DEF PopDirectory
  <2>2. DOMAIN stack' \subseteq DOMAIN stack /\ \A k \in DOMAIN stack' : stack'[k] = stack[k]
    BY <1>1, <2>1 DEF Front
  <2>3. Walked' \subseteq Walked
    BY <2>1, <2>2 DEF Walked
  <2> QED BY <2>1, <2>3, OnceStays
<1>8. ASSUME NEW name, NextEntry(name) PROVE Once'
  <2>1. /\ UNCHANGED <<visited, yielded>> /\ stack # << >>
        /\ stack' = [stack EXCEPT ![Len(stack)].left = @ \ {name}]
        /\ \/ entry' = entry
           \/ entry' = [at |-> "metadata", path |-> NextPath(name), depth |-> Last(stack).depth]
    BY <1>8, NextEntryCases
  <2>2. DOMAIN stack' = DOMAIN stack /\ \A k \in DOMAIN stack : stack'[k].path = stack[k].path
    BY <1>1, <2>1, ListingsKept
  <2>3. Walked' \subseteq Walked
    BY <2>1, <2>2 DEF Walked
  <2> QED BY <2>1, <2>3, OnceStays
<1>9. CASE Metadata
  <2>1. /\ UNCHANGED <<stack, yielded>> /\ visited \subseteq visited'
        /\ \/ entry' = NoEntry \/ entry' = [entry EXCEPT !.at = "file"]
           \/ /\ Resolve(entry.path) \notin visited /\ visited' = visited \cup {Resolve(entry.path)}
              /\ entry' = [entry EXCEPT !.at = "directory"]
    BY <1>9, MetadataCases
  <2>2. entry \in [at : {"none", "metadata", "file", "directory"}, path : Paths, depth : Nat]
    BY DEF WalkTypes
  <2>3. CASE entry' = NoEntry
    BY <1>1, <1>2, <2>1, <2>3, OnceStays
  <2>4. CASE entry' = [entry EXCEPT !.at = "file"]
    <3>1. entry'.at = "file"
      BY <2>2, <2>4
    <3> QED BY <1>2, <2>1, <3>1, OnceStays
  <2>5. CASE /\ Resolve(entry.path) \notin visited /\ visited' = visited \cup {Resolve(entry.path)}
             /\ entry' = [entry EXCEPT !.at = "directory"]
    <3>1. entry'.path = entry.path
      BY <2>2, <2>5
    <3>2. \A path : Resolve(path)' = Resolve(path)
      BY SameTree DEF Stays
    <3>3. Walked' = Walked
      BY <1>2, <2>1
    <3>4. /\ RootDir \in visited' /\ \A d \in Walked' : Resolve(d)' \in visited'
          /\ \A d, e \in Walked' : Resolve(d)' = Resolve(e)' => d = e
      BY <2>1, <3>2, <3>3 DEF Once
    <3>5. Resolve(entry.path)' = Resolve(entry.path)
      BY <3>1 DEF Resolve, Stays
    <3>6. Resolve(entry.path)' \in visited'
      BY <2>5, <3>5
    <3>7. \A d \in Walked' : Resolve(d)' # Resolve(entry.path)'
      BY <2>5, <3>2, <3>3, <3>5 DEF Once
    <3> QED BY <3>4, <3>6, <3>7 DEF Once
  <2> QED BY <2>1, <2>3, <2>4, <2>5
<1>10. CASE OpenDirectory
  <2>1. /\ entry.at = "directory" /\ entry' = NoEntry /\ UNCHANGED <<visited, yielded>>
        /\ \/ stack' = Append(stack, Listing(entry.path, entry.depth + 1, Resolve(entry.path)))
           \/ stack' = stack
    BY <1>10 DEF OpenDirectory
  <2>2. CASE stack' = stack
    BY <1>1, <1>2, <2>1, <2>2, OnceStays
  <2>3. CASE stack' = Append(stack, Listing(entry.path, entry.depth + 1, Resolve(entry.path)))
    <3> DEFINE new == Listing(entry.path, entry.depth + 1, Resolve(entry.path))
    <3>1. stack' = Append(stack, new) /\ new.path = entry.path
      BY <2>3 DEF Listing
    <3>2. Walked' \subseteq Walked \cup {entry.path}
      <4> HIDE DEF new
      <4>1. \A k \in DOMAIN stack' : stack'[k] = new \/ (k \in DOMAIN stack /\ stack'[k] = stack[k])
        BY <1>1, <3>1
      <4> QED BY <2>1, <3>1, <4>1 DEF Walked
    <3>3. \A path : Resolve(path)' = Resolve(path)
      BY SameTree DEF Stays
    <3>4. Resolve(entry.path) \in visited /\ \A d \in Walked : Resolve(d) # Resolve(entry.path)
      BY <2>1 DEF Once
    <3>5. RootDir \in visited' /\ \A d \in Walked' : Resolve(d)' \in visited'
      BY <2>1, <3>2, <3>3, <3>4 DEF Once
    <3>6. \A d, e \in Walked' : Resolve(d)' = Resolve(e)' => d = e
      BY <3>2, <3>3, <3>4 DEF Once
    <3> QED BY <1>1, <2>1, <3>5, <3>6 DEF Once
  <2> QED BY <2>1, <2>2, <2>3
<1>11. CASE OpenFile
  <2>1. entry.at = "file" /\ entry' = NoEntry /\ UNCHANGED <<stack, visited>>
    BY <1>11 DEF OpenFile
  <2>2. CASE yielded' = yielded
    BY <1>1, <1>2, <2>1, <2>2, OnceStays
  <2>3. CASE yielded' = yielded \cup {[path |-> entry.path, evidence |-> EvidencePath(entry.path),
                                       file |-> Resolve(entry.path)]}
    <3>1. Walked' \subseteq Walked \cup {Front(entry.path)}
      BY <2>1, <2>3 DEF Walked
    <3>2. CASE options.selected = Absent
      <4>1. stack # << >> /\ Front(entry.path) = Last(stack).path
        BY <2>1, <3>2 DEF Places, Within
      <4>2. Front(entry.path) \in Walked
        BY <1>1, <4>1 DEF Walked, Last
      <4> QED BY <1>1, <2>1, <3>1, <4>2, OnceStays
    <3>3. CASE options.selected # Absent
      <4>1. stack = << >> /\ yielded = {} /\ entry.path = options.selected
        BY <2>1, <3>3 DEF Places, Alone
      <4>2. Walked = {}
        BY <4>1 DEF Walked
      <4>3. Front(entry.path) = << >>
        <5>1. \A o \in Policies : o.selected # Absent => o.selected \in Seq(EntryName) /\ Len(o.selected) = 1
          BY WalkAssumption
        <5>2. options \in Policies
          BY DEF WalkTypes
        <5>3. \A path \in Seq(EntryName) : Len(path) = 1 => Front(path) = << >>
          BY DEF Front
        <5> QED BY <3>3, <4>1, <5>1, <5>2, <5>3
      <4>4. \A d \in Walked' : Resolve(d)' = RootDir
        <5>1. \A path : Resolve(path)' = Resolve(path)
          BY SameTree DEF Stays
        <5>2. Resolve(<< >>) = RootDir
          BY TheRoot DEF Resolve
        <5> QED BY <3>1, <4>2, <4>3, <5>1, <5>2
      <4>5. RootDir \in visited' /\ \A d, e \in Walked' : d = e
        BY <2>1, <3>1, <4>2 DEF Once
      <4> QED BY <1>1, <2>1, <4>4, <4>5 DEF Once
    <3> QED BY <3>2, <3>3
  <2> QED BY <1>11, <2>2, <2>3 DEF OpenFile
<1> QED BY <1>3, <1>4, <1>5, <1>6, <1>7, <1>8, <1>9, <1>10, <1>11 DEF WalkNext

(* The next entry is let through like the listing it is in. *)
LEMMA CleanEntry ==
  ASSUME WalkTypes, stack # << >>, NEW name \in Last(stack).left, Clean(Last(stack).path),
         ~Excluded(NextPath(name)), ~Hidden(name), IsLink(NextPath(name)) => options.follow
  PROVE  Clean(NextPath(name))
<1>1. Last(stack).path \in Paths /\ name \in EntryName
  BY TheEntry
<1>2. /\ Along(NextPath(name)) = Along(Last(stack).path) \cup {NextPath(name)}
      /\ Last(NextPath(name)) = name
  BY <1>1, LongerPath DEF NextPath
<1>3. ~LeftOut(NextPath(name))
  BY <1>2 DEF Clean, LeftOut, Hidden
<1>4. options.follow \/ \A p \in Along(NextPath(name)) : ~IsLink(p)
  BY <1>2 DEF Clean
<1> QED BY <1>3, <1>4 DEF Clean

LEMMA PathsKept ==
  ASSUME WalkTypes, Places, Stays, SteadyPaths, [WalkNext]_walkVars
  PROVE  SteadyPaths'
<1> SUFFICES ASSUME options.selected = Absent PROVE SteadyPaths'
  BY DEF SteadyPaths, Stays
<1>1. /\ \A k \in DOMAIN stack : Clean(stack[k].path)
      /\ entry.at # "none" => Clean(entry.path)
      /\ \A y \in yielded : Clean(y.path)
  BY DEF SteadyPaths
<1>2. \A path : Clean(path)' = Clean(path)
  BY SameTree DEF Stays
<1>3. ASSUME /\ \A k \in DOMAIN stack' : Clean(stack'[k].path)
             /\ entry'.at # "none" => Clean(entry'.path)
             /\ \A y \in yielded' : Clean(y.path)
      PROVE  SteadyPaths'
  <2>1. \A k \in DOMAIN stack' : Clean(stack[k].path)'
    <3>1. ASSUME NEW k \in DOMAIN stack' PROVE Clean(stack[k].path)' = Clean(stack'[k].path)
      BY SameTree DEF Stays, Clean, LeftOut, IsLink, IsNamed, Parent, Resolve, Excluded
    <3> QED BY <1>3, <3>1
  <2>2. entry'.at # "none" => Clean(entry.path)'
    <3>1. Clean(entry.path)' = Clean(entry'.path)
      BY DEF Stays, Clean, LeftOut, IsLink, IsNamed, Parent, Resolve, Excluded
    <3> QED BY <1>3, <3>1
  <2>3. \A y \in yielded' : Clean(y.path)'
    BY <1>2, <1>3
  <2> QED BY <2>1, <2>2, <2>3 DEF SteadyPaths
<1>4. stack \in Seq(Listings) /\ NoEntry.at = "none"
  BY DEF WalkTypes, NoEntry
<1>5. CASE UNCHANGED walkVars
  BY <1>1, <1>3, <1>5 DEF walkVars
<1>6. CASE Swap
  BY <1>1, <1>3, <1>6 DEF Swap
<1>7. CASE LimitReached
  BY <1>1, <1>3, <1>7 DEF LimitReached
<1>8. CASE PopDirectory
  <2>1. /\ UNCHANGED <<entry, yielded>> /\ stack # << >> /\ stack' = Front(stack)
    BY <1>8 DEF PopDirectory
  <2>2. DOMAIN stack' \subseteq DOMAIN stack /\ \A k \in DOMAIN stack' : stack'[k] = stack[k]
    BY <1>4, <2>1 DEF Front
  <2> QED BY <1>1, <1>3, <2>1, <2>2
<1>9. ASSUME NEW name, NextEntry(name) PROVE SteadyPaths'
  <2>1. /\ yielded' = yielded /\ stack # << >> /\ name \in Last(stack).left
        /\ stack' = [stack EXCEPT ![Len(stack)].left = @ \ {name}]
        /\ \/ entry' = entry
           \/ /\ entry' = [at |-> "metadata", path |-> NextPath(name), depth |-> Last(stack).depth]
              /\ ~Excluded(NextPath(name)) /\ ~Hidden(name)
              /\ IsLink(NextPath(name)) => options.follow
    BY <1>9, NextEntryCases
  <2>2. DOMAIN stack' = DOMAIN stack /\ \A k \in DOMAIN stack : stack'[k].path = stack[k].path
    BY <1>4, <2>1, ListingsKept
  <2>3. \A k \in DOMAIN stack' : Clean(stack'[k].path)
    BY <1>1, <2>2
  <2>4. CASE entry' = entry
    BY <1>1, <1>3, <2>1, <2>3, <2>4
  <2>5. CASE /\ entry' = [at |-> "metadata", path |-> NextPath(name), depth |-> Last(stack).depth]
             /\ ~Excluded(NextPath(name)) /\ ~Hidden(name)
             /\ IsLink(NextPath(name)) => options.follow
    <3>1. Clean(Last(stack).path)
      BY <1>1, <1>4, <2>1 DEF Last
    <3>2. Clean(NextPath(name))
      BY <2>1, <2>5, <3>1, CleanEntry
    <3>3. entry'.path = NextPath(name)
      BY <2>5
    <3> QED BY <1>1, <1>3, <2>1, <2>3, <3>2, <3>3
  <2> QED BY <2>1, <2>4, <2>5
<1>10. CASE Metadata
  <2>1. /\ UNCHANGED <<stack, yielded>> /\ entry.at = "metadata"
        /\ \/ entry' = NoEntry \/ entry' = [entry EXCEPT !.at = "file"]
           \/ entry' = [entry EXCEPT !.at = "directory"]
    BY <1>10, MetadataCases
  <2>2. entry \in [at : {"none", "metadata", "file", "directory"}, path : Paths, depth : Nat]
    BY DEF WalkTypes
  <2>3. entry'.at = "none" \/ entry'.path = entry.path
    BY <1>4, <2>1, <2>2
  <2> QED BY <1>1, <1>3, <2>1, <2>3
<1>11. CASE OpenDirectory
  <2>1. /\ entry.at = "directory" /\ entry' = NoEntry /\ yielded' = yielded
        /\ \/ stack' = Append(stack, Listing(entry.path, entry.depth + 1, Resolve(entry.path)))
           \/ stack' = stack
    BY <1>11 DEF OpenDirectory
  <2> DEFINE new == Listing(entry.path, entry.depth + 1, Resolve(entry.path))
  <2>2. new.path = entry.path /\ (stack' = Append(stack, new) \/ stack' = stack)
    BY <2>1 DEF Listing
  <2> HIDE DEF new
  <2>3. \A k \in DOMAIN stack' : stack'[k] = new \/ (k \in DOMAIN stack /\ stack'[k] = stack[k])
    BY <1>4, <2>2
  <2> QED BY <1>1, <1>3, <1>4, <2>1, <2>2, <2>3
<1>12. CASE OpenFile
  <2>1. entry.at = "file" /\ entry' = NoEntry /\ stack' = stack
    BY <1>12 DEF OpenFile
  <2>2. \A y \in yielded' : y \in yielded \/ y.path = entry.path
    BY <1>12 DEF OpenFile
  <2> QED BY <1>1, <1>3, <1>4, <2>1, <2>2
<1> QED BY <1>5, <1>6, <1>7, <1>8, <1>9, <1>10, <1>11, <1>12 DEF WalkNext, SelectedFile

LEMMA ChoiceKept ==
  ASSUME WalkTypes, Places, Stays, SteadyChoice, [WalkNext]_walkVars
  PROVE  SteadyChoice'
<1> SUFFICES ASSUME options.selected # Absent PROVE SteadyChoice'
  BY DEF SteadyChoice, Stays
<1>1. Alone /\ (entry.at = "none" => entry = NoEntry) /\ NoEntry.at = "none"
  BY DEF Places, NoEntry
<1>2. /\ \A y \in yielded : IsLink(y.path) => options.follow
      /\ Excluded(options.selected) => entry.at = "none" /\ yielded = {}
      /\ done => \/ Excluded(options.selected) \/ entry.at = "file"
                 \/ \E y \in yielded : y.path = options.selected
                 \/ \E n \in notices : n.path = options.selected
  BY DEF SteadyChoice
<1>3. \A path : IsLink(path)' = IsLink(path)
  BY SameTree DEF Stays
<1>4. Excluded(options.selected)' = Excluded(options.selected) /\ options' = options
  BY DEF Excluded, Stays
<1>5. ASSUME /\ \A y \in yielded' : IsLink(y.path) => options.follow
             /\ Excluded(options.selected) => entry'.at = "none" /\ yielded' = {}
             /\ done' => \/ Excluded(options.selected) \/ entry'.at = "file"
                         \/ \E y \in yielded' : y.path = options.selected
                         \/ \E n \in notices' : n.path = options.selected
      PROVE  SteadyChoice'
  BY <1>3, <1>4, <1>5 DEF SteadyChoice
<1>6. ASSUME UNCHANGED <<entry, yielded, done, notices>> PROVE SteadyChoice'
  BY <1>2, <1>5, <1>6
<1>7. CASE UNCHANGED walkVars
  BY <1>6, <1>7 DEF walkVars
<1>8. CASE Swap
  BY <1>6, <1>8 DEF Swap
<1>9. CASE SelectedFile
  <2>1. yielded = {} /\ yielded' = yielded
    BY <1>1, <1>9 DEF SelectedFile, Alone
  <2>2. IF Excluded(options.selected) THEN entry' = NoEntry ELSE entry'.at = "file"
    BY <1>9 DEF SelectedFile, NoEntry
  <2> QED BY <1>1, <1>5, <2>1, <2>2
<1>10. CASE OpenFile
  <2>1. /\ entry.at = "file" /\ entry' = NoEntry /\ done' = done /\ entry.path = options.selected
        /\ ~Excluded(options.selected)
    BY <1>1, <1>2, <1>10 DEF OpenFile, Alone
  <2>2. CASE /\ IsLink(entry.path) => options.follow
             /\ yielded' = yielded \cup {[path |-> entry.path, evidence |-> EvidencePath(entry.path),
                                          file |-> Resolve(entry.path)]}
    <3> DEFINE new == [path |-> entry.path, evidence |-> EvidencePath(entry.path),
                       file |-> Resolve(entry.path)]
    <3>1. new \in yielded' /\ new.path = options.selected /\ \A y \in yielded' : y \in yielded \/ y = new
      BY <2>1, <2>2
    <3>2. \A y \in yielded' : IsLink(y.path) => options.follow
      BY <1>2, <2>1, <2>2, <3>1
    <3> HIDE DEF new
    <3> QED BY <1>5, <2>1, <3>1, <3>2
  <2>3. CASE Notice("walk.open", entry.path) /\ yielded' = yielded
    <3> DEFINE said == [code |-> "walk.open", path |-> entry.path]
    <3>1. said \in notices' /\ said.path = options.selected
      BY <2>1, <2>3 DEF Notice
    <3> HIDE DEF said
    <3> QED BY <1>2, <1>5, <2>1, <2>3, <3>1
  <2> QED BY <1>10, <2>2, <2>3 DEF OpenFile
<1>11. \A name : ~NextEntry(name)
  BY <1>1, NextEntryCases DEF Alone
<1>12. ~Metadata
  BY <1>1, MetadataCases DEF Alone
<1>13. ~OpenDirectory /\ ~LimitReached /\ ~PopDirectory
  BY <1>1 DEF OpenDirectory, LimitReached, PopDirectory, Alone
<1> QED BY <1>7, <1>8, <1>9, <1>10, <1>11, <1>12, <1>13 DEF WalkNext

-----------------------------------------------------------------------------
(* Nothing is passed over in silence. *)

(* A path that goes through an entry which leads to a directory goes on     *)
(* with one of its names.                                                   *)
LEMMA PathGoesOn ==
  ASSUME WalkTypes, NEW path \in Reach, NEW part \in Paths, IsPrefix(part, path)
  PROVE  \/ part = path
         \/ /\ Len(part) + 1 <= Len(path) /\ SubSeq(path, 1, Len(part)) = part
            /\ Resolve(part) \in DOMAIN tree /\ path[Len(part) + 1] \in DOMAIN tree[Resolve(part)]
<1> DEFINE k == Len(part) + 1
<1>1. path \in Paths /\ \A p \in Along(path) : IsNamed(p)
  BY ReachIs
<1>2. /\ Len(part) <= Len(path) /\ SubSeq(path, 1, Len(part)) = part
      /\ Len(part) = Len(path) => part = path
  BY <1>1, PrefixIs
<1>3. Len(part) \in Nat /\ Len(path) \in Nat
  BY <1>1 DEF Paths
<1>4. ASSUME part # path PROVE k \in 1..Len(path) /\ k - 1 = Len(part) /\ k <= Len(path)
  BY <1>2, <1>3, <1>4
<1>5. ASSUME part # path
      PROVE  Resolve(part) \in DOMAIN tree /\ path[k] \in DOMAIN tree[Resolve(part)]
  <2>1. /\ SubSeq(path, 1, k) \in Along(path) /\ Last(SubSeq(path, 1, k)) = path[k]
        /\ Front(SubSeq(path, 1, k)) = SubSeq(path, 1, k - 1)
    <3> HIDE DEF k
    <3> QED BY <1>1, <1>4, <1>5, PathSteps
  <2>2. Front(SubSeq(path, 1, k)) = part
    BY <1>2, <1>4, <1>5, <2>1
  <2>3. IsNamed(SubSeq(path, 1, k))
    BY <1>1, <2>1
  <2> HIDE DEF k
  <2> QED BY <2>1, <2>2, <2>3 DEF IsNamed, Parent
<1> QED BY <1>2, <1>4, <1>5

Accounted(path) == Said(path) \/ Ahead(path)

(* What has been said stays said. *)
LEMMA SaidStays ==
  ASSUME Stays, NEW path, Said(path), yielded \subseteq yielded', notices \subseteq notices'
  PROVE  Said(path)'
<1>1. LeftOut(path)' = LeftOut(path)
  BY SameTree DEF Stays
<1> QED BY <1>1 DEF Said

LEMMA ReachKept ==
  ASSUME WalkTypes, Places, Stays, SteadyReach, [WalkNext]_walkVars
  PROVE  SteadyReach'
<1> SUFFICES ASSUME options.selected = Absent PROVE SteadyReach'
  BY DEF SteadyReach, Stays
<1>1. Within /\ (entry.at = "none" => entry = NoEntry) /\ NoEntry.at = "none"
  BY DEF Places, NoEntry
<1>2. \A path \in Reach : Resolve(path) \in Files => Accounted(path)
  BY DEF SteadyReach, Accounted
<1>3. ASSUME \A path \in Reach : Resolve(path) \in Files /\ Accounted(path) => Accounted(path)'
      PROVE  SteadyReach'
  <2>1. Reach' = Reach /\ \A path : Resolve(path)' = Resolve(path)
    BY SameTree DEF Stays
  <2>2. \A path \in Reach' : Resolve(path)' \in Files => Accounted(path)'
    BY <1>2, <1>3, <2>1
  <2> QED BY <2>2 DEF SteadyReach, Accounted
<1>4. stack \in Seq(Listings) /\ DOMAIN tree \cap Files = {}
  BY DEF WalkTypes
<1>5. \A path \in Reach : path \in Paths
  BY ReachIs
<1>6. ASSUME UNCHANGED <<stack, entry>>, yielded \subseteq yielded', notices \subseteq notices',
             NEW path, Accounted(path)
      PROVE  Accounted(path)'
  <2>1. Ahead(path)' = Ahead(path)
    BY <1>6 DEF Ahead
  <2> QED BY <1>6, <2>1, SaidStays DEF Accounted
<1>7. CASE UNCHANGED walkVars
  <2>1. UNCHANGED <<stack, entry, yielded, notices>>
    BY <1>7 DEF walkVars
  <2> QED BY <1>3, <1>6, <2>1
<1>8. CASE Swap
  <2>1. UNCHANGED <<stack, entry, yielded, notices>>
    BY <1>8 DEF Swap
  <2> QED BY <1>3, <1>6, <2>1
<1>9. CASE LimitReached
  <2>1. UNCHANGED <<stack, entry, yielded>> /\ notices \subseteq notices'
    BY <1>9 DEF LimitReached, Notice
  <2> QED BY <1>3, <1>6, <2>1
<1>10. CASE PopDirectory
  <2>1. /\ UNCHANGED <<entry, yielded, notices>> /\ stack # << >> /\ stack' = Front(stack)
        /\ Last(stack).left = {}
    BY <1>10 DEF PopDirectory
  <2>2. /\ \A k \in DOMAIN stack : k = Len(stack) \/ k \in DOMAIN stack'
        /\ \A k \in DOMAIN stack' : stack'[k] = stack[k]
    BY <1>4, <2>1 DEF Front
  <2>3. stack[Len(stack)].left = {}
    BY <2>1 DEF Last
  <2>4. ASSUME NEW path, Ahead(path) PROVE Ahead(path)'
    BY <2>1, <2>2, <2>3, <2>4 DEF Ahead
  <2>5. ASSUME NEW path, Accounted(path) PROVE Accounted(path)'
    BY <2>1, <2>4, <2>5, SaidStays DEF Accounted
  <2> QED BY <1>3, <2>5
<1>11. ASSUME NEW name, NextEntry(name) PROVE SteadyReach'
  <2> DEFINE n == Len(stack)
             next == NextPath(name)
  <2>1. /\ ~done /\ entry = NoEntry /\ stack # << >> /\ name \in Last(stack).left
        /\ stack' = [stack EXCEPT ![Len(stack)].left = @ \ {name}]
        /\ yielded' = yielded
        /\ \/ /\ entry' = entry
              /\ \/ (Excluded(NextPath(name)) \/ Hidden(name)) /\ notices' = notices
                 \/ Notice("walk.symlink", NextPath(name))
                 \/ Notice("walk.read", Front(NextPath(name)))
           \/ /\ entry' = [at |-> "metadata", path |-> NextPath(name), depth |-> Last(stack).depth]
              /\ notices' = notices
    BY <1>11, NextEntryCases
  <2>2. /\ DOMAIN stack' = DOMAIN stack
        /\ \A k \in DOMAIN stack :
             /\ stack'[k].path = stack[k].path
             /\ stack'[k].left = IF k = n THEN stack[k].left \ {name} ELSE stack[k].left
    BY <1>4, <2>1, ListingsKept
  <2>3. n \in DOMAIN stack /\ Last(stack) = stack[n] /\ Len(Last(stack).path) = n - 1 /\ n \in Nat \ {0}
    BY <1>4, <2>1, TheEntry DEF Places
  <2>4. notices \subseteq notices'
    BY <2>1 DEF Notice
  <2>5. ASSUME NEW path \in Reach, Resolve(path) \in Files, Accounted(path)
        PROVE  Accounted(path)'
    <3>1. CASE Said(path)
      BY <2>1, <2>4, <3>1, SaidStays DEF Accounted
    <3>2. ASSUME NEW k \in DOMAIN stack, k <= Len(path), SubSeq(path, 1, k - 1) = stack[k].path,
                 path[k] \in stack[k].left, ~(k = n /\ path[k] = name)
          PROVE  Accounted(path)'
      <4>1. path[k] \in stack'[k].left /\ SubSeq(path, 1, k - 1) = stack'[k].path /\ k \in DOMAIN stack'
        BY <2>2, <3>2
      <4>2. Ahead(path)'
        BY <3>2, <4>1 DEF Ahead
      <4> QED BY <4>2 DEF Accounted
    <3>3. ASSUME n <= Len(path), SubSeq(path, 1, n - 1) = stack[n].path, path[n] = name
          PROVE  Accounted(path)'
      <4>1. path \in Paths /\ Len(path) \in Nat
        BY <1>5 DEF Paths
      <4>2. n \in 1..Len(path)
        BY <2>3, <3>3, <4>1
      <4>3. SubSeq(path, 1, n) = next
        <5>1. SubSeq(path, 1, n) = Append(SubSeq(path, 1, n - 1), path[n])
          <6> HIDE DEF n
          <6> QED BY <4>1, <4>2, PathSteps
        <5> QED BY <2>3, <3>3, <5>1 DEF NextPath
      <4>4. next \in Along(path) /\ Last(next) = name /\ IsPrefix(next, path) /\ IsPrefix(Front(next), path)
        <5>1. /\ SubSeq(path, 1, n) \in Along(path) /\ Last(SubSeq(path, 1, n)) = path[n]
              /\ Front(SubSeq(path, 1, n)) = SubSeq(path, 1, n - 1)
              /\ IsPrefix(SubSeq(path, 1, n), path) /\ IsPrefix(SubSeq(path, 1, n - 1), path)
          <6> HIDE DEF n
          <6> QED BY <4>1, <4>2, PathSteps
        <5> QED BY <3>3, <4>3, <5>1
      <4> HIDE DEF n, next
      <4>5. CASE Excluded(next) \/ Hidden(name)
        <5>1. LeftOut(path)
          BY <4>4, <4>5 DEF LeftOut, Hidden
        <5> QED BY <2>1, <2>4, <5>1, SaidStays DEF Said, Accounted
      <4>6. ASSUME NEW code, NEW p, Notice(code, p), IsPrefix(p, path) PROVE Accounted(path)'
        <5> DEFINE said == [code |-> code, path |-> p]
        <5>1. said \in notices' /\ said.path = p
          BY <4>6 DEF Notice
        <5>2. \E m \in notices' : IsPrefix(m.path, path)
          BY <4>6, <5>1
        <5> QED BY <5>2 DEF Said, Accounted
      <4>7. CASE entry' = [at |-> "metadata", path |-> next, depth |-> Last(stack).depth]
        <5>1. entry'.at = "metadata" /\ entry'.path = next
          BY <4>7
        <5>2. Ahead(path)'
          BY <4>4, <5>1 DEF Ahead
        <5> QED BY <5>2 DEF Accounted
      <4> QED BY <2>1, <4>4, <4>5, <4>6, <4>7 DEF next
    <3>4. ASSUME Ahead(path), ~Said(path) PROVE Accounted(path)'
      <4>1. PICK k \in DOMAIN stack :
              k <= Len(path) /\ SubSeq(path, 1, k - 1) = stack[k].path /\ path[k] \in stack[k].left
        BY <1>1, <2>1, <3>4 DEF Ahead
      <4> HIDE DEF n
      <4> QED BY <3>2, <3>3, <4>1
    <3> QED BY <2>5, <3>1, <3>4 DEF Accounted
  <2> QED BY <1>3, <2>5
<1>12. ASSUME NEW path, NEW code, Notice(code, entry.path), Accounted(path), UNCHANGED <<stack, yielded>>
       PROVE  Accounted(path)'
  <2> DEFINE said == [code |-> code, path |-> entry.path]
  <2>1. said \in notices' /\ said.path = entry.path /\ notices \subseteq notices'
    BY <1>12 DEF Notice
  <2>2. CASE Said(path)
    BY <1>12, <2>1, <2>2, SaidStays DEF Accounted
  <2>3. CASE entry.at # "none" /\ IsPrefix(entry.path, path)
    <3>1. \E m \in notices' : IsPrefix(m.path, path)
      BY <2>1, <2>3
    <3> QED BY <3>1 DEF Said, Accounted
  <2>4. CASE \E k \in DOMAIN stack :
               k <= Len(path) /\ SubSeq(path, 1, k - 1) = stack[k].path /\ path[k] \in stack[k].left
    <3>1. Ahead(path)'
      BY <1>12, <2>4 DEF Ahead
    <3> QED BY <3>1 DEF Accounted
  <2> QED BY <1>12, <2>2, <2>3, <2>4 DEF Accounted, Ahead
<1>13. CASE Metadata
  <2>1. /\ UNCHANGED <<stack, yielded>> /\ entry.at = "metadata"
        /\ \/ \E code : Notice(code, entry.path)
           \/ entry' = [entry EXCEPT !.at = "file"] /\ notices' = notices
           \/ entry' = [entry EXCEPT !.at = "directory"] /\ notices' = notices
    BY <1>13, MetadataCases
  <2>2. entry \in [at : {"none", "metadata", "file", "directory"}, path : Paths, depth : Nat]
    BY DEF WalkTypes
  <2>3. CASE \E code : Notice(code, entry.path)
    BY <1>3, <1>12, <2>1, <2>3
  <2>4. CASE notices' = notices /\ entry'.at # "none" /\ entry'.path = entry.path
    <3>1. ASSUME NEW path, Accounted(path) PROVE Accounted(path)'
      <4>1. Ahead(path) => Ahead(path)'
        BY <2>1, <2>4 DEF Ahead
      <4>2. Said(path) => Said(path)'
        BY <2>1, <2>4, SaidStays
      <4> QED BY <3>1, <4>1, <4>2 DEF Accounted
    <3> QED BY <1>3, <3>1
  <2>5. CASE entry' = [entry EXCEPT !.at = "file"] /\ notices' = notices
    <3>1. entry'.at = "file" /\ entry'.path = entry.path
      BY <2>2, <2>5
    <3> QED BY <2>4, <2>5, <3>1
  <2>6. CASE entry' = [entry EXCEPT !.at = "directory"] /\ notices' = notices
    <3>1. entry'.at = "directory" /\ entry'.path = entry.path
      BY <2>2, <2>6
    <3> QED BY <2>4, <2>6, <3>1
  <2> QED BY <2>1, <2>3, <2>5, <2>6
<1>14. CASE OpenDirectory
  <2>1. entry.at = "directory" /\ yielded' = yielded
    BY <1>14 DEF OpenDirectory
  <2>2. CASE Notice("walk.directory", entry.path) /\ stack' = stack
    BY <1>3, <1>12, <2>1, <2>2
  <2>3. CASE /\ Resolve(entry.path) \in DOMAIN tree /\ notices' = notices
             /\ stack' = Append(stack, Listing(entry.path, entry.depth + 1, Resolve(entry.path)))
    <3> DEFINE new == Listing(entry.path, entry.depth + 1, Resolve(entry.path))
               n == Len(stack) + 1
    <3>1. /\ new.path = entry.path /\ new.left = DOMAIN tree[Resolve(entry.path)]
          /\ stack' = Append(stack, new)
      BY <2>3 DEF Listing
    <3>2. /\ n \in DOMAIN stack' /\ stack'[n] = new
          /\ \A k \in DOMAIN stack : k \in DOMAIN stack' /\ stack'[k] = stack[k]
      <4> HIDE DEF new
      <4> QED BY <1>4, <3>1
    <3>3. Len(entry.path) = Len(stack) /\ entry.path \in Paths /\ Len(stack) \in Nat
      <4>1. /\ stack # << >> /\ Front(entry.path) = Last(stack).path
            /\ entry.path \in Paths /\ entry.path # << >>
        BY <1>1, <2>1 DEF Within, WalkTypes
      <4>2. /\ Len(stack) \in Nat \ {0} /\ Last(stack) = stack[Len(stack)]
            /\ Len(stack[Len(stack)].path) = Len(stack) - 1
        BY <1>4, <4>1, TheEntry DEF Places
      <4>3. Len(entry.path) \in Nat \ {0} /\ Len(Front(entry.path)) = Len(entry.path) - 1
        BY <4>1 DEF Front, Paths
      <4> QED BY <4>1, <4>2, <4>3
    <3>4. ASSUME NEW path \in Reach, Resolve(path) \in Files, Accounted(path)
          PROVE  Accounted(path)'
      <4>1. CASE Said(path)
        BY <2>1, <2>3, <4>1, SaidStays DEF Accounted
      <4>2. CASE \E k \in DOMAIN stack :
                   k <= Len(path) /\ SubSeq(path, 1, k - 1) = stack[k].path /\ path[k] \in stack[k].left
        <5>1. Ahead(path)'
          <6> HIDE DEF new, n
          <6> QED BY <3>2, <4>2 DEF Ahead
        <5> QED BY <5>1 DEF Accounted
      <4>3. CASE IsPrefix(entry.path, path)
        <5>1. entry.path # path
          BY <1>4, <2>3, <3>4
        <5>2. /\ Len(entry.path) + 1 <= Len(path) /\ SubSeq(path, 1, Len(entry.path)) = entry.path
              /\ path[Len(entry.path) + 1] \in DOMAIN tree[Resolve(entry.path)]
          BY <3>3, <4>3, <5>1, PathGoesOn
        <5>3. n <= Len(path) /\ SubSeq(path, 1, n - 1) = stack'[n].path /\ path[n] \in stack'[n].left
          <6>1. n - 1 = Len(entry.path) /\ n = Len(entry.path) + 1
            BY <3>3
          <6> HIDE DEF n, new
          <6> QED BY <3>1, <3>2, <5>2, <6>1
        <5>4. Ahead(path)'
          <6> HIDE DEF n
          <6> QED BY <3>2, <5>3 DEF Ahead
        <5> QED BY <5>4 DEF Accounted
      <4> QED BY <3>4, <4>1, <4>2, <4>3 DEF Accounted, Ahead
    <3> QED BY <1>3, <3>4
  <2> QED BY <1>14, <2>2, <2>3 DEF OpenDirectory
<1>15. CASE OpenFile
  <2>1. entry.at = "file" /\ stack' = stack
    BY <1>15 DEF OpenFile
  <2>2. CASE Notice("walk.open", entry.path) /\ yielded' = yielded
    BY <1>3, <1>12, <2>1, <2>2
  <2>3. CASE /\ Resolve(entry.path) \in Files /\ notices' = notices
             /\ yielded' = yielded \cup {[path |-> entry.path, evidence |-> EvidencePath(entry.path),
                                          file |-> Resolve(entry.path)]}
    <3> DEFINE new == [path |-> entry.path, evidence |-> EvidencePath(entry.path),
                       file |-> Resolve(entry.path)]
    <3>1. new \in yielded' /\ new.path = entry.path /\ yielded \subseteq yielded' /\ entry.path \in Paths
      BY <2>3 DEF WalkTypes
    <3> HIDE DEF new
    <3>2. ASSUME NEW path \in Reach, Accounted(path) PROVE Accounted(path)'
      <4>1. CASE Said(path)
        BY <2>3, <3>1, <4>1, SaidStays DEF Accounted
      <4>2. CASE \E k \in DOMAIN stack :
                   k <= Len(path) /\ SubSeq(path, 1, k - 1) = stack[k].path /\ path[k] \in stack[k].left
        <5>1. Ahead(path)'
          BY <2>1, <4>2 DEF Ahead
        <5> QED BY <5>1 DEF Accounted
      <4>3. CASE IsPrefix(entry.path, path)
        <5>1. entry.path = path
          BY <1>4, <2>3, <3>1, <4>3, PathGoesOn
        <5> QED BY <3>1, <5>1 DEF Said, Accounted
      <4> QED BY <3>2, <4>1, <4>2, <4>3 DEF Accounted, Ahead
    <3> QED BY <1>3, <3>2
  <2> QED BY <1>15, <2>2, <2>3 DEF OpenFile
<1> QED BY <1>7, <1>8, <1>9, <1>10, <1>11, <1>13, <1>14, <1>15 DEF WalkNext, SelectedFile

-----------------------------------------------------------------------------
(* The invariant, and what it says of a walk. *)

LEMMA WalkInvStart == ASSUME WalkInit PROVE WalkInv
BY TypesStart, PlacesStart, SteadyStart DEF WalkInv

LEMMA WalkInvKept == ASSUME WalkInv, [WalkNext]_walkVars PROVE WalkInv'
<1>1. WalkTypes /\ Places /\ (swaps = 0 => Steady)
  BY DEF WalkInv
<1>2. WalkTypes' /\ Places'
  BY <1>1, TypesKept, PlacesKept
<1>3. ASSUME swaps' = 0 PROVE Steady'
  <2>1. swaps \in Nat
    BY <1>1 DEF WalkTypes
  <2>2. ~Swap
    BY <1>3, <2>1 DEF Swap
  <2>3. swaps' = swaps /\ Stays
    <3>1. CASE UNCHANGED walkVars
      BY <3>1 DEF walkVars, Stays
    <3>2. CASE SelectedFile \/ LimitReached \/ PopDirectory \/ OpenDirectory \/ OpenFile
      BY <3>2 DEF SelectedFile, LimitReached, PopDirectory, OpenDirectory, OpenFile, Stays
    <3>3. ASSUME NEW name, NextEntry(name) PROVE swaps' = swaps /\ Stays
      BY <3>3, NextEntryCases DEF Stays
    <3>4. CASE Metadata
      BY <3>4, MetadataCases DEF Stays
    <3> QED BY <2>2, <3>1, <3>2, <3>3, <3>4 DEF WalkNext
  <2>4. Once /\ SteadyPaths /\ SteadyReach /\ SteadyChoice /\ SteadyFiles
    BY <1>1, <1>3, <2>3, SteadyIs
  <2>5. Once' /\ SteadyPaths' /\ SteadyReach' /\ SteadyChoice' /\ SteadyFiles'
    BY <1>1, <2>3, <2>4, OnceKept, PathsKept, ReachKept, ChoiceKept, FilesKept
  <2> QED BY <2>5, SteadyIsNext
<1> QED BY <1>2, <1>3 DEF WalkInv

(* A name is decoded to what was encoded. *)
LEMMA DecodedName ==
  ASSUME NEW name \in EntryName
  PROVE  LET code == EncodeComponent(name)
         IN (IF Head(code) = "code" THEN Tail(code) ELSE code) = name
<1>1. name \in Seq(STRING) /\ name # << >>
  BY DEF EntryName
<1>2. Head(Coded(name)) = "code" /\ Tail(Coded(name)) = name
  BY <1>1 DEF Coded
<1>3. CASE Head(name) = "code" \/ name = <<"raw">>
  BY <1>2, <1>3 DEF EncodeComponent
<1>4. CASE ~(Head(name) = "code" \/ name = <<"raw">>)
  BY <1>4 DEF EncodeComponent
<1> QED BY <1>3, <1>4

LEMMA DecodedPath == ASSUME NEW path \in Paths PROVE NativeOf(EvidencePath(path)) = path
<1> DEFINE written == EvidencePath(path)
           Name(code) == IF Head(code) = "code" THEN Tail(code) ELSE code
           native == [k \in DOMAIN written |-> Name(written[k])]
<1>1. DOMAIN written = DOMAIN path /\ \A k \in DOMAIN path : written[k] = EncodeComponent(path[k])
  BY DEF EvidencePath
<1>2. \A k \in DOMAIN path : path[k] \in EntryName
  BY DEF Paths
<1>3. \A k \in DOMAIN path : Name(written[k]) = path[k]
  BY <1>1, <1>2, DecodedName
<1>4. native = path
  <2>1. path = [k \in DOMAIN path |-> path[k]]
    BY DEF Paths
  <2> HIDE DEF Name, written
  <2> QED BY <1>1, <1>3, <2>1
<1>5. EvidencePath(native) = written
  BY <1>4
<1> QED BY <1>4, <1>5 DEF NativeOf

LEMMA InvIsSound == ASSUME WalkInv PROVE WalkSound
<1>1. WalkTypes /\ Places
  BY DEF WalkInv
<1>2. WalkBounded
  BY <1>1 DEF Places
<1>3. NamesLeadBack
  <2>1. \A y \in yielded : y.path \in Paths /\ y.evidence = EvidencePath(y.path)
    BY <1>1 DEF WalkTypes
  <2>2. \A y \in yielded : NativeOf(y.evidence) = y.path
    BY <2>1, DecodedPath
  <2> QED BY <2>2 DEF NamesLeadBack
<1>4. DirectoriesOnce
  <2> SUFFICES ASSUME swaps = 0
               PROVE  /\ \A y, z \in yielded : Parent(y.path) = Parent(z.path) => Front(y.path) = Front(z.path)
                      /\ \A k, m \in DOMAIN stack : Resolve(stack[k].path) = Resolve(stack[m].path) => k = m
    BY DEF DirectoriesOnce
  <2>1. \A d, e \in Walked : Resolve(d) = Resolve(e) => d = e
    BY DEF WalkInv, Steady, Once
  <2>2. /\ \A y \in yielded : Front(y.path) \in Walked
        /\ \A k \in DOMAIN stack : stack[k].path \in Walked
    BY DEF Walked
  <2>3. \A k \in DOMAIN stack : k \in Nat /\ Len(stack[k].path) = k - 1
    BY <1>1 DEF Places, WalkTypes
  <2>4. \A y, z \in yielded : Parent(y.path) = Parent(z.path) => Front(y.path) = Front(z.path)
    BY <2>1, <2>2 DEF Parent
  <2>5. ASSUME NEW k \in DOMAIN stack, NEW m \in DOMAIN stack,
               Resolve(stack[k].path) = Resolve(stack[m].path)
        PROVE  k = m
    <3>1. stack[k].path = stack[m].path
      BY <2>1, <2>2, <2>5
    <3>2. Len(stack[k].path) = Len(stack[m].path)
      BY <3>1
    <3> QED BY <2>3, <3>2
  <2> QED BY <2>4, <2>5
<1>5. WholeOrSaid
  <2> SUFFICES ASSUME done, swaps = 0
               PROVE  /\ \A path \in {p \in Reach : Resolve(p) \in Files} :
                           \/ LeftOut(path) \/ options.selected \notin {Absent, path} \/ entry.path = path
                           \/ \E y \in yielded : y.path = path
                           \/ \E n \in notices : n.code = "walk.limit" \/ IsPrefix(n.path, path)
                      /\ \A y \in yielded :
                           /\ y.file = Resolve(y.path) /\ (LeftOut(y.path) => options.selected = y.path)
                           /\ options.follow \/ \A p \in Along(y.path) : ~IsLink(p)
    BY DEF WholeOrSaid
  <2>1. Steady
    BY DEF WalkInv
  <2>2. \A y \in yielded : y.file = Resolve(y.path)
    BY <2>1 DEF Steady
  <2>3. CASE options.selected = Absent
    <3>1. entry.at = "none" /\ (stack = << >> \/ \E n \in notices : n.code = "walk.limit")
      BY <1>1, <2>3 DEF Places, Within
    <3>2. \A path \in Reach : Resolve(path) \in Files => Said(path) \/ Ahead(path)
      BY <2>1, <2>3 DEF Steady
    <3>3. ASSUME NEW path \in Reach, Resolve(path) \in Files PROVE Said(path)
      <4>1. CASE stack = << >>
        BY <3>1, <3>2, <3>3, <4>1 DEF Ahead
      <4>2. CASE \E n \in notices : n.code = "walk.limit"
        BY <4>2 DEF Said
      <4> QED BY <3>1, <4>1, <4>2
    <3>4. \A y \in yielded : Clean(y.path)
      BY <2>1, <2>3 DEF Steady
    <3> QED BY <2>2, <3>3, <3>4 DEF Said, Clean
  <2>4. CASE options.selected # Absent
    <3> DEFINE chosen == options.selected
    <3>1. chosen \in Seq(EntryName) /\ Len(chosen) = 1
      <4>1. \A o \in Policies : o.selected # Absent => o.selected \in Seq(EntryName) /\ Len(o.selected) = 1
        BY WalkAssumption
      <4>2. options \in Policies
        BY <1>1 DEF WalkTypes
      <4> QED BY <2>4, <4>1, <4>2
    <3>2. Along(chosen) = {chosen} /\ IsPrefix(chosen, chosen)
      <4>1. 1..Len(chosen) = {1} /\ SubSeq(chosen, 1, 1) = chosen
        BY <3>1
      <4>2. Along(chosen) = {SubSeq(chosen, 1, k) : k \in 1..Len(chosen)}
        BY DEF Along
      <4> HIDE DEF chosen
      <4>3. Along(chosen) = {chosen}
        BY <4>1, <4>2
      <4>4. IsPrefix(chosen, chosen)
        BY <3>1 DEF IsPrefix
      <4> QED BY <4>3, <4>4
    <3>3. \A y \in yielded : y.path = chosen
      BY <1>1, <2>4 DEF Places, Alone
    <3>4. \A y \in yielded : options.follow \/ \A p \in Along(y.path) : ~IsLink(p)
      BY <2>1, <2>4, <3>2, <3>3 DEF Steady
    <3>5. \/ Excluded(chosen) \/ entry.path = chosen
          \/ \E y \in yielded : y.path = chosen
          \/ \E n \in notices : n.path = chosen
      BY <1>1, <2>1, <2>4 DEF Steady, Places, Alone
    <3>6. Excluded(chosen) => LeftOut(chosen)
      BY <3>2 DEF LeftOut
    <3>7. \A path : chosen \in {Absent, path} => path = chosen
      BY <2>4
    <3> HIDE DEF chosen
    <3> QED BY <2>2, <3>2, <3>3, <3>4, <3>5, <3>6, <3>7 DEF chosen
  <2> QED BY <2>3, <2>4
<1> QED BY <1>2, <1>3, <1>4, <1>5 DEF WalkSound

(* A walk keeps its limits however the tree is linked and changes; what it  *)
(* opens it opens under a name that leads back to it.  In a tree that stays *)
(* it walks no directory twice, opens nothing that the policy leaves out,   *)
(* and has in the end opened every file, or said where it did not look      *)
(* (Walker::next).                                                          *)
THEOREM WalkIsSound == WalkSpec => []WalkSound
<1>1. WalkInit => WalkInv
  BY WalkInvStart
<1>2. WalkInv /\ [WalkNext]_walkVars => WalkInv'
  BY WalkInvKept
<1>3. WalkInv => WalkSound
  BY InvIsSound
<1> QED BY <1>1, <1>2, <1>3, PTL DEF WalkSpec
=============================================================================
