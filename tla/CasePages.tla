------------------------------ MODULE CasePages ------------------------------
(***************************************************************************)
(* Pages of records (metaxtract-storage, query.rs and search.rs).  A query *)
(* selects and orders the records of a scan; a page is at most limit of    *)
(* them, and as many as the byte budget holds, after a cursor that names   *)
(* the case, its revision, the query and the last record of the page       *)
(* before.                                                                 *)
(*                                                                         *)
(* Rows are numbered by their id, which is also their order of insertion.  *)
(* A row has a path, a media type and a note (there or not), which stand   *)
(* for all that can be asked of it; rows are only ever added, only notes   *)
(* change.  A query's fingerprint is taken to identify it.                 *)
(***************************************************************************)
EXTENDS CaseFile, ListParts, FiniteSets

CONSTANT PageBytes  \* PAGE_BYTES, in the widths of rows

Orders == {"insertion", "path", "pathDescending", "mimePath"}
RowType == [path : Nat, mime : Nat, noted : BOOLEAN, width : Nat]
QueryType == [mime : Nat \cup {None}, noted : BOOLEAN, order : Orders]

(* selection and append_expression *)
Matches(rows, q) ==
  {i \in DOMAIN rows : /\ q.mime \in {None, rows[i].mime}
                       /\ q.noted => rows[i].noted}

(* The columns a record is ordered by; the last makes it unique. *)
Position(rows, q, i) ==
  CASE q.order = "insertion" -> <<i>>
    [] q.order = "mimePath" -> <<rows[i].mime, rows[i].path, i>>
    [] OTHER -> <<rows[i].path, i>>

(* Row values of SQL are compared column by column. *)
Smaller(a, b) == \E n \in DOMAIN a : a[n] < b[n] /\ \A m \in 1..(n - 1) : a[m] = b[m]
Precedes(q, a, b) == IF q.order = "pathDescending" THEN Smaller(b, a) ELSE Smaller(a, b)

(* The n-th record is the one with n - 1 others before it. *)
Earlier(rows, q, i) == {j \in Matches(rows, q) : Precedes(q, Position(rows, q, j), Position(rows, q, i))}
Sorted(rows, q) ==
  [n \in 1..Cardinality(Matches(rows, q)) |->
     CHOOSE i \in Matches(rows, q) : Cardinality(Earlier(rows, q, i)) = n - 1]

-----------------------------------------------------------------------------
(* query_records_with *)

Cursor(case, q, i) ==
  [case |-> case.id, revision |-> case.revision, query |-> q,
   position |-> Position(case.rows, q, i)]

(* Broken variant of Current: a cursor outlives a change of the case. *)
CurrentAtAnyRevision(case, q, cursor) ==
  /\ cursor.case = case.id
  /\ cursor.query = q

Current(case, q, cursor) ==
  /\ cursor.case = case.id
  /\ cursor.revision = case.revision
  /\ cursor.query = q

Remaining(case, q, cursor) ==
  LET all == Sorted(case.rows, q)
  IN Kept(all, {n \in DOMAIN all :
                  cursor = None \/ Precedes(q, cursor.position, Position(case.rows, q, all[n]))})

(* How many of the remaining rows the page holds. *)
Widths(case, left) ==
  LET f[n \in 0..Len(left)] == IF n = 0 THEN 0 ELSE f[n - 1] + case.rows[left[n]].width
  IN f
Fitting(case, left, limit) ==
  LET width == Widths(case, left)
  IN CHOOSE n \in 0..Len(left) :
       /\ n <= limit /\ width[n] <= PageBytes
       /\ n < Len(left) => n = limit \/ width[n + 1] > PageBytes

(* No page: InvalidData, as for a cursor that is not current. *)
Refused == [items |-> << >>, next |-> None, ok |-> FALSE]

Page(case, q, cursor, limit) ==
  LET left == Remaining(case, q, cursor)
      n == Fitting(case, left, limit)
  IN IF (cursor # None /\ ~Current(case, q, cursor)) \/ (left # << >> /\ n = 0)
     THEN Refused
     ELSE [items |-> SubSeq(left, 1, n), ok |-> TRUE,
           next |-> IF n < Len(left) THEN Cursor(case, q, left[n]) ELSE None]

(* count_search *)
Count(rows, q) == Len(Sorted(rows, q))
=============================================================================
