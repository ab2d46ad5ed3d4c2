----------------------------- MODULE CaseReading -----------------------------
(***************************************************************************)
(* Reading of a case while it is written to: the pages of the command line *)
(* (search --cursor), and the operations that read in many transactions.   *)
(* Most of them compare the revision and answer for one of them: collect,  *)
(* exports, reports, facets, the relationship graph, the history of a path *)
(* and the comparison of the desktop.  Some do not, or not for all that    *)
(* they read: the comparison of the command line, the baseline of a        *)
(* report, the total of a search and the facets beside the case's totals.  *)
(*                                                                         *)
(* The writer may be the same program, scanning, or another one.  Each of  *)
(* its transactions raises the revision and extends the audit log          *)
(* (CaseAudit!Bump).                                                       *)
(***************************************************************************)
EXTENDS CasePages

CONSTANTS
  Cases,        \* the cases, by their id
  Inserts,      \* the rows a scan may append
  Beginnings,   \* the rows a case may have to begin with
  Queries,      \* what is asked
  Limit,        \* the page size (64, 128, or --limit)
  MaxCollected, \* AnalysisLimits.max_records
  MaxEdits      \* bound: how often the cases are written to

ASSUME ReadingAssumption ==
  /\ None \notin Cases \cup [case : Cases, revision : Nat, query : QueryType, position : Seq(Nat)]
  /\ Beginnings \subseteq Seq(RowType) /\ Inserts \subseteq RowType /\ Queries \subseteq QueryType
  /\ {PageBytes, Limit, MaxCollected} \subseteq Nat

VARIABLES
  cases,        \* the databases
  history,      \* the rows of each case at each of its revisions
  pager,        \* a user of the command line: what has been printed so far
  reader        \* an operation that reads a whole selection

readingVars == <<cases, history, pager, reader>>

RowsOf(c, n) == history[c][n + 1]

(* No pages yet; the history of a walk says what its first page was of. *)
NoWalk == [case |-> None, query |-> None, revision |-> 0, items |-> << >>, next |-> None]

(* What each operation reads, in order.  begin and end are collect's own    *)
(* look at the revision, info, verify and head those of stamp, and check    *)
(* compares the revision; the graph reads one page only, and so does the    *)
(* history of a path, of each scan.  diff is the comparison of the command  *)
(* line, against a report with a baseline, originals the reopening of the   *)
(* files, and metrics the totals of a case with the facets of a query.      *)
Plans ==
  [collect  |-> <<"begin", "walk", "end">>,
   export   |-> <<"info", "verify", "check", "head", "walk", "check", "head">>,
   report   |-> <<"info", "verify", "check", "head", "count", "walk", "check", "head">>,
   compare  |-> <<"info", "begin", "walk", "end", "begin", "walk", "end", "check">>,
   graph    |-> <<"info", "count", "page", "check">>,
   facets   |-> <<"info", "count", "count", "check">>,
   originals |-> <<"info", "walk", "check">>,
   metrics  |-> <<"info", "count", "check", "count">>,
   diff     |-> <<"begin", "walk", "end", "begin", "walk", "end">>,
   against  |-> <<"begin", "walk", "end",
                  "info", "verify", "check", "head", "count", "walk", "check", "head">>,
   search   |-> <<"page", "count">>]

NoReader == [kind |-> None, case |-> None, queries |-> << >>, step |-> 0, cursor |-> None,
             outer |-> 0, inner |-> 0, anchor |-> 0, part |-> << >>, answers |-> << >>]

ReadingInit ==
  /\ \E rows \in Beginnings :
       cases = [c \in Cases |-> [id |-> c, revision |-> 0, head |-> 1, rows |-> rows]]
  /\ history = [c \in Cases |-> <<cases[c].rows>>]
  /\ pager = NoWalk
  /\ reader = NoReader

-----------------------------------------------------------------------------
(* The writer: records are appended, an annotation is put or taken, or      *)
(* something is changed that no query asks for.                             *)
Writes(rows) ==
  {Append(rows, r) : r \in Inserts}
    \cup {[rows EXCEPT ![i].noted = ~@] : i \in DOMAIN rows}
    \cup {rows}

Write(c) ==
  /\ FoldFunction(LAMBDA case, sum : sum + case.revision, 0, cases) < MaxEdits
  /\ \E rows \in Writes(cases[c].rows) :
       /\ cases' = [cases EXCEPT ![c].rows = rows, ![c].revision = @ + 1, ![c].head = @ + 1]
       /\ history' = [history EXCEPT ![c] = Append(@, rows)]
  /\ UNCHANGED <<pager, reader>>

-----------------------------------------------------------------------------
(* search: each page is a process of its own, given any case and query and  *)
(* the cursor that the last one printed, or none.                           *)
FirstOf(c, q) ==
  LET page == Page(cases[c], q, None, Limit) IN
  /\ page.ok
  /\ pager' = [case |-> c, query |-> q, revision |-> cases[c].revision,
               items |-> page.items, next |-> page.next]

NextOf(c, q) ==
  LET page == Page(cases[c], q, pager.next, Limit) IN
  /\ pager.next # None /\ page.ok
  /\ pager' = [pager EXCEPT !.items = @ \o page.items, !.next = page.next]

(* One user pages, or one operation runs: they have no effect on each other. *)
Search ==
  /\ reader = NoReader
  /\ \E c \in Cases, q \in Queries : FirstOf(c, q) \/ NextOf(c, q)
  /\ UNCHANGED <<cases, history, reader>>

-----------------------------------------------------------------------------
(* The operations. *)
Ask(kind, c, queries) ==
  /\ reader = NoReader /\ pager = NoWalk
  /\ reader' = [NoReader EXCEPT !.kind = kind, !.case = c, !.queries = queries, !.step = 1]
  /\ UNCHANGED <<cases, history, pager>>

(* Two scans are compared, which have different rows. *)
BeginReading ==
  \E c \in Cases, q \in Queries, kind \in DOMAIN Plans :
    Ask(kind, c, IF kind \in {"compare", "diff", "against"} THEN <<q, [q EXCEPT !.mime = None]>> ELSE <<q>>)

Done(r) == r.kind # None /\ r.step > Len(Plans[r.kind])
Due(op) == reader.kind # None /\ ~Done(reader) /\ Plans[reader.kind][reader.step] = op

Continue(next) ==
  /\ reader' = [next EXCEPT !.step = @ + 1]
  /\ UNCHANGED <<cases, history, pager>>

(* An error: nothing is returned, and atomic_output leaves no file. *)
GiveUp ==
  /\ reader' = NoReader
  /\ UNCHANGED <<cases, history, pager>>

case == cases[reader.case]
Asked == Head(reader.queries)
Answer(op, value) ==
  Append(reader.answers, [op |-> op, query |-> Asked, value |-> value,
                          at |-> case.revision, step |-> reader.step])

Note ==
  \/ Due("info") /\ Continue([reader EXCEPT !.outer = case.revision])
  \/ Due("begin") /\ Continue([reader EXCEPT !.inner = case.revision])
  \/ Due("verify") /\ Continue([reader EXCEPT !.anchor = case.head])

(* "case changed during export; output was not published" *)
Compare ==
  \/ /\ Due("check")
     /\ IF case.revision = reader.outer THEN Continue(reader) ELSE GiveUp
  \/ /\ Due("end")
     /\ IF case.revision = reader.inner THEN Continue(reader) ELSE GiveUp
  \/ /\ Due("head")
     /\ IF case.head = reader.anchor THEN Continue(reader) ELSE GiveUp

(* One page, with its records: those are never changed, so it makes no      *)
(* difference that they are read one by one.                                *)
Walk ==
  /\ Due("walk")
  /\ LET page == Page(case, Asked, reader.cursor, Limit)
         part == reader.part \o page.items
     IN IF ~page.ok \/ Len(part) > MaxCollected THEN GiveUp
        ELSE IF page.next = None
        THEN Continue([reader EXCEPT !.answers = Answer("walk", part), !.part = << >>, !.cursor = None,
                                     !.queries = IF Len(@) > 1 THEN Tail(@) ELSE @])
        ELSE /\ reader' = [reader EXCEPT !.part = part, !.cursor = page.next]
             /\ UNCHANGED <<cases, history, pager>>

FirstPage ==
  /\ Due("page")
  /\ LET page == Page(case, Asked, None, Limit) IN
     IF page.ok THEN Continue([reader EXCEPT !.answers = Answer("page", page.items)])
     ELSE GiveUp

(* count_records, or the count of a facet *)
Total ==
  /\ Due("count")
  /\ Continue([reader EXCEPT !.answers = Answer("count", Count(case.rows, Asked))])

(* The answer is shown or published, and the next operation may begin. *)
Return == Done(reader) /\ GiveUp

ReadFails == reader.kind # None /\ ~Done(reader) /\ GiveUp

ReadingNext ==
  \/ \E c \in Cases : Write(c)
  \/ Search
  \/ BeginReading \/ Note \/ Compare \/ Walk \/ FirstPage \/ Total \/ Return \/ ReadFails

ReadingSpec == ReadingInit /\ [][ReadingNext]_readingVars

-----------------------------------------------------------------------------
(* The readers keep their types. *)
ReadingTypeOK ==
  /\ \A c \in Cases : cases[c].id = c /\ Len(history[c]) = cases[c].revision + 1
                       /\ cases[c].rows = Last(history[c])
  /\ pager.items \in Seq(Nat)
  /\ reader.kind \in {None} \cup DOMAIN Plans
  /\ Len(reader.part) <= MaxCollected

(* Pages that were each asked for with the cursor of the one before are the *)
(* answer to one query, of one case, at one revision: no record is missing, *)
(* repeated or out of order, however long the user took and whatever he     *)
(* passed the cursor to (query.rs:131, docs/cases.md:52).                   *)
PagesAreOneAnswer ==
  pager # NoWalk =>
    LET whole == Sorted(RowsOf(pager.case, pager.revision), pager.query) IN
    IF pager.next = None THEN pager.items = whole ELSE IsPrefix(pager.items, whole)

(* What of an operation's reading lies between its first look at the        *)
(* revision and a later comparison with it.                                 *)
Surrounded(kind, step) ==
  \/ kind = "collect"
  \/ \E i \in 1..(step - 1), j \in (step + 1)..Len(Plans[kind]) :
       Plans[kind][i] = "info" /\ Plans[kind][j] = "check"

(* The answer is of the case's revision n: all that was selected, or the    *)
(* beginning of it, or its number.                                          *)
HoldsAt(answer, c, n) ==
  LET whole == Sorted(RowsOf(c, n), answer.query) IN
  CASE answer.op = "walk" -> answer.value = whole
    [] answer.op = "page" -> IsPrefix(answer.value, whole)
    [] answer.op = "count" -> answer.value = Len(whole)

(* Although the case may be written to between any two reads of an          *)
(* operation, each of its answers, however many pages it took, is of one    *)
(* revision; all that was read between a look at the revision and a         *)
(* comparison with it is of the revision looked at, which is the one the    *)
(* operation names; and the anchor of an export or a report is of that      *)
(* revision too (export.rs:194, lib.rs:55).  What the command line compares *)
(* (main.rs:108), a report's baseline (workflows.rs:175), a page and the    *)
(* total beside it (workflows.rs:122) and the facets beside the totals      *)
(* (analysis.rs:118) are not surrounded: they may be of other revisions.    *)
AnswersAtOneRevision ==
  Done(reader) =>
    LET n == IF reader.kind = "collect" THEN reader.inner ELSE reader.outer
    IN /\ \A k \in DOMAIN reader.answers :
            LET answer == reader.answers[k]
            IN /\ HoldsAt(answer, reader.case, answer.at)
               /\ Surrounded(reader.kind, answer.step) => HoldsAt(answer, reader.case, n)
       /\ reader.kind \in {"export", "report", "against"} => reader.anchor = n + 1

(* What is read of a case in several transactions is one answer, of one     *)
(* revision, wherever the revision is compared; elsewhere each answer is.   *)
ReadingSound == ReadingTypeOK /\ PagesAreOneAnswer /\ AnswersAtOneRevision
=============================================================================
