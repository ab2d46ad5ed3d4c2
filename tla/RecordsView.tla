----------------------------- MODULE RecordsView -----------------------------
(***************************************************************************)
(* The list of records of the desktop application (metaxtract-gui,         *)
(* records.rs, explorer_search.rs, search.rs): pages of the current query, *)
(* loaded by one background task at a time, while the user changes the     *)
(* filters, the search and the order, and the case is written to.  The     *)
(* task reads the page, the total and the revision in three transactions.  *)
(*                                                                         *)
(* An event of the user falls in a frame, between the callback of a task   *)
(* and the next poll_records; whatever starts a task does so only when     *)
(* none is running (busy).  The scan that is looked at stays the same.     *)
(***************************************************************************)
EXTENDS CasePages

CONSTANTS
  FirstRows,    \* the rows a scan may have at first
  MoreRows,     \* the rows that may be appended to it
  Mimes,        \* what the media type filter may be set to
  PageSize,     \* records per page (64)
  MaxRevised,   \* bound: how often the case is written to
  MaxEvents,    \* bound: how often the user does something
  Hasty         \* what the user may do while a task runs: "reset"

ASSUME ViewAssumption ==
  /\ None \in Mimes
  /\ FirstRows \subseteq Seq(RowType) /\ MoreRows \subseteq RowType
  /\ {PageBytes, PageSize, MaxRevised, MaxEvents} \subseteq Nat

VARIABLES
  viewed, revisions, \* the case, and history: its rows at each revision
  form,         \* the filters on the screen: media type, and a search or not
  pending,      \* search.pending: the search was edited and is not applied yet
  view,         \* RecordsUi
  task,         \* the background task: a load, or none
  events,       \* how many events there were
  asked,        \* history: the filters that were last applied
  trusted,      \* history: the last load has ended well
  shownAt       \* history: the revision of the page that is shown

viewVars == <<viewed, revisions, form, pending, view, task, events, asked, trusted, shownAt>>

Query(filters, order) == [mime |-> filters.mime, noted |-> filters.noted, order |-> order]
NoFilters == [mime |-> None, noted |-> FALSE]

(* RecordsUi::default, with a query and a refresh to come *)
NewView(query) ==
  [query |-> query, order |-> query.order, headers |-> << >>, next |-> None, cursor |-> None,
   back |-> << >>, total |-> 0, revision |-> 0, refresh |-> TRUE]

NoTask == [at |-> "none", query |-> None, cursor |-> None, direction |-> 0, page |-> Refused,
           restarted |-> FALSE, total |-> 0, revision |-> 0, of |-> 0]
busy == task # NoTask

ViewInit ==
  /\ \E rows \in FirstRows :
       /\ viewed = [id |-> 1, revision |-> 0, rows |-> rows]
       /\ revisions = <<rows>>
  /\ form = NoFilters /\ pending = FALSE
  /\ view = NewView(Query(NoFilters, "path"))
  /\ task = NoTask /\ events = 0
  /\ asked = NoFilters /\ trusted = TRUE /\ shownAt = 0

(* A scan appends records, or an annotation is put or taken. *)
Written ==
  /\ viewed.revision < MaxRevised
  /\ \E rows \in {Append(viewed.rows, r) : r \in MoreRows}
                   \cup {[viewed.rows EXCEPT ![i].noted = ~@] : i \in DOMAIN viewed.rows} :
       /\ viewed' = [viewed EXCEPT !.rows = rows, !.revision = @ + 1]
       /\ revisions' = Append(revisions, rows)
  /\ UNCHANGED <<form, pending, view, task, events, asked, trusted, shownAt>>

-----------------------------------------------------------------------------
(* load_records *)

LoadRecords(cursor, direction) ==
  /\ task' = [NoTask EXCEPT !.at = "page", !.query = [view.query EXCEPT !.order = view.order],
                            !.cursor = cursor, !.direction = direction]
  /\ view' = [view EXCEPT !.refresh = FALSE]

(* poll_records: a running scan makes it load the first page again. *)
Poll ==
  /\ ~busy
  /\ view.refresh \/ view.cursor = None
  /\ LoadRecords(None, 0)
  /\ UNCHANGED <<viewed, revisions, form, pending, events, asked, trusted, shownAt>>

(* The page; if the case or the query has changed, the first page. *)
ReadPage ==
  /\ task.at = "page"
  /\ LET page == Page(viewed, task.query, task.cursor, PageSize)
         first == Page(viewed, task.query, None, PageSize)
         restarted == ~page.ok /\ task.cursor # None
     IN task' = [task EXCEPT !.at = IF page.ok \/ (restarted /\ first.ok) THEN "count" ELSE "failed",
                             !.page = IF restarted THEN first ELSE page,
                             !.restarted = restarted, !.of = viewed.revision]
  /\ UNCHANGED <<viewed, revisions, form, pending, view, events, asked, trusted, shownAt>>

ReadTotal ==
  /\ task.at = "count"
  /\ task' = [task EXCEPT !.at = "info", !.total = Count(viewed.rows, task.query)]
  /\ UNCHANGED <<viewed, revisions, form, pending, view, events, asked, trusted, shownAt>>

ReadRevision ==
  /\ task.at = "info"
  /\ task' = [task EXCEPT !.at = "loaded", !.revision = viewed.revision]
  /\ UNCHANGED <<viewed, revisions, form, pending, view, events, asked, trusted, shownAt>>

ReadError ==
  /\ task.at \in {"page", "count", "info"}
  /\ task' = [task EXCEPT !.at = "failed"]
  /\ UNCHANGED <<viewed, revisions, form, pending, view, events, asked, trusted, shownAt>>

(* The way back: the cursors of the pages before. *)
Turned ==
  IF task.restarted \/ task.direction = 0 THEN [view EXCEPT !.back = << >>, !.cursor = None]
  ELSE IF task.direction > 0
  THEN [view EXCEPT !.back = Append(@, view.cursor), !.cursor = task.cursor]
  ELSE [view EXCEPT !.back = IF @ = << >> THEN @ ELSE Front(@), !.cursor = task.cursor]

(* The callback, at the start of a frame. *)
Loaded ==
  /\ task.at = "loaded"
  /\ view' = [Turned EXCEPT !.query = task.query, !.headers = task.page.items,
                            !.next = task.page.next, !.total = task.total,
                            !.revision = task.revision]
  /\ task' = NoTask /\ trusted' = TRUE /\ shownAt' = task.of
  /\ UNCHANGED <<viewed, revisions, form, pending, events, asked>>

(* An error is reported; what was shown stays, and is not loaded again. *)
LoadFailed ==
  /\ task.at = "failed"
  /\ task' = NoTask /\ trusted' = FALSE
  /\ UNCHANGED <<viewed, revisions, form, pending, view, events, asked, shownAt>>

-----------------------------------------------------------------------------
(* The user. *)

UserEvent ==
  /\ events < MaxEvents /\ events' = events + 1
  /\ UNCHANGED <<viewed, revisions, trusted, shownAt>>

NextPage ==
  /\ ~busy /\ view.next # None
  /\ LoadRecords(view.next, 1)
  /\ UserEvent /\ UNCHANGED <<form, pending, asked>>

PreviousPage ==
  /\ ~busy /\ view.back # << >>
  /\ LoadRecords(Last(view.back), -1)
  /\ UserEvent /\ UNCHANGED <<form, pending, asked>>

ChangeOrder ==
  /\ \E order \in {"path", "pathDescending"} \ {view.order} :
       view' = [view EXCEPT !.order = order, !.refresh = TRUE]
  /\ UserEvent /\ UNCHANGED <<form, pending, task, asked>>

Refresh ==
  /\ view' = [view EXCEPT !.refresh = TRUE]
  /\ UserEvent /\ UNCHANGED <<form, pending, task, asked>>

(* file_filters_view: the media type is edited, and applied by its button. *)
EditFilter ==
  /\ ~busy
  /\ \E mime \in Mimes \ {form.mime} : form' = [form EXCEPT !.mime = mime]
  /\ UserEvent /\ UNCHANGED <<pending, view, task, asked>>

(* Broken variant of ApplyFilters: also while a task runs. *)
ApplyFiltersBusy ==
  /\ view' = [view EXCEPT !.query.mime = form.mime, !.refresh = TRUE]
  /\ asked' = [asked EXCEPT !.mime = form.mime]
  /\ UserEvent /\ UNCHANGED <<form, pending, task>>

ApplyFilters ==
  /\ ~busy
  /\ view' = [view EXCEPT !.query.mime = form.mime, !.refresh = TRUE]
  /\ asked' = [asked EXCEPT !.mime = form.mime]
  /\ UserEvent /\ UNCHANGED <<form, pending, task>>

(* explorer_search: an edited search is applied when it has been left alone *)
(* for a while, and no task is running.                                     *)
EditSearch ==
  /\ form' = [form EXCEPT !.noted = ~@] /\ pending' = TRUE
  /\ UserEvent /\ UNCHANGED <<view, task, asked>>

ApplySearch(filters) ==
  /\ view' = NewView(Query(filters, view.order))
  /\ asked' = filters /\ pending' = FALSE

SearchDue ==
  /\ pending /\ ~busy
  /\ ApplySearch(form)
  /\ UNCHANGED <<viewed, revisions, form, task, events, trusted, shownAt>>

(* "Reset filters" is not disabled while a task runs. *)
ResetFilters ==
  /\ ~busy \/ "reset" \in Hasty
  /\ form' = NoFilters
  /\ ApplySearch(NoFilters)
  /\ UserEvent /\ UNCHANGED task

ViewNext ==
  \/ Written
  \/ Poll \/ ReadPage \/ ReadTotal \/ ReadRevision \/ ReadError \/ Loaded \/ LoadFailed
  \/ NextPage \/ PreviousPage \/ ChangeOrder \/ Refresh
  \/ EditFilter \/ ApplyFilters \/ EditSearch \/ SearchDue \/ ResetFilters

ViewSpec == ViewInit /\ [][ViewNext]_viewVars

-----------------------------------------------------------------------------
Settled == ~busy /\ ~view.refresh /\ trusted

(* The state keeps its types, and what is shown fits a page.                *)
ViewTypeOK ==
  /\ events \in 0..MaxEvents /\ pending \in BOOLEAN /\ trusted \in BOOLEAN
  /\ form.mime \in Mimes /\ form.noted \in BOOLEAN
  /\ task.at \in {"none", "page", "count", "info", "loaded", "failed"}
  /\ view.total \in Nat /\ view.revision \in 0..viewed.revision
  /\ Len(view.headers) <= PageSize

(* The page of a query at the revision n that k others come before. *)
AtRevision(n) == [viewed EXCEPT !.rows = revisions[n + 1], !.revision = n]
PageNumber(n, q, k) ==
  LET page[i \in 0..k] ==
        Page(AtRevision(n), q, IF i = 0 THEN None ELSE page[i - 1].next, PageSize)
  IN page[k]

(* The page on the screen is the one its number says, of the query and the  *)
(* order on the screen, at one revision: Next and Previous never skip or    *)
(* repeat records, although the case changes between the pages, the query   *)
(* between the loads, and a load may restart or fail (records.rs:126).      *)
PageNumberTrue ==
  Settled =>
    LET page == PageNumber(shownAt, [view.query EXCEPT !.order = view.order], Len(view.back))
    IN view.headers = page.items /\ view.next = page.next

(* The page on the screen is one of the filters that were last applied:     *)
(* neither a load that was under way nor one that failed or began again     *)
(* brings back what an earlier query asked for (docs/application.md:314).   *)
AskedIsShown ==
  Settled =>
    LET sought == Query(asked, view.order) IN
    /\ Len(view.back) < Count(revisions[shownAt + 1], sought) \/ view.back = << >>
    /\ view.headers = PageNumber(shownAt, sought, Len(view.back)).items

(* The page on the screen is the one asked for, of the number it bears. *)
ViewSound == ViewTypeOK /\ PageNumberTrue /\ AskedIsShown
=============================================================================
