------------------------------ MODULE CaseAudit ------------------------------
(***************************************************************************)
(* The case workspace (metaxtract-storage, lib.rs, schema.rs, audit.rs):   *)
(* one SQLite file whose rows are guarded by triggers and whose mutations  *)
(* are recorded, with a commitment to every row they change, in a log in   *)
(* the same transaction.  verify_integrity replays the log and compares.   *)
(*                                                                         *)
(* Writers take the database's write lock before they read (BEGIN          *)
(* IMMEDIATE), so that one connection stands for the writers of all        *)
(* processes.  Row digests and event hashes are taken to identify what     *)
(* they were made from: a digest is the row's content, and the log stands  *)
(* for its own chain.  Key Info is the row of case_info, its content the   *)
(* revision; the other keys stand for the rows of the other tables.        *)
(***************************************************************************)
EXTENDS CaseFile, Sequences, FiniteSets

CONSTANTS
  Keys,         \* table and primary key of the audited rows
  Info,         \* the key of case_info
  Values,       \* the contents of the other rows; the title of the case
  EventRows,    \* rows per audit event (256 in the code)
  MaxRevision,  \* bound: the revision at which no write begins
  MaxDamage     \* bound: how often rows change outside the program

ASSUME AuditAssumption ==
  /\ Info \in Keys
  /\ None \notin Values \cup [revision : Nat, title : Values]
  /\ EventRows \in Nat \ {0}
  /\ IsFiniteSet(Keys)

VARIABLES
  db,           \* the committed database
  work,         \* what the open transaction has made of it
  phase,        \* where the connection is
  job,          \* what the transaction is for
  damage        \* history: how often rows changed outside the program

caseVars == <<db, work, phase, job, damage>>

(* rows: the audited tables; state: audit_state; dirty: audit_dirty; log:   *)
(* audit_log; anchored: audit_config.initialized; schema: user_version.     *)
(* A history variable: true has the rows the program's statements would     *)
(* have made if nobody else had written.                                    *)
Database(rows, state, log, anchored, schema) ==
  [rows |-> rows, true |-> rows, state |-> state, dirty |-> {}, log |-> log,
   anchored |-> anchored, schema |-> schema]

Case(revision, title) == [revision |-> revision, title |-> title]
Content(k) == IF k = Info THEN [revision : Nat, title : Values] ELSE Values
Revision(d) == d.rows[Info].revision

NoRows == [k \in Keys |-> None]
NewRows(title) == [NoRows EXCEPT ![Info] = Case(0, title)]

(* The event that append makes of some dirty rows. *)
Event(d, page) == [k \in page |-> [previous |-> d.state[k], current |-> d.rows[k]]]

(* A case just created, by this version or by the one before it; or one of  *)
(* a version that had no audit log, or migrated from it and not anchored    *)
(* yet, with rows of any content.                                           *)
Created(title, schema) ==
  LET empty == Database(NewRows(title), NoRows, << >>, FALSE, schema)
  IN Database(NewRows(title), NewRows(title), <<Event(empty, {Info})>>, TRUE, schema)

Unaudited(title, v, schema) ==
  Database([k \in Keys |-> IF k = Info THEN Case(0, title) ELSE v], NoRows, << >>, FALSE, schema)

Init ==
  /\ \E title \in Values :
       db \in {Created(title, schema) : schema \in {6, 7}}
                \cup {Unaudited(title, v, schema) : v \in Values \cup {None}, schema \in {5, 6}}
  /\ work = db
  /\ phase = "closed" /\ job = "none"
  /\ damage = 0

-----------------------------------------------------------------------------
(* The triggers. *)

(* Broken variant of Guarded: a row of the key is in audit_state. *)
GuardedByKey(d, k) == k \in d.dirty \/ d.state[k] # None

(* BEFORE UPDATE and BEFORE DELETE: a row that this transaction has not     *)
(* touched yet must be the one in audit_state, or the statement aborts.     *)
Guarded(d, k) == k \in d.dirty \/ d.state[k] = d.rows[k]

(* AFTER INSERT, UPDATE and DELETE. *)
Changed(d, k, content, truth) ==
  [d EXCEPT !.rows[k] = content, !.true[k] = truth, !.dirty = @ \cup {k}]

(* UPDATE case_info: the columns that are not set stay what they are. *)
Bumped(d) ==
  Changed(d, Info, Case(d.rows[Info].revision + 1, d.rows[Info].title),
                   Case(d.true[Info].revision + 1, d.true[Info].title))
Retitled(d, title) ==
  Changed(d, Info, Case(d.rows[Info].revision, title), Case(d.true[Info].revision, title))

(* A transaction ends by a commit; or by an error or a crash, and then      *)
(* nothing of it remains.                                                   *)
Commit(to) ==
  /\ db' = work
  /\ phase' = to
  /\ job' = "none"
  /\ UNCHANGED <<work, damage>>

Rollback(to) ==
  /\ work' = db
  /\ phase' = to
  /\ job' = "none"
  /\ UNCHANGED <<db, damage>>

Transaction(d, to, purpose) ==
  /\ work' = d
  /\ phase' = to
  /\ job' = purpose
  /\ UNCHANGED <<db, damage>>

-----------------------------------------------------------------------------
(* CaseWorkspace::open with write access: migrate, then ensure_anchor, each *)
(* a transaction.                                                           *)

(* Before the anchor there is nothing to record: the tables are made. *)
MigrateUnanchored ==
  /\ phase = "closed" /\ db.schema < SCHEMA_REVISION /\ ~db.anchored
  /\ db' = [db EXCEPT !.schema = SCHEMA_REVISION]
  /\ work' = db'
  /\ phase' = "opening"
  /\ UNCHANGED <<job, damage>>

(* migrated: the migration of an anchored case is an event of its log. *)
MigrateAudited ==
  /\ phase = "closed" /\ db.schema < SCHEMA_REVISION /\ db.anchored
  /\ Guarded(db, Info) /\ Revision(db) < MaxRevision
  /\ Transaction([Bumped(db) EXCEPT !.schema = SCHEMA_REVISION], "append", "migrate")

Open ==
  /\ phase = "closed" /\ db.schema = SCHEMA_REVISION
  /\ phase' = "opening"
  /\ UNCHANGED <<db, work, job, damage>>

(* The first event commits to all rows there are. *)
Anchor ==
  /\ phase = "opening" /\ ~db.anchored
  /\ db.state = NoRows
  /\ Transaction([db EXCEPT !.dirty = {k \in Keys : db.rows[k] # None}, !.anchored = TRUE],
                 "append", "anchor")

Anchored ==
  /\ phase = "opening" /\ db.anchored
  /\ phase' = IF db.log # << >> /\ db.dirty = {} THEN "open" ELSE "closed"
  /\ UNCHANGED <<db, work, job, damage>>

-----------------------------------------------------------------------------
(* write_detailed *)

Begin ==
  /\ phase = "open" /\ Revision(db) < MaxRevision
  /\ Transaction(db, "action", "write")

(* The statements of the action: a row is inserted, or one that is there is *)
(* replaced or, with no content, deleted.                                   *)
Insert(k, content) ==
  /\ work.rows[k] = None
  /\ Transaction(Changed(work, k, content, content), "action", job)

Replace(k, content) ==
  /\ work.rows[k] # None
  /\ IF Guarded(work, k)
       THEN Transaction(Changed(work, k, content, content), "action", job)
       ELSE Rollback("open")

SetTitle(title) ==
  IF Guarded(work, Info)
    THEN Transaction(Retitled(work, title), "action", job)
    ELSE Rollback("open")

Statement ==
  /\ phase = "action"
  /\ \/ \E k \in Keys \ {Info} : \E content \in Values : Insert(k, content)
     \/ \E k \in Keys \ {Info} : \E content \in Values \cup {None} : Replace(k, content)
     \/ \E title \in Values : SetTitle(title)

(* After the action, the revision; then append. *)
Bump ==
  /\ phase = "action"
  /\ IF Guarded(work, Info)
       THEN Transaction(Bumped(work), "append", job)
       ELSE Rollback("open")

-----------------------------------------------------------------------------
(* append *)

(* Up to EventRows dirty rows become an event, until none is left. *)
AppendEvent ==
  /\ phase = "append" /\ work.dirty # {}
  /\ \E page \in SUBSET work.dirty :
       /\ Cardinality(page) = EventRows \/ (page = work.dirty /\ Cardinality(page) < EventRows)
       /\ work' = [work EXCEPT !.state = [k \in Keys |-> IF k \in page THEN work.rows[k] ELSE @[k]],
                               !.dirty = @ \ page,
                               !.log = Append(@, Event(work, page))]
  /\ UNCHANGED <<db, phase, job, damage>>

CommitWork ==
  /\ phase = "append" /\ work.dirty = {}
  /\ Commit(IF job = "migrate" THEN "opening" ELSE "open")

(* The action returns an error, or a statement fails. *)
Fail ==
  /\ phase \in {"action", "append"}
  /\ Rollback(IF job = "write" THEN "open" ELSE "closed")

(* The process dies, or closes the case. *)
Close == phase # "closed" /\ Rollback("closed")

-----------------------------------------------------------------------------
(* A row of an anchored case changes outside the program, past its triggers. *)
Damage ==
  /\ phase \in {"closed", "open"} /\ db.anchored /\ damage < MaxDamage
  /\ damage' = damage + 1
  /\ \E k \in Keys :
       \E content \in (IF k = Info THEN {Case(Revision(db), title) : title \in Values}
                                   ELSE Values \cup {None}) \ {db.rows[k]} :
         db' = [db EXCEPT !.rows[k] = content]
  /\ work' = db'
  /\ UNCHANGED <<phase, job>>

CaseStep ==
  \/ MigrateUnanchored \/ MigrateAudited \/ Open \/ Anchor \/ Anchored
  \/ Begin \/ Statement \/ Bump \/ AppendEvent \/ CommitWork \/ Fail \/ Close
  \/ Damage

CaseSpec == Init /\ [][CaseStep]_caseVars

-----------------------------------------------------------------------------
(* verify_integrity.  The replay of the log in a table of its own has, for  *)
(* each key, what the last event that names it left.                        *)
Naming(log, n, k) == {m \in DOMAIN log : m < n /\ k \in DOMAIN log[m]}

Replayed(log, n, k) ==
  IF Naming(log, n, k) = {} THEN None
  ELSE LET last == CHOOSE m \in Naming(log, n, k) : \A o \in Naming(log, n, k) : o <= m
       IN log[last][k].current

Verify(d) ==
  /\ d.log # << >>
  /\ \A n \in DOMAIN d.log : \A k \in DOMAIN d.log[n] :
       d.log[n][k].previous = Replayed(d.log, n, k)
  /\ \A k \in Keys : d.rows[k] = Replayed(d.log, Len(d.log) + 1, k) /\ d.state[k] = d.rows[k]
  /\ d.dirty = {}

-----------------------------------------------------------------------------
DatabaseOK(d) ==
  /\ \A k \in Keys : {d.rows[k], d.true[k], d.state[k]} \subseteq Content(k) \cup {None}
  /\ d.dirty \subseteq Keys
  /\ d.schema \in 5..7
  /\ d.anchored \in BOOLEAN
  /\ d.rows[Info] # None

(* The database and the connection keep their types; between transactions   *)
(* nothing is pending, and what is committed has no dirty rows.             *)
CaseTypeOK ==
  /\ DatabaseOK(db) /\ DatabaseOK(work)
  /\ phase \in {"closed", "opening", "open", "action", "append"}
  /\ job \in {"none", "migrate", "anchor", "write"}
  /\ phase \notin {"action", "append"} => work = db /\ job = "none"
  /\ db.dirty = {}

(* A case that only the program has written to passes the verification,     *)
(* whichever way its transactions were split into events (audit.rs:384),    *)
(* wherever they were cut short, and whether it was created or migrated.    *)
CleanVerifies == damage = 0 /\ db.anchored => Verify(db)

(* A case that passes the verification has, row by row and column by        *)
(* column, what the program wrote: a mutation that follows a change made    *)
(* outside may not carry it over into the audited state (audit.rs:256).     *)
VerifiedIsTrue == db.anchored /\ Verify(db) => db.rows = db.true

(* A verification fails only for a change made outside, and fails for every *)
(* such change that is still in the rows.                                   *)
CaseSound == CaseTypeOK /\ CleanVerifies /\ VerifiedIsTrue
=============================================================================
