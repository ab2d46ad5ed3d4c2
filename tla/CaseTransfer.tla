----------------------------- MODULE CaseTransfer -----------------------------
(***************************************************************************)
(* What goes into a case and out of it (metaxtract-storage: bundle.rs,     *)
(* transport.rs, import.rs and import/, signing.rs): portable snapshots    *)
(* are exported, verified and opened at a new path; rows of JSON lines,    *)
(* evidence bundles and cases of the earlier Python program are imported.  *)
(* Meanwhile the case is written to, other programs create and rewrite     *)
(* files, and any operation may fail or be killed between two steps.       *)
(*                                                                         *)
(* A hash or a signature is the value it was made of.  What the members of *)
(* an archive are called and how a database is laid out is left out; an    *)
(* archive that is not well formed is one of kind "torn".                  *)
(***************************************************************************)
EXTENDS CaseFile, ListParts, FiniteSets

CONSTANTS
  Actors,       \* the operations that may be under way at once
  FilePaths,    \* where files may be
  Signers,      \* signing identities
  Inputs,       \* what other programs write: snapshots and files to import
  MaxRecords,   \* ImportLimits.max_records
  MaxWrites,    \* bound: the revision up to which others write to the case
  MaxChanges,   \* bound: how often anything is written by others
  MaxOps        \* bound: how many operations are begun

VARIABLES
  live,         \* the case
  past,         \* history: what the case was at each revision
  files,        \* what is at each path, and when it was modified
  were,         \* history: everything that ever was in a file
  ops,          \* what each actor does
  holder,       \* who has begun the immediate transaction on the case
  exported,     \* history: the snapshots that export made
  begun         \* how many operations were begun

transferVars == <<live, past, files, were, ops, holder, exported, begun>>

FirstAudited == 6
NoFile == [content |-> None, modified |-> 0]
Idle == [op |-> "idle", at |-> "", source |-> None, target |-> None, key |-> None,
         modified |-> 0, half |-> None, copy |-> None, todo |-> None, draft |-> None]

TransferInit ==
  /\ live = [kind |-> "case", case |-> "this", schema |-> SCHEMA_REVISION, revision |-> 0,
             log |-> <<"case.anchor">>, scans |-> << >>, receipts |-> << >>, filters |-> {}]
  /\ past = <<live>>
  /\ files = [p \in FilePaths |-> NoFile]
  /\ were = {}
  /\ ops = [i \in Actors |-> Idle]
  /\ holder = None
  /\ exported = {}
  /\ begun = 0

-----------------------------------------------------------------------------
(* Others: a scan or the examiner writes to the case, in one transaction,   *)
(* which is a revision and an event of the audit log; another program puts  *)
(* a file somewhere, or rewrites one of its own.                            *)
Committed(case) ==
  /\ live' = [case EXCEPT !.revision = live.revision + 1, !.log = Append(live.log, "commit")]
  /\ past' = Append(past, live')

MayChange == FoldFunction(LAMBDA file, sum : file.modified + sum, live.revision, files) < MaxChanges

SaveFilter ==
  /\ holder = None /\ live.revision < MaxWrites /\ MayChange
  /\ \E filters \in {live.filters \cup {"f"}, live.filters \ {"f"}} :
       Committed([live EXCEPT !.filters = filters])
  /\ UNCHANGED <<files, were, ops, holder, exported, begun>>

Put(p, content) ==
  /\ MayChange
  /\ files[p].content \in Inputs \cup {None}
  /\ files' = [files EXCEPT ![p] = [content |-> content, modified |-> @.modified + 1]]
  /\ were' = were \cup {content}
  /\ UNCHANGED <<live, past, ops, holder, exported, begun>>

(* A snapshot is repacked with a member of another one, or without one. *)
Snapshots == exported \cup {content \in Inputs : content.kind = "snapshot"}

Repacked(a, b) ==
  {[a EXCEPT !.db = b.db], [a EXCEPT !.signature = b.signature], [a EXCEPT !.signature = None]}

Repack(p) ==
  /\ MayChange
  /\ \E a \in exported, b \in Snapshots : \E content \in Repacked(a, b) :
       /\ files[p].content = a
       /\ files' = [files EXCEPT ![p] = [content |-> content, modified |-> @.modified + 1]]
       /\ were' = were \cup {content}
  /\ UNCHANGED <<live, past, ops, holder, exported, begun>>

-----------------------------------------------------------------------------
(* The steps of an operation. *)
Go(i, next) ==
  /\ ops' = [ops EXCEPT ![i] = next]
  /\ UNCHANGED <<live, past, files, were, holder, exported, begun>>

At(i, op, at) == ops[i].op \in op /\ ops[i].at = at

(* An error or a kill: the temporary files and the transaction are gone. *)
Abandon(i) ==
  /\ ops' = [ops EXCEPT ![i] = Idle]
  /\ holder' = IF holder = i THEN None ELSE holder
  /\ UNCHANGED <<live, past, files, were, exported, begun>>

BeginOp(i, next) ==
  /\ ops[i] = Idle /\ begun < MaxOps
  /\ begun' = begun + 1
  /\ ops' = [ops EXCEPT ![i] = next]
  /\ UNCHANGED <<live, past, files, were, holder, exported>>

(* destination: what is there is not replaced. *)
Free(target) == files[target].content = None

(* SQLite's backup is of one moment: it begins again when it is disturbed. *)
Export(i, target, key) ==
  /\ Free(target)
  /\ BeginOp(i, [Idle EXCEPT !.op = "export", !.at = "describe", !.target = target,
                             !.key = key, !.copy = live])

(* transport::snapshot opens the input, and begins to copy it. *)
Opened(op, source, target, key) ==
  [Idle EXCEPT !.op = op, !.at = "copy", !.source = source, !.target = target, !.key = key,
               !.modified = files[source].modified, !.half = files[source].content]

OpenSnapshot(i, source, target, key) ==
  /\ Free(target) /\ ~Free(source)
  /\ BeginOp(i, Opened("open", source, target, key))

VerifySnapshot(i, source, key) ==
  ~Free(source) /\ BeginOp(i, Opened("verify", source, None, key))

Import(i, source, key) ==
  ~Free(source) /\ BeginOp(i, Opened("import", source, None, key))

-----------------------------------------------------------------------------
(* export_snapshot *)

AuditAnchor(db) == IF db.schema >= FirstAudited THEN db.log ELSE None
Records(db) == FoldLeft(LAMBDA sum, scan : sum + Len(scan.rows), 0, db.scans)

Manifest(db, key) ==
  [db |-> db, case |-> db.case, schema |-> SCHEMA_REVISION, records |-> Records(db),
   audit |-> AuditAnchor(db), signer |-> key]
Sign(manifest, key) == IF key = None THEN None ELSE [by |-> key, of |-> manifest]
Bundle(manifest, key, db) ==
  [kind |-> "snapshot", manifest |-> manifest, signature |-> Sign(manifest, key), db |-> db]

(* Broken variant of Describe: what is said is said of the case by now. *)
DescribeLive(i) ==
  /\ At(i, {"export"}, "describe")
  /\ LET op == ops[i] IN
     Go(i, [op EXCEPT !.at = "publish",
                      !.copy = Bundle([Manifest(live, op.key) EXCEPT !.db = op.copy],
                                      op.key, op.copy)])

(* The copy is opened, verified and described, and put into the archive. *)
Describe(i) ==
  /\ At(i, {"export"}, "describe")
  /\ LET op == ops[i] IN
     Go(i, [op EXCEPT !.at = "publish", !.copy = Bundle(Manifest(op.copy, op.key), op.key, op.copy)])

(* Broken variant of Publish: persist, not persist_noclobber. *)
PublishOver(i) ==
  /\ At(i, {"export", "open"}, "publish")
  /\ LET op == ops[i] IN
     /\ files' = [files EXCEPT ![op.target].content = op.copy]
     /\ exported' = IF op.op = "export" THEN exported \cup {op.copy} ELSE exported
  /\ ops' = [ops EXCEPT ![i] = Idle]
  /\ UNCHANGED <<live, past, were, holder, begun>>

(* The name is only taken if it is still free. *)
Publish(i) ==
  /\ At(i, {"export", "open"}, "publish")
  /\ files[ops[i].target].content = None
  /\ LET op == ops[i] IN
     /\ files' = [files EXCEPT ![op.target].content = op.copy]
     /\ exported' = IF op.op = "export" THEN exported \cup {op.copy} ELSE exported
  /\ ops' = [ops EXCEPT ![i] = Idle]
  /\ UNCHANGED <<live, past, were, holder, begun>>

-----------------------------------------------------------------------------
(* The input may be rewritten while it is copied.  A copy with parts of two *)
(* is a file there never was.                                               *)
Lines(content) == content.kind = "jsonl"
Torn(a, b) ==
  CASE a = b -> a
    [] a # b /\ a # None /\ b # None /\ Lines(a) /\ Lines(b) ->
         [kind |-> "jsonl",
          lines |-> SubSeq(a.lines, 1, 1) \o SubSeq(b.lines, 2, Len(b.lines))]
    [] OTHER -> [kind |-> "torn"]

(* "input changed while creating its import snapshot".  A Python case is a  *)
(* database: SQLite's backup of it is of one moment.                        *)
CopyInput(i) ==
  /\ At(i, {"open", "verify", "import"}, "copy")
  /\ LET op == ops[i]
         now == files[op.source]
         Taken(content) == Go(i, [op EXCEPT !.at = "judge", !.half = None, !.copy = content])
     IN \/ now.modified = op.modified /\ Taken(Torn(op.half, now.content))
        \/ op.op = "import" /\ op.half.kind = "python" /\ Taken(op.half)

-----------------------------------------------------------------------------
(* prepare: the checks of a portable snapshot. *)

Verified(manifest, signature, key) == signature.of = manifest /\ signature.by = key

(* A signature needs the key to check it, and a key a signature. *)
Trusted(manifest, signature, key, signer) ==
  IF signature = None THEN key = None /\ signer = None
  ELSE key # None /\ Verified(manifest, signature, key) /\ signer = key

Acceptable(bundle, key) ==
  /\ bundle.kind = "snapshot"
  /\ bundle.manifest.schema \in 1..SCHEMA_REVISION
  /\ Trusted(bundle.manifest, bundle.signature, key, bundle.manifest.signer)
  /\ bundle.manifest.db = bundle.db
  /\ bundle.db.schema = bundle.manifest.schema
  /\ bundle.manifest.audit = AuditAnchor(bundle.db) /\ AuditAnchor(bundle.db) # << >>
  /\ bundle.manifest.case = bundle.db.case
  /\ bundle.manifest.records = Records(bundle.db)

(* An older case is migrated in the temporary copy: an audited one gets the *)
(* revision and the event of its migration, one of before the audits gets   *)
(* the anchor of its log (audit.rs: migrated, ensure_anchor).               *)
Migrated(db) ==
  LET audited == db.schema >= FirstAudited
      event == IF audited THEN "schema.migrate" ELSE "case.anchor"
  IN IF db.schema = SCHEMA_REVISION THEN db
     ELSE [db EXCEPT !.schema = SCHEMA_REVISION, !.revision = IF audited THEN @ + 1 ELSE @,
                     !.log = Append(@, event)]

Accept(i) ==
  /\ At(i, {"open", "verify"}, "judge")
  /\ Acceptable(ops[i].copy, ops[i].key)
  /\ Go(i, IF ops[i].op = "verify" THEN [ops[i] EXCEPT !.at = "accepted"]
           ELSE [ops[i] EXCEPT !.at = "publish", !.copy = Migrated(@.db), !.half = ops[i].copy])

-----------------------------------------------------------------------------
(* Imports. *)

(* legacy::convert: the status of the record of a Python row, "" if refused. *)
Converted(line) ==
  CASE line.digest = "" /\ line.errors -> "failed"
    [] line.digest = "sha256" -> IF line.errors THEN "partial" ELSE "complete"
    [] OTHER -> ""

(* The scans that an input has, and the filters.  Rows of lines are of one  *)
(* scan; a Python case has scans and filters of its own.                    *)
Sources(content) ==
  IF content.kind = "python" THEN content.scans
  ELSE <<[lines |-> content.lines, status |-> "completed"]>>
Filters(content) == IF content.kind = "python" THEN content.filters ELSE << >>

Hashes(lines) == SelectSeq([k \in DOMAIN lines |-> lines[k].digest], LAMBDA d : d # "blank")

(* import_python_bundle: the inventory is what the manifest says. *)
Importable(content, key) ==
  CASE content.kind \in {"jsonl", "python"} -> TRUE
    [] content.kind = "evidence" ->
         /\ Trusted(content.manifest, content.signature, key, key)
         /\ content.manifest.lines = content.lines
         /\ content.manifest.hashes = Hashes(content.lines)
    [] OTHER -> FALSE

(* What is done inside the transaction, in order: a scan for each that is   *)
(* in the input, its lines, its status; filters; the receipt of the import. *)
Step(do, scan, line) == [do |-> do, scan |-> scan, line |-> line]

BeginImport(i) ==
  /\ At(i, {"import"}, "judge")
  /\ Importable(ops[i].copy, ops[i].key)
  /\ holder = None /\ holder' = i
  /\ ops' = [ops EXCEPT ![i].at = "insert", ![i].todo = Step("scan", 1, 1), ![i].draft = live]
  /\ UNCHANGED <<live, past, files, were, exported, begun>>

Inserting(i, do) == At(i, {"import"}, "insert") /\ ops[i].todo.do = do
Inserted(i, db, next) == Go(i, [ops[i] EXCEPT !.todo = next, !.draft = db])

InsertScan(i) ==
  /\ Inserting(i, "scan")
  /\ LET op == ops[i] IN
     /\ op.todo.scan <= Len(Sources(op.copy))
     /\ Inserted(i, [op.draft EXCEPT !.scans = Append(@, [rows |-> << >>, status |-> "running"])],
                 Step("row", op.todo.scan, 1))

(* A line that does not convert, or is one too many, ends the import; so    *)
(* does a filter of a name that is taken.                                   *)
InsertRow(i) ==
  /\ Inserting(i, "row")
  /\ LET op == ops[i]
         lines == Sources(op.copy)[op.todo.scan].lines
         line == lines[op.todo.line]
         next == Step("row", op.todo.scan, op.todo.line + 1)
         scan == Len(op.draft.scans)
     IN /\ op.todo.line <= Len(lines)
        /\ \/ line.digest = "blank" /\ Inserted(i, op.draft, next)
           \/ /\ line.digest # "blank" /\ Converted(line) # ""
              /\ Records(op.draft) - Records(live) < MaxRecords
              /\ Inserted(i, [op.draft EXCEPT !.scans[scan].rows = Append(@, line)], next)

EndScan(i) ==
  /\ Inserting(i, "row")
  /\ LET op == ops[i]
         source == Sources(op.copy)[op.todo.scan]
         scan == Len(op.draft.scans)
     IN /\ op.todo.line > Len(source.lines)
        /\ Inserted(i, [op.draft EXCEPT !.scans[scan].status = source.status],
                    Step("scan", op.todo.scan + 1, 1))

ScansDone(i) == Inserting(i, "scan") /\ ops[i].todo.scan > Len(Sources(ops[i].copy))

InsertFilter(i) ==
  /\ ScansDone(i)
  /\ LET op == ops[i]
         filters == Filters(op.copy)
     IN /\ op.todo.line <= Len(filters)
        /\ filters[op.todo.line] \notin op.draft.filters
        /\ Inserted(i, [op.draft EXCEPT !.filters = @ \cup {filters[op.todo.line]}],
                    Step("scan", op.todo.scan, op.todo.line + 1))

InsertReceipt(i) ==
  /\ ScansDone(i)
  /\ LET op == ops[i] IN
     /\ op.todo.line > Len(Filters(op.copy))
     /\ Inserted(i, [op.draft EXCEPT !.receipts = Append(@, [of |-> op.copy, scans |-> Len(op.draft.scans)])],
                 Step("commit", op.todo.scan, op.todo.line))

CommitImport(i) ==
  /\ Inserting(i, "commit")
  /\ Committed(ops[i].draft)
  /\ holder' = None
  /\ ops' = [ops EXCEPT ![i] = Idle]
  /\ UNCHANGED <<files, were, exported, begun>>

-----------------------------------------------------------------------------
TransferStep(i) ==
  \/ \E t \in FilePaths, k \in Signers \cup {None} : Export(i, t, k) \/ VerifySnapshot(i, t, k)
  \/ \E s, t \in FilePaths, k \in Signers \cup {None} : OpenSnapshot(i, s, t, k)
  \/ \E s \in FilePaths, k \in Signers \cup {None} : Import(i, s, k)
  \/ Describe(i) \/ Publish(i) \/ CopyInput(i) \/ Accept(i)
  \/ BeginImport(i) \/ InsertScan(i) \/ InsertRow(i) \/ EndScan(i)
  \/ InsertFilter(i) \/ InsertReceipt(i) \/ CommitImport(i)
  \/ ops[i] # Idle /\ Abandon(i)

TransferNext ==
  \/ SaveFilter
  \/ \E p \in FilePaths : Repack(p) \/ \E content \in Inputs : Put(p, content)
  \/ \E i \in Actors : TransferStep(i)

TransferSpec == TransferInit /\ [][TransferNext]_transferVars

-----------------------------------------------------------------------------
(* What other programs write: snapshots of cases, not signed with the keys  *)
(* of this case, and lists of lines.                                        *)

Portable(d) ==
  /\ d \in [kind : {"case"}, case : {d.case}, schema : {d.schema}, revision : Nat,
            log : {d.log}, scans : {d.scans}, receipts : {d.receipts}, filters : {d.filters}]
  /\ d.schema < FirstAudited => d.log = << >>

Bundled(b) ==
  /\ b = [kind |-> "snapshot", manifest |-> b.manifest, signature |-> b.signature, db |-> b.db]
  /\ Portable(b.db)

Foreign(content) ==
  content.kind = "snapshot" =>
    Bundled(content) /\ (content.signature = None \/ content.signature.by \notin Signers)

Importables == {"jsonl", "evidence", "python"}

Listed(content) ==
  content.kind \in Importables =>
    /\ IsList(Sources(content)) /\ IsList(Filters(content))
    /\ \A source \in ToSet(Sources(content)) : IsList(source.lines)

TransferInputs ==
  /\ None \notin Signers \cup Actors
  /\ \A content \in Inputs : Foreign(content) /\ Listed(content)

-----------------------------------------------------------------------------
(* Who holds the transaction is importing, and the case is what was last    *)
(* committed.                                                               *)
TransferTypeOK ==
  /\ holder \in Actors \cup {None}
  /\ \A i \in Actors : holder = i <=> At(i, {"import"}, "insert")
  /\ live = Last(past) /\ live.revision = Len(past) - 1

(* A file that is there is never replaced: two operations may have found    *)
(* the same name free, and another program may have taken it since          *)
(* (bundle.rs:289).                                                         *)
NothingReplaced ==
  [][\A p \in FilePaths :
       files[p].content # None /\ files'[p] # files[p] =>
         files'[p].modified > files[p].modified]_transferVars

(* A snapshot is the case at one of its revisions, with the anchor, the     *)
(* count and the signature that belong to it, although the case is written  *)
(* to meanwhile; and it is accepted by whoever trusts its signer, and by    *)
(* nobody else (bundle.rs:49).                                              *)
SnapshotIsOneRevision ==
  \A bundle \in exported :
    LET key == bundle.manifest.signer IN
    /\ bundle.db = past[Len(bundle.manifest.audit)]
    /\ bundle.manifest.records = Records(past[Len(bundle.manifest.audit)])
    /\ \A k \in Signers \cup {None} : Acceptable(bundle, k) <=> k = key

(* What is opened of a snapshot: the same case; if it was of an older       *)
(* schema with its content and the history of its log kept, and the one     *)
(* event of its migration after it.                                         *)
OpenedAs(db, copy) ==
  /\ \A part \in {"kind", "case", "scans", "receipts", "filters"} : copy[part] = db[part]
  /\ copy.schema = SCHEMA_REVISION
  /\ IF db.schema = SCHEMA_REVISION THEN copy.revision = db.revision /\ copy.log = db.log
     ELSE /\ \E event \in {"case.anchor", "schema.migrate"} : copy.log = Append(db.log, event)
          /\ copy.revision = db.revision <=> db.schema < FirstAudited

(* What was accepted under a key was exported by its owner just as it is,   *)
(* and without a key nothing is accepted that claims to be signed           *)
(* (bundle.rs:205, docs/cases.md:123); what is opened is that snapshot, but *)
(* for its migration.                                                       *)
AcceptedIsExported ==
  \A i \in Actors :
    LET bundle == IF ops[i].op = "open" THEN ops[i].half ELSE ops[i].copy IN
    At(i, {"verify"}, "accepted") \/ At(i, {"open"}, "publish") =>
      /\ bundle.manifest.signer = ops[i].key
      /\ ops[i].key # None => bundle \in exported
      /\ bundle.signature = None <=> ops[i].key = None
      /\ bundle.db.revision = bundle.manifest.db.revision
      /\ ops[i].op = "open" => OpenedAs(bundle.db, ops[i].copy)

(* The scans that an input makes: of all its lines that are not blank. *)
Rows(lines) == Kept(lines, {k \in DOMAIN lines : lines[k].digest # "blank"})
Scans(content) ==
  [n \in DOMAIN Sources(content) |-> [rows |-> Rows(Sources(content)[n].lines),
                                      status |-> Sources(content)[n].status]]

(* How many scans there were before the import of the k-th receipt. *)
Before(case, k) == IF k = 1 THEN 0 ELSE case.receipts[k - 1].scans

(* The scans of the case are those of its imports, each of them whole, of   *)
(* an input that was one file at one moment, although the input may be      *)
(* rewritten while it is read and an import may end anywhere                *)
(* (transport.rs:106, import.rs:173, docs/cases.md:85).                     *)
ImportsWhole ==
  /\ Len(live.scans) = Before(live, Len(live.receipts) + 1)
  /\ \A k \in DOMAIN live.receipts :
       LET content == live.receipts[k].of
           from == Before(live, k)
       IN /\ content \in were
          /\ live.receipts[k].scans = from + Len(Scans(content))
          /\ \A n \in DOMAIN Scans(content) : live.scans[from + n] = Scans(content)[n]

(* What leaves the case and what comes into it is whole, of one moment, and *)
(* of the one who signed it.                                                *)
TransferSound == TransferTypeOK /\ SnapshotIsOneRevision /\ AcceptedIsExported /\ ImportsWhole
=============================================================================
