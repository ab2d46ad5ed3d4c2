# MetaXtract: specifications, model checks and proofs

TLA+ modules about MetaXtract - its scanning core, the case file, the analyses
and the desktop's scan queue -, the TLC configurations that check them and the
proofs that TLAPS checks. Paths are relative to `src/`.

## The system

MetaXtract walks an evidence directory, extracts metadata from every file with
native parsers, and keeps the results in a *case*, a single SQLite file. Rust
crates own all state; the C++ kernel only parses.

| part | state it keeps | operations | hard because |
|---|---|---|---|
| durable scan journal (`metaxtract-core/src/scan/checkpoint.rs`, `storage.rs`) | SQLite rows: runs (generation, status, discovery_done), tasks (id, state), results | `scan`, `resume`, and per invocation `pending`, `schedule`, `started`, `persist_batch`, `finish_discovery`, `dispatch(Finished)`, `fail_generation` | several processes; a crash between any two transactions; stale invocations |
| scan pipeline (`pipeline.rs`, `control.rs`, `memory.rs`) | producer, worker and coordinator threads, two bounded channels, a memory budget, the stop flag and the deadline | `run_pipeline` | blocking sends, waits for memory, a stop at any moment, errors on any thread |
| application scan (`metaxtract-app/src/scan.rs`) | the case scan's status, its receipts and records (in the case), the run (in the journal) | `run`: begin or resume, catch up, ingest, finish | two databases and no common transaction; overlapping calls |
| extraction worker (`scan/worker.rs`, `metaxtract-worker`) | child process, snapshot file, reply | `BundledWorker::extract` | deadlines, kill, partial replies |
| record cache (`scan/cache.rs`, `hash.rs`) | cached records by key, with size and access order | `get`, `put`, `CachedExtractor::extract` | eviction at two limits, files that change while read |
| evidence walker (`scan/walk.rs`) | stack of directories, visited identities, limits | `Walker::next` | symlinks, loops, limits |
| container recursion (`containers.rs`, native `budget.cpp`) | shared budgets of bytes, entries, depth | `extract_recursive` | budgets across nesting and across failures |
| claims (`images.rs`, `evidence.rs`, `backend_claims.rs`) | alternatives and issues of one pass | reconciliation of observations | alternatives that dispute each other, transforms that compose, companions of times |
| case workspace and audit (`metaxtract-storage` `lib.rs`, `audit.rs`, `signing.rs`) | tables, dirty-row triggers, hash chain of events | `write_detailed`, `append`, `verify_integrity` | chain, row commitments and data must agree after any mutation |
| queries (`query.rs`, `search.rs`, `history.rs`) and the record explorer (`metaxtract-gui/src/records.rs`) | a case revision in each cursor; the page, query and task on the screen | keyset pages, counts; load, next, back, apply, reset | a cursor or a load outlives a mutation |
| import, bundle, transport | snapshots, receipts | `export_snapshot`, `verify_snapshot`, `open_snapshot`, imports | inputs rewritten while read, partial failure, names taken meanwhile |
| analysis (`metaxtract-analysis`) | claims, their links and resolutions, in the record | normalise, reconcile, findings, timeline, diff, duplicates, redaction, tracks, reports | repeated on its own results; links between claims and observations; reads of a case that changes |
| desktop (`metaxtract-gui` `scan.rs`, `tasks.rs`, `sessions.rs`, `recovery.rs`) | queue, active scan, held flag, sessions | add, start, pause, poll, close, recover | background threads and window close |
| command line, views, packaging, conformance | - | - | thin or build-time |

Interaction: `app::scan::run` calls `ScanStore::scan` or `resume`, which calls
`run_pipeline`; its threads call back into the journal, its coordinator calls
`ScanStore::dispatch` and through it the application's `forward`, which writes
records and receipts to the case. The desktop runs `run` on a background
thread and the command line on its main one. Several processes may hold the
same journal and the same case open.

What makes each part correct:

* journal: one writer at a time; no task forgotten or done twice by a resume; a
  stored result is final; a run called completed owes nothing;
* pipeline: the memory budget is exact; a result is stored before it is shown;
  events of one file are shown in order; nothing is lost at the end; it
  completes if undisturbed, and returns in any case;
* application scan: records appended once; a completed case scan has the
  records of every task; a final scan stays final; a paused one can be resumed;
* extraction and cache: what is reported without an error is the content that was
  hashed, of this file, as it was discovered; the cache holds nothing else; a call
  ends, and leaves no child process behind;
* walker and containers: bounded, whatever the links and the nesting; what is
  left out is said; a name or a place in the tree leads back to its file;
* case and audit: a case that only the program wrote verifies, and one that
  verifies has the rows the program wrote;
* queries and their readers: pages that follow each other are one answer of one
  revision; what is published names the revision it holds at;
* snapshots and imports: whole, of one moment, and of the one who signed;
  no file of somebody else is replaced;
* claims and analyses: judged by value and evidence, once and for good; nothing
  that was observed is dropped in silence; answers do not depend on an order
  that means nothing; a redaction leaves no linked copy behind;
* desktop: a source is not lost while it waits; one scan at a time, in sight; no
  session directory goes unasked; closing ends.

`PROJECT.json` lists every component, with the hazards of the code and the
properties aimed at each. Two hazards have no property: `record_event` reads the
generation it then checks against (`scan/storage.rs:96`; the application does
not call it), and eviction goes by whole seconds of the wall clock
(`scan/cache.rs:119`; any order of equally old rows is modelled, and what is
evicted only costs time).

## Modules

| module | models | |
|---|---|---|
| `ScanLedger` | the promise of the journal to its readers | abstract |
| `ScanJournal` | `checkpoint.rs`, `storage.rs` | implements `ScanLedger` |
| `ScanPipeline` | `pipeline.rs`, `control.rs`, `memory.rs` | its steps are steps of a `ScanJournal` invocation |
| `AppScan` | `metaxtract-app/src/scan.rs` and the case operations it calls | extends `ScanJournal` |
| `RecordCache` | `scan/cache.rs`: the table and its transactions | used by `FileExtraction` |
| `FileExtraction` | `process` in `pipeline.rs`, `hash.rs`, `worker.rs`, the cache's extractor | extends `RecordCache`; the `Process` step of `ScanPipeline` in detail |
| `EvidenceWalk` | `scan/walk.rs` | |
| `ContainerTree` | `containers.rs`, `evidence.rs`, the native `budget.cpp`, and what the archive, OLE, email and PDF parsers do with members | the `Answer` step of `FileExtraction` in detail |
| `CaseAudit` | `metaxtract-storage` `lib.rs`, `schema.rs`, `audit.rs` | |
| `CasePages` | `query.rs`, `search.rs`: pages, cursors, counts | used by the next two |
| `CaseReading` | the command line's search and every operation that reads a case in many transactions (`metaxtract-app/lib.rs`, `analysis/export.rs`, ...) | |
| `RecordsView` | `metaxtract-gui` `records.rs`, `explorer_search.rs`, `search.rs` | |
| `CaseTransfer` | `bundle.rs`, `transport.rs`, `import.rs`, the trust decisions of `signing.rs` | |
| `DesktopQueue` | `metaxtract-gui` `scan.rs`, `application.rs`, `desktop.rs`, `recovery.rs`, `sessions.rs`, `ingestion.rs` | |
| `ImageClaims` | `images.rs` | extends `ClaimTimes` |
| `RecordAnalysis` | `analyze_record` of `metaxtract-app/src/scan.rs`, `normalize.rs`, `validation.rs`, `provenance.rs`, `findings.rs` | extends `ClaimValues`; gets the claims `ImageClaims` makes |
| `ClaimValues`, `ClaimTimes` | how two values relate (`validation.rs`); the two readers of written times (`images.rs`, `timestamp.rs`) | operators |
| `TimeReading` | both readers on the same text | extends `ClaimTimes` |
| `RedactionPreview` | `redaction.rs` | |
| `ScanComparison` | `diff.rs`, `relationships.rs`, `evolution.rs`, exact duplicates of `duplicates.rs` | extends `ClaimValues` |
| `ContentChunks` | fingerprints and near duplicates of `duplicates.rs` | |
| `GeoTracks` | `geo.rs` | extends `ClaimValues` |
| `CaseFile` | what the modules about a case agree on | constants |
| `ListParts` | lists, and what `Vec::retain` keeps of one | operators |
| `ScanProofs` | theorems on `ScanJournal` and `AppScan` | TLAPS |
| `ScanPipelineProofs`, `DesktopQueueProofs` | theorems on the module of that name | TLAPS |
| `CaseProofs` | theorems on `CaseAudit` and `CaseTransfer` | TLAPS |
| `FileExtractionProofs` | theorems on `FileExtraction`, `RecordCache` and `ContainerTree` | TLAPS |
| `WorkbenchProofs` | theorems on `CaseReading`, `RecordsView`, `RedactionPreview` and `EvidenceWalk` | TLAPS |
| `AnalysisProofs` | theorems on `TimeReading` and `RecordAnalysis` | TLAPS |
| `RecursionLemmas` | what a recursive function computes, by induction; used by the proofs about the desktop, transfers, readers, redaction, walk, tree and analysis | TLAPS |
| `MCScan`, `MCScanPipeline`, `MCAppScan`, `MCFileExtraction`, `MCDesktopQueue`, `MCWorkbench` (inputs in `MCAnalysisInputs`) | small instances | TLC |

`MCScan` runs the journal alone, or with the application on top (the variable
`client` says which). `MCWorkbench` is the instance of thirteen components that
share no state: a behaviour is one of them (the variable `part`), so that each
is checked by itself, exactly as it would be in an instance of its own. The
case, its readers, the explorer, the transfers, the redaction, the walk, the tree, the times
and the analysis of a record have
their own variables there, and the run checks the very definitions that the theorems are
about; the others are instances on the variables `s1` to `s11`, whose property is that of
their module while `part` names them. Each
component's invariants are also conjoined under one name that ends in `Sound`;
a counterexample shows in its last state which conjunct failed.

**ScanJournal.** One run. `generation`, `status` and `discoveryDone` are the
columns of `scan_runs`; `id` and `job` the rows of `scan_jobs`; `result` says
which generation's result row is stored. Everything indexed by an invocation is
memory of one call of `scan` or `resume`: where it is (`phase`), its
`RunJournal.generation` (`gen`), the producer's cursor, and the tasks that its
threads hold (`held`: scheduled and not started, `working`: started and not
stored). Each action is one SQLite transaction, with `check_generation` as the
guard `Current`; `ReadCheckpoint` and `Supersede` are separate because `resume`
reads the checkpoint first. `Crash` is possible everywhere, and files may
appear and vanish between two walks. What the threads do between transactions
is left open here: `Started` takes any held task, `Joined` any moment at which
the threads can have ended.

**ScanPipeline.** One invocation in detail, on a run that is new or was left
behind in any state a resume can find. `ppc`, `wpc` and `cpc` say what each
thread does next. A step ends where another thread can be noticed. The channels are
sequences with a capacity; a blocking `send` is an action that is not
enabled while the channel is full; `send_job`, which polls, also ends when the
control stops. `used` is `MemoryBudget.used`. `FollowsJournal` shows that every
step of a thread is a step that `ScanJournal` allows an invocation, with `reach`
as its phase, so what is proved of the journal rests on what the threads do.

**AppScan.** The calls of `app::scan::run` for one case scan, each with an
invocation of `ScanJournal` inside: a step is a transaction on the journal, a
transaction on the case, or both sides' local bookkeeping. The coordinator's
steps wait while `forward` ingests what it is being shown (`due`,
`ingesting`); the other threads go on. `overlapped` is a history variable: it
remembers whether a call ever began while another was under way, and
`MaxOverlapped` bounds how far such a scan is followed.

**FileExtraction and RecordCache.** One worker thread and one file, from its
discovery to its `ScannedFile`. `hash_capture` reads a block a step, twice if the
cache has no answer: for the hash, and for the copy the child gets. Somebody may
write to the file between any two steps, and its stamp may or may not show it.
The child, the thread that reads its output, and the polling loop are separate;
`stopped` stands for the file's deadline and for a stop of the scan, which a
checkpoint treats alike. `rows` is the table `scan_cache`; each transaction is a
step, so that other scans come between the two of `get`. What those scans put
(`OutsideStep`) is whole and true, which is what `CacheSound` shows of the thread
that is modelled: each scan relies on the others, and none breaks it first. A
content stands for its hash.

**EvidenceWalk.** `Walker::next` step by step: take an entry, look at it, open it,
descend. Each of the three is a call by path, and the tree may change between
any two (an entry is swapped for a link). `visited`, the counters and the
notices are the walker's; cap_std's containment of the root is taken as
documented.

**ContainerTree.** `extract_input` over a forest of members: the stack of pending
children, the queue's bytes, the budget that is handed to each native run and
what it used, the sticky `stop`, and the tree of records. A run of a parser that lists members
takes one at a time: it emits it (`ReadMember`), loses it (`LoseMember`), or meets a
*sealed* one that it can name but not open (`SkipSealed`), and may end at any of its limits, or as
malformed. An OLE file within an OLE file, and a message within a message, are read through by the
outer parser too (`Inside`), before they are members of their own. An archive that cannot skip the
data of an encrypted entry, and a PDF at an attachment it does not decode, end their listing there.

**CaseAudit.** One SQLite file: rows with the digests the triggers commit to, the
dirty keys, the log. A mutation is a transaction of statements; `AppendEvent`
writes events of at most `EventRows` rows; `Bump` raises the revision.
Writers of all processes take the write lock first (`BEGIN IMMEDIATE`), so that
one connection stands for all. `Damage` is a change from outside, and
`verify_integrity` is the operator `Verify`.

**CasePages, CaseReading, RecordsView.** A page is an operator of the case, the
query and the cursor: the n-th record of a query is the one with n - 1 others
before it in the order asked for. `CaseReading` has the operations that need many
pages or many queries while the case is written to; `history` (`revisions` in
`RecordsView`) remembers every revision, so that an answer can be compared with the
revision it names. Not every operation compares the revision: the comparison of the
command line is two `collect`s (`main.rs:108`), the baseline of a report one before the
report (`workflows.rs:175`), `search` prints a page and a total of two transactions
(`workflows.rs:122`), and the desktop reads facets after it has compared the revision of
the totals (`analysis.rs:117`). These are in `Plans` too; their parts are each of one
revision, which need not be the same. `RecordsView` is the
record explorer: an event of the user, the background task's three
transactions (page, count, revision), its callback, and `poll_records` are
steps that interleave.

**CaseTransfer.** Two operations at once on two paths; another program may create
or rewrite files, the case may be written to, an operation may end anywhere
(`Abandon`). The transaction of an import inserts a scan, a row, a filter or a receipt
a step (`InsertScan` to `InsertReceipt`) and is seen by nobody before
`CommitImport`. A hash or a signature is the value it was made of; snapshots can be repacked with
members of others. A commit is a revision and an event of the audit log, and the anchor of a case is
its log. Opening a snapshot of schema 6 adds the revision and the event of its migration
(`audit.rs`, `migrated`), one of an earlier schema gets the anchor of its log (`ensure_anchor`); both
are among the inputs.

**DesktopQueue.** One frame of `Desktop::update` is a round of stages; scan
threads, the one background operation and the settings file are state beside
it. The user clicks `MaxClicks` times, whatever the frame offers, also opening another
case while a scan runs (`left` marks the thread that he leaves) and continuing a queue in a
read-only case; a crash leaves the file and the directories. A source is owed to the user
(`owed`) while it waits: from the frame that persists it to its pop in `poll_scan` (`Queue`).

**ImageClaims, RecordAnalysis, RedactionPreview, ScanComparison, ContentChunks,
GeoTracks, TimeReading.** Each is one call, or a loop with its state: the pass
over the observations, the passes of the redaction until nothing is added, the
pairs of the clustering with its forest, the reads of a chunked file.
`RecordAnalysis` runs twice, as the code does, when a record is stored and again
when it is read (`JudgementSettles`, `DecisionsKept`). Their inputs are
enumerated, small, and built so that each branch is met.

Some modules also hold *broken variants* of definitions, marked as such
and used by no specification. Each is a mistake the code could contain; put in
place of the original, it makes TLC find one of the properties violated, which
shows that the property depends on that line of the code.

## Runs and bounds

| run | instance | shows | states |
|---|---|---|---|
| `scan` | 3 files, limit of 2 tasks, 2 invocations, 3 generations, pages of 1; bare, or as calls of the application, 2 generations with overlapping calls | `TypeOK` `OneWriter` `Owned` `CompletedMeansDone` `IdsStable` `ResultsImmutable` `DiscoveryCloses` `KeepsLedger` of the journal, `AppSound` `TrueAlone` `FinalIsFinal` of the application | 1 480 000 |
| `pipeline` | 2 files, 2 workers, channels of 1, memory for two files, pause, cancel and every kind of failure | `PipelineSound` `MemoryAccounted` `ShownInOrder` `FollowsJournal` | 2 150 000 |
| `pipeline_live` | memory for one file at a time, the deadline, a failing `started`, fair | `Returns` `Completes` | 850 000 |
| `extraction` | 3 contents, one longer than the limit, 4 contents that other scans extract, 2 writes, a cache of 2 rows and 6 bytes in which either limit may be the one that evicts and one result never fits, every fault, fair | `ExtractionSound` `CacheSound` `DiscoveredContent` `Ends` | 980 000 |
| `desktop` | 2 sources, 2 saved cases, 1 session, 2 scan threads, queue of 2, 5 clicks, crashes, fair | `DesktopSound` `SessionKept` `CloseEnds`, no deadlock | 1 399 000 |
| `workbench` | thirteen parts, see below | one `...Sound` for each (two for `RecordAnalysis`), `NothingReplaced` `DecisionsKept` | 2 392 000 |
| `pipeline_hang` | a sink that fails | violates `Returns` | |
| `app_noSession` | one call at a time | violates `PausedCanResume` | |
| `app_stalePause` | overlapping calls | violates `LiveScanRuns` | |
| `app_lostResult` | overlapping calls | violates `CompletedHasAll` | |
| `desktop_close` | as `desktop`, 4 clicks | violates `ClosesIdle` | |
| `records_reset` | the explorer of `workbench`, whose user presses Reset during a load | violates `AskedIsShown` | |

What the invariants that end in `Sound` are made of:

| | |
|---|---|
| `AppSound` | `RecordsOnce`: records are appended once, with a receipt, of tasks that are done |
| `TrueAlone` | `CompletedHasAll` and `LiveScanRuns` while calls do not overlap |
| `PipelineSound` | `StoredBeforeShown`, `NothingLost` |
| `ExtractionSound` | `ResultsTrue`: path and content are the file's own; `NothingLeftRunning` |
| `DesktopSound` | `WaitingKept`, over crashes; `ScanIsWatched` |
| `CaseSound` | `CleanVerifies`, `VerifiedIsTrue` |
| `TreeSound` | `TreeBounded`, `TreeOrdered`, `SilenceMeansWhole` |
| `ReadingSound` | `PagesAreOneAnswer`, `AnswersAtOneRevision` |
| `ViewSound` | `PageNumberTrue`, `AskedIsShown` |
| `TransferSound` | `SnapshotIsOneRevision`, `AcceptedIsExported`, `ImportsWhole` |
| `WalkSound` | `WalkBounded`, `WholeOrSaid`, `DirectoriesOnce`, `NamesLeadBack` |
| `RedactionSound` | `RedactsWhatIsLinked`, `MixedIsRefused`, `DerivativeHolds` |
| `ComparisonSound` | `CompareTrue`, `ClaimsMatched`, `GroupsAreStars`, `HistoryInOrder` |
| `ChunksSound` | `FingerprintTrue`, `NearTrue` |
| `TimesSound` | `CalendarCounts`, `NoInstantInferred`, `ReadingsAgree` |
| `ImageSound` | `OrientationsTrue`, `NothingPassedOver`, `DisputesMutual`, `DisplayTrue`, `InstantsGrounded` |
| `GeoSound` | `ClustersAreComponents`, `TracksPartition`, `TimesUnambiguous` |
| `JudgementSound` | `AcceptedUncontested`, `LinksGrounded`, `ConflictsWhole`, `JudgementSettles` |
| `ReadingsSound` | `NothingUnread`, `ReadWithItsOwn`, `FindingsWhole`, `TimelineTrue` |

and of the type invariant of the module where it has one. In `ScanComparison`,
`ContentChunks`, `GeoTracks` and `TimeReading` the invariants compare what
the code computes with a definition that does not follow its steps: the
components of nearness with the forest of parents, the partition of a content
with the loop over its reads.

Bounds. `MaxGeneration` caps how often a run is resumed: three generations have
an invocation superseded by one that is itself superseded. A third file with a
limit of two reaches the durable file limit. Pages and windows of one and two
make the loops over them go round more than once and end both empty and
short. Two workers and a budget with room for one reservation make them
wait for each other; channels of capacity one are the most likely to block.
`MaxNotices` caps the entries the walk skips. `Requests` and `Faults` say what may
go wrong in a run. Files, invocations and workers are interchangeable; symmetry
is used only where no liveness property is checked. Deadlock is checked
in `desktop` only: elsewhere a behaviour ends, with a scan that has returned, a
run at its last generation, a call that has answered.
In `extraction`, contents of two blocks make a reading that is overwritten halfway
a mixture of two; two writes let a file change and change back, or change in both
readings; `MaxBytes` has room for two short rows and not for a short and a long
one, so that a put evicts; a clock of two seconds makes rows of one second ties,
and can be set back.
In `desktop`, five clicks are enough to queue, switch, pause, save and close, and
two threads let a second scan start if anything lets it. In `workbench`: events
of two rows, so that three dirty rows are split; one change from outside and
two revisions after it; nested and flat trees of four members of all five kinds of containers, with
and without a sealed one, under twelve policies, of which all but one are narrow in one respect; two cases of three records, pages of two
and readers disturbed twice; in the explorer three pages of one, one change and three
events of the user; two actors, two paths and one key, with two
changes by others; three trees with links up, across and to nothing under nine
policies, one swap, and paths of up to four names (`MaxPath`), longer than any that is walked; for the analyses, what `MCAnalysisInputs` lists: up to three
records, four observations or two tags of each kind, chunks of two to four
bytes of files of five.

Fairness (`ScanPipeline!FairSpec`): each thread takes its next step if it stays
possible, which is what an operating system's scheduler gives a thread that is
not blocked, and what the condition variable's 25 ms timeout and the polling
of `send_job` give one that waits. Weak fairness per thread is enough: a blocking
send or receive that becomes possible stays so until that thread or one like it
takes it. No fairness is given to pause, cancel, the deadline or failures.
`FileExtraction!FairSpec` gives it to the worker thread, to the reader thread and
to the deadline, which passes because `ExecutionContext` compares a clock; nothing
is asked of the child, which may hang. Once killed, its end of the pipe is closed
and the reader sees the end (a child that passes its stdout on is not modelled).
`DesktopQueue!FairSpec`: the stages of a frame follow each other and frames go on
(egui draws again when it is asked to, and polls every 100 ms while work is
under way), a background operation ends, and so does a scan, paused or not; the
last two strongly, for they step between frames. The user owes nothing.

## What disagrees with the documentation

* `pipeline_hang`: when the sink (or `persist_batch`) fails, the coordinator
  leaves the scope closure while `events_rx` lives on in `run_pipeline`. A thread
  that waits to send on the full events channel waits for ever, and
  `thread::scope` with it: the error of docs/application.md:58 is not printed.
* `app_noSession`: the session receipt is written with the first event; a scan
  that ends before it is left `paused` and refuses to be resumed
  (docs/application.md:98).
* `app_stalePause`: a call that was superseded pauses the case scan that its
  successor is running (docs/architecture.md:98).
* `app_lostResult`: a result stored between the catch-up of a resume and its
  takeover of the journal is never ingested, and the scan completes
  (docs/application.md:22).
* `desktop_close`: the frame in which the window closes takes the next waiting
  source and starts its scan, which is cut off (docs/application.md:101).
* `records_reset`: Reset during a load is undone by the load's callback
  (docs/application.md:314).

### Observations

Met while modelling, and not stated by a run.

* Containers: the listing of an archive ends without a word at an encrypted entry whose data cannot
  be skipped (`archive.cpp:132`), and that of a PDF at the first attachment whose stream is external
  or not decoded (`pdf_structure.cpp:109`, `:132`): "unsupported" is no diagnostic
  (`evidence.rs:104`), so that the record of the container is `Unsupported`, or `Complete` if another
  parser ends well, and says nothing of the members after it, although docs/extraction.md:325 has failures of parsers remain visible.
  `SilenceMeansWhole` leaves those members out (`Certain`). The round that meets the end of an archive
  is charged as an entry (`archive.cpp:86`): an archive of just `max_entries` members is over the limit.
  A member of a nested OLE file or message is extracted once below each of the two (`ole.cpp:262`,
  `email.cpp:281`).
* Extraction: a file that changes between its hash and the child's copy is recorded
  as failed without the `unstable` flag of docs/architecture.md:97
  (`Captured`, worker.rs:113).
* Desktop: "Continue queue" in a case opened read-only pops every waiting source for a
  `start_scan` that returns. "Recent cases" and the open picker can switch cases while a
  scan runs, which then goes on unseen. Both are among the steps of the run:
  `WaitingKept` speaks of a source until its pop, `ScanIsWatched` of a scan until it
  is left. `pending.truncate(32)` drops the newest case's queue. A recovery that fails after `TemporarySession::restore`
  deletes the session; a crashed session with an empty queue is not offered
  again. A scan thread that cannot be spawned loses its source. So does a crash
  between the pop of a source (gui `scan.rs:278`) and its `begin_scan`: it is in no saved queue
  and in no scan of the case, although docs/application.md:102 says that waiting sources are restored.
  No property promises otherwise: a source that was popped is not owed.
* Explorer: the page, the total and the revision are read in three transactions;
  "Reset filters" ignores `busy`; the explorer's search does not lowercase
  the media type that "Apply filters" lowercases; facets of an earlier query stay.
* Analysis: `analyze_record` runs at ingest and again by each reader; merged
  support changes a claim's signature, so that a claim derived again is added
  beside it, undecided, also next to one the user rejected or chose
  (docs/analysis.md:36). A group with several latitudes or longitudes, or half a place, is
  left out without a diagnostic (`normalize.rs:374-385`); of several references none counts and
  the number keeps its sign; "W" and "E" are taken for a latitude too. A record with a NaN claim differs from itself; a relocated file is
  also listed as changed.
* Images and times: a valid HEIF mirror suppresses the displayed size; metadata
  tags of an unlinked HEIF item, but for five, are dropped without an issue;
  `images.rs` accepts an explicit offset beside a companion "-00:00", which
  `timestamp.rs` refuses; only `timestamp.rs` gives an instant to times of minutes.
* Redaction: `hide_paths` leaves the paths of containers unless
  `omit_unstructured_context` is set.
* Walk: `walk.limit` is said although exactly `max_files` files exist; an entry
  swapped for a link between listing and metadata is followed, within the root,
  although links are to be skipped.
* Transfer: `copy_case` copies the journal's main file only; a crash between the
  two publications leaves a journal without a case. Imported Python scans that
  were running stay `running` and have no session.
* Audit: a row deleted from outside and inserted again by the program is from
  then on the program's own.

## Proofs

What is proved holds for every value of the constants: any sets of files,
invocations, workers, cases and contents, any capacities, limits and numbers of
generations, writes, clicks or failures. Each module of proofs extends the module
it is about; its header says what the argument is.

| module | theorem | property of a run |
|---|---|---|
| `ScanProofs` | `TypeCorrect` `SingleWriter` `TasksOwned` `CompletionIsSound` `IdsAreStable` `ResultsAreImmutable` `DiscoveryIsClosed` `JournalKeepsLedger` | `TypeOK` `OneWriter` `Owned` `CompletedMeansDone` `IdsStable` `ResultsImmutable` `DiscoveryCloses` `KeepsLedger` |
| | `RunUsesJournal` | (with it, all of the above under the application) |
| | `RecordsAreSound` `SoloIsTrue` `FinalStays` | `AppSound` `TrueAlone` `FinalIsFinal` |
| `ScanPipelineProofs` | `PipelineTyped` | |
| | `MemoryIsAccounted` `EventsAreInOrder` `PipelineIsSound` | `MemoryAccounted` `ShownInOrder` `PipelineSound` |
| | `PipelineFollowsJournal` | `FollowsJournal` |
| `FileExtractionProofs` | `CacheIsSound` `ExtractionIsSound` `ContentIsDiscovered` | `CacheSound` `ExtractionSound` `DiscoveredContent` |
| | `TreeIsSound` | `TreeSound` |
| `DesktopQueueProofs` | `SessionsAreKept` | `SessionKept` |
| | `ScansAreWatched` `DesktopIsSound` `FewCasesAreSound` | `DesktopSound` |
| `CaseProofs` | `CaseIsSound` | `CaseSound` |
| | `SnapshotsAreWhole` `AcceptedWasExported` `ImportsAreWhole` `TransferIsSound` | `TransferSound` |
| | `FilesAreKept` | `NothingReplaced` |
| `WorkbenchProofs` | `ReadingIsSound` `ViewIsSound` `RedactionIsSound` | `ReadingSound` `ViewSound` `RedactionSound` |
| | `WalkIsSound` | `WalkSound` |
| `AnalysisProofs` | `TimesAreSound` `DecisionsAreKept` | `TimesSound` `DecisionsKept` |

**The journal.** `OneWriter` alone is not inductive: a step that raises the generation must
leave no other invocation with the new one, which is `Fenced` (no invocation has a
generation that the row has not reached). `Owned` needs `OneWriter`, because
another owner's steps would change the tasks, and `Unborn` for the first
invocation. That a completed run owes nothing needs `OwnerRuns` (the status is
the owner's while there is one) and `Progress`: the cursor of the pending loop
leaves no pending task behind, a walk finds none, and an owner that is past the
walk has closed discovery. `IInv` is their conjunction; TLC agrees with it on the
instance of `scan`. There is one lemma per conjunct, with a step per action;
`Exclusive` says once that what another invocation does leaves an owner's
view of the journal alone. The refinement maps `Schedule` to `Admit`,
`PersistBatch` to `Record`, `FinishDiscovery` to `Close`, `Finished` to `Complete`,
and everything that moves the status elsewhere to `Reopen`.

**The application.** `RunUsesJournal` is the refinement that makes the journal's
theorems ones about `run`: each of its steps is a step of the journal, or leaves it
alone. `Shared` holds however calls overlap: what is to be ingested is stored
(`DueDone`), and a task done stays done. `Solo` is what holds in addition until two
calls have overlapped: where the call is tells the scan's status, and the results
it has passed are in the case (`CaughtUp`). The runs that find `CompletedHasAll` and
`LiveScanRuns` violated by overlapping calls show that the distinction is real.

**The pipeline.** `TypeInv` is inductive only with the places the threads are at: a
page, a window or a task is read where it holds something. The memory in use is a sum over
the leases wherever they went (`MemoryInv`); a step moves, adds or ends one term.
For one file, the events channel, the coordinator's hands and what the sink has seen are one history
without gap or repetition (`Stages`), because the file is in one place at a time
(`Apart`) and each place says how much of the history its thread has sent. Nothing is
lost at the end because whoever ends, ends with empty hands (`EndInv`).
`JournalInv` has what the threads' steps need to be steps of an invocation: the phase
follows the producer, the walk meets a file once, ids are dense, and a result
on its way is not stored yet. In the
mapping (`Over`, `Phase`, `Result`) what the threads held is no longer the
invocation's once `Finished` is stored.

**Extraction and the cache.** Threads share the cache and nothing else, so that the
invariant is one about its rows and one about each thread and its child. The rows
rely on what other scans put being whole and true, which is what the theorem
shows of this one. `ContentIsDiscovered` is about files whose
writes all show in their stamps, which is all the code can compare.

**The tree of members.** What a parser is given is what the others have left (`Available`),
and each charge of the native budget keeps it within that (`Within`), so that the sum stays
within the limits of the file (`TreeRoom`). The members that were popped and those that are
pending make up one line: each has its container before it, at one level less
(`TreeBorn`), and none is in it twice below the same one (`TreeOnce`). What a parser yields is new,
because a listing goes forward, and only the first parser of a member yields any
of it (`EmittedAre`). Hence no two nodes have one path: equal paths have equal parents and
ordinals, by induction over the nodes (`PathsInjective`). As long as no stop was
noted, a node whose results say nothing has in the line all members that its container shows and
no sealed one may hide (`TreeWhole`): a parser that ended well has emitted them (`TreeBrood`, step by
step in `BroodOn`), and each was queued or refused (`Grown`). At the end the line is all nodes. The
theorem holds for forests of any shape and size, any limits and ratio, and whatever the parsers make
of a member.

**The case.** Backwards: the log, replayed, leaves `audit_state`, as an event takes
its previous digests from there (`Chained`). Forwards: `audit_state` is what the
program's own statements made of the rows, as the guard lets a statement touch a
row only while it is the audited one (`RowsTrue`). The verification compares the rows
with both.

**The desktop.** A background operation ends some frames after it was begun; what was
true when it was begun must hold still when its callback replaces the case (`TaskInv`,
`WatchInv`, `BegunInv`), and the frame that closes the window decides at its beginning and
acts at its end (`ClosingInv`). A source that waits is followed from the queue to
the settings and their file (`JustAdded`, `StillWaits`, `OwedInv`), until it is popped.
`ScansAreWatched` has no condition; an operation that leaves a scan was chosen while it ran,
and marks it (`WatchInv`). `DesktopIsSound` asks for `RoomLeft`:
`truncate(32)` drops the open case's queue when the settings are full of others, which is
listed above. `RoomLeft` is a hypothesis on the behaviour, and
`FewCasesAreSound` derives it for users with no more cases than entries. Quits,
crashes, failing saves and failing operations are in both.

**Snapshots and imports.** An export is pinned to a revision by the copy it begins
with; a signature is of one manifest, and a manifest of one database, so that a
snapshot under an own signature is the one that was exported (`Own`), whatever was
repacked. A current snapshot is opened as it is; an older one keeps its content and its log, and
the event of its migration comes after it (`OpenedAs`). That an import is whole is a second invariant, `ImportInv`: what has been
copied is in the file unless that was modified since (`Follows`), so that the copy is
of one content; the draft is the case with the first scans of that content and with the
lines of one more, up to the place the transaction has come to (`Drafted`), and the
receipts tell where the scans of one import end. A draft is of the present case, as
nobody commits while another transaction is open.

**Readers.** The records of a query are in a total order (`Order`), so that the n-th
of them exists (`Ranks`, `SortedIs`). A cursor names the case, the revision and the query
beside the record, so that a page goes on from it or is refused (`PageIs`), and what
has been read is always the beginning of one answer (`ReadUpTo`). What an operation has
been answered between its first look at the revision and a comparison with it
(`Surrounded`) is of the revision it noted for as long as the case is at it, and its
last comparison makes sure of that (`AnswersInv`); every answer, compared or not, is of one
revision, as the cursor names it (`AnswersOwn`). The anchor of a verified log is later than
that revision and no later than the present one, so that the comparison fixes it too
(`AnchorInv`).

**The explorer.** The way back from the page on the screen is the trail of the cursors
before it (`Trail`), each taken from the page before, of one query at one revision
(`Shows`). A task ends in another state of the screen than it began in: what its cursor
was taken from is still there, and its query differs from the one on the screen at most
in the order, and then the screen is loaded again (`Begun`). As the cursor names a revision
and a query, a page that is not refused goes on along the trail; only the way back to the
first page has no cursor, and it makes a new trail of a new revision (`NewTrail`).
`ViewIsSound` asks for a user who does not reset the filters during a load
(`"reset" \notin Hasty`): `records_reset` shows what happens otherwise.

**Redaction.** The promise is the least set of values that holds the selection and is closed
under links (`Closure`). What the passes have taken is in it, because each value
is linked to a selected one (`Grounded`); it holds the selection once the rules have
run (`RulesInv`), and after a pass that adds nothing all parts of a claim are taken alike or
none of them (`LinksInv`), so that it is closed. A refusal has met two actions on one part
(`Torn`).

**The walk.** An entry is looked at only while a file may still be opened, and lies as deep
as the listing it comes from, which is its place on the stack (`Places`); that gives the
bounds, however the tree changes. The rest is about a tree that stays what it is. A file
that nothing has been said of is ahead (`Ahead`): its path goes through a name that an open
listing has left, or through the entry that is looked at. When the walk ends nothing is ahead, so
silence means that everything was seen. What is listed was reached by no path that the policy
leaves out (`Clean`), and by one path only (`Once`): the directories whose paths are in use have
been visited, and the next one has not, or it would have been seen. The theorem holds for trees with
any links and cycles, for paths up to any length, and for any number of swaps.

**Times.** The number of a day is the sum of the months before it (`MonthsAddUp`) and of the years,
with their leap days (`LeapDays`), so that the day after has the next number through the ends of
months, years and centuries (`NextDay`, against a calendar that is counted on the fingers). What
either reader says is one of few values (`ImageValues`, `ParsedValues`), with an instant only of an
offset that is stated (`ImageOffsetSays`, `ParsedOffsetSays`), and where both state one it is
the same (`OffsetsAgree`).

**Decisions.** What an analysis finds is added behind the claims that are there (`AddedAllIs`), the
judgement keeps number, key, value and what a person decided (`JudgedIs`), and sorting by
number loses no claim (`ByIdIs`). That the record stays one (`RecordOK`) needs that what is derived
from observations is a list of claims (`DerivedIs`): each observation and each group make at
most one. Whether a claim is still judged truly after all that (`JudgementSound`) is only checked.

**Induction.** The library's induction theorems take an operator, which the provers
do not instantiate. `RecursionLemmas` states it with sets instead: a set with 0
and successors has every number (`NaturalSets`), because of the finite intervals that
end outside of it none can be smallest; `UpTo` is the same up to a bound, and
`Recursion` gives a recursion its function. This is what the lemmas about `Kept`
(`Vec::retain`), `MoveUp`, `Widths`, `PageNumber`, `Enqueued`, `Paths`, `DaysBefore` and
`AddedAll` rest on; all are
recursive functions for that reason.

Assumed of the constants: `JournalAssumption`, `AppAssumption`, `CacheAssumption`,
`ExtractionAssumption`, `PipelineAssumption`, `AuditAssumption`, `DesktopAssumption`,
`ReadingAssumption`, `ViewAssumption`, `WalkAssumption` and `TreeAssumption`; and
`TransferAssumption`, `RedactionAssumption`, `TimeAssumption` and `RecordAssumption` as hypotheses
of the theorems on `CaseTransfer`, `RedactionPreview`, `TimeReading` and `RecordAnalysis`. They say that limits are numbers, and positive where the code's
constants are, that rows and queries have their types, that marks such as `NoFile` or
`None` are no value, and

* `PipelineAssumption`: there are finitely many files and workers, and the memory
  has room for one reservation and a buffer for each worker, which
  `ScanOptions::validate` checks;
* `AuditAssumption`: a case has finitely many rows;
* `DesktopAssumption`: a saved case is no session;
* `WalkAssumption`: a file is no directory, a name of an entry is not empty, and a root that
  is a single file is its name in its directory, as `ScanRoot::open` makes it;
* `TreeAssumption`: a file is its first member, the others come after the container they are
  in, and the limits have room for one node, which `extract_input` checks
  (`containers.rs:286`);
* `TransferAssumption`: a snapshot of another program is not signed with a key of this
  case, it has no audit log if it is of a schema from before the audits, and a signature is not `None` (the inputs of `workbench` are of that kind);
* `RedactionAssumption`: records are what `check_record` accepts, and a mask is not what
  it replaces;
* `TimeAssumption`: the digits of a time make naturals, an offset that can be read is of less than a
  day (`offset_minutes`), a date has no fraction of a second, and at most one other tag says
  an offset;
* `RecordAssumption`: the observations and claims of a record are lists, and a claim has the fields of one.

TLC evaluates them in the runs whose modules extend theirs, and those of the four hypotheses that
are about inputs in `MCWorkbench`.

Only model-checked:

* liveness, which is out of the prover's reach: `Returns` `Completes` `Ends`
  `CloseEnds`;
* what the folds and loops of the analyses compute: `ComparisonSound` `ChunksSound` `ImageSound`
  `GeoSound` `JudgementSound` `ReadingsSound`.
  An algorithm over data is compared with its reference on all the inputs of the run;
  the provers have no induction over such data.

## Left out

In `ScanPipeline` the whole of `process` is one step, bounded by its own deadline;
`FileExtraction` has what happens inside, without the analysis of the content,
which is done by the child. The extractor that parses in the scanning process
(`NativeExtractor`) is not modelled. Sizes of records and the byte limit of a batch,
summary counters, notices in the journal and the layout of rows are abstracted.
SQLite is taken to give serialisable transactions that survive a crash. The
public `record_event`, which the application does not call, is not modelled.

`CaseAudit` takes digests to identify what they are made of, and has no read-only
connections. `CasePages` has two predicates for all that a query can ask; the
compiler of search expressions to SQL is a conversion, and the three-valued
logic of its negations is not modelled. `ContainerTree` leaves out a parser whose
capability is missing, failing allocations and native values that are invalid; of what the native
parsers charge it has one header line a part, one sector chain a stream and no page (`Rounds`); formats whose
parsers list nothing are two; a file that two listing parsers read, the preview parsers, and
directories and links of an archive, which have no payload, are left out.
`EvidenceWalk` takes the metadata of an entry and its errors as one step.
`RecordAnalysis` has one name for the synonyms of a tag, and leaves out
the scan of lossy text and the status of a report.

## Not modelled

* `typed codec`, `schema`: encoding, types and pragmas; no control of their own.
* `detection.rs`: a table of byte signatures; its answers are the parsers of a member.
* `backend_claims.rs`: a table from tags to keys, one claim for each observation.
* `reporting.rs`, and the formats of exports: text and layout. That the report reads
  the case at one revision, but for its baseline, is `AnswersAtOneRevision`.
* The remaining views (`inspectors.rs`, maps, timelines, settings): they draw the
  answer of one operation. The command line, but for `search` (pages and total), `compare` and
  `report --baseline`, which are plans of `CaseReading`: arguments and one call of the application layer.
* Native parsers: binary formats are out of TLC's reach; their budget is in
  `ContainerTree`.
* Key storage and encryption in `signing.rs`; conformance and packaging scripts.

## Plan

1. Done: all modules above; the proofs listed under Proofs.
2. Proofs left: what single analyses compute, as far as their loops are recursive functions.
3. Model left: an abstract append-only log that `CaseAudit` implements; a case
   under `AppScan` that is the one of `CaseAudit`.
