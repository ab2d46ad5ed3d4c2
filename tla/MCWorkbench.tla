----------------------------- MODULE MCWorkbench -----------------------------
(***************************************************************************)
(* One TLC run for the case file and for the components around it that     *)
(* share no state with each other: a behaviour is one of CaseAudit, of     *)
(* CaseReading, of CaseTransfer, of RecordsView, of ContainerTree, of      *)
(* EvidenceWalk, or of an analysis.  The variable part says which.         *)
(* What the proofs are about, that is all but some analyses, has its own   *)
(* variables, which stay as they are in the other parts; those analyses    *)
(* share s1 to s11, of which each uses the first.                          *)
(***************************************************************************)
EXTENDS CaseAudit, CaseReading, CaseTransfer, RecordsView, RedactionPreview, EvidenceWalk,
        ContainerTree, TimeReading, RecordAnalysis, TLC

CONSTANTS r1, r2, p, q, k1

MCKeys == {Info, r1, r2}
MCValues == {p, q}
Symmetric == Permutations({r1, r2}) \cup Permutations(MCValues)

VARIABLES part, s1, s2, s3, s4, s5, s6, s7, s8, s9, s10, s11

CaseParked == Init /\ db = Created(p, SCHEMA_REVISION)
RedactionParked ==
  /\ stage = "" /\ at = 1 /\ observations = << >> /\ keys = << >>
  /\ record = Nothing /\ profile = Nothing /\ changed = FALSE /\ comparisons = 0 /\ preview = Nothing
TimeParked == text = Nothing /\ companion = Nothing /\ image = NotRead /\ parsed = NotRead
RecordParked ==
  /\ analysed = [observations |-> << >>, claims |-> << >>, conflicts |-> {}, diagnostics |-> {}]
  /\ limits = Nothing /\ analysisStage = "images" /\ runs = 0 /\ grounds = {} /\ judged = NotAsked
  /\ findings = NotAsked /\ timeEvents = NotAsked
Unused11 == s11 = None
Unused3 ==
  /\ s3 = None /\ s4 = None /\ s5 = None /\ s6 = None /\ s7 = None /\ s8 = None
  /\ s9 = None /\ s10 = None /\ Unused11
Unused == s1 = None /\ s2 = None /\ Unused3

-----------------------------------------------------------------------------
(* ContainerTree: a root with three members, flat or nested: archives, an   *)
(* OLE file in an OLE file, a message in a message, and a PDF in an archive *)
(* (or the other way round).                                                *)
MCForests ==
  [parent : {<<0, 1, 1, 1>>}, size : {<<2, 1, 2, 1>>},
   format : {<<"zip", "image", "plain", "plain">>}, sealed : {{3}}]
  \cup
  [parent : {<<0, 1, 2, 1>>}, size : {<<2, 1, 1, 1>>},
   format : {<<"ole", "ole", "plain", "plain">>, <<"packed", "pdf", "plain", "plain">>},
   sealed : {{}, {3}}]
  \cup
  [parent : {<<0, 1, 2, 1>>}, size : {<<2, 1, 1, 1>>},
   format : {<<"pdf", "zip", "plain", "plain">>}, sealed : {{3}}]
  \cup
  [parent : {<<0, 1, 2, 2>>}, size : {<<2, 1, 1, 1>>},
   format : {<<"email", "email", "plain", "plain">>}, sealed : {{}}]

(* Wide enough, or narrow in one respect. *)
Wide == [depth |-> 3, nodes |-> 8, member |-> 4, parserMember |-> 4, total |-> 12, ratio |-> 0,
         limits |-> [r \in {"read", "alloc", "decoded", "entries", "observations"} |-> 200]]
MCPolicies ==
  {Wide, [Wide EXCEPT !.depth = 1], [Wide EXCEPT !.nodes = 3], [Wide EXCEPT !.member = 1],
   [Wide EXCEPT !.parserMember = 1],
   [Wide EXCEPT !.total = 3], [Wide EXCEPT !.ratio = 3],
   [Wide EXCEPT !.limits["alloc"] = 50], [Wide EXCEPT !.limits["decoded"] = 7],
   [Wide EXCEPT !.limits["entries"] = 2], [Wide EXCEPT !.limits["observations"] = 3],
   [Wide EXCEPT !.limits["read"] = 4]}

TreeParked ==
  /\ file = [parent |-> <<0, 1, 1, 1>>, size |-> <<2, 1, 2, 1>>, sealed |-> {3},
             format |-> <<"zip", "image", "plain", "plain">>]
  /\ policy = Wide
  /\ source = "file" /\ late = FALSE /\ place = "failed"
  /\ pendingWork = << >> /\ current = Nobody /\ todo = << >> /\ run = NoRun /\ results = << >>
  /\ usage = Zero /\ queued = 0 /\ stop = Nobody /\ nodes = << >>

-----------------------------------------------------------------------------
(* CaseReading: two cases of three records each, of which a page holds two, *)
(* or one if it is wide; alike records, and ones that differ.               *)

Row(path, mime, noted, width) == [path |-> path, mime |-> mime, noted |-> noted, width |-> width]
Asking(mime, noted, order) == [mime |-> mime, noted |-> noted, order |-> order]

MCInserts == {Row(1, 1, TRUE, 1)}
MCBeginnings ==
  {<<Row(2, 1, TRUE, 1), Row(1, 2, TRUE, 2), Row(1, 2, FALSE, 1)>>}
MCQueries ==
  {Asking(None, FALSE, "insertion"), Asking(None, FALSE, "pathDescending"),
   Asking(1, TRUE, "path"), Asking(1, FALSE, "mimePath")}

MCCases == {1, 2}

-----------------------------------------------------------------------------
(* RecordsView: the same records, one on a page. *)
MCFirstRows == {<<Row(2, 1, TRUE, 1), Row(1, 2, TRUE, 1), Row(1, 1, FALSE, 1)>>}
MCMimes == {None, 1}

-----------------------------------------------------------------------------
(* CaseTransfer: two operations at once on two paths, one signing key.  The *)
(* inputs: lines that convert, are blank, partial or refused; two snapshots *)
(* of older schemas; a bundle of evidence; a Python case of two scans.      *)

Good == [digest |-> "sha256", errors |-> FALSE]
Bad == [digest |-> "sha256", errors |-> TRUE]
Blank == [digest |-> "blank", errors |-> FALSE]
Failed == [digest |-> "", errors |-> TRUE]

OlderCase(of, logged) ==
  [kind |-> "case", case |-> "old", schema |-> of, revision |-> 3, log |-> logged,
   scans |-> << >>, receipts |-> << >>, filters |-> {}]
OlderSnapshot(of) ==
  [kind |-> "snapshot", signature |-> None, db |-> of,
   manifest |-> [db |-> of, case |-> "old", schema |-> of.schema, records |-> 0,
                 audit |-> AuditAnchor(of), signer |-> None]]
Evidenced == [lines |-> <<Good, Bad>>, hashes |-> <<"sha256", "sha256">>]

MCInputs ==
  {[kind |-> "jsonl", lines |-> <<Good, Blank, Bad>>],
   [kind |-> "jsonl", lines |-> <<Failed, Good>>],
   OlderSnapshot(OlderCase(5, << >>)), OlderSnapshot(OlderCase(6, <<"case.anchor", "commit">>)),
   [kind |-> "evidence", manifest |-> Evidenced, lines |-> Evidenced.lines,
    signature |-> [by |-> k1, of |-> Evidenced]],
   [kind |-> "python", filters |-> <<"f">>,
    scans |-> <<[lines |-> <<Good>>, status |-> "failed"],
                [lines |-> <<Bad>>, status |-> "running"]>>]}

MCActors == {r1, r2}
MCSigners == {k1}

(* What is written by others is what the proofs are of. *)
ASSUME TransferIsOf == TransferInputs

-----------------------------------------------------------------------------
(* EvidenceWalk: three trees with aliases, cycles, hidden and odd names; an *)
(* entry may be swapped for a link to the root or for a file.               *)

a == <<"a">>
raw == <<"raw">>
coded == <<"code", "raw">>
hidden == <<".">>

MCTrees ==
  {"R" :> (a :> Node("D") @@ raw :> Node("F") @@ coded :> Node("G"))
     @@ "D" :> (hidden :> Node("F") @@ a :> Link("R") @@ raw :> Link("F")),
   "R" :> (a :> Node("D") @@ hidden :> Link("D") @@ raw :> Node("E"))
     @@ "D" :> (a :> Node("F"))
     @@ "E" :> (a :> Link("D")),
   "R" :> (a :> Node("D")) @@ "D" :> (a :> Node("E"))
     @@ "E" :> (a :> Node("special") @@ raw :> Link(Absent) @@ coded :> Node("F"))}

AllOf == [follow |-> TRUE, include_hidden |-> TRUE, max_depth |-> 3, max_files |-> 4,
          max_entries |-> 9, max_directories |-> 4, excluded |-> Absent, selected |-> Absent]
MCOptions ==
  {AllOf, [AllOf EXCEPT !.follow = FALSE], [AllOf EXCEPT !.include_hidden = FALSE],
   [AllOf EXCEPT !.max_depth = 1], [AllOf EXCEPT !.max_files = 1],
   [AllOf EXCEPT !.max_entries = 3], [AllOf EXCEPT !.max_directories = 2],
   [AllOf EXCEPT !.excluded = <<a>>], [AllOf EXCEPT !.selected = <<raw>>]}

MCReplacements == {Link("R"), Node("G")}
MCFiles == {"F", "G"}

WalkParked ==
  /\ tree = << >> /\ swaps = 0 /\ options = AllOf /\ stack = << >> /\ entry = NoEntry
  /\ visited = {} /\ entries = 0 /\ opened = 0 /\ directories = 1 /\ done = FALSE
  /\ yielded = {} /\ notices = {}

-----------------------------------------------------------------------------
(* The analyses: each is one call, or a loop, on the inputs of their module. *)

Of == INSTANCE MCAnalysisInputs

MCOriginals == Of!MCOriginals
MCProfiles == Of!MCProfiles

ASSUME RedactionInputs == RedactionAssumption

Comparison == INSTANCE ScanComparison WITH question <- s1, answer <- s2, Questions <- Of!MCQuestions

(* The answers about several records are true of them, in whatever order they *)
(* come.                                                                    *)
ComparisonSound == part = "compare" => Comparison!ComparisonSound

Chunks == INSTANCE ContentChunks WITH
            files <- s1, request <- s2, stage <- s3, rest <- s4, total <- s5, chunk <- s6,
            length <- s7, rolling <- s8, chunks <- s9, prints <- s10, matches <- s11,
            Selections <- Of!MCSelections, Requests <- Of!MCChunkRequests,
            MinChunk <- 2, MaxChunk <- 4

(* Fingerprints, and what is concluded from them, are of the content alone. *)
ChunksSound == part = "chunks" => Chunks!ChunksSound

MCTexts == Of!MCTexts
MCCompanions == Of!MCCompanions

ASSUME TimeInputs == TimeAssumption

Image == INSTANCE ImageClaims WITH
           observations <- s1, limits <- s2, stage <- s3, at <- s4, raw_claims <- s5, issues <- s6,
           transforms <- s7, invalid_main_orientation <- s8, display_dimensions <- s9,
           claims <- s10, conflicts <- s11,
           Images <- Of!MCImages, Limits <- Of!MCImageLimits

(* The claims on an image rest on what was observed, pass nothing over,     *)
(* dispute what disagrees, and show the image the right way round.          *)
ImageSound == part = "image" => Image!ImageSound

Geo == INSTANCE GeoTracks WITH
         case <- s1, setting <- s2, stage <- s3, samples <- s4, issues <- s5, parent <- s6,
         pair <- s7, comparisons <- s8, clusters <- s9, tracks <- s10,
         Cases <- Of!MCCases, Settings <- Of!MCSettings

(* Points are clustered and strung into tracks by their places and their own *)
(* times.                                                                   *)
GeoSound == part = "geo" => Geo!GeoSound

MCRecords == Of!MCRecords
MCRecordLimits == Of!MCRecordLimits

ASSUME RecordInputs == RecordAssumption

-----------------------------------------------------------------------------
last3 == <<s3, s4, s5, s6, s7, s8, s9, s10, s11>>
others == <<s1, s2, last3>>
parked == <<caseVars, readingVars, viewVars, transferVars, vars, walkVars, treeVars, timeVars, recordVars>>

Parked == CaseParked /\ ReadingInit /\ ViewInit /\ TransferInit

OneParked == TimeParked /\ RecordParked
AllParked == RedactionParked /\ WalkParked /\ TreeParked /\ OneParked

Start ==
  \/ part = "case" /\ Init /\ ReadingInit /\ ViewInit /\ TransferInit /\ AllParked /\ Unused
  \/ part = "redaction" /\ Parked /\ RedactionInit /\ WalkParked /\ TreeParked /\ OneParked /\ Unused
  \/ part = "walk" /\ Parked /\ RedactionParked /\ WalkInit /\ TreeParked /\ OneParked /\ Unused
  \/ part = "tree" /\ Parked /\ RedactionParked /\ WalkParked /\ TreeInit /\ OneParked /\ Unused
  \/ part = "times" /\ Parked /\ RedactionParked /\ WalkParked /\ TreeParked /\ TimeInit /\ RecordParked /\ Unused
  \/ part = "record" /\ Parked /\ RedactionParked /\ WalkParked /\ TreeParked /\ TimeParked /\ RecordInit /\ Unused
  \/ /\ Parked /\ AllParked
     /\ \/ part = "reading" /\ Unused
        \/ part = "records" /\ Unused
        \/ part = "transfer" /\ Unused
        \/ part = "compare" /\ Comparison!ComparisonInit /\ Unused3
        \/ part = "chunks" /\ Chunks!ChunksInit
        \/ part = "image" /\ Image!ImageInit
        \/ part = "geo" /\ Geo!GeoInit /\ Unused11

Steps ==
  \/ /\ part = "case" /\ CaseStep
     /\ UNCHANGED <<readingVars, viewVars, transferVars, vars, walkVars, treeVars, timeVars, recordVars, others>>
  \/ /\ part = "reading" /\ ReadingNext
     /\ UNCHANGED <<caseVars, viewVars, transferVars, vars, walkVars, treeVars, timeVars, recordVars, others>>
  \/ /\ part = "records" /\ ViewNext
     /\ UNCHANGED <<caseVars, readingVars, transferVars, vars, walkVars, treeVars, timeVars, recordVars, others>>
  \/ /\ part = "transfer" /\ TransferNext
     /\ UNCHANGED <<caseVars, readingVars, viewVars, vars, walkVars, treeVars, timeVars, recordVars, others>>
  \/ /\ part = "redaction" /\ RedactionNext
     /\ UNCHANGED <<caseVars, readingVars, viewVars, transferVars, walkVars, treeVars, timeVars, recordVars, others>>
  \/ /\ part = "walk" /\ WalkNext
     /\ UNCHANGED <<caseVars, readingVars, viewVars, transferVars, vars, treeVars, timeVars, recordVars, others>>
  \/ /\ part = "tree" /\ TreeNext
     /\ UNCHANGED <<caseVars, readingVars, viewVars, transferVars, vars, walkVars, timeVars, recordVars, others>>
  \/ /\ part = "times" /\ TimeNext
     /\ UNCHANGED <<caseVars, readingVars, viewVars, transferVars, vars, walkVars, treeVars, recordVars, others>>
  \/ /\ part = "record" /\ RecordNext
     /\ UNCHANGED <<caseVars, readingVars, viewVars, transferVars, vars, walkVars, treeVars, timeVars, others>>
  \/ part = "compare" /\ Comparison!ComparisonNext /\ UNCHANGED <<parked, last3>>
  \/ part = "chunks" /\ Chunks!ChunksNext /\ UNCHANGED parked
  \/ part = "image" /\ Image!ImageNext /\ UNCHANGED parked
  \/ part = "geo" /\ Geo!GeoNext /\ UNCHANGED <<parked, s11>>

Workbench == Start /\ [][Steps /\ UNCHANGED part]_<<part, parked, others>>
=============================================================================
