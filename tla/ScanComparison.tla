--------------------------- MODULE ScanComparison ---------------------------
(***************************************************************************)
(* What the analysis says of several records at once: the difference of    *)
(* two scans (analysis/diff.rs), the files of one content (duplicates.rs), *)
(* what files have in common (relationships.rs), and one path through its  *)
(* scans (evolution.rs).  Each is asked a question, and answers or refuses *)
(* it; the properties relate the answers to what was asked about, to each  *)
(* other, and to the answer to the same question asked the other way round.*)
(*                                                                         *)
(* A record has a path, a size, at most one digest of each algorithm, its  *)
(* claims, and a rest that is compared field by field.  Paths and the ids  *)
(* of scans are numbers, which stand for their order as text.              *)
(***************************************************************************)
EXTENDS ClaimValues, FiniteSets, SequencesExt

CONSTANT Questions

VARIABLES
  question,  \* what an analysis was called with, and which one
  answer     \* what it returned

Unanswered == [unanswered |-> TRUE]
Refused == [refused |-> TRUE]
Answered == answer # Unanswered

Null == Text(Unset)
Nothing == [nothing |-> TRUE]
Short == "short"   \* a digest that has not 32 bytes

Paths(records) == {r.path : r \in ToSet(records)}
At(records, path) == CHOOSE r \in ToSet(records) : r.path = path
Unique(records) == Cardinality(Paths(records)) = Len(records)
Has(r, algorithm) == algorithm \in DOMAIN r.digests

-----------------------------------------------------------------------------
(* compare_records *)

KeysOf(r) == {c.key : c \in ToSet(r.claims)}
ClaimsOf(r, key) == LET Of(c) == c.key = key IN SelectSeq(r.claims, Of)

(* Fields are compared but for the claims, which are compared by their key. *)
FieldChanges(a, b) == {f \in {"path", "size", "digests", "rest"} : a[f] # b[f]}

(* A value that is not a number differs from itself. *)
Unlike(xs, ys) == xs # ys \/ \E i \in DOMAIN xs : xs[i].value.kind = "nan"

(* The first claim that is not taken and means the same is taken. *)
MatchClaim(state, first, ys) ==
  LET fits == {i \in DOMAIN ys \ state.taken : relation(first.value, ys[i].value) = "equivalent"}
      found == IF fits = {} THEN {} ELSE {CHOOSE i \in fits : \A j \in fits : i <= j}
      looked == IF found = {} THEN Len(ys) ELSE CHOOSE i \in found : TRUE
  IN  [taken |-> state.taken \cup found, equal |-> state.equal /\ found # {},
       comparisons |-> state.comparisons + looked]

Matched(xs, ys) ==
  LET Take(state, first) == MatchClaim(state, first, ys)
  IN  FoldLeft(Take, [taken |-> {}, equal |-> Len(xs) = Len(ys), comparisons |-> 0], xs)

ChangedKeys(a, b) ==
  {key \in KeysOf(a) \cup KeysOf(b) : Unlike(ClaimsOf(a, key), ClaimsOf(b, key))}

ClaimChange(a, b, key) ==
  [key |-> key, before |-> ClaimsOf(a, key), after |-> ClaimsOf(b, key),
   semantically_equal |-> Matched(ClaimsOf(a, key), ClaimsOf(b, key)).equal]

Comparisons(a, b) ==
  FoldFunctionOnSet(+, 0,
    [key \in ChangedKeys(a, b) |-> Matched(ClaimsOf(a, key), ClaimsOf(b, key)).comparisons],
    ChangedKeys(a, b))

compare_records(a, b, budget) ==
  IF Comparisons(a, b) > budget THEN Refused
  ELSE [before_path |-> a.path, after_path |-> b.path,
        content_changed |->
          IF ~Has(a, "sha256") \/ ~Has(b, "sha256") THEN "unknown"
          ELSE IF a.digests["sha256"] # b.digests["sha256"] \/ a.size # b.size THEN "yes" ELSE "no",
        fields |-> FieldChanges(a, b),
        claims |-> {ClaimChange(a, b, key) : key \in ChangedKeys(a, b)}]

Differs(d) == d.fields # {} \/ d.claims # {}

-----------------------------------------------------------------------------
(* compare_scans *)

Digested(r) == Has(r, "sha256") /\ r.digests["sha256"] # Short
Content(r) == <<r.digests["sha256"], r.size>>
Holders(records, content) == {r \in records : Digested(r) /\ Content(r) = content}

(* Broken variant of Moved: the first of several new paths is taken. *)
MovedToFirst(removed, added) ==
  {<<a, b>> \in removed \X added :
     /\ Digested(a) /\ Holders(removed, Content(a)) = {a}
     /\ b \in Holders(added, Content(a))
     /\ \A c \in Holders(added, Content(a)) : b.path <= c.path}

(* A content that left one path and arrived at one path has moved. *)
Moved(removed, added) ==
  {<<a, b>> \in removed \X added :
     Digested(a) /\ Holders(removed, Content(a)) = {a} /\ Holders(added, Content(a)) = {b}}

compare_scans(before, after, budget) ==
  LET both == Paths(before) \cap Paths(after)
      removed == {r \in ToSet(before) : r.path \notin both}
      added == {r \in ToSet(after) : r.path \notin both}
      moved == Moved(removed, added)
      diffs == {compare_records(At(before, path), At(after, path), budget) : path \in both}
                 \cup {compare_records(m[1], m[2], budget) : m \in moved}
  IN  IF ~Unique(before) \/ ~Unique(after) \/ Refused \in diffs THEN Refused
      ELSE [added |-> {r.path : r \in added \ {m[2] : m \in moved}},
            removed |-> {r.path : r \in removed \ {m[1] : m \in moved}},
            changed |-> {d \in diffs : Differs(d)},
            relocations |-> {[before |-> m[1].path, after |-> m[2].path,
                              sha256 |-> m[1].digests["sha256"]] : m \in moved}]

CompareScans ==
  /\ ~Answered /\ question.kind = "scans"
  /\ answer' = compare_scans(question.before, question.after, question.budget)
  /\ UNCHANGED question

-----------------------------------------------------------------------------
(* exact: files of one content; build: stars of files with one thing in common. *)

DigestsIn(records) ==
  UNION {{<<algorithm, r.digests[algorithm]>> : algorithm \in DOMAIN r.digests}
         : r \in ToSet(records)}
With(records, digest) ==
  {r \in ToSet(records) : Has(r, digest[1]) /\ r.digests[digest[1]] = digest[2]}

(* A digest that is too short, or that two sizes have, is refused. *)
exact(records) ==
  IF \/ ~Unique(records)
     \/ \E d \in DigestsIn(records) : d[2] = Short
     \/ \E d \in DigestsIn(records) : Cardinality({r.size : r \in With(records, d)}) > 1
    THEN {Refused}
  ELSE {[digest |-> d, paths |-> {r.path : r \in With(records, d)}]
        : d \in {x \in DigestsIn(records) : Cardinality(With(records, x)) > 1}}

Related(c) == c.resolution # "rejected" /\ c.value # Null

(* What files have in common: contents, sizes included, and claims. *)
Bases(r) ==
  {[digest |-> <<algorithm, r.digests[algorithm]>>, size |-> r.size] : algorithm \in DOMAIN r.digests}
    \cup {[key |-> c.key, value |-> c.value] : c \in {x \in ToSet(r.claims) : Related(x)}}
AllBases(records) == UNION {Bases(r) : r \in ToSet(records)}
Members(records, basis) == {r.path : r \in {x \in ToSet(records) : basis \in Bases(x)}}

(* The first of the members by path is joined to each of the others. *)
Star(members, basis) ==
  LET first == CHOOSE i \in members : \A j \in members : i <= j
  IN  {[first |-> first, second |-> j, basis |-> basis] : j \in members \ {first}}

build(records) ==
  IF ~Unique(records) \/ \E d \in DigestsIn(records) : d[2] = Short THEN {Refused}
  ELSE UNION {Star(Members(records, basis), basis) : basis \in AllBases(records)}

Relate ==
  /\ ~Answered /\ question.kind = "groups"
  /\ answer' = [exact |-> exact(question.records), edges |-> build(question.records)]
  /\ UNCHANGED question

-----------------------------------------------------------------------------
(* history: a path through the scans, by when they started and by their id. *)

Earlier(snapshots, i, j) ==
  \/ snapshots[i].started_ms < snapshots[j].started_ms
  \/ /\ snapshots[i].started_ms = snapshots[j].started_ms
     /\ snapshots[i].scan_id < snapshots[j].scan_id

InOrder(snapshots) ==
  LET Before(i, j) == Earlier(snapshots, i, j)
      order == SetToSortSeq(DOMAIN snapshots, Before)
  IN  [i \in DOMAIN snapshots |-> snapshots[order[i]]]

Present(s) == s.record # Nothing
Presence(a, b) ==
  CASE Present(a) /\ Present(b) -> "Both"
    [] ~Present(a) /\ Present(b) -> "MissingBefore"
    [] Present(a) /\ ~Present(b) -> "MissingAfter"
    [] OTHER -> "MissingBoth"

(* The comparisons of a record are shared out among the transitions. *)
Transition(a, b, budget) ==
  [presence |-> Presence(a, b),
   changes |-> IF Presence(a, b) = "Both" THEN compare_records(a.record, b.record, budget) ELSE Nothing]

history(path, snapshots, budget) ==
  IF \/ Len(snapshots) < 2
     \/ Cardinality({s.scan_id : s \in ToSet(snapshots)}) < Len(snapshots)
     \/ \E s \in ToSet(snapshots) : Present(s) /\ s.record.path # path
    THEN Refused
  ELSE LET scans == InOrder(snapshots)
           steps == [i \in 1 .. Len(scans) - 1 |->
                       Transition(scans[i], scans[i + 1], budget \div (Len(scans) - 1))]
       IN  IF \E i \in DOMAIN steps : steps[i].changes = Refused THEN Refused
           ELSE [scans |-> [i \in DOMAIN scans |->
                              [scan_id |-> scans[i].scan_id, started_ms |-> scans[i].started_ms,
                               present |-> Present(scans[i])]],
                 transitions |-> steps]

History ==
  /\ ~Answered /\ question.kind = "history"
  /\ answer' = history(question.path, question.snapshots, question.budget)
  /\ UNCHANGED question

ComparisonInit == question \in Questions /\ answer = Unanswered
ComparisonNext == CompareScans \/ Relate \/ History

-----------------------------------------------------------------------------
Asked(kind) == Answered /\ question.kind = kind /\ answer # Refused

Mirrored(d) ==
  [added |-> d.removed, removed |-> d.added,
   changed |-> {<<c.after_path, c.before_path, c.content_changed, c.fields>> : c \in d.changed},
   relocations |-> {[before |-> r.after, after |-> r.before, sha256 |-> r.sha256] : r \in d.relocations}]
Straight(d) ==
  [d EXCEPT !.changed = {<<c.before_path, c.after_path, c.content_changed, c.fields>> : c \in d.changed}]

(* Two records say the same: the claims of the one are those of the other, *)
(* and those of one key come in the same order.                            *)
Same(a, b) ==
  /\ [a EXCEPT !.claims = << >>] = [b EXCEPT !.claims = << >>]
  /\ Len(a.claims) = Len(b.claims)
  /\ \E to \in [DOMAIN a.claims -> DOMAIN b.claims] :
       /\ \A i \in DOMAIN to : a.claims[i] = b.claims[to[i]]
       /\ \A i, j \in DOMAIN to : i < j => to[i] # to[j] /\ (a.claims[i].key = a.claims[j].key => to[i] < to[j])

(* The difference of two scans leads from the one to the other: each path  *)
(* that came or went is told once, a file is told to have changed exactly  *)
(* if its record says something else than before, or something that is not *)
(* equal to itself, and the difference the other way round is its mirror   *)
(* image (diff.rs:108).                                                    *)
CompareTrue ==
  Asked("scans") =>
    LET was == Paths(question.before)
        is == Paths(question.after)
        from == {r.before : r \in answer.relocations}
        to == {r.after : r \in answer.relocations}
    IN  /\ answer.removed \cap from = {} /\ answer.removed \cup from = was \ is
        /\ answer.added \cap to = {} /\ answer.added \cup to = is \ was
        /\ Cardinality(from) = Cardinality(to) /\ Cardinality(to) = Cardinality(answer.relocations)
        /\ \A path \in was \cap is :
             (\E c \in answer.changed : c.before_path = path)
               <=> \/ ~Same(At(question.before, path), At(question.after, path))
                   \/ \E c \in ToSet(At(question.after, path).claims) : c.value.kind = "nan"
        /\ LET back == compare_scans(question.after, question.before, question.budget)
           IN  back # Refused => Mirrored(back) = Straight(answer)

(* Claims that are said to mean the same can be paired off so that each    *)
(* means the same as its partner, and such claims are said to.             *)
ClaimsMatched ==
  Asked("scans") =>
    \A c \in UNION {d.claims : d \in answer.changed} :
      c.semantically_equal
        <=> /\ Len(c.before) = Len(c.after)
            /\ \E pair \in [DOMAIN c.before -> DOMAIN c.after] :
                 /\ \A i, j \in DOMAIN pair : i # j => pair[i] # pair[j]
                 /\ \A i \in DOMAIN pair :
                      relation(c.before[i].value, c.after[pair[i]].value) = "equivalent"

(* The files of one content are those joined by the edges of that content, *)
(* with one edge less than files, and nothing else joins two files by it.  *)
GroupsAreStars ==
  Asked("groups") /\ answer.edges # {Refused} =>
    /\ \A basis \in AllBases(question.records) :
         LET edges == {e \in answer.edges : e.basis = basis}
             files == {e.first : e \in edges} \cup {e.second : e \in edges}
             members == Members(question.records, basis)
         IN  /\ files = IF Cardinality(members) > 1 THEN members ELSE {}
             /\ Cardinality(edges) = Cardinality(members) - 1
    /\ answer.exact # {Refused} =>
         answer.exact =
           {[digest |-> e.basis.digest,
             paths |-> {e.first} \cup {x.second : x \in {y \in answer.edges : y.basis = e.basis}}]
            : e \in {x \in answer.edges : "digest" \in DOMAIN x.basis}}

(* A history is the same in whatever order its scans are given, and what   *)
(* changed on the way from the first to the last is in one of its steps.   *)
HistoryInOrder ==
  Asked("history") =>
    /\ \A order \in [DOMAIN question.snapshots -> DOMAIN question.snapshots] :
         (\A i, j \in DOMAIN order : order[i] = order[j] => i = j) =>
           history(question.path, [i \in DOMAIN order |-> question.snapshots[order[i]]], question.budget)
             = answer
    /\ LET scans == InOrder(question.snapshots)
           steps == answer.transitions
       IN  /\ \A i \in DOMAIN steps :
                steps[i].presence = "Both" <=> answer.scans[i].present /\ answer.scans[i + 1].present
           /\ (\A i \in DOMAIN steps : steps[i].presence = "Both" /\ ~Differs(steps[i].changes))
                => \A i, j \in DOMAIN scans : Same(scans[i].record, scans[j].record)

(* The answers about several records are true of them, in whatever order    *)
(* they come.                                                               *)
ComparisonSound == CompareTrue /\ ClaimsMatched /\ GroupsAreStars /\ HistoryInOrder
=============================================================================
