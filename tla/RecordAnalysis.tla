--------------------------- MODULE RecordAnalysis ---------------------------
(***************************************************************************)
(* What becomes of a record before it is stored and again whenever it is   *)
(* read (analyze_record of app/scan.rs): the claims of its image are       *)
(* merged in, observations are normalised to claims, the type of a package *)
(* is settled, and the claims are judged against each other.  Then what is *)
(* made of an analysed record: its lineage and timeline, and its findings. *)
(*                                                                         *)
(* The claims of an image, its issues, or that its analysis was cut short  *)
(* are what ImageClaims makes of it, given with the record.                *)
(* An observation has one of the names that mean the same; an angle is in  *)
(* seconds of arc, a clock (a FILETIME, a legacy mtime) in seconds since   *)
(* 1970.  Diagnostics and findings are sets: their order says nothing.     *)
(***************************************************************************)
EXTENDS ClaimValues, SequencesExt, FiniteSetsExt, TLC

CONSTANTS
  Extracts,     \* records as extracted
  RecordLimits, \* fields and comparisons of one analysis
  MaxRuns       \* analyses of one record: on ingest, and when it is read

VARIABLES
  analysed,      \* a record: observations, claims, conflicts, diagnostics, media types and times
  limits,
  analysisStage, \* "images", "normalize", "media", "reconcile", "done" or "refused"
  runs,          \* analyses that ended
  grounds,       \* which observation was first linked to which value of which key
  judged,        \* the judgements after the first analysis
  findings, timeEvents

recordVars == <<analysed, limits, analysisStage, runs, grounds, judged, findings, timeEvents>>

NotAsked == [asked |-> FALSE]
AnalysisRefused == [asked |-> TRUE, refused |-> TRUE]
Result(is) == [asked |-> TRUE, refused |-> FALSE, is |-> is]

Times == INSTANCE ClaimTimes

Observed == analysed.observations
Observation(id) == CHOOSE o \in ToSet(Observed) : o.id = id
Live(c) == c.resolution # "rejected"
Signature(c) == <<c.key, c.value, c.support>>
Links(c) == {[key |-> c.key, value |-> c.value, id |-> id, side |-> "for"] : id \in c.support}
              \cup {[key |-> c.key, value |-> c.value, id |-> id, side |-> "against"] : id \in c.against}
LinksOf(claims) == UNION {Links(c) : c \in ToSet(claims)}

Claim(key, value, support) ==
  [id |-> 0, key |-> key, value |-> value, support |-> support, against |-> {},
   agreement |-> "single", resolution |-> "unresolved"]

(* A record as it is extracted, or as it was stored: its lists are lists, *)
(* and its claims and those of its image are claims.                      *)
ClaimOK(c) ==
  c \in [id : Nat, key : {c.key}, value : {c.value}, support : {c.support}, against : {c.against},
         agreement : {c.agreement}, resolution : {c.resolution}]
RecordOK(r) ==
  /\ r \in [observations : {r.observations}, claims : {r.claims}, conflicts : {r.conflicts}, image : {r.image},
            diagnostics : {r.diagnostics}, declared : {r.declared}, media : {r.media}, times : {r.times}]
  /\ \A list \in {r.observations, r.claims, r.image.claims} : list \in Seq(ToSet(list))
  /\ \A c \in ToSet(r.claims) \cup ToSet(r.image.claims) : ClaimOK(c)
RecordAssumption == \A r \in Extracts : RecordOK(r)

RecordInit ==
  /\ analysed \in Extracts /\ limits \in RecordLimits
  /\ analysisStage = "images" /\ runs = 0 /\ grounds = LinksOf(analysed.claims) /\ judged = NotAsked
  /\ findings = NotAsked /\ timeEvents = NotAsked

(* A claim that is not there yet gets the next number. *)
Added(claims, c) ==
  IF \E old \in ToSet(claims) : Signature(old) = Signature(c) THEN claims
  ELSE Append(claims, [c EXCEPT !.id = Max({old.id : old \in ToSet(claims)} \cup {0}) + 1])
AddedAll(claims, more) ==
  LET f[n \in 0 .. Len(more)] == IF n = 0 THEN claims ELSE Added(f[n - 1], more[n])
  IN  f[Len(more)]

-----------------------------------------------------------------------------
(* The links of a record are whole, and its fields within the budget. *)
Checked ==
  LET ids == {o.id : o \in ToSet(Observed)}
  IN  /\ Len(Observed) + Len(analysed.claims) <= limits.fields
      /\ Cardinality(ids) = Len(Observed)
      /\ Cardinality({c.id : c \in ToSet(analysed.claims)}) = Len(analysed.claims)
      /\ \A c \in ToSet(analysed.claims) : c.support \cup c.against \subseteq ids

(* On ingest the record is kept with a diagnostic, as far as the analysis *)
(* came; a reader drops its copy.                                         *)
CutShort ==
  /\ runs' = runs + 1
  /\ IF runs = 0
       THEN analysisStage' = "done" /\ analysed' = [analysed EXCEPT !.diagnostics = @ \cup {<<"limit", {}>>}]
       ELSE analysisStage' = "refused" /\ UNCHANGED analysed
  /\ UNCHANGED <<limits, grounds, judged, findings, timeEvents>>

-----------------------------------------------------------------------------
(* analyze_record: the claims of the image, or its error *)

(* The conflicts of the image, in the numbers its claims have in the record. *)
Renumbered(conflict, claims) ==
  LET IdOf(c) == claims[Max({i \in DOMAIN claims : Signature(claims[i]) = Signature(c)})].id
  IN  [conflict EXCEPT !.alternatives =
         {IdOf(c) : c \in {x \in ToSet(analysed.image.claims) : x.id \in conflict.alternatives}}]

MergeImage ==
  /\ analysisStage = "images"
  /\ IF analysed.image.cut THEN CutShort
     ELSE /\ analysisStage' = "normalize"
          /\ LET claims == AddedAll(analysed.claims, analysed.image.claims)
             IN  analysed' = [analysed EXCEPT !.claims = claims,
                              !.conflicts = @ \cup {Renumbered(c, claims) : c \in analysed.image.conflicts},
                              !.diagnostics = @ \cup analysed.image.issues]
          /\ grounds' = grounds \cup LinksOf(analysed.image.claims)
          /\ UNCHANGED <<limits, runs, judged, findings, timeEvents>>

-----------------------------------------------------------------------------
(* normalize *)

TimeRoles == "created" :> "created" @@ "created_filetime" :> "created" @@ "timestamp" :> "modified"
  @@ "mtime" :> "mtime" @@ "datetime_original" :> "captured" @@ "datetime_digitized" :> "digitized"
Identities == {"author", "software", "device_serial", "title"}
Durations == "duration_ms" :> 1000 @@ "duration_us" :> 1
GpsNames == {"latitude", "longitude", "latitude_ref", "longitude_ref", "altitude", "altitude_ref"}

(* The one observation of a group that has a name, if there is one. *)
Only(group, name) ==
  LET found == {o \in ToSet(Observed) : o.group = group /\ o.name = name}
  IN  IF Cardinality(found) = 1 THEN found ELSE {}

OffsetName(role) ==
  CASE role = "captured" -> "offset_time_original"
    [] role = "digitized" -> "offset_time_digitized"
    [] OTHER -> "offset_time"
(* Broken variant of Companion: the offset of any time of the group will do. *)
CompanionOfAny(o) ==
  {x.value.zone : x \in {y \in ToSet(Observed) : y.group = o.group /\ y.value.kind = "zone"}}
Companion(o) ==
  {x.value.zone : x \in {y \in Only(o.group, OffsetName(TimeRoles[o.name])) : y.value.kind = "zone"}}

Width(precision) == IF precision = "minute" THEN 60 ELSE 1
TimeValue(v) ==
  LET at == IF v.instant = {} THEN Unset ELSE Max({60 * i.minute + i.second : i \in v.instant})
  IN  Time(at, Width(v.precision), <<{v.original}, v.offset>>)

Clocks == {"created_filetime", "mtime"}
TimesOf(o) ==
  IF o.name \in Clocks
    THEN IF o.value.kind = "number" THEN {Time(o.value.number, 1, <<{}, {o.value.number}>>)} ELSE {}
  ELSE IF o.value.kind = "time"
    THEN {TimeValue(v) : v \in Times!parse_timestamp(o.value.time, Companion(o))} ELSE {}

Key(o, field) == <<o.group.scope, field>>
RoleKey(o) == Key(o, IF o.name = "mtime" THEN "filesystem.modified" ELSE "metadata." \o TimeRoles[o.name])

(* The claim that an observation makes alone. *)
Made(o) ==
  CASE o.name \in DOMAIN TimeRoles -> {Claim(RoleKey(o), v, {o.id}) : v \in TimesOf(o)}
    [] o.name \in Identities /\ o.value.kind = "text" ->
         {Claim(Key(o, "metadata." \o o.name), Text(o.value.text), {o.id})}
    [] o.name \in DOMAIN Durations /\ o.value.kind = "number" ->
         {Claim(Key(o, "media.duration"), Number("duration", n), {o.id})
            : n \in {o.value.number * Durations[o.name]} \cap Nat}
    [] OTHER -> {}

(* A coordinate is a number of degrees, or of degrees, minutes and seconds. *)
Angle(value) ==
  CASE value.kind = "number" -> {3600 * value.number}
    [] value.kind = "angles" ->
         {3600 * a[1] + 60 * a[2] + a[3] : a \in {x \in {value.angles} :
            Len(x) = 3 /\ x[1] >= 0 /\ x[2] \in 0 .. 59 /\ x[3] \in 0 .. 59}}
    [] OTHER -> {}
Magnitude(n) == IF n < 0 THEN -n ELSE n
Numbers(os) == {o.value.number : o \in {x \in os : x.value.kind = "number"}}
Coordinate(o, references) ==
  IF references = {} THEN Angle(o.value)
  ELSE LET said == {r.value.text : r \in {x \in references : x.value.kind = "text"}}
       IN  CASE said \cap {"S", "W"} # {} -> {-Magnitude(a) : a \in Angle(o.value)}
             [] said \cap {"N", "E"} # {} -> {Magnitude(a) : a \in Angle(o.value)}
             [] OTHER -> {}

HasPlace(group) == Only(group, "latitude") # {} /\ Only(group, "longitude") # {}
Located(group) ==
  LET N(name) == Only(group, name)
      Along(name) == UNION {Coordinate(o, N(name \o "_ref")) : o \in N(name)}
      heights == {IF 1 \in Numbers(N("altitude_ref")) THEN -Magnitude(n) ELSE n : n \in Numbers(N("altitude"))}
      altitude == IF heights = {} THEN Unset ELSE Max(heights)
      places == {p \in Along("latitude") \X Along("longitude") :
                   Magnitude(p[1]) <= 90 * 3600 /\ Magnitude(p[2]) <= 180 * 3600}
  IN  {Claim(<<group.scope, "location.gps">>, Point(p, altitude, Unset),
             {o.id : o \in UNION {N(name) : name \in GpsNames}}) : p \in places}
Places == {g \in {o.group : o \in ToSet(Observed)} : HasPlace(g)}
InOrder(groups) == SetToSortSeq(groups, LAMBDA g, h : g.n < h.n)

DerivedClaims ==
  FlattenSeq([i \in DOMAIN Observed |-> SetToSeq(Made(Observed[i]))]
               \o [i \in 1 .. Cardinality(Places) |-> SetToSeq(Located(InOrder(Places)[i]))])

UnreadTimes == {o \in ToSet(Observed) : o.name \in DOMAIN TimeRoles /\ TimesOf(o) = {}}
UnreadPlaces == {g \in Places : Located(g) = {}}
Issues ==
  {<<"lossy", {o.id}>> : o \in {x \in ToSet(Observed) : ~x.lossless}}
    \cup {<<"time", {o.id}>> : o \in UnreadTimes}
    \cup {<<"place", {o.id}>> : o \in UNION {Only(g, "latitude") : g \in UnreadPlaces}}

Normalize ==
  /\ analysisStage = "normalize"
  /\ IF ~Checked \/ Len(Observed) > limits.comparisons THEN CutShort
     ELSE /\ analysisStage' = "media"
          /\ analysed' = [analysed EXCEPT !.claims = AddedAll(@, DerivedClaims), !.diagnostics = @ \cup Issues]
          /\ grounds' = grounds \cup LinksOf(DerivedClaims)
          /\ UNCHANGED <<limits, runs, judged, findings, timeEvents>>

-----------------------------------------------------------------------------
(* package_media_type: one main part that the parser validated, named and *)
(* typed in one scope.                                                    *)

PackageTexts(name) ==
  {o \in ToSet(Observed) : o.group.parser = "package" /\ o.name = name /\ o.value.kind = "text" /\ o.lossless}
Validated == {o.value.text : o \in PackageTexts("validated_main_part")}
PartNames(group) == {o.value.text : o \in {x \in PackageTexts("PartName") : x.group = group}}
Subtypes ==
  {o.value.text : o \in {x \in PackageTexts("ContentType") :
                           x.value.text \in Validated /\ PartNames(x.group) = {x.value.text}}}

PackageType ==
  /\ analysisStage = "media" /\ analysisStage' = "reconcile"
  /\ analysed' = IF analysed.media = "zip" /\ Cardinality(Subtypes) = 1
                 THEN [analysed EXCEPT !.media = CHOOSE t \in Subtypes : TRUE,
                                     !.diagnostics = @ \ {<<"subtype", {}>>}]
                 ELSE analysed
  /\ UNCHANGED <<limits, runs, grounds, judged, findings, timeEvents>>

-----------------------------------------------------------------------------
(* validation::reconcile *)

(* Broken variant of Of: a claim is compared with the others only. *)
RelatingOthers(c, verdict) ==
  {d \in ToSet(analysed.claims) : d.key = c.key /\ d.id # c.id /\ Live(d) /\ relation(c.value, d.value) = verdict}
Relating(c, verdict) ==
  {d \in ToSet(analysed.claims) : d.key = c.key /\ Live(d) /\ relation(c.value, d.value) = verdict}
SupportsOf(claims) == UNION {d.support : d \in claims}
Families(ids) == {Observation(id).group.family : id \in ids}

SupportOf(c) == SupportsOf(Relating(c, "equivalent"))
AgainstOf(c) == SupportsOf(Relating(c, "contradictory")) \cup c.against

Contested(c) == AgainstOf(c) # {} \/ Relating(c, "contradictory") # {}

Agreement(c) ==
  IF Contested(c) THEN "disputed"
  ELSE IF Cardinality(Families(SupportOf(c))) >= 2 THEN "corroborated" ELSE "single"
(* Broken variant of Resolution: what a person chose is judged again. *)
ResolutionAfresh(c) ==
  IF ~Contested(c) /\ Relating(c, "indeterminate") = {} /\ SupportOf(c) # {} THEN "accepted" ELSE "unresolved"
Resolution(c) ==
  IF c.resolution = "user" THEN "user"
  ELSE IF ~Contested(c) /\ Relating(c, "indeterminate") = {} /\ SupportOf(c) # {} THEN "accepted"
  ELSE "unresolved"

Judged(c) ==
  IF ~Live(c) THEN c
  ELSE [c EXCEPT !.support = SupportOf(c), !.against = AgainstOf(c),
                 !.agreement = Agreement(c), !.resolution = Resolution(c)]

Comparisons ==
  Cardinality({ij \in (DOMAIN analysed.claims) \X (DOMAIN analysed.claims) :
                 Live(analysed.claims[ij[1]]) /\ analysed.claims[ij[1]].key = analysed.claims[ij[2]].key})

(* The claims of a key that are contradicted by one another. *)
Disputed(key) == {c \in ToSet(analysed.claims) : c.key = key /\ Live(c) /\ Relating(c, "contradictory") # {}}
Conflicts ==
  {[key |-> key, alternatives |-> {c.id : c \in Disputed(key)}]
     : key \in {c.key : c \in {x \in ToSet(analysed.claims) : Disputed(x.key) # {}}}}

(* Claims by their numbers; those of one number stay in their order. *)
Below(claims, i) ==
  {j \in DOMAIN claims : claims[j].id < claims[i].id \/ (claims[j].id = claims[i].id /\ j < i)}
ById(claims) ==
  [n \in DOMAIN claims |-> claims[CHOOSE i \in DOMAIN claims : Cardinality(Below(claims, i)) = n - 1]]
(* What the claims say that no person has decided about. *)
Decided(c, claims) ==
  \E d \in ToSet(claims) : d.key = c.key /\ d.value = c.value /\ d.resolution \in {"user", "rejected"}
Judgements(claims) ==
  {<<c.key, c.value, c.agreement, c.resolution>> : c \in {x \in ToSet(claims) : ~Decided(x, claims)}}

Reconcile ==
  /\ analysisStage = "reconcile"
  /\ IF ~Checked \/ Comparisons > limits.comparisons THEN CutShort
     ELSE /\ analysisStage' = "done" /\ runs' = runs + 1
          /\ LET claims == ById([i \in DOMAIN analysed.claims |-> Judged(analysed.claims[i])])
             IN  /\ analysed' = [analysed EXCEPT !.claims = claims, !.conflicts = @ \cup Conflicts]
                 /\ judged' = IF runs = 0 THEN Result(Judgements(claims)) ELSE judged
          /\ UNCHANGED <<limits, grounds, findings, timeEvents>>

(* A reader analyses the stored record once more. *)
Reanalyze ==
  /\ analysisStage = "done" /\ runs < MaxRuns /\ findings = NotAsked /\ timeEvents = NotAsked
  /\ analysisStage' = "images"
  /\ UNCHANGED <<analysed, limits, runs, grounds, judged, findings, timeEvents>>

-----------------------------------------------------------------------------
(* provenance::field_lineage and timeline *)

ClaimsNamed(ids) == {c \in ToSet(analysed.claims) : c.id \in ids}
LineageHolds ==
  \A conflict \in analysed.conflicts :
    /\ conflict.alternatives \subseteq {c.id : c \in ToSet(analysed.claims)}
    /\ \A c \in ClaimsNamed(conflict.alternatives) : c.key = conflict.key

TimeEvent(claim, at, valid) == [claim |-> claim, at |-> at, valid |-> valid]
EventOf(c) == TimeEvent(c.id, IF c.value.valid THEN c.value.at ELSE Unset, c.value.valid)
Sooner(e, f) ==
  IF Unset \notin {e.at, f.at} THEN e.at < f.at ELSE e.at # Unset /\ f.at = Unset
IsTime(c) == c.value.kind = "time"
timeline ==
  LET claimed == SelectSeq(analysed.claims, IsTime)
      files == SetToSeq({TimeEvent(0, at, TRUE) : at \in analysed.times})
  IN  SortSeq([i \in DOMAIN claimed |-> EventOf(claimed[i])] \o files, Sooner)

Timeline ==
  /\ analysisStage = "done" /\ timeEvents = NotAsked
  /\ timeEvents' = IF Checked /\ LineageHolds THEN Result(timeline) ELSE AnalysisRefused
  /\ UNCHANGED <<analysed, limits, analysisStage, runs, grounds, judged, findings>>

-----------------------------------------------------------------------------
(* findings::classify *)

Finding(rule, claims, ids) == [rule |-> rule, claims |-> claims, observations |-> ids]
Personal == {"metadata.author", "metadata.device_serial"}
RawPersonal == {"author", "device_serial"}

OfClaim(c) ==
  CASE c.value.kind = "point" -> {IF c.value.valid THEN "privacy.location" ELSE "anomaly.invalid_location"}
    [] c.key[2] \in Personal /\ c.value.kind = "text" -> {"privacy.identity"}
    [] IsTime(c) /\ ~c.value.valid -> {"anomaly.invalid_time"}
    [] OTHER -> {}
OfObservation(o) ==
  {r \in {"privacy.raw_identity", "indicator.active_content", "coverage.lossy_decoding"} :
     \/ r = "privacy.raw_identity" /\ o.name \in RawPersonal /\ o.value.kind = "text"
     \/ r = "indicator.active_content" /\ o.name = "javascript"
     \/ r = "coverage.lossy_decoding" /\ ~o.lossless}

Evidence(ids) == SupportsOf(ClaimsNamed(ids))

Anachronisms ==
  LET Dated(field) == {c \in ToSet(analysed.claims) : c.key[2] = field /\ Live(c) /\ IsTime(c) /\ c.value.at # Unset}
  IN  {cm \in Dated("metadata.created") \X Dated("metadata.modified") :
         cm[1].key[1] = cm[2].key[1] /\ cm[2].value.at + 60 < cm[1].value.at}

classify ==
  UNION {{Finding(r, {c.id}, c.support) : r \in OfClaim(c)} : c \in {x \in ToSet(analysed.claims) : Live(x)}}
    \cup {Finding("validation.conflicting_claims", c.alternatives, Evidence(c.alternatives)) : c \in Conflicts}
    \cup UNION {{Finding(r, {}, {o.id}) : r \in OfObservation(o)} : o \in ToSet(Observed)}
    \cup {Finding("anomaly.chronology", {cm[1].id, cm[2].id}, cm[1].support \cup cm[2].support)
            : cm \in Anachronisms}
    \cup {Finding(r, {}, {}) : r \in {x \in {"anomaly.type_mismatch", "coverage.incomplete"} :
            \/ x = "anomaly.type_mismatch" /\ analysed.declared \notin {"none", analysed.media}
            \/ x = "coverage.incomplete" /\ analysed.diagnostics # {}}}

(* Findings are of a copy that its reader analysed. *)
Classify ==
  /\ analysisStage = "done" /\ runs > 1 /\ findings = NotAsked
  /\ findings' = IF Checked /\ Comparisons <= limits.comparisons THEN Result(classify) ELSE AnalysisRefused
  /\ UNCHANGED <<analysed, limits, analysisStage, runs, grounds, judged, timeEvents>>

RecordNext == \/ MergeImage \/ Normalize \/ PackageType \/ Reconcile \/ Reanalyze \/ Timeline \/ Classify
RecordSpec == RecordInit /\ [][RecordNext]_recordVars

-----------------------------------------------------------------------------
(* Properties *)

Contradicts(c, d) ==
  c.key = d.key /\ Live(c) /\ Live(d) /\ relation(c.value, d.value) = "contradictory"
Cut == <<"limit", {}>> \in analysed.diagnostics

(* Once an analysis is through, accepted claims of one key never           *)
(* contradict each other: the claims of an image come accepted, and one    *)
(* that contradicts another claim is not left so. An analysis that is cut  *)
(* short accepts nothing but what the image's own analysis did.            *)
AcceptedUncontested ==
  analysisStage = "done" =>
    IF Cut /\ runs = 1
      THEN \A c \in ToSet(analysed.claims) :
             c.resolution = "accepted" => \E d \in ToSet(analysed.image.claims) : Signature(c) = Signature(d)
      ELSE \A c, d \in ToSet(analysed.claims) :
             Contradicts(c, d) => ~(c.resolution = "accepted" /\ d.resolution \in {"accepted", "user"})

(* An observation supports a claim only if it was first linked to a value  *)
(* that means the same, and dissents only from what contradicts that, or   *)
(* was said to: judging claims again and again lets no link wander.        *)
LinksGrounded ==
  \A c \in ToSet(analysed.claims) :
    LET Ground(id, verdict) ==
          \E g \in grounds : g.key = c.key /\ g.id = id /\ g.side = "for" /\ relation(g.value, c.value) = verdict
        Given(id, side) == \E g \in grounds : g.key = c.key /\ g.value = c.value /\ g.id = id /\ g.side = side
    IN  /\ \A id \in c.support : Ground(id, "equivalent") \/ Given(id, "for")
        /\ \A id \in c.against : Ground(id, "contradictory") \/ Given(id, "against")

(* After an analysis that was not cut short every contradiction is in a    *)
(* conflict, and every conflict is of claims of its key that are there, so *)
(* that the lineage of the record can be shown.                            *)
ConflictsWhole ==
  analysisStage = "done" /\ ~Cut =>
    /\ LineageHolds
    /\ \A c, d \in ToSet(analysed.claims) :
         Contradicts(c, d) => \E x \in analysed.conflicts : {c.id, d.id} \subseteq x.alternatives

(* No other observation of its group has its name. *)
Sole(o) == \A x \in ToSet(Observed) : x.group = o.group /\ x.name = o.name => x = o
Unambiguous(o) ==
  Sole(o) /\ \E x \in ToSet(Observed) : x.group = o.group /\ x.name = "longitude" /\ Sole(x)

(* An observation that names a time is the evidence of a claim, or a       *)
(* diagnostic names it; so is a latitude with its longitude, if its group  *)
(* has one of each.  Of a group with several, or with a half of a place,   *)
(* nothing is read, and nothing is said of it (normalize.rs:374-385).      *)
NothingUnread ==
  analysisStage = "done" /\ ~Cut =>
    \A o \in ToSet(Observed) :
      LET claimed == \E c \in ToSet(analysed.claims) : o.id \in c.support
          diagnosed == \E d \in analysed.diagnostics : o.id \in d[2]
      IN  /\ o.name \in DOMAIN TimeRoles => claimed \/ diagnosed
          /\ o.name = "latitude" => IF Unambiguous(o) THEN claimed \/ diagnosed ELSE ~claimed

(* Who analyses a record again judges as before: no value comes up that    *)
(* was not there, and none changes its agreement or its resolution, of     *)
(* those that no person has decided about.                                 *)
JudgementSettles ==
  analysisStage = "done" /\ judged.asked => Judgements(analysed.claims) = judged.is

(* The time that a claim of a capture states was read with the offset that *)
(* is its own, which is the only one there is beside it.  A place is read  *)
(* from the only observations of their names in the group, and its signs   *)
(* are those of the references, of which either pair of letters will do    *)
(* (normalize.rs:417-419).                                                 *)
SignOf(reference, angle) ==
  /\ reference.value.kind = "text"
  /\ angle > 0 => reference.value.text \in {"N", "E"}
  /\ angle < 0 => reference.value.text \in {"S", "W"}
ReadWithItsOwn ==
  \A g \in grounds : \A o \in {x \in ToSet(Observed) : x.id = g.id} :
    /\ g.key[2] = "metadata.captured" /\ o.value.kind = "time" =>
         \A z \in g.value.original[2] :
           \/ o.value.time.zone = Times!Zone(z)
           \/ \E x \in ToSet(Observed) :
                /\ x.name = "offset_time_original" /\ x.group = o.group /\ Sole(x)
                /\ x.value.kind = "zone" /\ x.value.zone.minutes = z
    /\ g.key[2] = "location.gps" =>
         /\ o.name \in GpsNames /\ Sole(o)
         /\ \A x \in ToSet(Observed) : x.group = o.group /\ x.name \in GpsNames /\ Sole(x) =>
              [g EXCEPT !.id = x.id] \in grounds
         /\ o.name = "latitude_ref" => SignOf(o, g.value.place[1])
         /\ o.name = "longitude_ref" => SignOf(o, g.value.place[2])

(* What claims are in dispute is found, with the evidence of each side. *)
FindingsWhole ==
  findings.asked /\ ~findings.refused =>
    \A c, d \in ToSet(analysed.claims) :
      Contradicts(c, d) =>
        \E f \in findings.is : {c.id, d.id} \subseteq f.claims /\ c.support \cup d.support \subseteq f.observations

(* The timeline has each time once, in order of the instants, those that   *)
(* have none at the end; a time that is not valid has none.                *)
TimelineTrue ==
  timeEvents.asked /\ ~timeEvents.refused =>
    /\ \A i, j \in DOMAIN timeEvents.is : i < j => ~Sooner(timeEvents.is[j], timeEvents.is[i])
    /\ \A e \in ToSet(timeEvents.is) : e.valid \/ e.at = Unset
    /\ \A c \in ToSet(analysed.claims) :
         IsTime(c) => Cardinality({i \in DOMAIN timeEvents.is : timeEvents.is[i].claim = c.id}) = 1

(* An analysis adds claims and judges them; it changes no observation, and *)
(* of the claims that were there neither number, key nor value, nor a      *)
(* resolution that a person gave.                                          *)
Upheld ==
  /\ analysed'.observations = analysed.observations
  /\ \A c \in ToSet(analysed.claims) :
       \E d \in ToSet(analysed'.claims) :
         /\ d.id = c.id /\ d.key = c.key /\ d.value = c.value
         /\ c.resolution \in {"rejected", "user"} => d.resolution = c.resolution
DecisionsKept == [][Upheld]_analysed

(* Claims are judged by their values and links, as a whole and for good. *)
JudgementSound == AcceptedUncontested /\ LinksGrounded /\ ConflictsWhole /\ JudgementSettles

(* What is observed is read with what belongs to it, and what is concluded  *)
(* shows the evidence of all sides.                                         *)
ReadingsSound == NothingUnread /\ ReadWithItsOwn /\ FindingsWhole /\ TimelineTrue
=============================================================================
