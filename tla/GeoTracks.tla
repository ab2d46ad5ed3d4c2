------------------------------ MODULE GeoTracks ------------------------------
(***************************************************************************)
(* Places and ways (analysis/geo.rs): the points that records claim, with  *)
(* the time each was taken; the clusters of points that are near each      *)
(* other, found pair by pair with a forest of parents; and the tracks      *)
(* through the points of a group in the order of their times.              *)
(*                                                                         *)
(* Places are numbers on a line and their distance is that of the numbers, *)
(* so that what is nearest or fastest is decided without trigonometry.     *)
(***************************************************************************)
EXTENDS ClaimValues, FiniteSets, SequencesExt, FiniteSetsExt

CONSTANTS
  Cases,    \* records, and the groups their paths are put in
  Settings  \* radius, members, gap, speed, and the budget of comparisons

VARIABLES
  case, setting,  \* what the analysis was called with
  stage,          \* "locate", "clusters", "tracks", "done" or "refused"
  samples, issues,
  parent,         \* of each sample, in the forest
  pair,           \* the samples that are compared next
  comparisons,
  clusters, tracks

vars == <<case, setting, stage, samples, issues, parent, pair, comparisons, clusters, tracks>>

NoTracks == [segments |-> {}, unresolved |-> {}]

GeoInit ==
  /\ case \in Cases /\ setting \in Settings
  /\ stage = "locate" /\ samples = << >> /\ issues = {} /\ parent = << >>
  /\ pair = <<1, 2>> /\ comparisons = 0 /\ clusters = {} /\ tracks = NoTracks

Refuse ==
  stage' = "refused"
    /\ UNCHANGED <<case, setting, samples, issues, parent, pair, comparisons, clusters, tracks>>

-----------------------------------------------------------------------------
(* location_analysis: a claim has a scope, a field, a value and a resolution. *)

Counts(c) == c.resolution # "rejected"
Points(r) == {i \in DOMAIN r.claims : Counts(r.claims[i]) /\ r.claims[i].value.kind = "point"}
ValidPoints(r) == {i \in Points(r) : r.claims[i].value.valid}

(* The times that were taken with a point are those of its own scope; only *)
(* location.gps has a scope that is known.                                 *)
TimesOf(r, c) ==
  {x.value : x \in {y \in ToSet(r.claims) :
                      /\ Counts(y) /\ y.field = "metadata.captured" /\ y.value.kind = "time"
                      /\ c.field = "location.gps" /\ y.scope = c.scope}}

Sample(r, i) ==
  LET c == r.claims[i]
      times == TimesOf(r, c)
  IN  [path |-> r.path, claim |-> i, place |-> c.value.place,
       timestamp |-> IF Cardinality(times) = 1 THEN times ELSE {},
       ambiguous_time |-> Cardinality(times) > 1]

SamplesOf(r) ==
  LET Lower(i, j) == i < j
      points == SetToSortSeq(ValidPoints(r), Lower)
  IN  [n \in DOMAIN points |-> Sample(r, points[n])]

(* Each valid point is compared with all claims of its record. *)
Associations ==
  FoldLeft(LAMBDA sum, r : sum + Cardinality(ValidPoints(r)) * Len(r.claims), 0, case.records)

RefuseToLocate == stage = "locate" /\ Associations > setting.budget /\ Refuse

Locate ==
  /\ stage = "locate" /\ Associations <= setting.budget
  /\ LET Earlier(x, y) == x.path < y.path \/ (x.path = y.path /\ x.claim < y.claim)
     IN  samples' = SortSeq(FlattenSeq([i \in DOMAIN case.records |-> SamplesOf(case.records[i])]), Earlier)
  /\ issues' = UNION {{<<r.path, i>> : i \in Points(r) \ ValidPoints(r)} : r \in ToSet(case.records)}
  /\ parent' = [i \in DOMAIN samples' |-> i]
  /\ stage' = "clusters"
  /\ UNCHANGED <<case, setting, pair, comparisons, clusters, tracks>>

-----------------------------------------------------------------------------
(* clusters *)

Distance(i, j) == Apart(samples[i].place, samples[j].place)

(* root walks up, and lets every other node on its way skip one. *)
Path(tree, i) ==
  LET up[k \in DOMAIN tree] == IF tree[k] = k THEN <<k>> ELSE <<k>> \o up[tree[k]]
  IN  up[i]
Halved(tree, i) ==
  LET path == Path(tree, i)
  IN  [k \in DOMAIN tree |->
         IF \E n \in DOMAIN path : n % 2 = 1 /\ path[n] = k THEN tree[tree[k]] ELSE tree[k]]
Root(tree, i) == Path(tree, i)[Len(Path(tree, i))]

(* Broken variant of Joined: the second sample is moved without its tree. *)
JoinedAlone(tree, i, j) == [Halved(tree, i) EXCEPT ![j] = Root(tree, i)]
Joined(tree, i, j) ==
  LET first == Halved(tree, i)
      both == Halved(first, j)
  IN  [both EXCEPT ![Root(first, j)] = Root(tree, i)]

NextPair == IF pair[2] < Len(samples) THEN <<pair[1], pair[2] + 1>> ELSE <<pair[1] + 1, pair[1] + 2>>

ComparePair ==
  /\ stage = "clusters" /\ pair[2] <= Len(samples)
  /\ \/ comparisons + 1 > setting.budget /\ Refuse
     \/ /\ comparisons + 1 <= setting.budget /\ comparisons' = comparisons + 1
        /\ parent' = IF Distance(pair[1], pair[2]) <= setting.radius
                       THEN Joined(parent, pair[1], pair[2]) ELSE parent
        /\ pair' = NextPair
        /\ UNCHANGED <<case, setting, stage, samples, issues, clusters, tracks>>

Gather ==
  /\ stage = "clusters" /\ pair[2] > Len(samples)
  /\ clusters' = {c \in {{i \in DOMAIN parent : Root(parent, i) = k} : k \in DOMAIN parent} :
                    c # {} /\ Cardinality(c) >= setting.members}
  /\ stage' = "tracks"
  /\ UNCHANGED <<case, setting, samples, issues, parent, pair, comparisons, tracks>>

-----------------------------------------------------------------------------
(* tracks *)

At(i) == (CHOOSE t \in samples[i].timestamp : TRUE).at
Timed(i) == ~samples[i].ambiguous_time /\ samples[i].timestamp # {} /\ At(i) # Unset
Group(i) == IF samples[i].path \in DOMAIN case.groups THEN case.groups[samples[i].path] ELSE samples[i].path

TooFast(i, j) ==
  LET dt == At(j) - At(i)
  IN  IF dt = 0 THEN Distance(i, j) > 0 ELSE Distance(i, j) > setting.speed * dt

NewTrack(i) == [samples |-> <<i>>, distance |-> 0, speed_outliers |-> {}]

(* The next sample in time goes on with the last track, or begins another. *)
Extend(segments, i) ==
  IF segments = << >> THEN <<NewTrack(i)>>
  ELSE LET track == segments[Len(segments)]
           last == track.samples[Len(track.samples)]
       IN  IF At(i) - At(last) > setting.gap THEN Append(segments, NewTrack(i))
           ELSE [segments EXCEPT ![Len(segments)] =
                   [samples |-> Append(track.samples, i),
                    distance |-> track.distance + Distance(last, i),
                    speed_outliers |-> track.speed_outliers
                                         \cup (IF TooFast(last, i) THEN {<<last, i>>} ELSE {})]]

TracksOf(group) ==
  LET Sooner(i, j) == At(i) < At(j) \/ (At(i) = At(j) /\ i < j)
      order == SetToSortSeq({i \in DOMAIN samples : Timed(i) /\ Group(i) = group}, Sooner)
  IN  FoldLeft(Extend, << >>, order)

Track ==
  /\ stage = "tracks"
  /\ tracks' = [segments |-> UNION {ToSet(TracksOf(g)) : g \in {Group(i) : i \in {j \in DOMAIN samples : Timed(j)}}},
                unresolved |-> {i \in DOMAIN samples : ~Timed(i)}]
  /\ stage' = "done"
  /\ UNCHANGED <<case, setting, samples, issues, parent, pair, comparisons, clusters>>

GeoNext == RefuseToLocate \/ Locate \/ ComparePair \/ Gather \/ Track

-----------------------------------------------------------------------------
(* The clusters are the components of nearness, to the last of a chain:    *)
(* two samples are in one exactly if steps no longer than the radius lead  *)
(* from one to the other, in whatever order the pairs were joined.         *)
ClustersAreComponents ==
  stage \in {"tracks", "done"} =>
    LET Closed(set) == \A i \in set, j \in DOMAIN samples : Distance(i, j) <= setting.radius => j \in set
        parts == {set \in SUBSET (DOMAIN samples) : Closed(set)}
        component == {{j \in DOMAIN samples : \A s \in parts : i \in s => j \in s} : i \in DOMAIN samples}
    IN  clusters = {c \in component : Cardinality(c) >= setting.members}

(* Each sample with a time is on one track, once, in the order of time; a  *)
(* track goes on as long as the gaps allow and no longer; its distance and *)
(* its outliers are those of its steps; the others are told as unresolved. *)
TracksPartition ==
  stage = "done" =>
    LET Steps(t) == {<<t.samples[n], t.samples[n + 1]>> : n \in 1 .. Len(t.samples) - 1}
        On(i) == {t \in tracks.segments : i \in ToSet(t.samples)}
    IN  /\ \A i \in DOMAIN samples : Cardinality(On(i)) = IF i \in tracks.unresolved THEN 0 ELSE 1
        /\ \A t \in tracks.segments :
             /\ Cardinality(ToSet(t.samples)) = Len(t.samples)
             /\ \A s \in Steps(t) : Group(s[1]) = Group(s[2]) /\ At(s[1]) <= At(s[2]) /\ At(s[2]) - At(s[1]) <= setting.gap
             /\ t.speed_outliers = {s \in Steps(t) : TooFast(s[1], s[2])}
             /\ t.distance = MapThenSumSet(LAMBDA s : Distance(s[1], s[2]), Steps(t))
        /\ \A t, u \in tracks.segments :
             t # u /\ Group(t.samples[1]) = Group(u.samples[1]) =>
               \A i \in ToSet(t.samples), j \in ToSet(u.samples) : Apart(At(i), At(j)) > setting.gap

(* A point is on a track at a time only if its own scope in its own record *)
(* says that one time and no other; no point that counts is left out.      *)
TimesUnambiguous ==
  stage = "done" =>
    /\ \A i \in UNION {ToSet(t.samples) : t \in tracks.segments} :
         \E r \in ToSet(case.records) :
           LET point == r.claims[samples[i].claim]
               with == {c \in ToSet(r.claims) :
                          /\ c.field = "metadata.captured" /\ c.resolution # "rejected"
                          /\ c.value.kind = "time" /\ c.scope = point.scope}
           IN  /\ r.path = samples[i].path /\ point.field = "location.gps"
               /\ with # {} /\ \A c \in with : c.value.at = At(i)
    /\ \A r \in ToSet(case.records), i \in 1 .. 9 :
         i \in DOMAIN r.claims /\ r.claims[i].value.kind = "point" /\ r.claims[i].resolution # "rejected" =>
           (<<r.path, i>> \in issues) # (\E n \in DOMAIN samples : samples[n].path = r.path /\ samples[n].claim = i)

(* Points are clustered and strung into tracks by their places and their    *)
(* own times.                                                               *)
GeoSound == ClustersAreComponents /\ TracksPartition /\ TimesUnambiguous
=============================================================================
