----------------------------- MODULE ImageClaims -----------------------------
(***************************************************************************)
(* What the tags of an image come to (core/images.rs): one pass over the   *)
(* observations collects, for each key, the alternatives and what supports *)
(* them; the transforms of the primary item of a HEIF file are composed;   *)
(* then come the issues of colour, the displayed dimensions, and the       *)
(* claims with their conflicts.                                            *)
(*                                                                         *)
(* A namespace is the format, the item of a HEIF file (or 0), the part of  *)
(* the file, and whether it is a metadata item.  A key is a role and a     *)
(* field; a mirror or a rotation is a matrix, row by row.                  *)
(***************************************************************************)
EXTENDS ClaimTimes, FiniteSets, FiniteSetsExt, TLC

CONSTANTS
  Images,  \* sequences of observations
  Limits   \* alternatives of a key, and links of claims

VARIABLES
  observations, limits,   \* what the analysis was called with
  stage,                  \* "read", "transforms", "claims", "done" or "refused"
  at,                     \* the observation that is read next
  raw_claims,             \* the alternatives of each key
  issues,
  transforms,             \* of each item: the matrix, and the observations it is of
  invalid_main_orientation,
  display_dimensions,
  claims, conflicts

vars == <<observations, limits, stage, at, raw_claims, issues, transforms,
          invalid_main_orientation, display_dimensions, claims, conflicts>>

Main == <<"image">>
Sensor == <<"sensor">>
Thumbnail == <<"thumbnail">>
TimeRole == <<"time">>

Number(n) == [kind |-> "number", number |-> n]
Words(s) == [kind |-> "words", words |-> s]
Moment(t) == [kind |-> "time", time |-> t]
Digits(n) == [digits |-> n]   \* the fraction of a second, as a text

ImageInit ==
  /\ observations \in Images /\ limits \in Limits
  /\ stage = "read" /\ at = 1 /\ raw_claims = << >> /\ issues = {} /\ transforms = << >>
  /\ invalid_main_orientation = FALSE /\ display_dimensions = {}
  /\ claims = {} /\ conflicts = {}

Refuse ==
  /\ stage' = "refused"
  /\ UNCHANGED <<observations, limits, at, raw_claims, issues, transforms,
                 invalid_main_orientation, display_dimensions, claims, conflicts>>

IsNumber(o, n) == o.value.kind = "number" /\ o.value.number = n
Ids(os) == {os[i].id : i \in DOMAIN os}

(* Two observations of one number, or of two sources. *)
Mixed ==
  \/ Cardinality(Ids(observations)) < Len(observations)
  \/ \E o \in ToSet(observations) : o.source # observations[1].source
RefuseMixed == stage = "read" /\ at = 1 /\ Mixed /\ Refuse

-----------------------------------------------------------------------------
(* The index that is made first. *)

scope(ns) == IF ns.item = 0 THEN ns ELSE [ns EXCEPT !.part = "main", !.metadata = FALSE]

primary ==
  {o.ns : o \in {x \in ToSet(observations) : x.tag = "is_primary" /\ IsNumber(x, 1)}}

(* Of several types in one namespace the last counts. *)
ChunkType(ns) ==
  LET types == {i \in DOMAIN observations :
                  /\ observations[i].ns = ns /\ observations[i].tag = "type"
                  /\ observations[i].value.kind = "words"}
      last == CHOOSE i \in types : \A j \in types : j <= i
  IN  IF types = {} THEN "none" ELSE observations[last].value.words

(* Offsets and fractions that are tags of their own, in one namespace. *)
CompanionTags == {"offset_time", "offset_time_original", "offset_time_digitized", "subsec_time_original"}
Companions(ns, tag) ==
  LET Of(o) == o.ns = ns /\ o.tag = tag /\ o.value.kind = "text" IN SelectSeq(observations, Of)

(* Which picture a namespace is about, if any. *)
Roles(ns) ==
  IF \/ ns.format = "other" \/ ns.part = "maker_note"
     \/ ns.format = "heif" /\ scope(ns) \notin primary
    THEN {}
  ELSE IF ns.format = "raw" THEN {Sensor}
  ELSE CASE ns.part = "ifd1" -> {Thumbnail}
         [] ns.part \in {"frame", "entry", "page"} -> {<<ns.part, ns.n>>}
         [] ns.part = "chunk" /\ ChunkType(ns) = "ANMF" -> {<<"chunk", ns.n>>}
         [] OTHER -> {Main}

(* Tags of XMP that say the same as a tag of EXIF. *)
XmpTags == ("exif:PixelXDimension" :> "pixel_x_dimension" @@ "tiff:ImageWidth" :> "pixel_x_dimension"
  @@ "exif:PixelYDimension" :> "pixel_y_dimension" @@ "tiff:ImageLength" :> "pixel_y_dimension"
  @@ "tiff:Orientation" :> "orientation" @@ "exif:DateTimeOriginal" :> "datetime_original"
  @@ "exif:DateTimeDigitized" :> "datetime_digitized" @@ "exif:ColorSpace" :> "exif_color_space"
  @@ "xmp:CreateDate" :> "created" @@ "xmp:ModifyDate" :> "timestamp" @@ "tiff:DateTime" :> "timestamp")
IsXmp(o) == o.tag \in DOMAIN XmpTags
Mapped(o) == IF IsXmp(o) THEN XmpTags[o.tag] ELSE o.tag

Axes == "width" :> "width" @@ "pixel_x_dimension" :> "width"
          @@ "height" :> "height" @@ "pixel_y_dimension" :> "height"

(* dimension_key: some tags name their role themselves. *)
DimensionKeys(o) ==
  CASE Mapped(o) \in {"sensor_width", "sensor_height"} ->
         {<<Sensor, IF Mapped(o) = "sensor_width" THEN "width" ELSE "height">>}
    [] Mapped(o) \in {"thumbnail_width", "thumbnail_height"} ->
         {<<Thumbnail, IF Mapped(o) = "thumbnail_width" THEN "width" ELSE "height">>}
    [] Mapped(o) \in DOMAIN Axes -> {<<r, Axes[Mapped(o)]>> : r \in Roles(o.ns)}
    [] OTHER -> {}

-----------------------------------------------------------------------------
(* Collecting alternatives *)

equivalent(a, b) ==
  IF a.kind = "time" /\ b.kind = "time" /\ a.time.instant # {} /\ b.time.instant # {}
    THEN a.time.instant = b.time.instant /\ a.time.fraction = b.time.fraction /\ a.time.precision = b.time.precision
    ELSE a = b

(* A fraction of a second that only one of two times has is no difference. *)
incompatible(a, b) ==
  IF a.kind = "time" /\ b.kind = "time"
    THEN /\ a.time.instant # {} /\ b.time.instant # {}
         /\ \/ a.time.instant # b.time.instant
            \/ a.time.fraction # {} /\ b.time.fraction # {} /\ a.time.fraction # b.time.fraction
    ELSE ~equivalent(a, b)

Alternatives(all, key) == IF key \in DOMAIN all THEN all[key] ELSE << >>
Fits(all, key, value) == {i \in DOMAIN Alternatives(all, key) : equivalent(all[key][i].value, value)}
Full(all, key, value) ==
  Fits(all, key, value) = {} /\ Len(Alternatives(all, key)) >= limits.alternatives

(* add, with what else supports the value. *)
Added(all, key, value, support) ==
  LET as == Alternatives(all, key)
      fits == Fits(all, key, value)
      i == CHOOSE x \in fits : \A y \in fits : x <= y
  IN  (key :> IF fits = {} THEN Append(as, [value |-> value, observations |-> support])
              ELSE [as EXCEPT ![i].observations = @ \o support]) @@ all

o_ == observations[at]
Issue(kind, ids) == {[kind |-> kind, observations |-> ids]}

(* The observation that is read: neither foreign, nor of an unlinked item. *)
IsImage == o_.ns.format # "other"
Unlinked == o_.ns.format = "heif" /\ o_.ns.metadata /\ scope(o_.ns) \notin primary
Reading == stage = "read" /\ at <= Len(observations) /\ ~Mixed
Regular == Reading /\ IsImage /\ ~Unlinked

Advance == at' = at + 1 /\ UNCHANGED <<observations, limits, stage, display_dimensions, claims, conflicts>>

(* One more alternative, or more support for one, with an issue or none. *)
Claim(key, value, support, more) ==
  IF Full(raw_claims, key, value) THEN Refuse
  ELSE /\ raw_claims' = Added(raw_claims, key, value, support)
       /\ issues' = issues \cup more
       /\ Advance /\ UNCHANGED <<transforms, invalid_main_orientation>>

Complain(kind, ids) ==
  /\ issues' = issues \cup Issue(kind, ids) /\ Advance
  /\ UNCHANGED <<raw_claims, transforms, invalid_main_orientation>>

Pass == Advance /\ UNCHANGED <<raw_claims, issues, transforms, invalid_main_orientation>>

ReadUnlinked ==
  /\ Reading /\ (~IsImage \/ Unlinked)
  /\ IF IsImage /\ Mapped(o_) \in {"pixel_x_dimension", "pixel_y_dimension", "orientation",
                                   "datetime_original", "timestamp"}
       THEN Complain("UnlinkedHeifMetadata", {o_.id}) ELSE Pass

ReadDimension ==
  /\ Regular
  /\ \E key \in DimensionKeys(o_) :
       IF o_.value.kind = "number" /\ o_.value.number > 0
         THEN Claim(key, o_.value, <<o_>>, {})
         ELSE Complain("InvalidDimension", {o_.id})

(* The orientation of what a raw file holds is that of the image. *)
OrientationRole(role) == IF role = Sensor THEN Main ELSE role

ReadOrientation ==
  /\ Regular /\ Mapped(o_) = "orientation"
  /\ \E role \in Roles(o_.ns) :
       IF o_.value.kind = "number" /\ o_.value.number \in 1 .. 8
         THEN Claim(<<OrientationRole(role), "orientation">>, o_.value, <<o_>>, {})
         ELSE /\ issues' = issues \cup Issue("InvalidOrientation", {o_.id})
              /\ invalid_main_orientation' = (invalid_main_orientation \/ OrientationRole(role) = Main)
              /\ Advance /\ UNCHANGED <<raw_claims, transforms>>

-----------------------------------------------------------------------------
(* Mirrors and rotations *)

ORIENTATIONS == <<<<1, 0, 0, 1>>, <<-1, 0, 0, 1>>, <<-1, 0, 0, -1>>, <<1, 0, 0, -1>>,
                  <<0, 1, 1, 0>>, <<0, -1, 1, 0>>, <<0, -1, -1, 0>>, <<0, 1, -1, 0>>>>

compose(a, b) ==
  <<a[1] * b[1] + a[2] * b[3], a[1] * b[2] + a[2] * b[4],
    a[3] * b[1] + a[4] * b[3], a[3] * b[2] + a[4] * b[4]>>

IsTransform(o) == o.tag \in {"rotation_quarters", "mirror_axis"} /\ scope(o.ns) \in primary

(* The matrix of a transform, if its number is one of those it may be. *)
Matrix(o) ==
  IF o.value.kind # "number" THEN {}
  ELSE LET matrices == IF o.tag = "rotation_quarters" THEN <<1, 8, 3, 6>> ELSE <<2, 4>>
           n == o.value.number + 1
       IN  IF n \in DOMAIN matrices THEN {ORIENTATIONS[matrices[n]]} ELSE {}

ReadTransform ==
  /\ Regular /\ IsTransform(o_)
  /\ invalid_main_orientation' = (invalid_main_orientation \/ o_.tag = "mirror_axis")
  /\ Advance /\ UNCHANGED raw_claims
  /\ IF Matrix(o_) = {}
       THEN issues' = issues \cup Issue("InvalidOrientation", {o_.id}) /\ UNCHANGED transforms
       ELSE /\ LET item == scope(o_.ns)
                   current == IF item \in DOMAIN transforms THEN transforms[item]
                              ELSE [matrix |-> ORIENTATIONS[1], support |-> << >>]
                   m == CHOOSE x \in Matrix(o_) : TRUE
               IN  transforms' = (item :> [matrix |-> compose(m, current.matrix),
                                           support |-> Append(current.support, o_)]) @@ transforms
            /\ UNCHANGED issues

-----------------------------------------------------------------------------
(* Colours *)

Photometric == 0 :> "GRAY" @@ 1 :> "GRAY" @@ 2 :> "RGB" @@ 3 :> "PALETTE" @@ 5 :> "CMYK" @@ 6 :> "YCbCr"
                 @@ 8 :> "Lab" @@ 9 :> "Lab" @@ 10 :> "Lab" @@ 32803 :> "CFA"
PngTypes == 0 :> "GRAY" @@ 2 :> "RGB" @@ 3 :> "PALETTE" @@ 4 :> "GRAY" @@ 6 :> "RGB"
ModelOf(o) ==
  LET known == IF Mapped(o) = "photometric_interpretation" THEN Photometric
               ELSE IF Mapped(o) = "color_type" /\ o.ns.format = "png" THEN PngTypes ELSE << >>
  IN  IF o.value.kind = "number" /\ o.value.number \in DOMAIN known THEN {known[o.value.number]} ELSE {}

(* What a tag says of colours: a field, and the words it comes to. *)
Colours(o) ==
  {<<"stored_color_model", w>> : w \in ModelOf(o)}
    \cup (IF Mapped(o) = "color_space" /\ o.value.kind = "words"
            THEN {<<"profile_color_model", IF o.value.words = "YCbr" THEN "YCbCr" ELSE o.value.words>>} ELSE {})
    \cup (IF Mapped(o) \in {"color_space", "exif_color_space"} /\ IsNumber(o, 1)
            THEN {<<"declared_color_profile", "sRGB">>} ELSE {})

ReadColour ==
  /\ Regular
  /\ \E c \in Colours(o_), role \in Roles(o_.ns) :
       Claim(<<role, c[1]>>, Words(c[2]), <<o_>>, {})

-----------------------------------------------------------------------------
(* Times *)

TimeKeys == "datetime_original" :> "capture" @@ "datetime_digitized" :> "digitized"
              @@ "timestamp" :> "modified" @@ "created" :> "created"
OffsetTag(tag) == CASE tag = "datetime_original" -> "offset_time_original"
                    [] tag = "datetime_digitized" -> "offset_time_digitized"
                    [] OTHER -> "offset_time"

IsTime(o) == Mapped(o) \in DOMAIN TimeKeys /\ o.value.kind = "text"
OffsetsOf(o) == IF IsXmp(o) THEN << >> ELSE Companions(o.ns, OffsetTag(Mapped(o)))
FractionsOf(o) ==
  IF IsXmp(o) \/ Mapped(o) # "datetime_original" THEN << >>
  ELSE Companions(o.ns, "subsec_time_original")

(* The times of the image itself are times of the record. *)
TimeKey(o) ==
  LET roles == Roles(o.ns) \ {Main, Sensor}
  IN  <<IF roles = {} THEN TimeRole ELSE CHOOSE r \in roles : TRUE, TimeKeys[Mapped(o)]>>

Said(os) == {o.value.text : o \in ToSet(os)}

(* Broken variant of Support: what was said elsewhere is used and not named. *)
SupportAlone(o) == <<o>>
Support(o) == <<o>> \o OffsetsOf(o) \o FractionsOf(o)

ContradictoryCompanions(ids) == Complain("InvalidTimestamp", ids)

ReadTime ==
  /\ Regular /\ IsTime(o_)
  /\ LET offsets == Said(OffsetsOf(o_))
         fractions == Said(FractionsOf(o_))
         parsed == image_timestamp(o_.value.text, offsets, {f.digits : f \in fractions})
     IN  IF Cardinality(offsets) > 1 \/ Cardinality(fractions) > 1
           THEN ContradictoryCompanions({o_.id} \cup Ids(OffsetsOf(o_)) \cup Ids(FractionsOf(o_)))
         ELSE IF parsed = {} THEN Complain("InvalidTimestamp", {o_.id})
         ELSE \E t \in parsed :
                Claim(TimeKey(o_), Moment(t), Support(o_),
                      IF t.offset = {} THEN Issue("UnknownTimezone", {o_.id})
                      ELSE IF t.instant = {} /\ t.precision = "second"
                        THEN Issue("UnresolvedLeapSecond", {o_.id}) ELSE {})

ReadNothing ==
  /\ Regular
  /\ DimensionKeys(o_) = {} /\ ~(Mapped(o_) = "orientation" /\ Roles(o_.ns) # {})
  /\ ~IsTransform(o_) /\ ~(Colours(o_) # {} /\ Roles(o_.ns) # {}) /\ ~IsTime(o_)
  /\ Pass

-----------------------------------------------------------------------------
(* After the pass: the composed transforms, item by item, are orientations. *)

EndOfPass ==
  /\ stage = "read" /\ at > Len(observations) /\ ~Mixed /\ stage' = "transforms"
  /\ UNCHANGED <<observations, limits, at, raw_claims, issues, transforms,
                 invalid_main_orientation, display_dimensions, claims, conflicts>>

ClaimTransforms ==
  /\ stage = "transforms" /\ DOMAIN transforms # {}
  /\ LET item == CHOOSE i \in DOMAIN transforms : \A j \in DOMAIN transforms : i.item <= j.item
         k == CHOOSE n \in 1 .. 8 : ORIENTATIONS[n] = transforms[item].matrix
     IN  IF Full(raw_claims, <<Main, "orientation">>, Number(k)) THEN Refuse
         ELSE /\ raw_claims' = Added(raw_claims, <<Main, "orientation">>, Number(k), transforms[item].support)
              /\ transforms' = [j \in DOMAIN transforms \ {item} |-> transforms[j]]
              /\ UNCHANGED <<observations, limits, stage, at, issues, invalid_main_orientation,
                             display_dimensions, claims, conflicts>>

-----------------------------------------------------------------------------
(* The outcome *)

Compatible(stored, profile) ==
  \/ profile \notin {"RGB", "GRAY", "CMYK", "Lab", "XYZ", "YCbCr"}
  \/ stored = profile
  \/ profile = "RGB" /\ stored \in {"PALETTE", "YCbCr", "CFA"}

ColourMismatches ==
  UNION {{[kind |-> "ColorSpaceMismatch", observations |-> Ids(ab[1].observations) \cup Ids(ab[2].observations)]
          : ab \in {x \in ToSet(Alternatives(raw_claims, <<role, "stored_color_model">>))
                          \X ToSet(Alternatives(raw_claims, <<role, "profile_color_model">>))
                     : ~Compatible(x[1].value.words, x[2].value.words)}}
         : role \in {key[1] : key \in DOMAIN raw_claims}}

UniqueNumber(key) ==
  {a.value.number : a \in {x \in ToSet(Alternatives(raw_claims, key)) : Len(Alternatives(raw_claims, key)) = 1}}

Displayed ==
  LET orientation == UniqueNumber(<<Main, "orientation">>)
      known == ~invalid_main_orientation
                 /\ (<<Main, "orientation">> \in DOMAIN raw_claims => orientation # {})
      turned == \E k \in orientation : k >= 5
  IN  IF ~known THEN {}
      ELSE {IF turned THEN <<h, w>> ELSE <<w, h>>
            : w \in UniqueNumber(<<Main, "width">>), h \in UniqueNumber(<<Main, "height">>)}

Others(as, i) == {j \in DOMAIN as : incompatible(as[i].value, as[j].value)}

Families(a) == {o.family : o \in {x \in ToSet(a.observations) : x.tag \notin CompanionTags}}

Structural(key, a) ==
  /\ key[1] # TimeRole
  /\ \E o \in ToSet(a.observations) :
       /\ o.method = "Structure" /\ ~o.ns.metadata /\ ~IsXmp(o)
       /\ o.ns.part \notin {"exif", "ifd1"} /\ o.ns.format \notin {"tiff", "raw"}

ClaimOf(key, i) ==
  LET as == raw_claims[key]
      a == as[i]
      others == Others(as, i)
      agreement == IF others # {} THEN "Disputed"
                   ELSE IF Cardinality(Families(a)) > 1 THEN "Corroborated" ELSE "SingleParser"
  IN  [id |-> <<key, i>>, key |-> key, value |-> a.value, support |-> Ids(a.observations),
       contradicting |-> UNION {Ids(as[j].observations) : j \in others},
       agreement |-> agreement,
       confidence |-> CASE agreement = "Disputed" -> 450
                        [] agreement = "Corroborated" -> 900
                        [] OTHER -> IF Structural(key, a) THEN 850 ELSE 650]

AllClaims == UNION {{ClaimOf(key, i) : i \in DOMAIN raw_claims[key]} : key \in DOMAIN raw_claims}

Disputed == {c \in AllClaims : c.agreement = "Disputed"}

Links ==
  LET Of(key) ==
        LET as == raw_claims[key]
            Linked(i) == Len(as[i].observations)
                           + MapThenSumSet(LAMBDA j : Len(as[j].observations), Others(as, i))
        IN  MapThenSumSet(Linked, DOMAIN as)
  IN  MapThenSumSet(Of, DOMAIN raw_claims)

Conclude ==
  /\ stage = "transforms" /\ DOMAIN transforms = {}
  /\ IF Links > limits.links THEN Refuse
     ELSE /\ issues' = issues \cup ColourMismatches
          /\ display_dimensions' = Displayed
          /\ claims' = AllClaims
          /\ conflicts' = {[key |-> c.key, alternatives |-> {d.id : d \in {x \in Disputed : x.key = c.key}}]
                          : c \in Disputed}
          /\ stage' = "done"
          /\ UNCHANGED <<observations, limits, at, raw_claims, transforms, invalid_main_orientation>>

ImageNext ==
  \/ RefuseMixed \/ ReadUnlinked \/ ReadDimension \/ ReadOrientation \/ ReadTransform
  \/ ReadColour \/ ReadTime \/ ReadNothing \/ EndOfPass \/ ClaimTransforms \/ Conclude

-----------------------------------------------------------------------------
(* duplicates.rs: the pixel of the stored picture, of width w and height h, *)
(* that is shown at x, y when the orientation is k.                        *)
Stored(k, w, h, x, y) ==
  CASE k = 1 -> <<x, y>>         [] k = 2 -> <<w - 1 - x, y>>
    [] k = 3 -> <<w - 1 - x, h - 1 - y>> [] k = 4 -> <<x, h - 1 - y>>
    [] k = 5 -> <<y, x>>         [] k = 6 -> <<y, h - 1 - x>>
    [] k = 7 -> <<w - 1 - y, h - 1 - x>> [] k = 8 -> <<w - 1 - y, x>>

(* The picture on its way: its size, and where one of its pixels is. *)
Turn(s) == [w |-> s.h, h |-> s.w, x |-> s.y, y |-> s.w - 1 - s.x]
Transform(s, o) ==
  IF o.tag = "mirror_axis" THEN IF o.value.number = 0 THEN [s EXCEPT !.x = s.w - 1 - s.x] ELSE [s EXCEPT !.y = s.h - 1 - s.y]
  ELSE CASE o.value.number = 0 -> s [] o.value.number = 1 -> Turn(s) [] o.value.number = 2 -> Turn(Turn(s))
         [] o.value.number = 3 -> Turn(Turn(Turn(s)))

TransformsOf(item) ==
  LET Of(o) == o.ns.format = "heif" /\ IsTransform(o) /\ scope(o.ns) = item /\ Matrix(o) # {}
  IN  SelectSeq(observations, Of)
Unread(o) == o.ns.format = "heif" /\ o.ns.metadata /\ scope(o.ns) \notin primary

(* The one orientation that is claimed for the transforms of an item shows *)
(* every pixel where a quarter turn after a mirror after a turn, and so    *)
(* on, one by one, take it; the visual fingerprint of duplicates.rs looks  *)
(* for it there.                                                           *)
OrientationsTrue ==
  stage = "done" =>
    \A item \in primary :
      LET ts == TransformsOf(item)
      IN  Len(ts) > 0 =>
            \E c \in claims :
              /\ c.key = <<Main, "orientation">> /\ Ids(ts) \subseteq c.support
              /\ \A w, h \in 1 .. 3 : \A x \in 0 .. w - 1, y \in 0 .. h - 1 :
                   LET shown == FoldLeft(Transform, [w |-> w, h |-> h, x |-> x, y |-> y], ts)
                   IN  Stored(c.value.number, w, h, shown.x, shown.y) = <<x, y>>

(* Nothing that was said of the size, the orientation or a time of a       *)
(* picture is lost: it supports a claim, or there is an issue about it.    *)
NothingPassedOver ==
  stage = "done" =>
    \A o \in ToSet(observations) :
      /\ o.ns.format # "other"
      /\ \/ ~Unread(o) /\ (DimensionKeys(o) # {} \/ IsTransform(o) \/ IsTime(o))
         \/ Mapped(o) = "orientation" /\ (Roles(o.ns) # {} \/ Unread(o))
         \/ Unread(o) /\ Mapped(o) \in {"datetime_original", "timestamp"}
      => \/ \E c \in claims : o.id \in c.support
         \/ \E i \in issues : o.id \in i.observations

(* Claims dispute each other: what one names as contradicting is exactly   *)
(* what supports others that name its own support, a conflict is made of   *)
(* all of them, and so of two at least, and none of them is believed.      *)
DisputesMutual ==
  stage = "done" =>
    /\ \A c, d \in claims :
         c.key = d.key /\ incompatible(c.value, d.value) =>
           /\ d.support \subseteq c.contradicting /\ c.support \subseteq d.contradicting
           /\ \E x \in conflicts : {c.id, d.id} \subseteq x.alternatives
    /\ \A x \in conflicts :
         /\ Cardinality(x.alternatives) > 1
         /\ \A c \in claims : c.id \in x.alternatives <=> c.key = x.key /\ c.agreement = "Disputed"
    /\ \A c \in claims : c.agreement = "Disputed" <=> c.contradicting # {}

(* Dimensions are displayed only if they are beyond dispute: one width,    *)
(* one height, at most one orientation, and nothing said of the main       *)
(* picture that could not be read or mirrors it.                           *)
DisplayTrue ==
  stage = "done" =>
    LET Of(field) == {c \in claims : c.key = <<Main, field>>}
        turns == \E c \in Of("orientation") : c.value.number >= 5
        doubt == \/ \E o \in ToSet(observations) : IsTransform(o) /\ ~Unread(o) /\ o.tag = "mirror_axis" /\ o.ns.format # "other"
                 \/ \E o \in ToSet(observations), i \in issues :
                      /\ o.id \in i.observations /\ i.kind = "InvalidOrientation"
                      /\ Mapped(o) = "orientation" /\ \E r \in Roles(o.ns) : OrientationRole(r) = Main
                 \/ \E field \in {"width", "height", "orientation"} : Cardinality(Of(field)) > 1
    IN  display_dimensions =
          IF doubt THEN {}
          ELSE {IF turns THEN <<h.value.number, w.value.number>> ELSE <<w.value.number, h.value.number>>
                : w \in Of("width"), h \in Of("height")}

(* The instant of a claim can be worked out again from what supports it:   *)
(* from a text and an offset that is in the text or in a tag named beside. *)
InstantsGrounded ==
  stage = "done" =>
    \A c \in {x \in claims : x.value.kind = "time"} : \A at0 \in c.value.time.instant :
      \E o \in ToSet(observations) :
        /\ o.id \in c.support /\ IsTime(o)
        /\ \E z \in {o.value.text.zone}
                     \cup {x.value.text : x \in {y \in ToSet(observations) :
                              y.id \in c.support /\ y.tag = OffsetTag(Mapped(o)) /\ y.ns = o.ns}} :
             z.kind = "offset" /\ at0 = Instant(o.value.text, z.minutes)

(* The claims on an image rest on what was observed, pass nothing over,     *)
(* dispute what disagrees, and show the image the right way round.          *)
ImageSound == OrientationsTrue /\ NothingPassedOver /\ DisputesMutual /\ DisplayTrue /\ InstantsGrounded
=============================================================================
