-------------------------- MODULE MCAnalysisInputs --------------------------
(***************************************************************************)
(* What the analyses are called with in the run of MCWorkbench: records,   *)
(* scans, images, files, written times and the settings of each.           *)
(***************************************************************************)
EXTENDS ClaimValues, SequencesExt, FiniteSetsExt, TLC

-----------------------------------------------------------------------------
(* RedactionPreview: three observations, three claims on one chain of      *)
(* links that some records leave open, and up to two rules.                *)

Observed(id, space, private, payload) ==
  [id |-> id, space |-> space, private |-> private, payload |-> payload, source |-> "own"]
Said(id, key, support, contra, private) ==
  [id |-> id, key |-> key, support |-> support, contra |-> contra, private |-> private]
Key1 == <<"m", "a">>
Key2 == <<"m", "b">>

MCOriginals ==
  {[source |-> "own",
    observations |-> <<Observed(1, "x", TRUE, "encoded"), Observed(2, "x", FALSE, "bytes"),
                       Observed(3, "y", FALSE, "text")>>,
    claims |-> <<Said(1, Key1, {1}, one, FALSE), Said(2, key, {2}, two, FALSE), Said(3, Key2, {3}, three, TRUE)>>,
    conflicts |-> <<{1, 2}, {1, 2, 3}>>, diagnostics |-> <<{1, 3}>>]
   : one \in {{}, {2}}, key \in {Key1, Key2}, two \in {{}, {3}}, three \in {{}, {1}}}

MCSelectors ==
  {[kind |-> "all"], [kind |-> "privacy"], [kind |-> "raw", space |-> "x"],
   [kind |-> "claim", prefix |-> Key1], [kind |-> "claim", prefix |-> <<"m">>]}
MCRules == [selector : MCSelectors, action : {"remove", "mask"}]
MCProfiles ==
  {[rules |-> r, strip |-> s, omit |-> FALSE, hide |-> FALSE, alias |-> FALSE, budget |-> 99]
   : r \in SeqOf(MCRules, 2), s \in BOOLEAN}
  \cup {[rules |-> <<r>>, strip |-> FALSE, omit |-> TRUE, hide |-> TRUE, alias |-> s, budget |-> 14]
        : r \in MCRules, s \in BOOLEAN}

-----------------------------------------------------------------------------
(* ScanComparison: every two scans of three paths and two contents, with   *)
(* paths absent and digests missing; claims of several kinds and of two    *)
(* keys, and their changes; groups of three files; and histories of three  *)
(* scans, in any order and with equal times.                               *)

Holding(path, sha256, size, claims) ==
  [path |-> path, size |-> size, claims |-> claims, rest |-> 0,
   digests |-> IF sha256 = "none" THEN << >> ELSE "sha256" :> sha256]
Scanned(contents) ==
  LET Present(i) == contents[i] # "absent"
      paths == SelectSeq([i \in DOMAIN contents |-> i], Present)
  IN  [n \in DOMAIN paths |-> Holding(paths[n], contents[paths[n]], 1, << >>)]
MCScans ==
  {Scanned(c) : c \in [1 .. 3 -> {"absent", "none", "x", "y"}] \cup [1 .. 4 -> {"absent", "x"}]}

ClaimedOf(key, value) == [key |-> key, value |-> value, resolution |-> "accepted"]
Claimed(value) == ClaimedOf(1, value)
MCClaims ==
  LET three == {Number("signed", 1), Number("unsigned", 1), Time(5, 1, "m")}
      Of(values) == [i \in DOMAIN values |-> Claimed(values[i])]
      two == {ClaimedOf(key, value) : key \in {1, 2}, value \in {Number("signed", 1), Float(1)}}
  IN  {Of(v) : v \in SeqOf(three \cup {NaN(0), Float(1)}, 2) \cup SeqOf(three, 3)}
        \cup SeqOf(two, 2)
        \cup {c \in [1 .. 3 -> two] : Cardinality(ToSet(c)) = 3}

MCFiles ==
  {[Holding(1, sha256, size, claims) EXCEPT !.digests = @ @@ more]
   : sha256 \in {"x", "short"}, size \in {1, 2}, more \in {<< >>, "blake3" :> "b"},
     claims \in {<< >>, <<Claimed(Text(1))>>, <<[Claimed(Text(1)) EXCEPT !.resolution = "rejected"]>>}}
Placed(file, path) == [file EXCEPT !.path = path]
MCTrios ==
  LET files == {f \in MCFiles : f.digests["sha256"] # "short" \/ f.size = 1}
  IN  {<<Placed(f, 2), g, Placed(h, 3)>> : f, g, h \in files}

MCSnapshots ==
  [1 .. 3 -> [scan_id : 1 .. 3, started_ms : {1, 2},
              record : {Holding(1, "none", 1, << >>), Holding(1, "x", 1, << >>), [nothing |-> TRUE]}]]

MCQuestions ==
  [kind : {"scans"}, before : MCScans, after : MCScans, budget : {9}]
  \cup {[kind |-> "scans", before |-> <<Holding(1, "none", 1, was)>>,
         after |-> <<Holding(1, "none", 1, is)>>, budget |-> b] : was, is \in MCClaims, b \in {3, 9}}
  \cup [kind : {"groups"}, records : MCTrios]
  \cup [kind : {"history"}, path : {1}, budget : {9}, snapshots : MCSnapshots]

-----------------------------------------------------------------------------
(* ContentChunks: files of up to five bytes, that are what the records say *)
(* of them or another content; chunks of two to four bytes.                *)

Content == SeqOf({0, 1}, 5)
Told == <<0, 1, 1, 0, 1>>
MCSelections ==
  {<<[path |-> 1, recorded |-> c, source |-> Told]>> : c \in Content}
  \cup {<<[path |-> 1, recorded |-> c, source |-> c], [path |-> 2, recorded |-> d, source |-> d]>>
        : c \in Content, d \in {Told, <<1, 0>>, << >>}}
MCChunkRequests ==
  {[threshold |-> 300, bytes |-> 9, fields |-> 9], [threshold |-> 0, bytes |-> 4, fields |-> 1]}

-----------------------------------------------------------------------------
(* TimeReading: days about the ends of months, of years and of leap years, *)
(* at the ends of a day, with and without offsets, and what stands beside. *)

Times == INSTANCE ClaimTimes

MCDays ==
  {<<1970, 1, 1>>, <<1900, 2, 28>>, <<1900, 2, 29>>, <<1904, 2, 29>>, <<1999, 12, 31>>, <<2000, 2, 28>>,
   <<2000, 2, 29>>, <<2000, 2, 30>>, <<2001, 2, 29>>, <<2004, 4, 30>>, <<2023, 12, 31>>, <<0, 1, 1>>,
   <<2023, 13, 1>>}
MCZones ==
  {Times!NoZone, Times!Unknown, Times!BadZone, Times!Zone(0), Times!Zone(60), Times!Zone(-90)}
MCTexts ==
  {Times!WrittenTime(d[1], d[2], d[3], t[1], t[2], t[3], "second", z)
   : d \in MCDays, t \in {<<23, 59, 60>>, <<0, 30, 0>>}, z \in MCZones}
  \cup {Times!WrittenTime(2000, 1, 1, 0, 0, 0, precision, z)
        : precision \in Times!Dates \cup {"minute"}, z \in MCZones}
  \cup {[Times!WrittenTime(2000, 1, 1, 0, 0, 0, precision, z) EXCEPT !.fraction = {f}]
        : precision \in {"minute", "second"}, f \in {Times!BadFraction, 5}, z \in MCZones}
MCCompanions ==
  [offset : {{z} : z \in MCZones \ {Times!NoZone}} \cup {{}},
   fraction : {{}, {5}, {Times!BadFraction}}]

-----------------------------------------------------------------------------
(* ImageClaims: two or three observations on sizes and orientations, on    *)
(* transforms of the items of a HEIF file, on times or on colours.         *)

Place(format, item, section, metadata) ==
  [format |-> format, item |-> item, part |-> section, n |-> 1, metadata |-> metadata]
Png == Place("png", 0, "main", FALSE)
Tiff == Place("tiff", 0, "main", FALSE)
Exif == Place("jpeg", 0, "exif", FALSE)
Ifd1 == Place("jpeg", 0, "ifd1", FALSE)
RawImage == Place("raw", 0, "main", FALSE)
Chunk == Place("webp", 0, "chunk", FALSE)
Elsewhere == Place("other", 0, "main", FALSE)
Item(i) == Place("heif", i, "main", FALSE)
Meta(i) == Place("heif", i, "exif", TRUE)

Read(ns, tag, value) ==
  [id |-> 0, source |-> 1, ns |-> ns, tag |-> tag, value |-> value, family |-> ns.format, method |-> "Structure"]
N(ns, tag, value) == Read(ns, tag, [kind |-> "number", number |-> value])
W(ns, tag, value) == Read(ns, tag, [kind |-> "words", words |-> value])
T(ns, tag, value) == Read(ns, tag, [kind |-> "text", text |-> value])
At30(zone) == Times!WrittenTime(2000, 1, 1, 0, 30, 0, "second", zone)
Numbered(list) == [i \in DOMAIN list |-> [list[i] EXCEPT !.id = i]]

MCSizes ==
  {N(Png, "width", 4), N(Exif, "pixel_x_dimension", 4), N(Exif, "tiff:ImageWidth", 5), N(Tiff, "width", 6),
   N(Png, "height", 3), N(Png, "height", 0), N(Exif, "orientation", 6), N(RawImage, "orientation", 1),
   W(Exif, "orientation", "x"), N(Ifd1, "width", 1), N(Chunk, "width", 2), W(Chunk, "type", "ANMF"),
   N(Png, "sensor_height", 9), N(Elsewhere, "width", 1)}
MCHeif ==
  {N(Item(1), "rotation_quarters", 1), N(Item(1), "rotation_quarters", 3), N(Item(1), "rotation_quarters", 4),
   N(Item(1), "mirror_axis", 0), N(Item(1), "mirror_axis", 1), N(Item(2), "rotation_quarters", 1),
   N(Meta(1), "orientation", 8), N(Meta(2), "orientation", 8), N(Item(2), "width", 7), N(Item(2), "is_primary", 1)}
MCPrimary == <<N(Item(1), "is_primary", 1), N(Item(1), "width", 4), N(Item(1), "height", 3)>>
MCTimes ==
  {T(Exif, "datetime_original", At30(Times!NoZone)), T(Exif, "datetime_original", At30(Times!Zone(60))),
   T(Exif, "offset_time_original", Times!Zone(60)), T(Exif, "offset_time_original", Times!Zone(0)),
   T(Exif, "subsec_time_original", [digits |-> 5]), T(Exif, "subsec_time_original", [digits |-> 7]),
   T(Exif, "exif:DateTimeOriginal", At30(Times!NoZone)), T(Png, "datetime_original", At30(Times!Zone(0))),
   T(Ifd1, "timestamp", At30(Times!NoZone)), T(Meta(2), "created", At30(Times!NoZone)),
   T(Png, "created", Times!WrittenTime(2000, 1, 1, 23, 59, 60, "second", Times!Zone(0)))}
MCColours ==
  {N(Png, "color_type", 2), N(Png, "color_type", 9), N(Exif, "photometric_interpretation", 5),
   W(Exif, "color_space", "RGB"), N(Exif, "color_space", 1), W(Exif, "color_space", "CMYK"),
   W(Ifd1, "color_space", "GRAY")}

MCImages ==
  {Numbered(s) : s \in [1 .. 2 -> MCSizes] \cup [1 .. 3 -> MCSizes] \cup {MCPrimary \o t : t \in [1 .. 3 -> MCHeif]}
                         \cup [1 .. 3 -> MCTimes] \cup [1 .. 3 -> MCColours]}
  \cup {<<N(Png, "width", 4), N(Png, "width", 4)>>,
        Numbered(<<N(Png, "width", 4), [N(Png, "width", 4) EXCEPT !.source = 2]>>)}
MCImageLimits == {[alternatives |-> 2, links |-> 9]}

-----------------------------------------------------------------------------
(* GeoTracks: three points with times of their own scope, of another, of   *)
(* two kinds or of none, or with what is no time or a point of another     *)
(* field; five points of one record, some of them bad; or one of each of   *)
(* five records.                                                           *)

Saying(scope, field, value) ==
  [scope |-> scope, field |-> field, value |-> value, resolution |-> "accepted"]
Gps(value) == Saying("s", "location.gps", value)
Spot(place) == Gps(Point(place, Unset, Unset))
Captured(at) == Saying("s", "metadata.captured", Time(at, 1, "m"))
OfOther(c) == [c EXCEPT !.scope = "t"]
NotThis(c) == [c EXCEPT !.resolution = "rejected"]
MCTimings ==
  {<<Captured(1)>>, <<Captured(2), OfOther(Captured(9))>>, <<Captured(9), NotThis(Captured(1))>>,
   <<OfOther(Captured(9))>>, <<Captured(1), Captured(9)>>, <<Captured(Unset)>>,
   <<Saying("s", "metadata.captured", Text("x")), Captured(9)>>,
   <<Captured(1), Saying("s", "location.other", Point(1, Unset, Unset))>>}
Seen(path, claims) == [path |-> path, claims |-> claims]

MCCases ==
  {[records |-> <<Seen(2, <<Spot(p2)>> \o t2), Seen(1, <<Spot(p1)>> \o t1), Seen(3, <<Spot(1)>> \o t3)>>,
    groups |-> 1 :> 3 @@ 2 :> 3]
   : p1, p2 \in {0, 3}, t1, t2, t3 \in MCTimings}
  \cup {[records |-> <<Seen(1, [i \in 1 .. 5 |-> IF places[i] = 9 THEN Gps(BadPoint(9)) ELSE Spot(places[i])])>>,
         groups |-> << >>]
        : places \in [1 .. 5 -> {0, 1, 2, 4, 9}]}
  \cup {[records |-> [i \in 1 .. 5 |-> Seen(i, <<Spot(places[i])>>)], groups |-> << >>]
        : places \in [1 .. 5 -> {0, 2}]}
MCSettings ==
  {[radius |-> 1, members |-> 2, gap |-> 5, speed |-> 1, budget |-> 9],
   [radius |-> 1, members |-> 2, gap |-> 1, speed |-> 1, budget |-> 99]}

-----------------------------------------------------------------------------
(* RecordAnalysis: two or three observations of two parsers of their own   *)
(* kind; places with their references; parts of packages; and records that *)
(* come with claims, of a parser, of a person and of an image.             *)

Group(n, scope, parser) == [n |-> n, scope |-> scope, parser |-> parser, family |-> parser]
G1 == Group(1, "", "jpeg")
G2 == Group(2, "", "library")
G3 == Group(3, "item2", "jpeg")
Packed == Group(4, "", "package")
Made(group, name, value) == [id |-> 0, group |-> group, name |-> name, value |-> value, lossless |-> TRUE]
Stated(group, name, t) == Made(group, name, [kind |-> "time", time |-> t])
Offset(group, name, zone) == Made(group, name, [kind |-> "zone", zone |-> zone])
Texted(group, name, t) == Made(group, name, [kind |-> "text", text |-> t])
Counted(group, name, n) == Made(group, name, [kind |-> "number", number |-> n])

MCTimed ==
  {Stated(G1, "datetime_original", At30(Times!NoZone)), Stated(G2, "datetime_original", At30(Times!Zone(60))),
   Offset(G1, "offset_time_original", Times!Zone(60)), Offset(G1, "offset_time_original", Times!Zone(0)),
   Offset(G1, "offset_time", Times!Zone(0)), Stated(G3, "datetime_original", At30(Times!Zone(0))),
   Stated(G1, "created", At30(Times!Zone(0))), Counted(G2, "created_filetime", 1000),
   Stated(G2, "timestamp", At30(Times!Zone(1000))), Counted(G2, "mtime", 1000), Texted(G1, "created_filetime", "x"),
   Texted(G1, "author", "a"), Texted(G2, "author", "b"),
   [Texted(G2, "author", "a") EXCEPT !.lossless = FALSE], Counted(G1, "duration_ms", 2), Counted(G2, "duration_us", 2000)}
MCPlaced ==
  {Texted(G1, "latitude_ref", "N"), Texted(G1, "latitude_ref", "S"), Texted(G1, "latitude_ref", "x"),
   Texted(G1, "latitude_ref", "E"), Texted(G1, "latitude_ref", "W"), Counted(G1, "latitude", -5),
   Counted(G1, "longitude", 20), Counted(G1, "altitude", 7), Counted(G1, "altitude_ref", 1),
   Texted(G1, "longitude_ref", "W")}
MCLatitudes ==
  {[kind |-> "number", number |-> -5], [kind |-> "number", number |-> 91],
   [kind |-> "angles", angles |-> <<5, 30, 0>>], [kind |-> "angles", angles |-> <<5, 60, 0>>]}
MCParts ==
  {Texted(Packed, "validated_main_part", "word"), Texted(Packed, "validated_main_part", "sheet"),
   Texted(Packed, "PartName", "word"), Texted(Packed, "PartName", "sheet"),
   Texted(Packed, "ContentType", "word"), Texted(Packed, "javascript", "run")}

NoImage == [claims |-> << >>, conflicts |-> {}, issues |-> {}, cut |-> FALSE]
Extracted(os) ==
  [observations |-> Numbered(os), image |-> NoImage, claims |-> << >>,
   conflicts |-> {}, diagnostics |-> {}, declared |-> "none", media |-> "jpeg", times |-> {}]
Package(os) == [Extracted(os) EXCEPT !.media = "zip", !.declared = "word", !.diagnostics = {<<"subtype", {}>>}]

Held(id, value, support, resolution) ==
  [id |-> id, key |-> <<"", "metadata.captured">>, value |-> value, support |-> support, against |-> {},
   agreement |-> "single", resolution |-> resolution]
Original == <<{}, {1}>>
MCRead == {Time(5, 1, Original), Time(5, 60, Original), Time(9, 1, Original)}
MCHeld == MCRead \cup {[BadTime(Original) EXCEPT !.at = 3]}
Holds(given, image, conflicts) ==
  [Extracted(<<Texted(G1, "title", "t"), Texted(G2, "title", "t")>>) EXCEPT
     !.claims = given, !.times = {4},
     !.image = [claims |-> image, conflicts |-> conflicts, issues |-> {<<"image", {2}>>}, cut |-> FALSE]]
MCHolding ==
  {Holds(<<Held(4, v, {1}, r), Held(2, w, support, s)>>, <<Held(1, x, {2}, "accepted")>>, {})
     : v, w \in MCHeld, x \in MCRead, support \in {{}, {2}}, r \in {"unresolved", "rejected"}, s \in {"unresolved", "user"}}
  \cup {Holds(<<Held(4, v, {id}, "unresolved")>>, <<Held(1, v, {2}, "unresolved"), Held(2, x, {1}, "unresolved")>>,
              {[key |-> <<"", "metadata.captured">>, alternatives |-> {1, 2}]})
        : v, x \in MCRead, id \in {1, 3}}
  \cup {Holds(<< >>, <<[Held(1, v, {2}, "unresolved") EXCEPT !.against = {1}],
                      [Held(2, x, {1}, "unresolved") EXCEPT !.against = {2}]>>,
              {[key |-> <<"", "metadata.captured">>, alternatives |-> {1, 2}]})
        : v, x \in MCRead}
  \cup {[Holds(<<Held(4, v, {1}, "unresolved")>>, << >>, {}) EXCEPT !.image.cut = TRUE] : v \in MCHeld}

MCRecords ==
  {Extracted(s) : s \in [1 .. 3 -> MCTimed]}
  \cup {Extracted(<<Made(G1, "latitude", v), Counted(G1, "longitude", 10)>> \o s) : v \in MCLatitudes, s \in [1 .. 2 -> MCPlaced]}
  \cup {Package(<<Texted(Packed, "validated_main_part", "word")>> \o s) : s \in [1 .. 3 -> MCParts]}
  \cup MCHolding
MCRecordLimits == {[fields |-> 99, comparisons |-> 99], [fields |-> 6, comparisons |-> 3]}
=============================================================================
