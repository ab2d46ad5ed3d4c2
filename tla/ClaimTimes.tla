----------------------------- MODULE ClaimTimes -----------------------------
(***************************************************************************)
(* The two readings of a time that is written down: timestamp of           *)
(* core/images.rs, for the tags of an image, and parse_timestamp of        *)
(* analysis/timestamp.rs, for everything else.  Both are given what other  *)
(* tags say of the offset (the first also of the fraction of a second).    *)
(*                                                                         *)
(* A text has its numbers, as far as its precision goes, a zone, and a     *)
(* fraction; an option is a set of at most one member.  An instant is a    *)
(* minute since 1970 and a second, which keeps it a number TLC can hold.   *)
(***************************************************************************)
EXTENDS Integers, Sequences, SequencesExt

Zone(minutes) == [kind |-> "offset", minutes |-> minutes]
NoZone == [kind |-> "none", minutes |-> 0]
Unknown == [kind |-> "unknown", minutes |-> 0]   \* -00:00
BadZone == [kind |-> "bad", minutes |-> 0]
BadFraction == -1

WrittenTime(year, month, day, hour, minute, second, precision, zone) ==
  [year |-> year, month |-> month, day |-> day, hour |-> hour, minute |-> minute,
   second |-> second, precision |-> precision, zone |-> zone, fraction |-> {}]

Dates == {"year", "month", "day"}

-----------------------------------------------------------------------------
(* The calendar *)

Leap(year) == year % 4 = 0 /\ (year % 100 # 0 \/ year % 400 = 0)
MonthDays(year) == <<31, IF Leap(year) THEN 29 ELSE 28, 31, 30, 31, 30, 31, 31, 30, 31, 30, 31>>

InCalendar(t) ==
  /\ t.year # 0 /\ t.month \in 1 .. 12 /\ t.day \in 1 .. MonthDays(t.year)[t.month]
  /\ t.hour <= 23 /\ t.minute <= 59 /\ t.second <= 60

(* The days of the months before a month. *)
DaysBefore(year, month) ==
  LET before[m \in 0 .. 11] == IF m = 0 THEN 0 ELSE before[m - 1] + MonthDays(year)[m]
  IN  before[month - 1]

EpochDays(t) ==
  LET previous == t.year - 1
  IN  365 * previous + (previous \div 4) - (previous \div 100) + (previous \div 400)
        + DaysBefore(t.year, t.month) + (t.day - 1) - 719162

(* An offset of minutes takes a local time to the instant it is. *)
Instant(t, offset) ==
  [minute |-> EpochDays(t) * 1440 + t.hour * 60 + t.minute - offset, second |-> t.second]

(* parse_offset, offset_minutes *)
Minutes(zone) == IF zone.kind \in {"offset", "unknown"} THEN {zone.minutes} ELSE {}

-----------------------------------------------------------------------------
(* images.rs *)

(* The offset of a text and its companion, or none; {{}} is that of a text *)
(* whose offset is not known, {} says that the offsets do not agree.       *)
ImageOffset(zone, companion) ==
  LET said == companion \ {Unknown}
  IN  IF zone = NoZone
        THEN IF said = {} THEN {{}} ELSE {Minutes(c) : c \in {x \in said : Minutes(x) # {}}}
      ELSE IF Minutes(zone) = {} \/ \E c \in said : Minutes(c) # Minutes(zone) THEN {}
      ELSE IF zone = Unknown THEN {{}} ELSE {Minutes(zone)}

(* A leap second is no instant, and neither is a time without an offset. *)
FullTime(t, companion, fraction) ==
  LET fractions == IF t.fraction # {} THEN t.fraction ELSE fraction
  IN  IF ~InCalendar(t) \/ BadFraction \in fractions THEN {}
      ELSE {[instant |-> IF t.second = 60 THEN {} ELSE {Instant(t, o) : o \in offset},
             fraction |-> fractions, offset |-> offset,
             precision |-> IF fractions = {} THEN "second" ELSE "fraction",
             original |-> t]
            : offset \in ImageOffset(t.zone, companion)}

(* timestamp: a partial time has no instant, and no fraction of another tag; *)
(* one that is written after the minute is kept.                             *)
image_timestamp(t, companion, fraction) ==
  IF t.precision = "second" THEN FullTime(t, companion, fraction)
  ELSE IF fraction # {} \/ (t.precision \in Dates /\ t.zone # NoZone) THEN {}
  ELSE {[full EXCEPT !.instant = {}, !.precision = t.precision] : full \in FullTime(t, companion, {})}

-----------------------------------------------------------------------------
(* timestamp.rs *)

(* Broken variant of ParsedOffset: the companion is believed before the text. *)
CompanionFirst(zone, companion) ==
  IF companion = {} THEN {Minutes(zone)} ELSE {UNION {Minutes(c) : c \in companion}}

ParsedOffset(zone, companion) ==
  LET explicit == Minutes(zone)
      external == UNION {Minutes(c) : c \in companion}
  IN  IF \/ zone # NoZone /\ explicit = {}
         \/ companion # {} /\ external = {}
         \/ explicit # {} /\ external # {} /\ explicit # external
        THEN {}
      ELSE IF zone = Unknown \/ (zone = NoZone /\ Unknown \in companion) THEN {{}}
      ELSE {IF explicit # {} THEN explicit ELSE external}

parse_timestamp(t, companion) ==
  IF ~InCalendar(t) \/ BadFraction \in t.fraction \/ (t.fraction # {} /\ t.precision # "second") THEN {}
  ELSE {[instant |-> IF t.precision \in Dates \/ t.second = 60 THEN {}
                     ELSE {Instant(t, o) : o \in offset},
         fraction |-> t.fraction, offset |-> offset,
         precision |-> IF t.fraction = {} THEN t.precision ELSE "fraction",
         original |-> t]
        : offset \in ParsedOffset(t.zone, companion)}

(* valid_timestamp; the offsets of a written time are of less than a day. *)
valid_timestamp(value) ==
  /\ \A o \in value.offset : o \in -1439 .. 1439
  /\ value.precision \in Dates => value.instant = {} /\ value.fraction = {}
=============================================================================
