---------------------------- MODULE TimeReading ----------------------------
(***************************************************************************)
(* The two readings of ClaimTimes, asked about the same text.              *)
(***************************************************************************)
EXTENDS ClaimTimes, FiniteSets

CONSTANTS
  Texts,       \* what is written
  OtherTags    \* what other tags say: an offset or none, a fraction or none

VARIABLES text, companion, image, parsed

timeVars == <<text, companion, image, parsed>>

(* What is written has its numbers, of which digits make naturals; an offset *)
(* that can be read is of less than a day (offset_minutes); a date has no    *)
(* fraction of a second.  At most one other tag says an offset, and says it. *)
Zones == {NoZone, Unknown, BadZone} \cup {Zone(minutes) : minutes \in -1439 .. 1439}
TimeAssumption ==
  /\ \A t \in Texts :
       /\ t \in [year : Nat, month : Nat, day : Nat, hour : Nat, minute : Nat, second : Nat,
                precision : Dates \cup {"minute", "second"}, zone : Zones, fraction : {t.fraction}]
       /\ t.precision \in Dates => t.fraction = {}
  /\ \A c \in OtherTags : c.offset = {} \/ \E z \in Zones \ {NoZone} : c.offset = {z}

NotRead == [read |-> FALSE, values |-> {}]
Reads(values) == [read |-> TRUE, values |-> values]

TimeInit == text \in Texts /\ companion \in OtherTags /\ image = NotRead /\ parsed = NotRead

ReadImage ==
  /\ image = NotRead
  /\ image' = Reads(image_timestamp(text, companion.offset, companion.fraction))
  /\ UNCHANGED <<text, companion, parsed>>

ReadOther ==
  /\ parsed = NotRead
  /\ parsed' = Reads(parse_timestamp(text, companion.offset))
  /\ UNCHANGED <<text, companion, image>>

TimeNext == ReadImage \/ ReadOther

TimeSpec == TimeInit /\ [][TimeNext]_timeVars

-----------------------------------------------------------------------------
(* The day after, counted on the fingers. *)
Gregorian(year) == IF year % 100 = 0 THEN year % 400 = 0 ELSE year % 4 = 0
DayAfter(t) ==
  LET long == {1, 3, 5, 7, 8, 10, 12}
      last == IF t.month = 2 THEN IF Gregorian(t.year) THEN 29 ELSE 28
              ELSE IF t.month \in long THEN 31 ELSE 30
  IN  IF t.day < last THEN [t EXCEPT !.day = @ + 1]
      ELSE IF t.month < 12 THEN [t EXCEPT !.day = 1, !.month = @ + 1]
      ELSE [t EXCEPT !.day = 1, !.month = 1, !.year = @ + 1]

Instants(answer) == UNION {v.instant : v \in answer.values}

(* A day has 1440 minutes, through the ends of months, of leap years and   *)
(* of centuries: the instant of a day and the instant of the next.         *)
CalendarCounts ==
  \A answer \in {image, parsed} :
    \A v \in answer.values : \A i \in v.instant : \A o \in v.offset :
      /\ InCalendar(DayAfter(text))
      /\ Instant(DayAfter(text), o).minute = i.minute + 1440
      /\ (text.year = 1970 /\ text.month = 1 /\ text.day = 1)
           => i.minute = text.hour * 60 + text.minute - o

(* No instant is inferred: a time has one only if the text, or a companion *)
(* that the text does not contradict, says its offset, and then it is the  *)
(* instant of the local time at that offset.  Every value is valid.        *)
NoInstantInferred ==
  \A answer \in {image, parsed} :
    \A v \in answer.values :
      /\ valid_timestamp(v)
      /\ v.instant # {} =>
           \E z \in {text.zone} \cup companion.offset :
             z.kind = "offset" /\ v.offset = {z.minutes} /\ v.instant = {Instant(text, z.minutes)}
      /\ text.zone.kind = "offset" => v.offset = {text.zone.minutes}

(* The two readings never tell different instants of one time. *)
ReadingsAgree ==
  Instants(image) = {} \/ Instants(parsed) = {} \/ Instants(image) = Instants(parsed)

(* Times are those of the calendar, their instants are not inferred, and    *)
(* the two readers of them agree.                                           *)
TimesSound == CalendarCounts /\ NoInstantInferred /\ ReadingsAgree
=============================================================================
