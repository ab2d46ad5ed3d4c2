--------------------------- MODULE AnalysisProofs ---------------------------
(***************************************************************************)
(* Proofs about TimeReading, for any texts and companions, and about       *)
(* RecordAnalysis, for any records, bounds and number of analyses.         *)
(*                                                                         *)
(* The times.  Days are counted by adding up months and by leap days per   *)
(* year; that the day after has the next number follows month by month     *)
(* (MonthsAddUp) and, for the last day of a year, from the number of leap  *)
(* days up to it (LeapDays).  What either reader says is one of few values *)
(* (ImageValues, ParsedValues), with an instant only of a stated offset.   *)
(*                                                                         *)
(* The analysis.  What is added is added behind (AddedIs), sorting by      *)
(* number keeps all claims (ByIdIs), and a judgement keeps number, key,    *)
(* value and decision (JudgedIs); that what is derived from observations   *)
(* is a list of claims (DerivedIs) keeps the record a record.              *)
(***************************************************************************)
EXTENDS TimeReading, RecordAnalysis, RecursionLemmas, SequenceTheorems

(* DaysBefore adds up the months. *)
LEMMA MonthsAddUp ==
  ASSUME NEW y \in Nat
  PROVE  /\ DaysBefore(y, 1) = 0
         /\ \A m \in 1..11 : DaysBefore(y, m + 1) = DaysBefore(y, m) + MonthDays(y)[m]
         /\ \A m \in 1..12 : DaysBefore(y, m) \in Int
<1> DEFINE N == 11
           base == 0
           step == [x \in Int \X (1..N) |-> x[1] + MonthDays(y)[x[2]]]
           Is(f) == f = [n \in 0..11 |-> IF n = 0 THEN 0 ELSE f[n - 1] + MonthDays(y)[n]]
           before == CHOOSE f : Is(f)
<1>1. \A n \in 1..12 : MonthDays(y)[n] \in Int
  BY DEF MonthDays
<1>2. step \in [Int \X (1..N) -> Int]
  BY <1>1
<1>3. Recursive(N, Int, base, step)
  <2>1. N \in Nat /\ base \in Int
    OBVIOUS
  <2> HIDE DEF step, N, base
  <2> QED BY <1>2, <2>1, Recursion
<1>4. PICK f \in [0..N -> Int] : f[0] = base /\ \A n \in 1..N : f[n] = step[<<f[n - 1], n>>]
  BY <1>3 DEF Recursive
<1>5. \A n \in 1..N : f[n] = f[n - 1] + MonthDays(y)[n]
  <2> SUFFICES ASSUME NEW n \in 1..N PROVE f[n] = f[n - 1] + MonthDays(y)[n]
    OBVIOUS
  <2>1. f[n - 1] \in Int
    BY <1>4
  <2> QED BY <2>1, <1>4
<1>6. Is(f)
  <2>1. DOMAIN f = 0..11
    BY <1>4
  <2>2. \A n \in 0..11 : f[n] = IF n = 0 THEN 0 ELSE f[n - 1] + MonthDays(y)[n]
    BY <1>4, <1>5
  <2>3. f = [n \in DOMAIN f |-> f[n]]
    BY <1>4
  <2> QED BY <2>1, <2>2, <2>3
<1>7. Is(before)
  <2> HIDE DEF Is
  <2> QED BY <1>6
<1>8. \A m \in Int : DaysBefore(y, m) = before[m - 1]
  BY DEF DaysBefore
<1> HIDE DEF before
<1>9. before[0] = 0 /\ \A n \in 1..11 : before[n] = before[n - 1] + MonthDays(y)[n]
  BY <1>7
<1>10. \A n \in 0..11 : before[n] \in Int
  <2> DEFINE R == {n \in 0..11 : before[n] \in Int}
  <2>1. 0 \in R /\ \A n \in 1..11 : n - 1 \in R => n \in R
    BY <1>1, <1>9
  <2> HIDE DEF R
  <2>2. 0..11 \subseteq R
    BY <2>1, UpTo
  <2> QED BY <2>2 DEF R
<1> QED BY <1>8, <1>9, <1>10

-----------------------------------------------------------------------------
(* The calendar of any year. *)

(* The leap days before a year are one more after a leap year. *)
LEMMA LeapDays ==
  ASSUME NEW y \in Nat \ {0}
  PROVE  (y \div 4) - (y \div 100) + (y \div 400)
           = ((y - 1) \div 4) - ((y - 1) \div 100) + ((y - 1) \div 400) + (IF Leap(y) THEN 1 ELSE 0)
<1>1. y \div 4 = ((y - 1) \div 4) + (IF y % 4 = 0 THEN 1 ELSE 0)
  OBVIOUS
<1>2. y \div 100 = ((y - 1) \div 100) + (IF y % 100 = 0 THEN 1 ELSE 0)
  OBVIOUS
<1>3. y \div 400 = ((y - 1) \div 400) + (IF y % 400 = 0 THEN 1 ELSE 0)
  OBVIOUS
<1>4. (y % 400 = 0 => y % 100 = 0) /\ (y % 100 = 0 => y % 4 = 0)
  OBVIOUS
<1>5. /\ (y - 1) \div 4 \in Int /\ (y - 1) \div 100 \in Int /\ (y - 1) \div 400 \in Int
      /\ y \div 4 \in Int /\ y \div 100 \in Int /\ y \div 400 \in Int
  OBVIOUS
<1> QED BY <1>1, <1>2, <1>3, <1>4, <1>5 DEF Leap

LEMMA GregorianIsLeap == ASSUME NEW y \in Nat PROVE Gregorian(y) <=> Leap(y)
<1>1. (y % 400 = 0 => y % 100 = 0) /\ (y % 100 = 0 => y % 4 = 0)
  OBVIOUS
<1> QED BY <1>1 DEF Gregorian, Leap

(* What may be written. *)
WrittenOK(t) ==
  /\ t \in [year : Nat, month : Nat, day : Nat, hour : Nat, minute : Nat, second : Nat,
           precision : Dates \cup {"minute", "second"}, zone : Zones, fraction : {t.fraction}]
  /\ t.precision \in Dates => t.fraction = {}

LastDay(t) == MonthDays(t.year)[t.month]
EndsMonth(t) == [t EXCEPT !.day = 1, !.month = @ + 1]
EndsYear(t) == [t EXCEPT !.day = 1, !.month = 1, !.year = @ + 1]

LEMMA DayAfterIs ==
  ASSUME NEW t, WrittenOK(t), InCalendar(t)
  PROVE  /\ LastDay(t) \in Nat /\ t.day <= LastDay(t)
         /\ t.day < LastDay(t) => DayAfter(t) = [t EXCEPT !.day = @ + 1]
         /\ t.day = LastDay(t) /\ t.month < 12 => DayAfter(t) = EndsMonth(t)
         /\ t.day = LastDay(t) /\ t.month = 12 => DayAfter(t) = EndsYear(t)
<1>1. t.year \in Nat /\ t.month \in 1..12 /\ t.day \in 1..LastDay(t)
  BY DEF WrittenOK, InCalendar, LastDay
<1>2. Gregorian(t.year) <=> Leap(t.year)
  BY <1>1, GregorianIsLeap
<1>3. LastDay(t) = IF t.month = 2 THEN IF Gregorian(t.year) THEN 29 ELSE 28
                   ELSE IF t.month \in {1, 3, 5, 7, 8, 10, 12} THEN 31 ELSE 30
  BY <1>1, <1>2 DEF LastDay, MonthDays
<1>4. LastDay(t) \in Nat /\ t.day <= LastDay(t)
  BY <1>1, <1>3
<1>5. DayAfter(t) = IF t.day < LastDay(t) THEN [t EXCEPT !.day = @ + 1]
                    ELSE IF t.month < 12 THEN EndsMonth(t) ELSE EndsYear(t)
  BY <1>3 DEF DayAfter, EndsMonth, EndsYear
<1>6. t.day = LastDay(t) => ~(t.day < LastDay(t))
  BY <1>4
<1>7. t.month = 12 => ~(t.month < 12)
  OBVIOUS
<1> QED BY <1>4, <1>5, <1>6, <1>7

(* The day after is a day, and is 1440 minutes later. *)
LEMMA NextDay ==
  ASSUME NEW t, WrittenOK(t), InCalendar(t), NEW o \in Int
  PROVE  /\ InCalendar(DayAfter(t))
         /\ Instant(t, o).minute \in Int
         /\ Instant(DayAfter(t), o).minute = Instant(t, o).minute + 1440
<1> DEFINE u == DayAfter(t)
           y == t.year
           Days(year) == 365 * (year - 1) + ((year - 1) \div 4) - ((year - 1) \div 100) + ((year - 1) \div 400)
<1>1. /\ t \in [year : Nat, month : Nat, day : Nat, hour : Nat, minute : Nat, second : Nat,
               precision : Dates \cup {"minute", "second"}, zone : Zones, fraction : {t.fraction}]
      /\ y \in Nat \ {0} /\ t.month \in 1..12 /\ t.day \in 1..LastDay(t)
      /\ t.hour \in Nat /\ t.minute \in Nat /\ t.hour <= 23 /\ t.minute <= 59 /\ t.second <= 60
  BY DEF WrittenOK, InCalendar, LastDay
<1>2. PICK epoch \in Int :
        \A x : EpochDays(x) = Days(x.year) + DaysBefore(x.year, x.month) + (x.day - 1) - epoch
  <2>1. \A x : EpochDays(x) = Days(x.year) + DaysBefore(x.year, x.month) + (x.day - 1) - 719162
    BY SMT DEF EpochDays
  <2> QED BY <2>1, SMT
<1>3. \A n \in Nat \ {0} : Days(n) \in Int /\ Days(n + 1) = Days(n) + 365 + (IF Leap(n) THEN 1 ELSE 0)
  <2> SUFFICES ASSUME NEW n \in Nat \ {0}
               PROVE  Days(n) \in Int /\ Days(n + 1) = Days(n) + 365 + (IF Leap(n) THEN 1 ELSE 0)
    OBVIOUS
  <2>1. (n + 1) - 1 = n
    OBVIOUS
  <2>2. /\ (n - 1) \div 4 \in Int /\ (n - 1) \div 100 \in Int /\ (n - 1) \div 400 \in Int
        /\ n \div 4 \in Int /\ n \div 100 \in Int /\ n \div 400 \in Int
    OBVIOUS
  <2> QED BY <2>1, <2>2, LeapDays
<1> HIDE DEF Days
<1>4. \A n \in Nat, m \in 1..12 : DaysBefore(n, m) \in Int
  BY MonthsAddUp
<1>5. EpochDays(t) \in Int
  BY <1>1, <1>2, <1>3, <1>4
<1>6. /\ t.day < LastDay(t) => u = [t EXCEPT !.day = @ + 1]
      /\ t.day = LastDay(t) /\ t.month < 12 => u = EndsMonth(t)
      /\ t.day = LastDay(t) /\ t.month = 12 => u = EndsYear(t)
      /\ LastDay(t) \in Nat /\ t.day <= LastDay(t)
  BY DayAfterIs
<1>7. InCalendar(DayAfter(t)) <=> InCalendar(u)
  OBVIOUS
<1> HIDE DEF u
<1>8. EpochDays(u) = EpochDays(t) + 1 /\ InCalendar(u)
      /\ u.hour = t.hour /\ u.minute = t.minute
  <2>1. CASE t.day < LastDay(t)
    <3>1. /\ u.year = y /\ u.month = t.month /\ u.day = t.day + 1
          /\ u.hour = t.hour /\ u.minute = t.minute /\ u.second = t.second
      BY <1>1, <2>1, <1>6
    <3>2. EpochDays(u) = EpochDays(t) + 1
      BY <1>1, <1>2, <1>3, <1>4, <3>1
    <3>3. u.day \in 1..MonthDays(u.year)[u.month]
      BY <1>1, <2>1, <3>1, <1>6 DEF LastDay
    <3> QED BY <1>1, <3>1, <3>2, <3>3 DEF InCalendar
  <2>2. CASE t.day = LastDay(t) /\ t.month < 12
    <3>1. /\ u.year = y /\ u.month = t.month + 1 /\ u.day = 1
          /\ u.hour = t.hour /\ u.minute = t.minute /\ u.second = t.second
      BY <1>1, <2>2, <1>6 DEF EndsMonth
    <3>2. DaysBefore(y, t.month + 1) = DaysBefore(y, t.month) + t.day
      BY <1>1, <2>2, MonthsAddUp DEF LastDay
    <3>3. EpochDays(u) = EpochDays(t) + 1
      BY <1>1, <1>2, <1>3, <1>4, <3>1, <3>2
    <3>4. 1 \in 1..MonthDays(y)[t.month + 1]
      BY <1>1, <2>2 DEF MonthDays
    <3> QED BY <1>1, <2>2, <3>1, <3>3, <3>4 DEF InCalendar
  <2>3. CASE t.day = LastDay(t) /\ t.month = 12
    <3>1. /\ u.year = y + 1 /\ u.month = 1 /\ u.day = 1
          /\ u.hour = t.hour /\ u.minute = t.minute /\ u.second = t.second
      BY <1>1, <2>3, <1>6 DEF EndsYear
    <3>2. t.day = 31
      BY <1>1, <2>3 DEF LastDay, MonthDays
    <3>3. DaysBefore(y, 12) = 334 + (IF Leap(y) THEN 1 ELSE 0)
      <4> DEFINE d == [m \in 1..12 |-> DaysBefore(y, m)]
      <4>1. /\ d[1] = 0 /\ \A m \in 1..11 : d[m + 1] = d[m] + MonthDays(y)[m]
            /\ d[12] = DaysBefore(y, 12)
        BY <1>1, MonthsAddUp
      <4> HIDE DEF d
      <4>2. d[2] = 31
        BY <4>1 DEF MonthDays
      <4>3. d[3] = 59 + (IF Leap(y) THEN 1 ELSE 0)
        BY <4>1, <4>2 DEF MonthDays
      <4>4. d[4] = d[3] + 31 /\ d[5] = d[4] + 30 /\ d[6] = d[5] + 31
        BY <4>1 DEF MonthDays
      <4>5. d[7] = d[6] + 30 /\ d[8] = d[7] + 31 /\ d[9] = d[8] + 31
        BY <4>1 DEF MonthDays
      <4>6. d[10] = d[9] + 30 /\ d[11] = d[10] + 31 /\ d[12] = d[11] + 30
        BY <4>1 DEF MonthDays
      <4> QED BY <4>1, <4>3, <4>4, <4>5, <4>6
    <3>4. DaysBefore(y + 1, 1) = 0
      BY <1>1, MonthsAddUp
    <3>5. EpochDays(u) = EpochDays(t) + 1
      BY <1>1, <1>2, <1>3, <2>3, <3>1, <3>2, <3>3, <3>4
    <3>6. 1 \in 1..MonthDays(y + 1)[1]
      BY DEF MonthDays
    <3> QED BY <1>1, <3>1, <3>5, <3>6 DEF InCalendar
  <2> QED BY <1>1, <2>1, <2>2, <2>3, <1>6
<1> QED BY <1>1, <1>5, <1>8, SMT DEF Instant, u
-----------------------------------------------------------------------------
(* What two readers make of an offset in a text and one beside it. *)

SaidOK(c) == c = {} \/ \E z \in Zones \ {NoZone} : c = {z}

(* The offset of a reading is that of the text, or else of its companion. *)
Says(offset, zone, c) ==
  /\ offset = {} \/ \E z \in {zone} \cup c : z.kind = "offset" /\ offset = {z.minutes} /\ z.minutes \in -1439..1439
  /\ zone.kind = "offset" => offset = {zone.minutes}

LEMMA ZoneIs ==
  ASSUME NEW z \in Zones
  PROVE  \/ z = NoZone /\ z.kind = "none" /\ Minutes(z) = {}
         \/ z = Unknown /\ z.kind = "unknown" /\ Minutes(z) = {0}
         \/ z = BadZone /\ z.kind = "bad" /\ Minutes(z) = {}
         \/ z.kind = "offset" /\ z.minutes \in -1439..1439 /\ Minutes(z) = {z.minutes}
              /\ z \notin {NoZone, Unknown, BadZone}
<1> DEFINE M == -1439..1439
<1>1. NoZone.kind = "none" /\ Unknown.kind = "unknown" /\ BadZone.kind = "bad" /\ Unknown.minutes = 0
  BY DEF NoZone, Unknown, BadZone
<1>2. z \in {NoZone, Unknown, BadZone} \/ \E minutes \in M : z = Zone(minutes)
  <2> HIDE DEF M
  <2> QED BY DEF Zones, M
<1> HIDE DEF M
<1>3. CASE z \in {NoZone, Unknown, BadZone}
  BY <1>1, <1>3 DEF Minutes
<1>4. CASE z \notin {NoZone, Unknown, BadZone}
  <2>1. PICK minutes \in M : z = Zone(minutes)
    BY <1>2, <1>4
  <2>2. z.kind = "offset" /\ z.minutes \in M
    BY <2>1 DEF Zone
  <2>3. Minutes(z) = {z.minutes}
    BY <2>2 DEF Minutes
  <2> QED BY <1>4, <2>2, <2>3 DEF M
<1> QED BY <1>3, <1>4

LEMMA ImageOffsetSays ==
  ASSUME NEW zone \in Zones, NEW c, SaidOK(c), NEW offset \in ImageOffset(zone, c)
  PROVE  Says(offset, zone, c)
<1> DEFINE said == c \ {Unknown}
<1>1. CASE zone = NoZone
  <2>1. zone.kind # "offset"
    BY <1>1 DEF NoZone
  <2>2. offset = {} \/ \E x \in said : offset = Minutes(x) /\ Minutes(x) # {}
    BY <1>1 DEF ImageOffset
  <2>3. \A x \in said : x \in Zones /\ x # Unknown
    BY DEF SaidOK
  <2>4. ASSUME NEW x \in said, Minutes(x) # {}
        PROVE  x.kind = "offset" /\ x.minutes \in -1439..1439 /\ Minutes(x) = {x.minutes}
    BY <2>3, <2>4, ZoneIs
  <2> QED BY <2>1, <2>2, <2>4 DEF Says
<1>2. CASE zone # NoZone
  <2>1. Minutes(zone) # {} /\ offset = IF zone = Unknown THEN {} ELSE Minutes(zone)
    BY <1>2 DEF ImageOffset
  <2> QED BY <1>2, <2>1, ZoneIs DEF Says
<1> QED BY <1>1, <1>2

LEMMA ParsedOffsetSays ==
  ASSUME NEW zone \in Zones, NEW c, SaidOK(c), NEW offset \in ParsedOffset(zone, c)
  PROVE  Says(offset, zone, c)
<1> DEFINE explicit == Minutes(zone)
           external == UNION {Minutes(x) : x \in c}
<1>1. /\ ~(zone # NoZone /\ explicit = {}) /\ ~(c # {} /\ external = {})
      /\ offset = IF zone = Unknown \/ (zone = NoZone /\ Unknown \in c) THEN {}
                  ELSE IF explicit # {} THEN explicit ELSE external
  BY DEF ParsedOffset
<1>2. CASE zone = NoZone
  <2>1. zone.kind = "none" /\ explicit = {} /\ zone # Unknown
    BY <1>2 DEF NoZone, Minutes, Unknown
  <2>2. CASE c = {}
    BY <1>1, <1>2, <2>1, <2>2 DEF Says
  <2>3. ASSUME NEW z \in Zones \ {NoZone}, c = {z} PROVE Says(offset, zone, c)
    <3>1. external = Minutes(z)
      BY <2>3
    <3>2. offset = {} \/ (z # Unknown /\ offset = Minutes(z) /\ Minutes(z) # {})
      BY <1>1, <2>1, <2>3, <3>1
    <3>3. offset = {} \/ (z.kind = "offset" /\ offset = {z.minutes} /\ z.minutes \in -1439..1439)
      BY <3>2, ZoneIs
    <3> QED BY <2>1, <2>3, <3>3 DEF Says
  <2> QED BY <2>2, <2>3 DEF SaidOK
<1>3. CASE zone # NoZone
  BY <1>1, <1>3, ZoneIs DEF Says
<1> QED BY <1>2, <1>3

(* They do not differ. *)
LEMMA OffsetsAgree ==
  ASSUME NEW zone \in Zones, NEW c, SaidOK(c),
         NEW seen \in ImageOffset(zone, c), NEW read \in ParsedOffset(zone, c)
  PROVE  seen = {} \/ read = {} \/ seen = read
<1>1. CASE zone = NoZone
  <2>1. zone.kind = "none" /\ Minutes(zone) = {} /\ zone # Unknown
    BY <1>1 DEF NoZone, Minutes, Unknown
  <2>2. seen = {} \/ \E x \in c : seen = Minutes(x)
    BY <1>1 DEF ImageOffset
  <2>3. read = {} \/ read = UNION {Minutes(x) : x \in c}
    BY <1>1, <2>1 DEF ParsedOffset
  <2>4. \A x \in c : UNION {Minutes(y) : y \in c} = Minutes(x)
    BY DEF SaidOK
  <2> QED BY <2>2, <2>3, <2>4
<1>2. CASE zone # NoZone
  <2>1. seen \in {{}, Minutes(zone)}
    BY <1>2 DEF ImageOffset
  <2>2. Minutes(zone) # {}
    BY <1>2 DEF ParsedOffset
  <2>3. read \in {{}, Minutes(zone)}
    BY <1>2, <2>2 DEF ParsedOffset
  <2> QED BY <2>1, <2>3
<1> QED BY <1>1, <1>2

(* A value that is read of a text with an offset. *)
ReadAs(v, t, offset) ==
  /\ InCalendar(t) /\ v.offset = offset
  /\ v.instant = {} \/ v.instant = {Instant(t, o) : o \in offset}
  /\ v.precision \in Dates => v.instant = {} /\ v.fraction = {}

LEMMA ImageValues ==
  ASSUME NEW t, WrittenOK(t), NEW c, NEW f, NEW v \in image_timestamp(t, c, f)
  PROVE  \E offset \in ImageOffset(t.zone, c) : ReadAs(v, t, offset)
<1> DEFINE Full(g, offset) ==
             LET fractions == IF t.fraction # {} THEN t.fraction ELSE g
             IN  [instant |-> IF t.second = 60 THEN {} ELSE {Instant(t, o) : o \in offset},
                  fraction |-> fractions, offset |-> offset,
                  precision |-> IF fractions = {} THEN "second" ELSE "fraction",
                  original |-> t]
<1>1. ASSUME NEW g, NEW w \in FullTime(t, c, g)
      PROVE  InCalendar(t) /\ \E offset \in ImageOffset(t.zone, c) : w = Full(g, offset)
  <2> HIDE DEF WrittenOK
  <2> QED BY <1>1 DEF FullTime
<1>2. CASE t.precision = "second"
  <2>1. v \in FullTime(t, c, f)
    BY <1>2 DEF image_timestamp
  <2>2. PICK offset \in ImageOffset(t.zone, c) : InCalendar(t) /\ v = Full(f, offset)
    BY <1>1, <2>1
  <2>3. v.offset = offset /\ v.precision \notin Dates
        /\ (v.instant = {} \/ v.instant = {Instant(t, o) : o \in offset})
    BY <2>2 DEF Dates
  <2> QED BY <2>2, <2>3 DEF ReadAs
<1>3. CASE t.precision # "second"
  <2>1. PICK w \in FullTime(t, c, {}) : v = [w EXCEPT !.instant = {}, !.precision = t.precision]
    BY <1>3 DEF image_timestamp
  <2>2. PICK offset \in ImageOffset(t.zone, c) : InCalendar(t) /\ w = Full({}, offset)
    BY <1>1, <2>1
  <2>3. v.offset = offset /\ v.instant = {} /\ v.precision = t.precision /\ v.fraction = t.fraction
    BY <2>1, <2>2
  <2> QED BY <2>2, <2>3 DEF ReadAs, WrittenOK
<1> QED BY <1>2, <1>3

LEMMA ParsedValues ==
  ASSUME NEW t, WrittenOK(t), NEW c, NEW v \in parse_timestamp(t, c)
  PROVE  \E offset \in ParsedOffset(t.zone, c) : ReadAs(v, t, offset)
<1>1. PICK offset \in ParsedOffset(t.zone, c) :
        /\ InCalendar(t)
        /\ v = [instant |-> IF t.precision \in Dates \/ t.second = 60 THEN {}
                            ELSE {Instant(t, o) : o \in offset},
                fraction |-> t.fraction, offset |-> offset,
                precision |-> IF t.fraction = {} THEN t.precision ELSE "fraction",
                original |-> t]
  <2> HIDE DEF WrittenOK
  <2> QED BY DEF parse_timestamp
<1>2. v.offset = offset /\ v.fraction = t.fraction
      /\ v.precision = (IF t.fraction = {} THEN t.precision ELSE "fraction")
      /\ v.instant = IF t.precision \in Dates \/ t.second = 60 THEN {} ELSE {Instant(t, o) : o \in offset}
  BY <1>1
<1>3. v.precision \in Dates => t.precision \in Dates /\ t.fraction = {}
  BY <1>2 DEF Dates
<1> QED BY <1>1, <1>2, <1>3 DEF ReadAs

-----------------------------------------------------------------------------
(* What was read is what the readers make of the text. *)
TimeInv ==
  /\ WrittenOK(text) /\ SaidOK(companion.offset)
  /\ image = NotRead \/ image = Reads(image_timestamp(text, companion.offset, companion.fraction))
  /\ parsed = NotRead \/ parsed = Reads(parse_timestamp(text, companion.offset))

LEMMA TimeInvInit == ASSUME TimeAssumption, TimeInit PROVE TimeInv
<1>1. text \in Texts /\ companion \in OtherTags /\ image = NotRead /\ parsed = NotRead
  BY DEF TimeInit
<1>2. WrittenOK(text)
  BY <1>1 DEF TimeAssumption, WrittenOK
<1>3. SaidOK(companion.offset)
  BY <1>1 DEF TimeAssumption, SaidOK
<1> QED BY <1>1, <1>2, <1>3 DEF TimeInv

LEMMA TimeInvStep == ASSUME TimeInv, [TimeNext]_timeVars PROVE TimeInv'
<1>1. CASE ReadImage
  BY <1>1 DEF ReadImage, TimeInv, WrittenOK, SaidOK
<1>2. CASE ReadOther
  BY <1>2 DEF ReadOther, TimeInv, WrittenOK, SaidOK
<1>3. CASE UNCHANGED timeVars
  BY <1>3 DEF timeVars, TimeInv, WrittenOK, SaidOK
<1> QED BY <1>1, <1>2, <1>3 DEF TimeNext

(* A value of either reading. *)
LEMMA ValueIs ==
  ASSUME TimeInv, NEW answer \in {image, parsed}, NEW v \in answer.values
  PROVE  \E offset : ReadAs(v, text, offset) /\ Says(offset, text.zone, companion.offset)
<1>1. text.zone \in Zones
  BY DEF TimeInv, WrittenOK
<1>2. answer # NotRead
  BY DEF NotRead
<1>3. CASE answer = Reads(image_timestamp(text, companion.offset, companion.fraction))
  <2>1. v \in image_timestamp(text, companion.offset, companion.fraction)
    BY <1>3 DEF Reads
  <2> QED BY <1>1, <2>1, ImageValues, ImageOffsetSays DEF TimeInv
<1>4. CASE answer = Reads(parse_timestamp(text, companion.offset))
  <2>1. v \in parse_timestamp(text, companion.offset)
    BY <1>4 DEF Reads
  <2> QED BY <1>1, <2>1, ParsedValues, ParsedOffsetSays DEF TimeInv
<1> QED BY <1>2, <1>3, <1>4 DEF TimeInv

(* The epoch is a day of the calendar. *)
LEMMA Epoch == ASSUME NEW t, t.year = 1970, t.month = 1, t.day = 1 PROVE EpochDays(t) = 0
<1>1. DaysBefore(1970, 1) = 0
  BY MonthsAddUp
<1>2. 1969 \div 4 = 492 /\ 1969 \div 100 = 19 /\ 1969 \div 400 = 4
  BY SMT
<1> QED BY <1>1, <1>2, SMT DEF EpochDays

LEMMA CalendarTrue == ASSUME TimeInv PROVE CalendarCounts
<1> SUFFICES ASSUME NEW answer \in {image, parsed}, NEW v \in answer.values,
                    NEW i \in v.instant, NEW o \in v.offset
             PROVE  /\ InCalendar(DayAfter(text))
                    /\ Instant(DayAfter(text), o).minute = i.minute + 1440
                    /\ (text.year = 1970 /\ text.month = 1 /\ text.day = 1)
                         => i.minute = text.hour * 60 + text.minute - o
  BY DEF CalendarCounts
<1>1. PICK offset : ReadAs(v, text, offset) /\ Says(offset, text.zone, companion.offset)
  BY ValueIs
<1>2. InCalendar(text) /\ o \in Int /\ i = Instant(text, o)
  <2>1. InCalendar(text) /\ v.offset = offset /\ v.instant = {Instant(text, x) : x \in offset}
    BY <1>1 DEF ReadAs
  <2>2. offset = {o} /\ o \in -1439..1439
    <3>1. o \in offset
      BY <2>1
    <3>2. PICK z : offset = {z.minutes} /\ z.minutes \in -1439..1439
      BY <1>1, <3>1 DEF Says
    <3> QED BY <3>1, <3>2
  <2>3. i = Instant(text, o)
    BY <2>1, <2>2
  <2> QED BY <2>1, <2>2, <2>3
<1>3. WrittenOK(text)
  BY DEF TimeInv
<1>4. InCalendar(DayAfter(text)) /\ Instant(DayAfter(text), o).minute = i.minute + 1440
  BY <1>2, <1>3, NextDay
<1>5. ASSUME text.year = 1970, text.month = 1, text.day = 1
      PROVE  i.minute = text.hour * 60 + text.minute - o
  <2>1. EpochDays(text) = 0
    BY <1>5, Epoch
  <2>2. text.hour \in Nat /\ text.minute \in Nat
    BY <1>3 DEF WrittenOK
  <2> QED BY <1>2, <2>1, <2>2 DEF Instant
<1> QED BY <1>4, <1>5

LEMMA NothingInferred == ASSUME TimeInv PROVE NoInstantInferred
<1> SUFFICES ASSUME NEW answer \in {image, parsed}, NEW v \in answer.values
             PROVE  /\ valid_timestamp(v)
                    /\ v.instant # {} =>
                         \E z \in {text.zone} \cup companion.offset :
                           z.kind = "offset" /\ v.offset = {z.minutes} /\ v.instant = {Instant(text, z.minutes)}
                    /\ text.zone.kind = "offset" => v.offset = {text.zone.minutes}
  BY DEF NoInstantInferred
<1>1. PICK offset : ReadAs(v, text, offset) /\ Says(offset, text.zone, companion.offset)
  BY ValueIs
<1>2. valid_timestamp(v)
  BY <1>1 DEF valid_timestamp, ReadAs, Says
<1>3. ASSUME v.instant # {}
      PROVE  \E z \in {text.zone} \cup companion.offset :
               z.kind = "offset" /\ v.offset = {z.minutes} /\ v.instant = {Instant(text, z.minutes)}
  <2>1. v.offset = offset /\ v.instant = {Instant(text, o) : o \in offset} /\ offset # {}
    BY <1>1, <1>3 DEF ReadAs
  <2>2. PICK z \in {text.zone} \cup companion.offset : z.kind = "offset" /\ offset = {z.minutes}
    BY <1>1, <2>1 DEF Says
  <2> QED BY <2>1, <2>2
<1> QED BY <1>1, <1>2, <1>3 DEF ReadAs, Says

LEMMA Agree == ASSUME TimeInv PROVE ReadingsAgree
<1> DEFINE all == [image |-> Instants(image), parsed |-> Instants(parsed)]
<1>1. text.zone \in Zones /\ WrittenOK(text) /\ SaidOK(companion.offset)
  BY DEF TimeInv, WrittenOK
<1>2. ASSUME NEW v \in image.values
      PROVE  \E offset \in ImageOffset(text.zone, companion.offset) : ReadAs(v, text, offset)
  <2>1. v \in image_timestamp(text, companion.offset, companion.fraction)
    BY <1>2 DEF TimeInv, NotRead, Reads
  <2> QED BY <1>1, <2>1, ImageValues
<1>3. ASSUME NEW v \in parsed.values
      PROVE  \E offset \in ParsedOffset(text.zone, companion.offset) : ReadAs(v, text, offset)
  <2>1. v \in parse_timestamp(text, companion.offset)
    BY <1>3 DEF TimeInv, NotRead, Reads
  <2> QED BY <1>1, <2>1, ParsedValues
<1>4. ASSUME NEW v \in image.values, v.instant # {}, NEW w \in parsed.values, w.instant # {}
      PROVE  v.instant = w.instant
  <2>1. PICK seen \in ImageOffset(text.zone, companion.offset) : ReadAs(v, text, seen)
    BY <1>2
  <2>2. PICK read \in ParsedOffset(text.zone, companion.offset) : ReadAs(w, text, read)
    BY <1>3
  <2>3. v.instant = {Instant(text, o) : o \in seen} /\ w.instant = {Instant(text, o) : o \in read}
        /\ seen # {} /\ read # {}
    BY <1>4, <2>1, <2>2 DEF ReadAs
  <2> QED BY <1>1, <2>3, OffsetsAgree
<1>5. CASE \E v \in image.values, w \in parsed.values : v.instant # {} /\ w.instant # {}
  <2>1. PICK v \in image.values, w \in parsed.values : v.instant # {} /\ w.instant # {}
    BY <1>5
  <2>2. Instants(image) = v.instant /\ Instants(parsed) = v.instant
    BY <1>4, <2>1 DEF Instants
  <2> QED BY <2>2 DEF ReadingsAgree
<1>6. CASE ~\E v \in image.values, w \in parsed.values : v.instant # {} /\ w.instant # {}
  BY <1>6 DEF ReadingsAgree, Instants
<1> QED BY <1>5, <1>6

(* A time that is written down is read by the calendar of any year, gets no *)
(* instant that nobody said the offset of, and gets the same from both      *)
(* readers (images.rs timestamp, timestamp.rs parse_timestamp).  For all    *)
(* that can be written.                                                     *)
THEOREM TimesAreSound == ASSUME TimeAssumption PROVE TimeSpec => []TimesSound
<1>1. TimeInit => TimeInv
  BY TimeInvInit
<1>2. TimeInv /\ [TimeNext]_timeVars => TimeInv'
  BY TimeInvStep
<1>3. TimeInv => TimesSound
  BY CalendarTrue, NothingInferred, Agree DEF TimesSound
<1> QED BY <1>1, <1>2, <1>3, PTL DEF TimeSpec

-----------------------------------------------------------------------------
(* Lists that are made of others. *)

AtMostOne(S) == \A x, y \in S : x = y

LEMMA FiniteList == ASSUME NEW E, NEW list \in Seq(E) PROVE IsFiniteSet(ToSet(list))
<1> DEFINE N == Len(list)
           f == [n \in 1..N |-> list[n]]
<1>1. N \in Nat /\ DOMAIN list = 1..N
  OBVIOUS
<1>2. f \in Surjection(1..N, ToSet(list))
  BY <1>1 DEF Surjection, ToSet
<1>3. IsFiniteSet(1..N)
  BY <1>1, FS_Interval
<1> HIDE DEF f, N
<1> QED BY <1>2, <1>3, FS_Surjection

LEMMA ListOfOption == ASSUME NEW S, AtMostOne(S) PROVE IsFiniteSet(S) /\ SetToSeq(S) \in Seq(S)
<1>1. S = {} \/ \E x : S = {x}
  BY DEF AtMostOne
<1>2. IsFiniteSet(S)
  BY <1>1, FS_EmptySet, FS_Singleton
<1>3. PICK f \in Bijection(1..Cardinality(S), S) : TRUE
  BY <1>2, FS_CardinalityType DEF ExistsBijection
<1>4. f \in [1..Cardinality(S) -> S] /\ IsInjective(f)
  BY <1>3 DEF Bijection, Injection, IsInjective
<1>5. SetToSeq(S) \in [1..Cardinality(S) -> S]
  BY <1>4 DEF SetToSeq
<1> QED BY <1>2, <1>5, FS_CardinalityType

LEMMA Flattened == ASSUME NEW E, NEW seqs \in Seq(Seq(E)) PROVE FlattenSeq(seqs) \in Seq(E)
<1> DEFINE N == Len(seqs)
           step == [x \in Seq(E) \X (1..N) |-> x[1] \o seqs[x[2]]]
           Is(f) == f = [i \in 1..N |-> IF i = 1 THEN seqs[i] ELSE f[i - 1] \o seqs[i]]
           flatten == CHOOSE f : Is(f)
<1>1. N \in Nat /\ \A i \in 1..N : seqs[i] \in Seq(E)
  OBVIOUS
<1>2. CASE N = 0
  <2>1. seqs = << >>
    BY <1>2
  <2> QED BY <1>2, <2>1 DEF FlattenSeq
<1>3. CASE N # 0
  <2>1. step \in [Seq(E) \X (1..N) -> Seq(E)]
    BY <1>1
  <2>2. Recursive(N, Seq(E), << >>, step)
    <3>1. << >> \in Seq(E)
      OBVIOUS
    <3> HIDE DEF step, N
    <3> QED BY <1>1, <2>1, <3>1, Recursion
  <2>3. PICK g \in [0..N -> Seq(E)] : g[0] = << >> /\ \A n \in 1..N : g[n] = step[<<g[n - 1], n>>]
    BY <2>2 DEF Recursive
  <2>4. \A n \in 1..N : g[n] = g[n - 1] \o seqs[n] /\ g[n] \in Seq(E)
    <3> SUFFICES ASSUME NEW n \in 1..N PROVE g[n] = g[n - 1] \o seqs[n] /\ g[n] \in Seq(E)
      OBVIOUS
    <3>1. n - 1 \in 0..N /\ n \in 0..N
      BY <1>1
    <3>2. g[n - 1] \in Seq(E) /\ g[n] \in Seq(E)
      BY <2>3, <3>1
    <3>3. step[<<g[n - 1], n>>] = g[n - 1] \o seqs[n]
      BY <3>2
    <3> QED BY <2>3, <3>2, <3>3
  <2> DEFINE f == [i \in 1..N |-> g[i]]
  <2>5. \A i \in 1..N : f[i] = IF i = 1 THEN seqs[i] ELSE f[i - 1] \o seqs[i]
    <3> SUFFICES ASSUME NEW i \in 1..N PROVE f[i] = IF i = 1 THEN seqs[i] ELSE f[i - 1] \o seqs[i]
      OBVIOUS
    <3>1. CASE i = 1
      <4>1. << >> \o seqs[1] = seqs[1]
        BY <1>1, <1>3, ConcatEmptySeq
      <4>2. 1 \in 1..N /\ g[1] = g[1 - 1] \o seqs[1] /\ g[1 - 1] = << >>
        <5>1. 1 \in 1..N /\ 1 - 1 = 0
          BY <1>1, <1>3
        <5> HIDE DEF N
        <5> QED BY <5>1, <2>3, <2>4
      <4>3. f[1] = g[1]
        BY <3>1
      <4> QED BY <3>1, <4>1, <4>2, <4>3
    <3>2. CASE i # 1
      <4>1. i - 1 \in 1..N
        BY <1>1, <3>2
      <4> QED BY <2>4, <3>2, <4>1
    <3> QED BY <3>1, <3>2
  <2>6. Is(f)
    BY <2>5
  <2>7. Is(flatten)
    <3> HIDE DEF Is, f
    <3> QED BY <2>6
  <2>8. FlattenSeq(seqs) = flatten[N]
    BY <1>3 DEF FlattenSeq
  <2> HIDE DEF flatten, f
  <2>9. \A i \in 1..N : flatten[i] = IF i = 1 THEN seqs[i] ELSE flatten[i - 1] \o seqs[i]
    BY <2>7
  <2> DEFINE R == {n \in 0..N : n = 0 \/ flatten[n] \in Seq(E)}
  <2>10. 0 \in R /\ \A n \in 1..N : n - 1 \in R => n \in R
    <3>1. 0 \in R
      BY <1>1
    <3>2. ASSUME NEW n \in 1..N, n - 1 \in R PROVE n \in R
      <4>1. seqs[n] \in Seq(E) /\ flatten[n] = IF n = 1 THEN seqs[n] ELSE flatten[n - 1] \o seqs[n]
        BY <1>1, <2>9
      <4>2. n # 1 => flatten[n - 1] \in Seq(E)
        <5>1. n - 1 = 0 => n = 1
          BY <1>1
        <5>2. n - 1 = 0 \/ flatten[n - 1] \in Seq(E)
          BY <3>2
        <5> HIDE DEF R, N
        <5> QED BY <5>1, <5>2
      <4>3. n # 1 => flatten[n - 1] \o seqs[n] \in Seq(E)
        BY <4>1, <4>2, ConcatProperties
      <4>4. flatten[n] \in Seq(E)
        BY <4>1, <4>3
      <4> QED BY <4>4
    <3> QED BY <3>1, <3>2
  <2>11. 0..N \subseteq R
    <3> HIDE DEF R
    <3> QED BY <1>1, <2>10, UpTo
  <2> QED BY <1>1, <1>3, <2>8, <2>11
<1> QED BY <1>2, <1>3

-----------------------------------------------------------------------------
(* What an observation, or a group of them, is made to. *)

(* A claim as it is made. *)
IsMade(c) == c = Claim(c.key, c.value, c.support)

LEMMA MadeIsClaim == ASSUME NEW c, IsMade(c) PROVE ClaimOK(c)
BY DEF IsMade, Claim, ClaimOK

LEMMA OneTime == ASSUME NEW o PROVE AtMostOne(TimesOf(o))
<1>1. \A t, c : AtMostOne(Times!ParsedOffset(t, c))
  BY DEF Times!ParsedOffset, AtMostOne
<1>2. \A t, c : AtMostOne(Times!parse_timestamp(t, c))
  BY <1>1 DEF Times!parse_timestamp, AtMostOne
<1> QED BY <1>2 DEF TimesOf, AtMostOne

LEMMA MadeOne == ASSUME NEW o PROVE AtMostOne(Made(o)) /\ \A c \in Made(o) : IsMade(c)
<1> DEFINE timed == o.name \in DOMAIN TimeRoles
           named == o.name \in Identities /\ o.value.kind = "text"
           lasting == o.name \in DOMAIN Durations /\ o.value.kind = "number"
           times == {Claim(RoleKey(o), v, {o.id}) : v \in TimesOf(o)}
           names == {Claim(Key(o, "metadata." \o o.name), Text(o.value.text), {o.id})}
           ranges == {Claim(Key(o, "media.duration"), Number("duration", n), {o.id})
                        : n \in {o.value.number * Durations[o.name]} \cap Nat}
           Ok(S) == AtMostOne(S) /\ \A c \in S : IsMade(c)
<1>1. \A k, v, s : IsMade(Claim(k, v, s))
  BY DEF IsMade, Claim
<1>2. Ok(times)
  <2>1. AtMostOne(TimesOf(o))
    BY OneTime
  <2>2. \A c \in times : \E v \in TimesOf(o) : c = Claim(RoleKey(o), v, {o.id})
    OBVIOUS
  <2> HIDE DEF times
  <2>3. \A c \in times : IsMade(c)
    BY <1>1, <2>2
  <2>4. \A c, d \in times : c = d
    BY <2>1, <2>2 DEF AtMostOne
  <2> QED BY <2>3, <2>4 DEF AtMostOne
<1>3. Ok(names)
  <2> DEFINE name == Claim(Key(o, "metadata." \o o.name), Text(o.value.text), {o.id})
  <2>1. names = {name} /\ IsMade(name)
    BY <1>1
  <2> HIDE DEF names, name
  <2> QED BY <2>1 DEF AtMostOne
<1>4. Ok(ranges)
  <2> DEFINE length == o.value.number * Durations[o.name]
  <2>1. \A c \in ranges : c = Claim(Key(o, "media.duration"), Number("duration", length), {o.id})
    OBVIOUS
  <2> HIDE DEF ranges, length
  <2> QED BY <1>1, <2>1 DEF AtMostOne
<1>5. Ok({})
  BY DEF AtMostOne
<1>6. Made(o) = CASE timed -> times [] named -> names [] lasting -> ranges [] OTHER -> {}
  BY DEF Made
<1> HIDE DEF timed, named, lasting, times, names, ranges
<1>7. Made(o) \in {times, names, ranges, {}}
  BY <1>6
<1> QED BY <1>2, <1>3, <1>4, <1>5, <1>7

LEMMA OneObservation ==
  ASSUME NEW g, NEW name, analysed.observations \in Seq(ToSet(analysed.observations))
  PROVE  AtMostOne(Only(g, name))
<1> DEFINE found == {o \in ToSet(Observed) : o.group = g /\ o.name = name}
<1>1. IsFiniteSet(ToSet(Observed))
  BY FiniteList DEF Observed
<1>2. IsFiniteSet(found)
  BY <1>1, FS_Subset
<1>3. Only(g, name) = IF Cardinality(found) = 1 THEN found ELSE {}
  BY DEF Only
<1> HIDE DEF found
<1> QED BY <1>2, <1>3, FS_Singleton DEF AtMostOne

LEMMA LocatedOne ==
  ASSUME NEW g, analysed.observations \in Seq(ToSet(analysed.observations))
  PROVE  AtMostOne(Located(g)) /\ \A c \in Located(g) : IsMade(c)
<1> DEFINE N(name) == Only(g, name)
           Along(name) == UNION {Coordinate(o, N(name \o "_ref")) : o \in N(name)}
           heights == {IF 1 \in Numbers(N("altitude_ref")) THEN -Magnitude(n) ELSE n : n \in Numbers(N("altitude"))}
           altitude == IF heights = {} THEN Unset ELSE Max(heights)
           places == {p \in Along("latitude") \X Along("longitude") :
                        Magnitude(p[1]) <= 90 * 3600 /\ Magnitude(p[2]) <= 180 * 3600}
           seen == {o.id : o \in UNION {N(name) : name \in GpsNames}}
           At(p) == Claim(<<g.scope, "location.gps">>, Point(p, altitude, Unset), seen)
<1>1. \A name : AtMostOne(N(name))
  BY OneObservation
<1>2. ASSUME NEW value PROVE AtMostOne(Angle(value))
  BY SMT DEF Angle, AtMostOne
<1>3. ASSUME NEW o, NEW references PROVE AtMostOne(Coordinate(o, references))
  <2> DEFINE A == Angle(o.value)
             said == {r.value.text : r \in {x \in references : x.value.kind = "text"}}
             down == {-Magnitude(a) : a \in A}
             up == {Magnitude(a) : a \in A}
  <2>1. Coordinate(o, references) =
          IF references = {} THEN A
          ELSE CASE said \cap {"S", "W"} # {} -> down [] said \cap {"N", "E"} # {} -> up [] OTHER -> {}
    BY DEF Coordinate
  <2>2. AtMostOne(A)
    BY <1>2
  <2>3. AtMostOne(down) /\ AtMostOne(up)
    <3> HIDE DEF A
    <3> QED BY <2>2 DEF AtMostOne
  <2> HIDE DEF A, down, up, said
  <2>4. Coordinate(o, references) \in {A, down, up, {}}
    BY <2>1
  <2> QED BY <2>2, <2>3, <2>4 DEF AtMostOne
<1>4. ASSUME NEW name PROVE AtMostOne(Along(name))
  <2> DEFINE references == N(name \o "_ref")
  <2>1. \A x \in Along(name) : \E o \in N(name) : x \in Coordinate(o, references)
    OBVIOUS
  <2> HIDE DEF references, Along, N
  <2> QED BY <1>1, <1>3, <2>1 DEF AtMostOne
<1>5. AtMostOne(places)
  <2> DEFINE X == Along("latitude")
             Y == Along("longitude")
  <2>1. AtMostOne(X) /\ AtMostOne(Y) /\ places \subseteq X \X Y
    BY <1>4, SMT
  <2> HIDE DEF places, X, Y
  <2> QED BY <2>1 DEF AtMostOne
<1>6. Located(g) = {At(p) : p \in places}
  BY DEF Located
<1>7. \A p : IsMade(At(p))
  BY DEF IsMade, Claim
<1> HIDE DEF places, At
<1> QED BY <1>5, <1>6, <1>7 DEF AtMostOne

Covers(E, D, a) == \A i \in D : a[i] \subseteq E
Parted(E, D, a, K, b) == \A c \in E : (\E i \in D : c \in a[i]) \/ \E i \in K : c \in b[i]

LEMMA TwoUnions ==
  ASSUME NEW D, NEW K, NEW a, NEW b
  PROVE  \E E : Covers(E, D, a) /\ Covers(E, K, b) /\ Parted(E, D, a, K, b)
<1> DEFINE A == UNION {a[i] : i \in D}
           B == UNION {b[i] : i \in K}
<1>1. (\A i \in D : \A c \in a[i] : c \in A) /\ \A c \in A : \E i \in D : c \in a[i]
  OBVIOUS
<1>2. (\A i \in K : \A c \in b[i] : c \in B) /\ \A c \in B : \E i \in K : c \in b[i]
  OBVIOUS
<1> HIDE DEF A, B
<1>3. /\ \A i \in D : a[i] \subseteq A \cup B
      /\ \A i \in K : b[i] \subseteq A \cup B
      /\ \A c \in A \cup B : (\E i \in D : c \in a[i]) \/ \E i \in K : c \in b[i]
  BY <1>1, <1>2
<1> QED BY <1>3 DEF Covers, Parted

LEMMA DerivedIs ==
  ASSUME analysed.observations \in Seq(ToSet(analysed.observations))
  PROVE  \E E : DerivedClaims \in Seq(E) /\ \A c \in E : IsMade(c)
<1> DEFINE N == Cardinality(Places)
           At(i) == Located(InOrder(Places)[i])
           Of(i) == Made(Observed[i])
           a == [i \in DOMAIN Observed |-> Of(i)]
           b == [i \in 1..N |-> At(i)]
           made == [i \in DOMAIN Observed |-> SetToSeq(Made(Observed[i]))]
           placed == [i \in 1..N |-> SetToSeq(At(i))]
<1>1. N \in Nat
  <2> DEFINE O == ToSet(Observed)
             G == {o.group : o \in O}
             f == [o \in O |-> o.group]
  <2>1. IsFiniteSet(O)
    BY FiniteList DEF Observed
  <2>2. f \in Surjection(O, G)
    <3> HIDE DEF O
    <3> QED BY DEF Surjection
  <2>3. IsFiniteSet(G)
    <3> HIDE DEF f, O, G
    <3> QED BY <2>1, <2>2, FS_Surjection
  <2>4. Places \subseteq G
    BY DEF Places
  <2> HIDE DEF G, O, f
  <2> QED BY <2>3, <2>4, FS_Subset, FS_CardinalityType
<1>2. DOMAIN Observed = 1..Len(Observed) /\ Len(Observed) \in Nat
  BY DEF Observed
<1>0. PICK E : /\ \A i \in DOMAIN Observed : Of(i) \subseteq E
               /\ \A i \in 1..N : At(i) \subseteq E
               /\ \A c \in E : (\E i \in DOMAIN Observed : c \in Of(i)) \/ \E i \in 1..N : c \in At(i)
  <2>1. (\A i \in DOMAIN Observed : a[i] = Of(i)) /\ \A i \in 1..N : b[i] = At(i)
    <3> HIDE DEF At, Of, N
    <3> QED OBVIOUS
  <2> HIDE DEF a, b, At, Of, N
  <2>2. \E E : Covers(E, DOMAIN Observed, a) /\ Covers(E, 1..N, b)
               /\ Parted(E, DOMAIN Observed, a, 1..N, b)
    BY TwoUnions
  <2>3. PICK E : Covers(E, DOMAIN Observed, a) /\ Covers(E, 1..N, b)
                 /\ Parted(E, DOMAIN Observed, a, 1..N, b)
    BY <2>2
  <2>4. /\ \A i \in DOMAIN Observed : Of(i) \subseteq E
        /\ \A i \in 1..N : At(i) \subseteq E
        /\ \A c \in E : (\E i \in DOMAIN Observed : c \in Of(i)) \/ \E i \in 1..N : c \in At(i)
    BY <2>1, <2>3 DEF Covers, Parted
  <2> QED BY <2>4
<1>3. \A i \in 1..N : AtMostOne(At(i)) /\ (\A c \in At(i) : IsMade(c)) /\ At(i) \subseteq E
  <2>1. \A i \in 1..N : AtMostOne(At(i)) /\ \A c \in At(i) : IsMade(c)
    BY LocatedOne
  <2> HIDE DEF At
  <2> QED BY <2>1, <1>0
<1>4. \A i \in DOMAIN Observed : Of(i) \subseteq E
  BY <1>0
<1>5. \A c \in E : IsMade(c)
  <2>1. \A i \in DOMAIN Observed : \A c \in Of(i) : IsMade(c)
    BY MadeOne
  <2> HIDE DEF At, Of, N
  <2> QED BY <1>0, <1>3, <2>1
<1> HIDE DEF At, N
<1>6. \A S : AtMostOne(S) /\ S \subseteq E => SetToSeq(S) \in Seq(E)
  <2> SUFFICES ASSUME NEW S, AtMostOne(S), S \subseteq E PROVE SetToSeq(S) \in Seq(E)
    OBVIOUS
  <2>1. SetToSeq(S) \in Seq(S)
    BY ListOfOption
  <2> QED BY <2>1
<1>7. made \in Seq(Seq(E))
  <2>1. \A i \in DOMAIN Observed : SetToSeq(Made(Observed[i])) \in Seq(E)
    BY <1>4, <1>6, MadeOne DEF Of
  <2> QED BY <1>2, <2>1
<1>8. placed \in Seq(Seq(E))
  <2>1. \A i \in 1..N : SetToSeq(At(i)) \in Seq(E)
    BY <1>3, <1>6
  <2> QED BY <1>1, <2>1
<1>9. DerivedClaims = FlattenSeq(made \o placed)
  BY DEF DerivedClaims, At, N
<1> HIDE DEF made, placed
<1>10. made \o placed \in Seq(Seq(E))
  BY <1>7, <1>8, ConcatProperties
<1> QED BY <1>5, <1>9, <1>10, Flattened

-----------------------------------------------------------------------------
(* Claims are added behind those that are there. *)

LEMMA Greatest ==
  ASSUME NEW N \in Nat, NEW f, \A i \in 1..N : f[i] \in Nat
  PROVE  \E m \in {f[i] : i \in 1..N} \cup {0} : \A x \in {f[i] : i \in 1..N} \cup {0} : m >= x
<1> DEFINE Top(m, n) == m \in {f[i] : i \in 1..n} \cup {0} /\ \A i \in 1..n : m >= f[i]
           R == {n \in 0..N : \E m \in Nat : Top(m, n)}
<1>1. 0 \in R
  <2>1. Top(0, 0)
    OBVIOUS
  <2> QED BY <2>1
<1>2. ASSUME NEW n \in 1..N, n - 1 \in R PROVE n \in R
  <2>1. PICK m \in Nat : Top(m, n - 1)
    BY <1>2
  <2>2. f[n] \in Nat /\ 1..n = 1..(n - 1) \cup {n}
    OBVIOUS
  <2>3. CASE m >= f[n]
    <3>1. Top(m, n)
      BY <2>1, <2>2, <2>3
    <3> QED BY <3>1
  <2>4. CASE ~(m >= f[n])
    <3>1. \A i \in 1..(n - 1) : f[i] \in Nat /\ m >= f[i]
      BY <2>1
    <3>2. Top(f[n], n)
      BY <2>2, <2>4, <3>1
    <3> QED BY <2>2, <3>2
  <2> QED BY <2>3, <2>4
<1>3. N \in R
  <2>1. 0..N \subseteq R
    <3> HIDE DEF R
    <3> QED BY <1>1, <1>2, UpTo
  <2> QED BY <2>1
<1>4. PICK m \in Nat : Top(m, N)
  BY <1>3
<1> QED BY <1>4

LEMMA AddedIs ==
  ASSUME NEW A, \A x \in A : x.id \in Nat, NEW list \in Seq(A),
         NEW c, \A k \in Nat : [c EXCEPT !.id = k] \in A
  PROVE  /\ Added(list, c) \in Seq(A)
         /\ Len(list) <= Len(Added(list, c)) /\ \A i \in 1..Len(list) : Added(list, c)[i] = list[i]
<1> DEFINE N == Len(list)
           f == [i \in 1..N |-> list[i].id]
           ids == {old.id : old \in ToSet(list)} \cup {0}
           new == [c EXCEPT !.id = Max(ids) + 1]
<1>1. N \in Nat /\ DOMAIN list = 1..N /\ \A i \in 1..N : list[i] \in A
  OBVIOUS
<1>2. ids = {f[i] : i \in 1..N} \cup {0} /\ \A i \in 1..N : f[i] \in Nat
  BY <1>1 DEF ToSet
<1>3. \E m \in ids : \A x \in ids : m >= x
  <2> HIDE DEF N, f, ids
  <2>1. \E m \in {f[i] : i \in 1..N} \cup {0} : \A x \in {f[i] : i \in 1..N} \cup {0} : m >= x
    BY <1>1, <1>2, Greatest
  <2> QED BY <1>2, <2>1
<1>4. ids \subseteq Nat
  <2> HIDE DEF N, f, ids
  <2> QED BY <1>2
<1> HIDE DEF ids
<1>5. Max(ids) \in Nat
  BY <1>3, <1>4 DEF Max
<1>6. new \in A
  BY <1>5
<1>7. Added(list, c) \in {list, Append(list, new)}
  BY DEF Added, ids
<1> HIDE DEF new, N
<1>8. CASE Added(list, c) = Append(list, new)
  BY <1>1, <1>6, <1>8, AppendProperties DEF N
<1>9. CASE Added(list, c) = list
  BY <1>1, <1>9 DEF N
<1> QED BY <1>7, <1>8, <1>9

LEMMA AddedAllIs ==
  ASSUME NEW claims, claims \in Seq(ToSet(claims)), \A c \in ToSet(claims) : ClaimOK(c),
         NEW E, NEW more \in Seq(E), \A c \in E : ClaimOK(c)
  PROVE  LET all == AddedAll(claims, more)
         IN  /\ all \in Seq(ToSet(all)) /\ \A c \in ToSet(all) : ClaimOK(c)
             /\ ToSet(claims) \subseteq ToSet(all)
<1> DEFINE With(c, k) == [c EXCEPT !.id = k]
           W == {With(x[1], x[2]) : x \in E \X Nat}
           A == ToSet(claims) \cup W
           N == Len(more)
           S == Seq(A)
           step == [x \in S \X (1..N) |-> Added(x[1], more[x[2]])]
           Is(f) == f = [n \in 0..N |-> IF n = 0 THEN claims ELSE Added(f[n - 1], more[n])]
           f == CHOOSE g : Is(g)
<1>1. \A x \in A : ClaimOK(x) /\ x.id \in Nat
  <2>1. ASSUME NEW c \in E, NEW k \in Nat PROVE ClaimOK([c EXCEPT !.id = k])
    BY <2>1 DEF ClaimOK
  <2>2. \A x \in W : ClaimOK(x)
    <3> SUFFICES ASSUME NEW c \in E, NEW k \in Nat PROVE ClaimOK(With(c, k))
      OBVIOUS
    <3> QED BY <2>1
  <2> HIDE DEF W
  <2> QED BY <2>2 DEF ClaimOK
<1>2. N \in Nat /\ \A n \in 1..N : more[n] \in E
  OBVIOUS
<1>3. claims \in S
  OBVIOUS
<1>4. ASSUME NEW list \in S, NEW n \in 1..N
      PROVE  /\ Added(list, more[n]) \in S
             /\ Len(list) <= Len(Added(list, more[n]))
             /\ \A i \in 1..Len(list) : Added(list, more[n])[i] = list[i]
  <2>1. \A k \in Nat : [more[n] EXCEPT !.id = k] \in A
    <3>1. more[n] \in E
      BY <1>2
    <3>2. \A k \in Nat : With(more[n], k) \in A
      <4> SUFFICES ASSUME NEW k \in Nat PROVE With(more[n], k) \in W
        OBVIOUS
      <4>1. <<more[n], k>> \in E \X Nat
        BY <3>1
      <4> DEFINE x == <<more[n], k>>
      <4>2. With(x[1], x[2]) \in W /\ x[1] = more[n] /\ x[2] = k
        <5> HIDE DEF With
        <5> QED BY <4>1
      <4> HIDE DEF With, W
      <4> QED BY <4>2
    <3> HIDE DEF A
    <3> QED BY <3>2
  <2> HIDE DEF A
  <2> QED BY <1>1, <2>1, AddedIs
<1> HIDE DEF S
<1>5. step \in [S \X (1..N) -> S]
  <2>1. \A x \in S \X (1..N) : Added(x[1], more[x[2]]) \in S
    BY <1>4
  <2> QED BY <2>1
<1>6. Recursive(N, S, claims, step)
  <2> HIDE DEF step, S, N
  <2> QED BY <1>2, <1>3, <1>5, Recursion
<1>7. PICK g \in [0..N -> S] : g[0] = claims /\ \A n \in 1..N : g[n] = step[<<g[n - 1], n>>]
  <2> HIDE DEF step, N
  <2> QED BY <1>6 DEF Recursive
<1>8. \A n \in 1..N : g[n] = Added(g[n - 1], more[n])
  <2> SUFFICES ASSUME NEW n \in 1..N PROVE g[n] = Added(g[n - 1], more[n])
    OBVIOUS
  <2>1. n - 1 \in 0..N
    BY <1>2
  <2> QED BY <1>7, <2>1
<1>9. Is(g)
  <2>1. DOMAIN g = 0..N /\ \A n \in 0..N : g[n] = IF n = 0 THEN claims ELSE Added(g[n - 1], more[n])
    BY <1>7, <1>8
  <2>2. g = [n \in DOMAIN g |-> g[n]]
    BY <1>7
  <2> QED BY <2>1, <2>2
<1>10. Is(f)
  <2> HIDE DEF Is
  <2> QED BY <1>9
<1>11. AddedAll(claims, more) = f[N]
  BY DEF AddedAll
<1> HIDE DEF f
<1>12. f[0] = claims /\ \A n \in 1..N : f[n] = Added(f[n - 1], more[n])
  BY <1>2, <1>10
<1> DEFINE R == {n \in 0..N : /\ f[n] \in S /\ Len(claims) <= Len(f[n])
                              /\ \A i \in 1..Len(claims) : f[n][i] = claims[i]}
<1>13. 0 \in R
  BY <1>2, <1>3, <1>12
<1>14. ASSUME NEW n \in 1..N, n - 1 \in R PROVE n \in R
  <2>1. f[n - 1] \in S /\ Len(claims) <= Len(f[n - 1]) /\ \A i \in 1..Len(claims) : f[n - 1][i] = claims[i]
    BY <1>14
  <2>2. f[n] = Added(f[n - 1], more[n]) /\ n \in 0..N
    BY <1>12
  <2>3. /\ f[n] \in S /\ Len(f[n - 1]) <= Len(f[n])
        /\ \A i \in 1..Len(f[n - 1]) : f[n][i] = f[n - 1][i]
    BY <1>4, <2>1, <2>2
  <2>4. Len(claims) \in Nat /\ Len(f[n - 1]) \in Nat /\ Len(f[n]) \in Nat
    BY <2>1, <2>3 DEF S
  <2>5. Len(claims) <= Len(f[n]) /\ \A i \in 1..Len(claims) : i \in 1..Len(f[n - 1])
    BY <2>1, <2>3, <2>4
  <2> QED BY <2>1, <2>2, <2>3, <2>5
<1>15. N \in R
  <2>1. 0..N \subseteq R
    <3> HIDE DEF R, N
    <3> QED BY <1>2, <1>13, <1>14, UpTo
  <2> QED BY <1>2, <2>1
<1>16. PICK all : all = AddedAll(claims, more)
  OBVIOUS
<1>17. all \in Seq(A) /\ Len(claims) <= Len(all) /\ \A i \in 1..Len(claims) : all[i] = claims[i]
  BY <1>11, <1>15, <1>16 DEF S
<1> HIDE DEF A
<1>18. all \in Seq(ToSet(all)) /\ \A c \in ToSet(all) : c \in A
  BY <1>17 DEF ToSet
<1>19. ToSet(claims) \subseteq ToSet(all)
  <2>1. DOMAIN claims = 1..Len(claims) /\ Len(claims) \in Nat /\ DOMAIN all = 1..Len(all) /\ Len(all) \in Nat
    BY <1>17
  <2> QED BY <1>17, <2>1 DEF ToSet
<1> QED BY <1>1, <1>16, <1>18, <1>19

-----------------------------------------------------------------------------
(* Sorting claims by their numbers loses none and makes none. *)

LEMMA ByIdIs ==
  ASSUME NEW claims, claims \in Seq(ToSet(claims)), \A c \in ToSet(claims) : ClaimOK(c)
  PROVE  ById(claims) \in Seq(ToSet(claims)) /\ ToSet(ById(claims)) = ToSet(claims)
<1> DEFINE N == Len(claims)
           M == DOMAIN claims
           E(i) == Below(claims, i)
           rank(i) == Cardinality(E(i))
           id(i) == claims[i].id
           Low(i, j) == id(i) < id(j) \/ (id(i) = id(j) /\ i < j)
<1>1. N \in Nat /\ M = 1..N /\ \A i \in M : claims[i] \in ToSet(claims)
  BY DEF ToSet
<1>2. \A i \in M : id(i) \in Nat /\ i \in Nat
  BY <1>1 DEF ClaimOK
<1>3. \A i : E(i) = {j \in M : Low(j, i)}
  BY DEF Below
<1>4. IsFiniteSet(M) /\ Cardinality(M) = N
  BY <1>1, FS_Interval
<1> HIDE DEF M, E, id, N
<1>5. ASSUME NEW i \in M
      PROVE  E(i) \subseteq M /\ i \notin E(i) /\ IsFiniteSet(E(i)) /\ rank(i) \in 0..(N - 1)
  <2>1. E(i) \subseteq M /\ i \notin E(i)
    BY <1>2, <1>3
  <2>2. IsFiniteSet(E(i)) /\ rank(i) \in Nat /\ rank(i) <= N /\ rank(i) # N
    BY <1>4, <2>1, FS_Subset, FS_CardinalityType
  <2> QED BY <1>1, <2>1, <2>2
<1>6. ASSUME NEW i \in M, NEW j \in M, Low(i, j) PROVE rank(i) < rank(j)
  <2>1. E(i) \subseteq E(j) /\ i \in E(j) /\ i \notin E(i)
    BY <1>2, <1>3, <1>5, <1>6
  <2>2. rank(i) <= rank(j) /\ rank(i) # rank(j)
    BY <1>5, <2>1, FS_Subset
  <2> QED BY <1>5, <2>2
<1>7. ASSUME NEW i \in M, NEW j \in M, rank(i) = rank(j) PROVE i = j
  <2>1. Low(i, j) \/ Low(j, i) \/ i = j
    BY <1>2
  <2>2. rank(i) \in Nat /\ rank(j) \in Nat
    BY <1>5
  <2> QED BY <1>6, <1>7, <2>1, <2>2
<1>8. ASSUME NEW n \in 0..(N - 1) PROVE \E i \in M : rank(i) = n
  <2> SUFFICES ASSUME \A i \in M : rank(i) # n PROVE FALSE
    OBVIOUS
  <2> DEFINE T == (0..(N - 1)) \ {n}
             f == [i \in M |-> rank(i)]
  <2>1. f \in [M -> T]
    <3>1. \A i \in M : rank(i) \in T
      BY <1>5
    <3> HIDE DEF T
    <3> QED BY <3>1
  <2>2. IsFiniteSet(T) /\ Cardinality(T) < N
    <3>1. IsFiniteSet(0..(N - 1)) /\ Cardinality(0..(N - 1)) = N
      <4>1. 0 \in Int /\ N - 1 \in Int /\ (0 > N - 1 => N = 0) /\ (N - 1) - 0 + 1 = N
        BY <1>1
      <4> QED BY <4>1, FS_Interval
    <3>2. IsFiniteSet(T) /\ Cardinality(T) = N - 1
      BY <3>1, FS_RemoveElement
    <3> HIDE DEF T
    <3> QED BY <1>1, <3>2
  <2>3. PICK i \in M, j \in M : i # j /\ f[i] = f[j]
    <3> HIDE DEF T, f
    <3> QED BY <1>4, <2>1, <2>2, FS_PigeonHole
  <2> QED BY <1>7, <2>3
<1> DEFINE all == ById(claims)
           pick(n) == CHOOSE i \in M : rank(i) = n - 1
<1>9. all = [n \in M |-> claims[pick(n)]]
  BY DEF ById, E, M
<1>10. ASSUME NEW n \in M PROVE pick(n) \in M /\ rank(pick(n)) = n - 1
  <2>1. n - 1 \in 0..(N - 1)
    BY <1>1
  <2>2. \E i \in M : rank(i) = n - 1
    BY <1>8, <2>1
  <2> QED BY <2>2
<1> HIDE DEF pick, all
<1>11. \A n \in M : all[n] = claims[pick(n)] /\ all[n] \in ToSet(claims)
  BY <1>1, <1>9, <1>10
<1>12. all \in [1..N -> ToSet(claims)]
  BY <1>1, <1>9, <1>11
<1>13. all \in Seq(ToSet(claims)) /\ DOMAIN all = M
  BY <1>1, <1>12
<1>14. ASSUME NEW i \in M PROVE \E n \in M : all[n] = claims[i]
  <2> DEFINE n == rank(i) + 1
  <2>1. n \in M /\ n - 1 = rank(i)
    BY <1>1, <1>5
  <2>2. pick(n) = i
    BY <1>7, <1>10, <2>1
  <2> QED BY <1>11, <2>1, <2>2
<1>15. ToSet(all) = {all[n] : n \in M} /\ ToSet(claims) = {claims[i] : i \in M}
  BY <1>13 DEF ToSet, M
<1>16. ToSet(all) = ToSet(claims)
  BY <1>11, <1>14, <1>15
<1> QED BY <1>13, <1>16 DEF all

-----------------------------------------------------------------------------
(* What an analysis writes into a record keeps it a record. *)

LEMMA Rewritten ==
  ASSUME NEW r, RecordOK(r), NEW s, NEW claims, NEW conflicts, NEW diagnostics, NEW media,
         claims \in Seq(ToSet(claims)), \A c \in ToSet(claims) : ClaimOK(c),
         s = [r EXCEPT !.claims = claims, !.conflicts = conflicts, !.diagnostics = diagnostics, !.media = media]
  PROVE  RecordOK(s) /\ s.observations = r.observations /\ s.claims = claims
<1>1. r \in [observations : {r.observations}, claims : {r.claims}, conflicts : {r.conflicts}, image : {r.image},
             diagnostics : {r.diagnostics}, declared : {r.declared}, media : {r.media}, times : {r.times}]
  BY DEF RecordOK
<1>2. /\ s.observations = r.observations /\ s.claims = claims /\ s.image = r.image
      /\ s \in [observations : {s.observations}, claims : {s.claims}, conflicts : {s.conflicts}, image : {s.image},
             diagnostics : {s.diagnostics}, declared : {s.declared}, media : {s.media}, times : {s.times}]
  BY <1>1
<1> QED BY <1>2 DEF RecordOK

Holds(r, s) ==
  /\ RecordOK(s) /\ s.observations = r.observations
  /\ \A c \in ToSet(r.claims) : \E d \in ToSet(s.claims) :
       /\ d.id = c.id /\ d.key = c.key /\ d.value = c.value
       /\ c.resolution \in {"rejected", "user"} => d.resolution = c.resolution

LEMMA JudgedIs ==
  ASSUME NEW c, ClaimOK(c)
  PROVE  LET d == Judged(c)
         IN  /\ ClaimOK(d) /\ d.id = c.id /\ d.key = c.key /\ d.value = c.value
             /\ c.resolution \in {"rejected", "user"} => d.resolution = c.resolution
<1>1. c \in [id : Nat, key : {c.key}, value : {c.value}, support : {c.support}, against : {c.against},
             agreement : {c.agreement}, resolution : {c.resolution}]
  BY DEF ClaimOK
<1>2. CASE ~Live(c)
  BY <1>2 DEF Judged
<1>3. CASE Live(c)
  <2> DEFINE d == [c EXCEPT !.support = SupportOf(c), !.against = AgainstOf(c),
                            !.agreement = Agreement(c), !.resolution = Resolution(c)]
  <2>1. Judged(c) = d
    BY <1>3 DEF Judged
  <2>2. ClaimOK(d) /\ d.id = c.id /\ d.key = c.key /\ d.value = c.value /\ d.resolution = Resolution(c)
    BY <1>1 DEF ClaimOK
  <2>3. c.resolution \in {"rejected", "user"} => Resolution(c) = c.resolution
    BY <1>3 DEF Live, Resolution
  <2> HIDE DEF d
  <2> QED BY <2>1, <2>2, <2>3
<1> QED BY <1>2, <1>3

LEMMA AnalysisStep ==
  ASSUME RecordOK(analysed), [RecordNext]_recordVars
  PROVE  Holds(analysed, analysed')
<1> DEFINE r == analysed
<1>1. /\ r \in [observations : {r.observations}, claims : {r.claims}, conflicts : {r.conflicts}, image : {r.image},
               diagnostics : {r.diagnostics}, declared : {r.declared}, media : {r.media}, times : {r.times}]
      /\ r.observations \in Seq(ToSet(r.observations))
      /\ r.claims \in Seq(ToSet(r.claims)) /\ r.image.claims \in Seq(ToSet(r.image.claims))
      /\ (\A c \in ToSet(r.claims) : ClaimOK(c)) /\ \A c \in ToSet(r.image.claims) : ClaimOK(c)
  BY DEF RecordOK
<1>2. CASE analysed' = analysed
  BY <1>2 DEF Holds
<1>0. ASSUME NEW claims, NEW conflicts, NEW diagnostics, NEW media,
             claims \in Seq(ToSet(claims)), \A c \in ToSet(claims) : ClaimOK(c),
             analysed' = [r EXCEPT !.claims = claims, !.conflicts = conflicts,
                                 !.diagnostics = diagnostics, !.media = media]
      PROVE  RecordOK(analysed') /\ analysed'.observations = r.observations /\ analysed'.claims = claims
  BY <1>0, Rewritten
<1>3. ASSUME NEW claims, NEW conflicts, NEW diagnostics, NEW media,
             claims \in Seq(ToSet(claims)), \A c \in ToSet(claims) : ClaimOK(c),
             analysed' = [r EXCEPT !.claims = claims, !.conflicts = conflicts,
                                 !.diagnostics = diagnostics, !.media = media],
             ToSet(r.claims) \subseteq ToSet(claims)
      PROVE  Holds(analysed, analysed')
  <2>1. RecordOK(analysed') /\ analysed'.observations = r.observations /\ analysed'.claims = claims
    BY <1>3, <1>0
  <2> QED BY <1>3, <2>1 DEF Holds
<1>4. CASE CutShort
  <2>1. CASE analysed' = [r EXCEPT !.diagnostics = @ \cup {<<"limit", {}>>}]
    <3>1. analysed' = [r EXCEPT !.claims = r.claims, !.conflicts = r.conflicts,
                              !.diagnostics = r.diagnostics \cup {<<"limit", {}>>}, !.media = r.media]
      BY <1>1, <2>1
    <3> QED BY <1>1, <1>3, <3>1
  <2> QED BY <1>2, <1>4, <2>1 DEF CutShort
<1>5. CASE MergeImage
  <2> DEFINE claims == AddedAll(r.claims, r.image.claims)
             conflicts == r.conflicts \cup {Renumbered(c, claims) : c \in r.image.conflicts}
             diagnostics == r.diagnostics \cup r.image.issues
  <2>1. claims \in Seq(ToSet(claims)) /\ (\A c \in ToSet(claims) : ClaimOK(c))
        /\ ToSet(r.claims) \subseteq ToSet(claims)
    BY <1>1, AddedAllIs
  <2>2. \/ CutShort
        \/ analysed' = [r EXCEPT !.claims = claims, !.conflicts = conflicts, !.diagnostics = diagnostics]
    BY <1>5 DEF MergeImage
  <2> HIDE DEF claims, conflicts, diagnostics
  <2>3. CASE analysed' = [r EXCEPT !.claims = claims, !.conflicts = conflicts, !.diagnostics = diagnostics]
    <3>1. analysed' = [r EXCEPT !.claims = claims, !.conflicts = conflicts,
                              !.diagnostics = diagnostics, !.media = r.media]
      BY <1>1, <2>3
    <3> QED BY <1>3, <2>1, <3>1
  <2> QED BY <1>4, <2>2, <2>3
<1>6. CASE Normalize
  <2>1. PICK E : DerivedClaims \in Seq(E) /\ \A c \in E : IsMade(c)
    BY <1>1, DerivedIs
  <2>2. \A c \in E : ClaimOK(c)
    BY <2>1, MadeIsClaim
  <2> DEFINE claims == AddedAll(r.claims, DerivedClaims)
  <2>3. claims \in Seq(ToSet(claims)) /\ (\A c \in ToSet(claims) : ClaimOK(c))
        /\ ToSet(r.claims) \subseteq ToSet(claims)
    BY <1>1, <2>1, <2>2, AddedAllIs
  <2>4. CASE analysed' = [r EXCEPT !.claims = claims, !.diagnostics = r.diagnostics \cup Issues]
    <3> HIDE DEF claims
    <3>1. analysed' = [r EXCEPT !.claims = claims, !.conflicts = r.conflicts,
                              !.diagnostics = r.diagnostics \cup Issues, !.media = r.media]
      BY <1>1, <2>4
    <3> QED BY <1>3, <2>3, <3>1
  <2>5. CutShort \/ analysed' = [r EXCEPT !.claims = claims, !.diagnostics = r.diagnostics \cup Issues]
    BY <1>1, <1>6 DEF Normalize
  <2> QED BY <1>4, <2>4, <2>5
<1>7. CASE PackageType
  <2> DEFINE t == CHOOSE t \in Subtypes : TRUE
  <2>1. analysed' = analysed \/ analysed' = [r EXCEPT !.media = t, !.diagnostics = r.diagnostics \ {<<"subtype", {}>>}]
    BY <1>1, <1>7 DEF PackageType
  <2> HIDE DEF t
  <2>2. CASE analysed' = [r EXCEPT !.media = t, !.diagnostics = r.diagnostics \ {<<"subtype", {}>>}]
    <3>1. analysed' = [r EXCEPT !.claims = r.claims, !.conflicts = r.conflicts,
                              !.diagnostics = r.diagnostics \ {<<"subtype", {}>>}, !.media = t]
      BY <1>1, <2>2
    <3> QED BY <1>1, <1>3, <3>1
  <2> QED BY <1>2, <2>1, <2>2
<1>8. CASE Reconcile
  <2> DEFINE J(i) == Judged(r.claims[i])
             all == [i \in DOMAIN r.claims |-> J(i)]
             claims == ById(all)
             conflicts == r.conflicts \cup Conflicts
  <2>1. /\ DOMAIN r.claims = 1..Len(r.claims) /\ Len(r.claims) \in Nat
        /\ \A i \in DOMAIN r.claims : r.claims[i] \in ToSet(r.claims) /\ ClaimOK(r.claims[i])
        /\ \A c \in ToSet(r.claims) : \E i \in DOMAIN r.claims : c = r.claims[i]
    BY <1>1 DEF ToSet
  <2>2. /\ DOMAIN all = DOMAIN r.claims
        /\ \A i \in DOMAIN r.claims : all[i] = Judged(r.claims[i]) /\ ClaimOK(all[i])
    BY <2>1, JudgedIs
  <2>3. CASE analysed' = [r EXCEPT !.claims = claims, !.conflicts = conflicts]
    <3> HIDE DEF all
    <3>1. ToSet(all) = {all[i] : i \in DOMAIN all}
      BY DEF ToSet
    <3>2. all \in Seq(ToSet(all)) /\ \A c \in ToSet(all) : ClaimOK(c)
      <4>1. \A i \in 1..Len(r.claims) : J(i) \in ToSet(all)
        BY <2>1, <2>2, <3>1
      <4>2. PICK A : A = ToSet(all)
        OBVIOUS
      <4>3. all \in [1..Len(r.claims) -> A]
        <5> HIDE DEF J
        <5> QED BY <2>1, <4>1, <4>2 DEF all
      <4>4. all \in Seq(ToSet(all))
        BY <2>1, <4>2, <4>3
      <4>5. \A c \in ToSet(all) : ClaimOK(c)
        BY <2>2, <3>1
      <4> QED BY <4>4, <4>5
    <3>3. claims \in Seq(ToSet(claims)) /\ ToSet(claims) = ToSet(all)
      BY <3>2, ByIdIs
    <3>0. \A c \in ToSet(claims) : ClaimOK(c)
      BY <3>2, <3>3
    <3> HIDE DEF claims, conflicts
    <3>4. analysed' = [r EXCEPT !.claims = claims, !.conflicts = conflicts,
                              !.diagnostics = r.diagnostics, !.media = r.media]
      BY <1>1, <2>3
    <3>5. RecordOK(analysed') /\ analysed'.observations = r.observations /\ analysed'.claims = claims
      BY <3>0, <3>3, <3>4, <1>0
    <3>6. ASSUME NEW c \in ToSet(r.claims)
          PROVE  \E d \in ToSet(claims) :
                   /\ d.id = c.id /\ d.key = c.key /\ d.value = c.value
                   /\ c.resolution \in {"rejected", "user"} => d.resolution = c.resolution
      <4>1. PICK i \in DOMAIN r.claims : c = r.claims[i]
        BY <2>1
      <4>2. all[i] \in ToSet(claims) /\ all[i] = Judged(c) /\ ClaimOK(c)
        BY <2>1, <2>2, <3>1, <3>3, <4>1
      <4> QED BY <4>2, JudgedIs
    <3> QED BY <3>5, <3>6 DEF Holds
  <2>4. CutShort \/ analysed' = [r EXCEPT !.claims = claims, !.conflicts = conflicts]
    BY <1>1, <1>8 DEF Reconcile
  <2> QED BY <1>4, <2>3, <2>4
<1>9. CASE Reanalyze \/ Timeline \/ Classify \/ UNCHANGED recordVars
  BY <1>2, <1>9 DEF Reanalyze, Timeline, Classify, recordVars
<1> QED BY <1>5, <1>6, <1>7, <1>8, <1>9 DEF RecordNext

(* DecisionsKept: whatever the bounds and however often a record is        *)
(* analysed, no claim that was there loses its number, its key or its      *)
(* value, and no resolution that a person gave is judged anew.             *)
THEOREM DecisionsAreKept == ASSUME RecordAssumption PROVE RecordSpec => DecisionsKept
<1>1. RecordInit => RecordOK(analysed)
  BY DEF RecordInit, RecordAssumption
<1>2. RecordOK(analysed) /\ [RecordNext]_recordVars => RecordOK(analysed)'
  BY AnalysisStep DEF Holds
<1>3. RecordOK(analysed) /\ [RecordNext]_recordVars => [Upheld]_analysed
  BY AnalysisStep DEF Holds, Upheld
<1> QED BY <1>1, <1>2, <1>3, PTL DEF RecordSpec, DecisionsKept
=============================================================================
