---------------------------- MODULE ClaimValues ----------------------------
(***************************************************************************)
(* How two values of a claim stand to each other (analysis/validation.rs). *)
(* A timestamp has an instant or Unset, the width of its precision and the *)
(* way it was written; a point is a place, an altitude and an accuracy, or *)
(* Unset for each; its distances are those of the numbers of the places.   *)
(* A text stands for every value that is compared as it is.                *)
(***************************************************************************)
EXTENDS Integers, Sequences

Unset == -1

Text(v) == [kind |-> "text", v |-> v]
Number(kind, v) == [kind |-> kind, v |-> v]        \* "signed" or "unsigned"
Float(v) == [kind |-> "float", v |-> v]
NaN(v) == [kind |-> "nan", v |-> v]                \* a float that is not finite
Time(at, width, original) ==
  [kind |-> "time", at |-> at, width |-> width, original |-> original, valid |-> TRUE]
BadTime(original) == [Time(Unset, 1, original) EXCEPT !.valid = FALSE]
Point(place, altitude, accuracy) ==
  [kind |-> "point", place |-> place, altitude |-> altitude, accuracy |-> accuracy, valid |-> TRUE]
BadPoint(place) == [Point(place, Unset, Unset) EXCEPT !.valid = FALSE]
List(items) == [kind |-> "list", items |-> items]

Apart(i, j) == IF i < j THEN j - i ELSE i - j

TimeRelation(a, b) ==
  CASE ~a.valid \/ ~b.valid -> "indeterminate"
    [] a.valid /\ b.valid /\ a = b -> "equivalent"
    [] OTHER ->
         IF a.at = Unset \/ b.at = Unset THEN "indeterminate"
         ELSE IF a.at = b.at /\ a.width = b.width THEN "equivalent"
         ELSE IF a.at + a.width <= b.at \/ b.at + b.width <= a.at THEN "contradictory"
         ELSE "indeterminate"

PointRelation(a, b) ==
  IF ~a.valid \/ ~b.valid THEN "indeterminate"
  ELSE IF a.place = b.place
    THEN IF a.altitude = b.altitude THEN "equivalent"
         ELSE IF Unset \in {a.altitude, b.altitude} THEN "indeterminate" ELSE "contradictory"
  ELSE IF Unset \notin {a.accuracy, b.accuracy} /\ Apart(a.place, b.place) <= a.accuracy + b.accuracy
    THEN "indeterminate" ELSE "contradictory"

Whole == {"signed", "unsigned"}

ScalarRelation(a, b) ==
  CASE a.kind = "time" /\ b.kind = "time" -> TimeRelation(a, b)
    [] {a.kind, b.kind} \in {{"nan"}, {"nan", "float"}} -> "indeterminate"
    [] a.kind = "point" /\ b.kind = "point" -> PointRelation(a, b)
    [] a.kind \in Whole /\ b.kind \in Whole -> IF a.v = b.v THEN "equivalent" ELSE "contradictory"
    [] OTHER -> IF a = b THEN "equivalent" ELSE "contradictory"

(* Lists of scalars: lists within lists are compared likewise, to a depth. *)
ListRelation(a, b) ==
  LET items == {ScalarRelation(a.items[i], b.items[i]) : i \in DOMAIN a.items}
  IN  IF Len(a.items) # Len(b.items) \/ "contradictory" \in items THEN "contradictory"
      ELSE IF "indeterminate" \in items THEN "indeterminate" ELSE "equivalent"

relation(a, b) ==
  IF a.kind = "list" /\ b.kind = "list" THEN ListRelation(a, b) ELSE ScalarRelation(a, b)
=============================================================================
