------------------------------ MODULE ListParts ------------------------------
(***************************************************************************)
(* Lists, and part of a list: what is at some of its positions, in order.  *)
(***************************************************************************)
EXTENDS Naturals, SequencesExt

IsList(items) == items \in Seq(ToSet(items))

(* Vec::retain, or a filtered iterator. *)
Kept(list, positions) ==
  LET f[n \in 0..Len(list)] ==
        IF n = 0 THEN << >> ELSE IF n \in positions THEN Append(f[n - 1], list[n]) ELSE f[n - 1]
  IN f[Len(list)]
=============================================================================
