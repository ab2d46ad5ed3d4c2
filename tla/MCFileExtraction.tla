------------------------- MODULE MCFileExtraction -------------------------
(* Small instances of FileExtraction for TLC. *)
EXTENDS FileExtraction

(* The three smallest records are within the bytes together, the two        *)
(* longest that are ever stored are not, and those of a mixture never fit.  *)
MCBytes(payload) ==
  LET content == payload.content
  IN  IF content = << >> THEN 0
      ELSE IF content \in {<<0, 1>>, <<1, 0>>} THEN 7
      ELSE 2 * Len(content) - 1 + content[1]

(* A write during a reading can make it read a mixture of two contents. *)
MCContents == {<<0, 0>>, <<1, 1>>, <<0, 1, 1>>}
MCOthers == {<<0, 0>>, <<0>>, <<1>>, <<0, 1>>}
===========================================================================
