------------------------------- MODULE CaseFile -------------------------------
(***************************************************************************)
(* What the modules about a case agree on.                                 *)
(***************************************************************************)
EXTENDS Naturals

CONSTANT None  \* no row, no digest, no file, no key, no signature

SCHEMA_REVISION == 7
=============================================================================
