---------------------------- MODULE MCDesktopQueue ----------------------------
(* A small desktop for TLC. *)
EXTENDS DesktopQueue

CONSTANTS a, b, k, l, t, u, h1, h2
=============================================================================
