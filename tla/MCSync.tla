----------------------------- MODULE MCSync -----------------------------
(* Sync with small constants: two messages or three. *)
EXTENDS Sync

CONSTANTS a, b, c
==========================================================================
