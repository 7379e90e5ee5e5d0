--------------------------- MODULE MCServerDrafts ---------------------------
(* One drain, in the composer's process or beside it.                       *)
EXTENDS ServerDrafts
CONSTANTS d1, d2
=============================================================================
