---------------------------- MODULE MCSending ----------------------------
(* Sending with small constants: two drains are two processes' passes.     *)
EXTENDS Sending, TLC

CONSTANTS window, watch
Alike == Permutations({window, watch})
==========================================================================
