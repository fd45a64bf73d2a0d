--------------------------- MODULE MCConfirmChannel ---------------------------
(* A small instance of ConfirmChannel for TLC: two waits, one after the other,
   and enough publishes for one to begin and end inside another. *)
EXTENDS ConfirmChannel

CONSTANTS w1, w2
=============================================================================
