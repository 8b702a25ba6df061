------------------------------ MODULE MCMalloc ------------------------------
(* A heap of three pages of 12 words, with bins of 4 and 6 words (small),  *)
(* of 8 to 13, 14 to 19 words and so on.                                   *)
EXTENDS Malloc
=============================================================================
