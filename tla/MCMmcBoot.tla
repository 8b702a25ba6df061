----------------------------- MODULE MCMmcBoot -----------------------------
(* MmcBoot with every kind of card: an image of three sectors read two at  *)
(* a time, loops of two turns.                                             *)
EXTENDS MmcBoot
=============================================================================
