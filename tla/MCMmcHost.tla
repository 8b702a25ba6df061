----------------------------- MODULE MCMmcHost -----------------------------
(* MmcHost on a small controller: transfers of up to two words through a   *)
(* one-word FIFO, loops of two turns.                                      *)
EXTENDS MmcHost
=============================================================================
