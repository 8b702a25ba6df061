------------------------------- MODULE MCTwi -------------------------------
(* Twi with two registers of two values, one of them only read, and loops  *)
(* of one turn.                                                            *)
EXTENDS Twi
CONSTANTS r1, r2, v1, v2

MCOps ==
  [kind : {"write"}, reg : {r1}, val : {v1, v2}]
    \cup [kind : {"read"}, reg : {r1, r2}, val : {v1}]
=============================================================================
