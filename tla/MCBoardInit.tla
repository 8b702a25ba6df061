---------------------------- MODULE MCBoardInit ----------------------------
(***************************************************************************)
(* Constants of BoardInit for TLC: the range and the stack size are the    *)
(* program's own, and so is every address.                                 *)
(***************************************************************************)
EXTENDS BoardInit

MCMaxWords   == 2^28
MCFloating   == -1
MCStackDepth == 256 * Kib

(* The words of the RAM at first: told apart by their address, all zeros,  *)
(* all ones, and what the probing itself is about to write there.          *)
MCFills ==
  {[w \in Addresses |-> w + 1], [w \in Addresses |-> 0],
   [w \in Addresses |-> -1], [w \in Addresses |-> Not(w)]}

(* Images of any shape: small and large, ending on a page and off it.      *)
MCImages ==
  {[copy |-> c, bss |-> b, common |-> m] :
     c \in {4 * Kib, 161924, 512 * Kib}, b \in {0, 4, 33000, 128 * Kib}, m \in {4, 800}}
=============================================================================
