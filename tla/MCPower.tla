------------------------------ MODULE MCPower ------------------------------
(* Power from a core voltage below, at and above its goal, with each of    *)
(* the shared halves right and wrong.                                      *)
EXTENDS Power

PowerOn ==
  {[DCDC2 |-> d, DCDC3 |-> e, LDO24 |-> f, LDO3 |-> 0] :
     d \in {26, 28, 30}, e \in {0, 22}, f \in {0, 85, 192}}
=============================================================================
