------------------------------ MODULE MCTimer ------------------------------
(* Counters of 16 values, delays of up to nearly a turn of the counter.    *)
(* The AVS counters are slower than the loop, timers 0 to 4 are not.       *)
EXTENDS Timer
MCCounts == 0 .. 12
MCMinGap == [timer |-> 1, avs |-> 0]
=============================================================================
