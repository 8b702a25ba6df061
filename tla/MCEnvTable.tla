---- MODULE MCEnvTable ----
EXTENDS EnvTable, TLC

CONSTANTS k1, k2, k3, v1, v2

MCKeys   == {k1, k2, k3}
MCValues == {v1, v2}

(* Three variables that begin at the same slot, or at two.                 *)
MCHash == k1 :> 1 @@ k2 :> 1 @@ k3 :> 2

MCAccess  == k1 :> "writeonce" @@ k2 :> "any" @@ k3 :> "changedefault"
MCDefault == k1 :> Missing @@ k2 :> Missing @@ k3 :> v1
MCBad     == k1 :> {} @@ k2 :> {v2} @@ k3 :> {}

(* Two variables that begin at the same slot.                              *)
TwoHash    == k1 :> 1 @@ k2 :> 1
TwoAccess  == k1 :> "writeonce" @@ k2 :> "any"
TwoDefault == k1 :> Missing @@ k2 :> Missing
TwoBad     == k1 :> {} @@ k2 :> {}
TwoKeys    == {k1, k2}
OneValue   == {v1}
====
