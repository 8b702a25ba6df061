------------------------------- MODULE EnvMap -------------------------------
(***************************************************************************)
(* What the environment promises: a map from variables to values, changed  *)
(* by imports one variable at a time.  getenv returns the value in the map.*)
(***************************************************************************)
CONSTANTS
  Keys, Values,
  Missing,          \* the value of a variable that is not there
  BadValues,        \* the values a variable's type does not admit
  Barred(_, _, _)   \* whether a variable's access flag forbids replacing one
                    \*   value by another (either may be Missing)

VARIABLES
  env,     \* the value of each variable
  forced,  \* whether H_FORCE applies to the import going on
  ok,      \* whether the last change asked for was made
  bare     \* the variables that lost their protection, till they are deleted

vars == <<env, forced, ok, bare>>

Init ==
  /\ env = [k \in Keys |-> Missing]
  /\ forced = FALSE /\ ok = TRUE /\ bare = {}

(* An import begins, on what there is or on an empty environment.          *)
Begin ==
  /\ forced' \in BOOLEAN
  /\ \/ UNCHANGED <<env, bare>>
     \/ env' = [k \in Keys |-> Missing] /\ bare' = {}
  /\ UNCHANGED ok

(* A bare variable has no type and no access flag.                         *)
Allowed(k, v) ==
  k \in bare \/ (v \notin BadValues[k] /\ (Barred(k, env[k], v) => forced))

Change(k, v) ==
  /\ Allowed(k, v)
  /\ env' = [env EXCEPT ![k] = v] /\ ok' = TRUE
  /\ bare' = IF v = Missing THEN bare \ {k} ELSE bare
  /\ UNCHANGED forced

(* A change that fails for want of memory may take the old value with it,  *)
(* where replacing it was allowed, or leave a variable that was not there  *)
(* bare.                                                                   *)
Fail(k) ==
  /\ ok' = FALSE
  /\ \/ UNCHANGED <<env, bare>>
     \/ /\ \E v \in Values : Allowed(k, v)
        /\ env' = [env EXCEPT ![k] = Missing] /\ UNCHANGED bare
     \/ env[k] = Missing /\ bare' = bare \cup {k} /\ UNCHANGED env
  /\ UNCHANGED forced

Next ==
  \/ Begin
  \/ \E k \in Keys, v \in Values \cup {Missing} : Change(k, v)
  \/ \E k \in Keys : Fail(k)

Spec == Init /\ [][Next]_vars
=============================================================================
