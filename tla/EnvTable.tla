------------------------------ MODULE EnvTable ------------------------------
(***************************************************************************)
(* The environment of hushtable.c: an open-addressing hash table with      *)
(* double hashing, filled by himport_r, the only caller of hdelete_r and   *)
(* of hsearch_r(ENTER), under the rules of env_flags.c.  A variable's name *)
(* is a model value, and Hash is what the first hash function makes of it. *)
(*                                                                         *)
(* An entry carries flags of its own, which env_flags_init gives it when   *)
(* it is made: they are told by the variable they were made for.  The list *)
(* they come from does not change (.flags is no variable here).            *)
(*                                                                         *)
(* No variable has a callback: the program links none.  The table itself   *)
(* can always be allocated, and keeps its size.                            *)
(***************************************************************************)
EXTENDS Integers, FiniteSets

CONSTANTS
  Keys, Values,
  Missing,      \* no value
  NoKey,        \* a name that could not be copied, and no flags
  Size,         \* slots of the table
  Word,         \* values the table's counter can take
  Hash,         \* each variable's first slot
  Access,       \* each variable's access flag
  Default,      \* each variable's value in the default environment
  BadValues,    \* the values a variable's type does not admit
  MaxShort,     \* bound on the failures of strdup
  MaxTaken      \* bound on the slots not clean

Slots == 1 .. Size

ASSUME EnvAssumption ==
  /\ Size \in Nat /\ Size > 2 /\ MaxTaken \in Nat
  /\ Word \in Nat /\ Word > Size
  /\ Hash \in [Keys -> 1 .. Size - 1]
  /\ Access \in [Keys -> {"any", "readonly", "writeonce", "changedefault"}]
  /\ Default \in [Keys -> Values \cup {Missing}]
  /\ BadValues \in [Keys -> SUBSET Values]
  /\ MaxShort \in Nat
  /\ Missing \notin Values /\ NoKey \notin Keys

VARIABLES
  table,   \* the slots
  filled,  \* entries the table believes it has
  phase,   \* of the import: "none", "entries", "rest"
  forced,  \* H_FORCE
  listed,  \* whether the import is for listed variables only
  wanted,  \* those not yet met (localvars)
  ret,     \* what the last hsearch_r(ENTER) or hdelete_r returned
  short,   \* history: how often strdup failed
  bare     \* history: the variables whose entry was left when making it
           \*   ran out of memory

vars == <<table, filled, phase, forced, listed, wanted, ret, short, bare>>

Clean   == [used |-> "no", key |-> NoKey, data |-> Missing, flags |-> NoKey]
Deleted == [used |-> "deleted", key |-> NoKey, data |-> Missing, flags |-> NoKey]

Entry(k, v, f) == [used |-> "yes", key |-> k, data |-> v, flags |-> f]

Slot == [used : {"no", "deleted", "yes"}, key : Keys \cup {NoKey},
         data : Values \cup {Missing}, flags : Keys \cup {NoKey}]

TypeOK ==
  /\ table \in [Slots -> Slot]
  /\ filled \in 0 .. Word - 1
  /\ phase \in {"none", "entries", "rest"}
  /\ forced \in BOOLEAN /\ listed \in BOOLEAN
  /\ wanted \subseteq Keys /\ ret \in 0 .. Size
  /\ short \in 0 .. MaxShort /\ bare \subseteq Keys

(* hcreate_r.                                                              *)
Empty == [i \in Slots |-> Clean]

Init ==
  /\ table = Empty /\ filled = 0
  /\ phase = "none" /\ forced = FALSE /\ listed = FALSE /\ wanted = {}
  /\ ret = 1 /\ short = 0 /\ bare = {}

-----------------------------------------------------------------------------
(* How hsearch_r looks for a variable.                                     *)

Step(k) == 1 + (Hash[k] % (Size - 2))

(* The n-th slot tried for a variable, from 0; the Size-th is the first     *)
(* again.                                                                  *)
Probe ==
  [k \in Keys |-> [n \in 0 .. Size |-> ((Hash[k] - 1 + n * (Size - Step(k))) % Size) + 1]]

(* "Because SIZE is prime this guarantees to step through all available    *)
(* indices."                                                               *)
ASSUME ProbeAssumption ==
  \A k \in Keys : {Probe[k][n] : n \in 0 .. Size - 1} = Slots

(* A slot whose name could not be copied is taken to match no name: strcmp *)
(* reads what is at address 0.                                             *)
Holds(i, k) == table[i].used = "yes" /\ table[i].key = k

(* Mutant: a deleted slot ends the search.                                 *)
StopsAtDeleted(i, k) == Holds(i, k) \/ table[i].used # "yes"

Stops(i, k) == Holds(i, k) \/ table[i].used = "no"

(* How many slots are tried in vain; Size when all are, and the search is  *)
(* back at the first.                                                      *)
Tried(k) ==
  CHOOSE n \in 0 .. Size :
    /\ n = Size \/ Stops(Probe[k][n], k)
    /\ \A m \in 0 .. n - 1 : ~Stops(Probe[k][m], k)

Last(k) == Probe[k][Tried(k)]

Found(k) == Tried(k) < Size /\ Holds(Last(k), k)

(* getenv.                                                                 *)
Value(k) == IF Found(k) THEN table[Last(k)].data ELSE Missing

(* Where a new entry goes: a deleted slot is used again only where it is   *)
(* the first tried.                                                        *)
Vacant(k) == IF table[Hash[k]].used = "deleted" THEN Hash[k] ELSE Last(k)

-----------------------------------------------------------------------------
(* env_flags_init and env_flags_validate.                                  *)

(* The variables the list has flags for.                                   *)
Flagged == {k \in Keys : Access[k] # "any" \/ BadValues[k] # {}}

(* A variable without leaves the flags that are in the slot.               *)
FlagsInit(k, f) == IF k \in Flagged THEN k ELSE f

Denied(f, accesses) == f # NoKey /\ Access[f] \in accesses

BadType(f, v) == f # NoKey /\ v \in BadValues[f]

(* Mutant: write-once variables may be written again.                      *)
OverwriteBarredLax(k, e) ==
  \/ Denied(e.flags, {"readonly"})
  \/ Denied(e.flags, {"changedefault"}) /\ (e.data = Missing \/ e.data # Default[k])

(* A value that was lost is no default: strcmp reads what is at address 0. *)
OverwriteBarred(k, e) ==
  \/ Denied(e.flags, {"readonly", "writeonce"})
  \/ Denied(e.flags, {"changedefault"}) /\ (e.data = Missing \/ e.data # Default[k])

CreateBarred(f) == Denied(f, {"readonly"})

DeleteBarred(f) == Denied(f, {"readonly", "writeonce", "changedefault"})

-----------------------------------------------------------------------------
(* hdelete_r and hsearch_r(ENTER).                                         *)

(* Mutant: the counter is no unsigned word.                                *)
LessUnbounded(n) == n - 1

Less(n) == (n + Word - 1) % Word

Failure == ret' = 0 /\ UNCHANGED <<table, filled, short, bare>>

(* strdup fails in the middle.                                             *)
Short == ret' = 0 /\ short < MaxShort /\ short' = short + 1 /\ UNCHANGED filled

(* Mutant: a slot deleted is as good as new.                               *)
DeleteClean(k) ==
  IF ~Found(k) \/ (DeleteBarred(table[Last(k)].flags) /\ ~forced) THEN Failure
  ELSE /\ table' = [table EXCEPT ![Last(k)] = Clean]
       /\ filled' = Less(filled) /\ bare' = bare \ {k} /\ ret' = 1 /\ UNCHANGED short

Delete(k) ==
  IF ~Found(k) \/ (DeleteBarred(table[Last(k)].flags) /\ ~forced) THEN Failure
  ELSE /\ table' = [table EXCEPT ![Last(k)] = Deleted]
       /\ filled' = Less(filled) /\ bare' = bare \ {k} /\ ret' = 1 /\ UNCHANGED short

(* The old value is freed before the new one is copied.                    *)
Overwrite(k, v) ==
  IF BadType(table[Last(k)].flags, v) \/ (OverwriteBarred(k, table[Last(k)]) /\ ~forced)
  THEN Failure
  ELSE /\ \/ /\ table' = [table EXCEPT ![Last(k)].data = v]
             /\ ret' = Last(k) /\ UNCHANGED <<filled, short>>
          \/ table' = [table EXCEPT ![Last(k)].data = Missing] /\ Short
       /\ UNCHANGED bare

(* The entry is made first and checked afterwards.  What cannot be copied  *)
(* leaves the slot taken and uncounted, with the flags it had.             *)
Create(k, v) ==
  LET old == table[Vacant(k)].flags
      f   == FlagsInit(k, old)
  IN \/ filled = Size /\ Failure
     \/ /\ filled # Size
        /\ IF BadType(f, v) \/ (CreateBarred(f) /\ ~forced)
           THEN /\ table' = [table EXCEPT ![Vacant(k)] = Deleted]
                /\ ret' = 0 /\ UNCHANGED filled
           ELSE /\ table' = [table EXCEPT ![Vacant(k)] = Entry(k, v, f)]
                /\ filled' = (filled + 1) % Word /\ ret' = 1
        /\ UNCHANGED <<short, bare>>
     \/ /\ filled # Size /\ Short
        /\ \/ /\ table' = [table EXCEPT ![Vacant(k)] = Entry(k, Missing, old)]
              /\ bare' = bare \cup {k}
           \/ /\ \E d \in {v, Missing} :
                   table' = [table EXCEPT ![Vacant(k)] = Entry(NoKey, d, old)]
              /\ UNCHANGED bare

Enter(k, v) == IF Found(k) THEN Overwrite(k, v) ELSE Create(k, v)

Taken == {i \in Slots : table[i].used # "no"}

-----------------------------------------------------------------------------
(* himport_r.                                                              *)

(* An import begins, clearing the table or keeping it (H_NOCLEAR).         *)
Start ==
  /\ phase = "none" /\ phase' = "entries"
  /\ forced' \in BOOLEAN
  /\ \/ UNCHANGED <<table, filled, bare>>
     \/ table' = Empty /\ filled' = 0 /\ bare' = {}
  /\ \/ listed' = FALSE /\ wanted' = {}
     \/ listed' = TRUE /\ wanted' \in SUBSET Keys \ {{}}
  /\ UNCHANGED <<ret, short>>

(* drop_var_from_set: other entries are passed over.                       *)
Meet(k) ==
  /\ phase = "entries" /\ (listed => k \in wanted)
  /\ wanted' = wanted \ {k}
  /\ UNCHANGED <<phase, forced, listed>>

ImportEntry(k, v) ==
  /\ Meet(k) /\ Enter(k, v)
  /\ Found(k) \/ Cardinality(Taken \cup {Vacant(k)}) <= MaxTaken

ImportDelete(k) == Meet(k) /\ Delete(k)

(* An entry with an empty name ends the import where it is.                *)
EmptyName ==
  /\ phase = "entries" /\ phase' = "none" /\ wanted' = {}
  /\ UNCHANGED <<table, filled, forced, listed, ret, short, bare>>

EndEntries ==
  /\ phase = "entries" /\ phase' = "rest"
  /\ UNCHANGED <<table, filled, forced, listed, wanted, ret, short, bare>>

(* Variables listed and not met are deleted.                               *)
DeleteUnmet(k) ==
  /\ phase = "rest" /\ k \in wanted
  /\ Delete(k) /\ wanted' = wanted \ {k}
  /\ UNCHANGED <<phase, forced, listed>>

Finish ==
  /\ phase = "rest" /\ wanted = {} /\ phase' = "none"
  /\ UNCHANGED <<table, filled, forced, listed, wanted, ret, short, bare>>

Next ==
  \/ Start \/ EmptyName \/ EndEntries \/ Finish
  \/ \E k \in Keys, v \in Values : ImportEntry(k, v)
  \/ \E k \in Keys : ImportDelete(k) \/ DeleteUnmet(k)

Spec == Init /\ [][Next]_vars

-----------------------------------------------------------------------------
(* Properties.                                                             *)

(* Whatever was entered and deleted before, every entry in the table is    *)
(* the one the search for its name comes to: no entry is out of reach      *)
(* behind a clean slot, and no name has two; and the counter that decides  *)
(* whether the table is full counts its entries, as long as memory lasts.  *)
NoLostEntries ==
  /\ \A i \in Slots :
       table[i].used = "yes" /\ table[i].key # NoKey =>
         Found(table[i].key) /\ Last(table[i].key) = i
  /\ short = 0 => filled = Cardinality({i \in Slots : table[i].used = "yes"})

(* A write-once variable keeps its value until an import is forced or      *)
(* clears the table, and no detour of refusals, deletions and creations    *)
(* changes it; unless memory ran out when its entry was made: hsearch_r    *)
(* returns before env_flags_init then and leaves an entry without flags,   *)
(* which may be given any value, and another, and be deleted.              *)
WriteOnceKept ==
  [][\A k \in Keys :
       Access[k] = "writeonce" /\ k \notin bare
         /\ Value(k) # Missing /\ Value(k)' # Value(k)
         => forced \/ table' = Empty]_vars

(* What getenv returns is a map that imports change as EnvMap says, one    *)
(* variable at a time under the rules of env_flags.c, and a variable       *)
(* escapes those rules only while it is bare.                              *)
Barred(k, old, new) ==
  CASE old = Missing -> CreateBarred(k)
    [] new = Missing -> DeleteBarred(k)
    [] OTHER         -> OverwriteBarred(k, Entry(k, old, k))

Map == INSTANCE EnvMap WITH
  env <- [k \in Keys |-> Value(k)], ok <- ret # 0

ImplementsMap == Map!Spec

(* "An empty bucket has been found" (hushtable.c): the slot a new entry    *)
(* goes to holds no other entry.                                           *)
EmptyBucket ==
  [][\A k \in Keys, v \in Values : ImportEntry(k, v) /\ ~Found(k) =>
       filled = Size \/ table[Vacant(k)].used # "yes"]_vars
=============================================================================
