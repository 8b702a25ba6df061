---------------------------- MODULE EnvTableProofs ----------------------------
(***************************************************************************)
(* Proofs about EnvTable, for every size of the table, every hash and      *)
(* every set of variables, as long as a clean slot is left (Roomy): no     *)
(* entry is ever out of reach, the counter is right, and the table is the  *)
(* map EnvMap says it is.                                                  *)
(*                                                                         *)
(* The search for a variable stops at the variable's entry or at a clean   *)
(* slot.  The invariant says of every entry that no clean slot, and no     *)
(* other entry of that name, comes before it on its own probe sequence.    *)
(***************************************************************************)
EXTENDS EnvTable, FiniteSetTheorems, WellFoundedInduction, TLAPS

(* hsearch_r counts on a clean slot; the run env_full shows that nothing   *)
(* keeps one.                                                              *)
Roomy == MaxTaken < Size

(* The search for k passes over the slots before the n-th.                 *)
Passes(k, n) == \A m \in 0 .. n - 1 : ~Stops(Probe[k][m], k)

InReach ==
  \A i \in Slots, k \in Keys :
    Holds(i, k) => \E n \in 0 .. Size - 1 : Probe[k][n] = i /\ Passes(k, n)

Room == Cardinality(Taken) <= MaxTaken

Entries == {i \in Slots : table[i].used = "yes"}

Counted == short = 0 => filled = Cardinality(Entries)

(* An entry has its variable's flags, unless memory ran out for it.        *)
FlagsKept ==
  \A i \in Slots, k \in Keys :
    Holds(i, k) /\ k \in Flagged /\ k \notin bare => table[i].flags = k

TableInv == Roomy /\ TypeOK /\ InReach /\ Room /\ Counted /\ FlagsKept

(* The part of TableInv the table's operations have to keep.               *)
Sound ==
  /\ table \in [Slots -> Slot] /\ filled \in 0 .. Word - 1
  /\ ret \in 0 .. Size /\ short \in 0 .. MaxShort /\ bare \subseteq Keys
  /\ InReach /\ Room /\ Counted /\ FlagsKept

(***************************************************************************)
(* Arithmetic.                                                             *)
(***************************************************************************)
LEMMA Least ==
  ASSUME NEW T \in SUBSET Nat, T # {}
  PROVE  \E m \in T : \A n \in T : m <= n
<1> DEFINE R == {ss \in Nat \X Nat : ss[1] < ss[2]}
<1>1. IsWellFoundedOn(R, Nat)
  BY NatLessThanWellFounded DEF OpToRel
<1>2. PICK m \in T : \A n \in T : ~(<<n, m>> \in R)
  BY <1>1, WFMin
<1>3. \A n \in T : n < m => <<n, m>> \in R
  OBVIOUS
<1>4. \A n \in T : m \in Nat /\ n \in Nat /\ ~(n < m)
  BY <1>2, <1>3
<1>5. \A n \in T : m <= n
  BY <1>4
<1> QED  BY <1>5

LEMMA SmallRemainder ==
  ASSUME NEW w \in Nat, NEW n \in 0 .. w - 1
  PROVE  n % w = n /\ (n + w) % w = n
  OBVIOUS

LEMMA SlotsFinite == IsFiniteSet(Slots) /\ Cardinality(Slots) = Size
  BY EnvAssumption, FS_Interval DEF Slots

LEMMA ProbeType ==
  ASSUME NEW k \in Keys, NEW n \in 0 .. Size
  PROVE  Probe[k][n] \in Slots
<1>1. Probe[k][n] = ((Hash[k] - 1 + n * (Size - Step(k))) % Size) + 1
  BY DEF Probe
<1>2. Hash[k] \in Int /\ Size \in Nat /\ Size > 2
  BY EnvAssumption
<1>3. Step(k) \in Int
  <2>1. Size - 2 \in Nat /\ Size - 2 > 0
    BY <1>2
  <2>2. Hash[k] % (Size - 2) \in Int
    BY <1>2, <2>1
  <2> QED  BY <2>2 DEF Step
<1>4. n * (Size - Step(k)) \in Int
  BY <1>2, <1>3
<1>5. Hash[k] - 1 + n * (Size - Step(k)) \in Int
  BY <1>2, <1>4
<1> DEFINE x == Hash[k] - 1 + n * (Size - Step(k))
<1>6. x \in Int
  BY <1>5
<1> HIDE DEF x
<1>7. x % Size \in 0 .. Size - 1
  BY <1>2, <1>6
<1>8. Probe[k][n] = (x % Size) + 1
  BY <1>1 DEF x
<1> QED  BY <1>2, <1>7, <1>8 DEF Slots

LEMMA FirstProbe ==
  ASSUME NEW k \in Keys
  PROVE  Hash[k] \in Slots /\ Probe[k][0] = Hash[k]
<1>1. Hash[k] \in 1 .. Size - 1 /\ Size \in Nat /\ Size > 2
  BY EnvAssumption
<1>2. Probe[k][0] = ((Hash[k] - 1 + 0 * (Size - Step(k))) % Size) + 1
  BY <1>1 DEF Probe
<1>3. Step(k) \in Int
  <2>1. Size - 2 \in Nat /\ Size - 2 > 0
    BY <1>1
  <2>2. Hash[k] % (Size - 2) \in Int
    BY <1>1, <2>1
  <2> QED  BY <2>2 DEF Step
<1>4. 0 * (Size - Step(k)) = 0
  BY <1>1, <1>3
<1>5. (Hash[k] - 1) % Size = Hash[k] - 1
  BY <1>1, SmallRemainder
<1> QED  BY <1>1, <1>2, <1>4, <1>5 DEF Slots

(***************************************************************************)
(* The search.                                                             *)
(***************************************************************************)
LEMMA TriedFacts ==
  ASSUME NEW k \in Keys
  PROVE  /\ Tried(k) \in 0 .. Size
         /\ Tried(k) = Size \/ Stops(Probe[k][Tried(k)], k)
         /\ Passes(k, Tried(k))
<1> DEFINE T == {n \in 0 .. Size : n = Size \/ Stops(Probe[k][n], k)}
<1>1. Size \in Nat /\ T \in SUBSET Nat /\ Size \in T
  BY EnvAssumption
<1>2. PICK n \in T : \A m \in T : n <= m
  BY <1>1, Least
<1>3. \A m \in 0 .. n - 1 : ~Stops(Probe[k][m], k)
  <2> SUFFICES ASSUME NEW m \in 0 .. n - 1 PROVE ~Stops(Probe[k][m], k)
    OBVIOUS
  <2>1. m \in 0 .. Size /\ ~(n <= m)
    BY <1>1
  <2>2. m \notin T
    BY <1>2, <2>1
  <2> QED  BY <2>1, <2>2
<1>4. \E t \in 0 .. Size : /\ t = Size \/ Stops(Probe[k][t], k)
                           /\ \A m \in 0 .. t - 1 : ~Stops(Probe[k][m], k)
  BY <1>3
<1> QED  BY <1>4 DEF Tried, Passes

LEMMA TriedIs ==
  ASSUME NEW k \in Keys, NEW n \in 0 .. Size - 1, Stops(Probe[k][n], k), Passes(k, n)
  PROVE  Tried(k) = n
<1>1. Size \in Nat /\ Tried(k) \in 0 .. Size
  BY EnvAssumption, TriedFacts
<1>2. ~(Tried(k) > n)
  BY <1>1, TriedFacts DEF Passes
<1>3. ~(Tried(k) < n)
  <2> SUFFICES ASSUME Tried(k) < n PROVE FALSE
    OBVIOUS
  <2>1. Tried(k) \in 0 .. n - 1 /\ Tried(k) # Size
    BY <1>1
  <2> QED  BY <2>1, TriedFacts DEF Passes
<1> QED  BY <1>1, <1>2, <1>3

(* With a clean slot left, every search stops before it is back.           *)
LEMMA SearchStops ==
  ASSUME TableInv, NEW k \in Keys
  PROVE  Tried(k) \in 0 .. Size - 1 /\ Last(k) \in Slots /\ Stops(Last(k), k)
<1>1. Size \in Nat /\ Size > 2 /\ MaxTaken \in Nat
  BY EnvAssumption
<1>2. PICK i \in Slots : table[i].used = "no"
  <2> SUFFICES ASSUME \A i \in Slots : table[i].used # "no" PROVE FALSE
    OBVIOUS
  <2>1. Taken = Slots
    BY DEF Taken
  <2> QED  BY <1>1, <2>1, SlotsFinite DEF TableInv, Room, Roomy
<1>3. PICK n \in 0 .. Size - 1 : Probe[k][n] = i
  <2>1. i \in {Probe[k][n] : n \in 0 .. Size - 1}
    BY ProbeAssumption
  <2> QED  BY <2>1
<1>4. Stops(Probe[k][n], k)
  BY <1>2, <1>3 DEF Stops
<1>5. Tried(k) <= n
  <2> SUFFICES ASSUME n < Tried(k) PROVE FALSE
    BY <1>1, TriedFacts
  <2>1. n \in 0 .. Tried(k) - 1
    BY <1>1, TriedFacts
  <2> QED  BY <1>4, <2>1, TriedFacts DEF Passes
<1>6. Tried(k) \in 0 .. Size - 1 /\ Tried(k) # Size /\ Tried(k) \in 0 .. Size
  BY <1>1, <1>5, TriedFacts
<1> QED  BY <1>6, TriedFacts, ProbeType DEF Last

(* An entry is what the search for its name finds.                         *)
LEMMA HeldIsFound ==
  ASSUME TableInv, NEW k \in Keys, NEW i \in Slots, Holds(i, k)
  PROVE  Found(k) /\ Last(k) = i
<1>1. PICK n \in 0 .. Size - 1 : Probe[k][n] = i /\ Passes(k, n)
  BY DEF TableInv, InReach
<1>2. Tried(k) = n
  BY <1>1, TriedIs DEF Stops
<1>3. Tried(k) < Size
  BY <1>2, EnvAssumption
<1> QED  BY <1>1, <1>2, <1>3 DEF Found, Last

(* Where a new entry goes there is none, and the search comes to it.       *)
LEMMA VacantFacts ==
  ASSUME TableInv, NEW k \in Keys, ~Found(k)
  PROVE  /\ Vacant(k) \in Slots /\ table[Vacant(k)].used # "yes"
         /\ \E n \in 0 .. Size - 1 :
              /\ Probe[k][n] = Vacant(k) /\ Passes(k, n)
              /\ \A m \in 0 .. n - 1 : Probe[k][m] # Vacant(k)
<1>1. CASE table[Hash[k]].used = "deleted"
  <2>1. Vacant(k) = Hash[k]
    BY <1>1 DEF Vacant
  <2>2. 0 \in 0 .. Size - 1 /\ Passes(k, 0)
    BY EnvAssumption DEF Passes
  <2> QED  BY <1>1, <2>1, <2>2, FirstProbe
<1>2. CASE table[Hash[k]].used # "deleted"
  <2>1. Vacant(k) = Last(k)
    BY <1>2 DEF Vacant
  <2>2. Tried(k) \in 0 .. Size - 1 /\ Last(k) \in Slots /\ Stops(Last(k), k) /\ Tried(k) < Size
    BY SearchStops, EnvAssumption
  <2>3. table[Last(k)].used = "no"
    BY <2>2 DEF Found, Stops
  <2>4. Passes(k, Tried(k)) /\ Probe[k][Tried(k)] = Last(k)
    BY TriedFacts DEF Last
  <2>5. \A m \in 0 .. Tried(k) - 1 : Probe[k][m] # Last(k)
    BY <2>2, <2>4 DEF Passes
  <2> QED  BY <2>1, <2>2, <2>3, <2>4, <2>5
<1> QED  BY <1>1, <1>2

(***************************************************************************)
(* One slot changes.                                                       *)
(***************************************************************************)
(* Slot s becomes e: an entry only where there was one of that name, or    *)
(* where the search for its name, which is not there, ends.                *)
Becomes(s, e) ==
  /\ table' = [table EXCEPT ![s] = e]
  /\ e.used # "no"
  /\ \A k \in Keys : e.used = "yes" /\ e.key = k =>
       Holds(s, k) \/ (~Found(k) /\ s = Vacant(k))

LEMMA StillInReach ==
  ASSUME TableInv, NEW s \in Slots, NEW e \in Slot, Becomes(s, e)
  PROVE  InReach'
<1> SUFFICES ASSUME NEW i \in Slots, NEW k \in Keys, Holds(i, k)'
             PROVE  \E n \in 0 .. Size - 1 : Probe[k][n] = i /\ Passes(k, n)'
  BY DEF InReach
<1>1. /\ table'[s] = e /\ \A j \in Slots \ {s} : table'[j] = table[j]
      /\ e.used # "no"
  BY DEF Becomes, TableInv, TypeOK
<1>2. \A n \in 0 .. Size - 1 : \A m \in 0 .. n - 1 : m \in 0 .. Size /\ Probe[k][m] \in Slots
  BY EnvAssumption, ProbeType
<1>3. CASE i # s
  <2>1. Holds(i, k)
    BY <1>1, <1>3 DEF Holds
  <2>2. PICK n \in 0 .. Size - 1 : Probe[k][n] = i /\ Passes(k, n)
    BY <2>1 DEF TableInv, InReach
  <2>3. ASSUME NEW m \in 0 .. n - 1 PROVE ~Stops(Probe[k][m], k)'
    <3>1. ~Stops(Probe[k][m], k) /\ Probe[k][m] \in Slots
      BY <1>2, <2>2 DEF Passes
    <3>2. CASE Probe[k][m] # s
      BY <1>1, <3>1, <3>2 DEF Stops, Holds
    <3>3. CASE Probe[k][m] = s
      <4>1. ~Holds(s, k) /\ Found(k)
        BY <2>1, <3>1, <3>3, HeldIsFound DEF Stops
      <4>2. ~(e.used = "yes" /\ e.key = k)
        BY <4>1 DEF Becomes
      <4> QED  BY <1>1, <3>3, <4>2 DEF Stops, Holds
    <3> QED  BY <3>2, <3>3
  <2> QED  BY <2>2, <2>3 DEF Passes
<1>4. CASE i = s
  <2>1. e.used = "yes" /\ e.key = k
    BY <1>1, <1>4 DEF Holds
  <2>2. PICK n \in 0 .. Size - 1 :
               /\ Probe[k][n] = s /\ Passes(k, n)
               /\ \A m \in 0 .. n - 1 : Probe[k][m] # s
    <3>1. CASE Holds(s, k)
      <4>1. PICK n \in 0 .. Size - 1 : Probe[k][n] = s /\ Passes(k, n)
        BY <3>1 DEF TableInv, InReach
      <4>2. \A m \in 0 .. n - 1 : Probe[k][m] # s
        BY <3>1, <4>1 DEF Passes, Stops
      <4> QED  BY <4>1, <4>2
    <3>2. CASE ~Found(k) /\ s = Vacant(k)
      BY <3>2, VacantFacts
    <3> QED  BY <2>1, <3>1, <3>2 DEF Becomes
  <2>3. \A m \in 0 .. n - 1 : ~Stops(Probe[k][m], k)'
    BY <1>1, <1>2, <2>2 DEF Passes, Stops, Holds
  <2> QED  BY <1>4, <2>2, <2>3 DEF Passes
<1> QED  BY <1>3, <1>4

(* Flags stay where they are, if the slot that changes has its own and no  *)
(* other holds a variable that ceases to be bare.                          *)
LEMMA FlagsStay ==
  ASSUME TableInv, NEW s \in Slots, NEW e \in Slot, table' = [table EXCEPT ![s] = e],
         \A k \in Keys : e.used = "yes" /\ e.key = k /\ k \in Flagged /\ k \notin bare'
                         => e.flags = k,
         \A k \in bare \ bare' : \A i \in Slots \ {s} : ~Holds(i, k)
  PROVE  FlagsKept'
<1> SUFFICES ASSUME NEW i \in Slots, NEW k \in Keys, Holds(i, k)', k \in Flagged, k \notin bare'
             PROVE  table'[i].flags = k
  BY DEF FlagsKept, Flagged
<1>1. table'[s] = e /\ \A j \in Slots \ {s} : table'[j] = table[j]
  BY DEF TableInv, TypeOK
<1>2. CASE i = s
  BY <1>1, <1>2 DEF Holds
<1>3. CASE i # s
  <2>1. Holds(i, k) /\ table'[i] = table[i]
    BY <1>1, <1>3 DEF Holds
  <2>2. k \notin bare
    BY <1>3, <2>1
  <2> QED  BY <2>1, <2>2 DEF TableInv, FlagsKept
<1> QED  BY <1>2, <1>3

LEMMA TypeStays ==
  ASSUME TypeOK, NEW s \in Slots, NEW e \in Slot, table' = [table EXCEPT ![s] = e]
  PROVE  table' \in [Slots -> Slot]
  BY DEF TypeOK

LEMMA SlotTypes ==
  /\ Clean \in Slot /\ Deleted \in Slot
  /\ \A k \in Keys \cup {NoKey}, v \in Values \cup {Missing}, f \in Keys \cup {NoKey} :
       Entry(k, v, f) \in Slot
  BY DEF Clean, Deleted, Entry, Slot

LEMMA EntriesFinite ==
  IsFiniteSet(Entries) /\ Cardinality(Entries) \in 0 .. Size
<1>1. Entries \subseteq Slots
  BY DEF Entries
<1>2. IsFiniteSet(Entries) /\ Cardinality(Entries) <= Size
  BY <1>1, SlotsFinite, FS_Subset
<1>3. Cardinality(Entries) \in Nat
  BY <1>2, FS_CardinalityType
<1> QED  BY <1>2, <1>3, EnvAssumption

LEMMA WordType == ASSUME NEW n \in Int PROVE n % Word \in 0 .. Word - 1
<1>1. Word \in Nat /\ Word > 0
  BY EnvAssumption
<1> QED  BY <1>1

LEMMA SameTable ==
  ASSUME TableInv, UNCHANGED <<table, filled, short, bare>>, ret' \in 0 .. Size
  PROVE  Sound'
<1>1. InReach' /\ FlagsKept'
  BY DEF TableInv, InReach, Passes, Stops, Holds, FlagsKept, Flagged
<1>2. Room' /\ Counted'
  BY DEF TableInv, Room, Taken, Counted, Entries
<1> QED  BY <1>1, <1>2 DEF TableInv, TypeOK, Sound

LEMMA FailureKeeps == TableInv /\ Failure => Sound'
<1>1. 0 \in 0 .. Size
  BY EnvAssumption
<1> QED  BY <1>1, SameTable DEF Failure

(* An entry is deleted: its slot keeps searches going on.                  *)
LEMMA DeleteKeeps ==
  ASSUME TableInv, NEW k \in Keys, Delete(k)
  PROVE  Sound'
<1>1. CASE Failure
  BY <1>1, FailureKeeps
<1>2. CASE /\ Found(k) /\ table' = [table EXCEPT ![Last(k)] = Deleted]
           /\ filled' = Less(filled) /\ bare' = bare \ {k} /\ ret' = 1 /\ UNCHANGED short
  <2>1. Last(k) \in Slots /\ Holds(Last(k), k)
    BY <1>2, SearchStops DEF Found
  <2>2. Deleted \in Slot /\ Deleted.used = "deleted"
    BY SlotTypes DEF Deleted
  <2>3. Becomes(Last(k), Deleted)
    BY <1>2, <2>2 DEF Becomes
  <2>4. InReach'
    BY <2>1, <2>2, <2>3, StillInReach
  <2>5. table' \in [Slots -> Slot]
    BY <1>2, <2>1, <2>2, TypeStays DEF TableInv
  <2>6. Entries' = Entries \ {Last(k)} /\ Last(k) \in Entries /\ Taken' = Taken
    BY <1>2, <2>1, <2>2 DEF TableInv, TypeOK, Entries, Taken, Holds
  <2>7. filled' \in 0 .. Word - 1 /\ ret' \in 0 .. Size
    BY <1>2, WordType, EnvAssumption DEF Less, TableInv, TypeOK
  <2>8. Counted'
    <3> SUFFICES ASSUME short = 0 PROVE filled' = Cardinality(Entries')
      BY <1>2 DEF Counted
    <3>1. filled = Cardinality(Entries) /\ Cardinality(Entries') = filled - 1
      BY <2>6, EntriesFinite, FS_RemoveElement DEF TableInv, Counted
    <3>2. Entries # {}
      BY <2>6
    <3>3. filled \in 1 .. Size
      BY <3>1, <3>2, EntriesFinite, FS_EmptySet
    <3>4. Word \in Nat /\ filled - 1 \in 0 .. Word - 1
      BY <3>3, EnvAssumption
    <3>5. ((filled - 1) + Word) % Word = filled - 1
      BY <3>4, SmallRemainder
    <3>6. filled + Word - 1 = (filled - 1) + Word
      BY <3>3, EnvAssumption
    <3> QED  BY <1>2, <3>1, <3>5, <3>6 DEF Less
  <2>9. FlagsKept'
    <3>1. \A j \in bare \ bare' : \A i \in Slots \ {Last(k)} : ~Holds(i, j)
      BY <1>2, HeldIsFound
    <3> QED  BY <1>2, <2>1, <2>2, <3>1, FlagsStay
  <2>10. bare' \subseteq Keys
    BY <1>2 DEF TableInv, TypeOK
  <2> QED  BY <1>2, <2>4, <2>5, <2>6, <2>7, <2>8, <2>9, <2>10 DEF TableInv, TypeOK, Room, Sound
<1> QED  BY <1>1, <1>2 DEF Delete

(* The value of an entry changes, or is lost.                              *)
LEMMA OverwriteKeeps ==
  ASSUME TableInv, NEW k \in Keys, NEW v \in Values, Found(k), Overwrite(k, v)
  PROVE  Sound'
<1>1. Last(k) \in Slots /\ Holds(Last(k), k)
  BY SearchStops DEF Found
<1>2. CASE Failure
  BY <1>2, FailureKeeps
<1>3. ASSUME NEW w \in Values \cup {Missing}, table' = [table EXCEPT ![Last(k)].data = w],
             UNCHANGED <<filled, bare>>, ret' \in 0 .. Size, short' \in 0 .. MaxShort,
             short' = 0 => short = 0
      PROVE  Sound'
  <2> DEFINE e == [table[Last(k)] EXCEPT !.data = w]
  <2>1. table[Last(k)] \in Slot /\ table[Last(k)].used = "yes" /\ table[Last(k)].key = k
    BY <1>1 DEF TableInv, TypeOK, Holds
  <2>2. e \in Slot /\ e.used = "yes" /\ e.key = k /\ e.flags = table[Last(k)].flags
    BY <2>1 DEF Slot
  <2>3. table' = [table EXCEPT ![Last(k)] = e]
    BY <1>3
  <2> HIDE DEF e
  <2>4. Becomes(Last(k), e)
    BY <1>1, <2>2, <2>3 DEF Becomes
  <2>5. InReach'
    BY <1>1, <2>2, <2>4, StillInReach
  <2>6. table' \in [Slots -> Slot]
    BY <1>1, <2>2, <2>3, TypeStays DEF TableInv
  <2>7. Entries' = Entries /\ Taken' = Taken
    BY <1>1, <2>1, <2>2, <2>3 DEF TableInv, TypeOK, Entries, Taken
  <2>8. FlagsKept'
    <3>1. k \in Flagged /\ k \notin bare' => e.flags = k
      BY <1>1, <1>3, <2>2 DEF TableInv, FlagsKept
    <3>2. \A j \in bare \ bare' : \A i \in Slots \ {Last(k)} : ~Holds(i, j)
      BY <1>3
    <3> QED  BY <1>1, <2>2, <2>3, <3>1, <3>2, FlagsStay
  <2> QED  BY <1>3, <2>5, <2>6, <2>7, <2>8 DEF TableInv, TypeOK, Room, Counted, Sound
<1>4. Last(k) \in 0 .. Size /\ 0 \in 0 .. Size
  BY <1>1, EnvAssumption DEF Slots
<1>5. CASE /\ table' = [table EXCEPT ![Last(k)].data = v]
           /\ ret' = Last(k) /\ UNCHANGED <<filled, short, bare>>
  BY <1>3, <1>4, <1>5 DEF TableInv, TypeOK
<1>6. CASE table' = [table EXCEPT ![Last(k)].data = Missing] /\ Short /\ UNCHANGED bare
  <2>1. short' \in 0 .. MaxShort /\ short' # 0
    BY <1>6, EnvAssumption DEF Short, TableInv, TypeOK
  <2> QED  BY <1>3, <1>4, <1>6, <2>1 DEF Short
<1> QED  BY <1>2, <1>5, <1>6 DEF Overwrite

(* A slot is taken for a new entry, which is made, refused, or spoilt by   *)
(* an allocation that fails.                                               *)
LEMMA CreateKeeps ==
  ASSUME TableInv, NEW k \in Keys, NEW v \in Values, ~Found(k), Create(k, v),
         Cardinality(Taken \cup {Vacant(k)}) <= MaxTaken
  PROVE  Sound'
<1>1. Vacant(k) \in Slots /\ Vacant(k) \notin Entries
  BY VacantFacts DEF Entries
<1>2. ASSUME NEW e \in Slot, table' = [table EXCEPT ![Vacant(k)] = e],
             e.used \in {"deleted", "yes"}, e.used = "yes" => e.key \in {k, NoKey},
             filled' \in 0 .. Word - 1, ret' \in 0 .. Size, short' \in 0 .. MaxShort, Counted',
             bare' \in {bare, bare \cup {k}},
             e.used = "yes" /\ e.key = k /\ k \in Flagged /\ k \notin bare' => e.flags = k
      PROVE  Sound'
  <2>1. Becomes(Vacant(k), e)
    BY <1>2, EnvAssumption DEF Becomes
  <2>2. InReach'
    BY <1>1, <2>1, StillInReach
  <2>3. table' \in [Slots -> Slot]
    BY <1>1, <1>2, TypeStays DEF TableInv
  <2>4. Taken' = Taken \cup {Vacant(k)}
    BY <1>1, <1>2 DEF TableInv, TypeOK, Taken
  <2>5. FlagsKept'
    <3>1. \A j \in bare \ bare' : \A i \in Slots \ {Vacant(k)} : ~Holds(i, j)
      BY <1>2
    <3>2. \A j \in Keys : e.used = "yes" /\ e.key = j /\ j \in Flagged /\ j \notin bare'
                            => e.flags = j
      BY <1>2, EnvAssumption
    <3> QED  BY <1>1, <1>2, <3>1, <3>2, FlagsStay
  <2>6. bare' \subseteq Keys
    BY <1>2 DEF TableInv, TypeOK
  <2> QED  BY <1>2, <2>2, <2>3, <2>4, <2>5, <2>6 DEF Room, Sound
<1>3. CASE Failure
  BY <1>3, FailureKeeps
<1>4. 0 \in 0 .. Size /\ 1 \in 0 .. Size
  BY EnvAssumption
<1>5. CASE /\ table' = [table EXCEPT ![Vacant(k)] = Deleted]
           /\ ret' = 0 /\ UNCHANGED <<filled, short, bare>>
  <2>1. Deleted \in Slot /\ Deleted.used = "deleted"
    BY SlotTypes DEF Deleted
  <2>2. Entries' = Entries
    BY <1>1, <1>5, <2>1 DEF TableInv, TypeOK, Entries
  <2>3. Counted' /\ filled' \in 0 .. Word - 1 /\ short' \in 0 .. MaxShort
    BY <1>5, <2>2 DEF TableInv, TypeOK, Counted
  <2> QED  BY <1>2, <1>4, <1>5, <2>1, <2>3
<1> DEFINE old == table[Vacant(k)].flags
           made == Entry(k, v, FlagsInit(k, old))
<1>9. old \in Keys \cup {NoKey}
  BY <1>1 DEF TableInv, TypeOK, Slot
<1>6. CASE /\ filled # Size
           /\ table' = [table EXCEPT ![Vacant(k)] = made]
           /\ filled' = (filled + 1) % Word /\ ret' = 1 /\ UNCHANGED <<short, bare>>
  <2>1. made \in Slot /\ made.used = "yes" /\ made.key = k /\ (k \in Flagged => made.flags = k)
    BY <1>9, SlotTypes DEF Entry, FlagsInit
  <2> HIDE DEF made
  <2>2. Entries' = Entries \cup {Vacant(k)}
    BY <1>1, <1>6, <2>1 DEF TableInv, TypeOK, Entries
  <2>3. filled' \in 0 .. Word - 1 /\ short' \in 0 .. MaxShort
    BY <1>6, WordType DEF TableInv, TypeOK
  <2>4. Counted'
    <3> SUFFICES ASSUME short = 0 PROVE filled' = Cardinality(Entries')
      BY <1>6 DEF Counted
    <3>1. filled = Cardinality(Entries) /\ filled \in 0 .. Size
      BY EntriesFinite DEF TableInv, Counted
    <3>2. Cardinality(Entries') = filled + 1
      BY <1>1, <2>2, <3>1, EntriesFinite, FS_AddElement
    <3>3. Word \in Nat /\ filled + 1 \in 0 .. Word - 1
      BY <1>6, <3>1, EnvAssumption
    <3> QED  BY <1>6, <3>2, <3>3, SmallRemainder
  <2> QED  BY <1>2, <1>4, <1>6, <2>1, <2>3, <2>4
<1>7. CASE /\ Short
           /\ \/ /\ table' = [table EXCEPT ![Vacant(k)] = Entry(k, Missing, old)]
                 /\ bare' = bare \cup {k}
              \/ /\ \E d \in {v, Missing} : table' = [table EXCEPT ![Vacant(k)] = Entry(NoKey, d, old)]
                 /\ UNCHANGED bare
  <2>1. PICK e \in {Entry(k, Missing, old), Entry(NoKey, v, old), Entry(NoKey, Missing, old)} :
               /\ table' = [table EXCEPT ![Vacant(k)] = e] /\ bare' \in {bare, bare \cup {k}}
               /\ e.key = k => k \in bare'
    BY <1>7, EnvAssumption DEF Entry
  <2>2. e \in Slot /\ e.used = "yes" /\ e.key \in {k, NoKey}
    BY <1>9, SlotTypes DEF Entry
  <2>3. /\ short' \in 0 .. MaxShort /\ short' # 0 /\ ret' = 0
        /\ filled' \in 0 .. Word - 1
    BY <1>7, EnvAssumption DEF Short, TableInv, TypeOK
  <2> QED  BY <1>2, <1>4, <2>1, <2>2, <2>3 DEF Counted
<1> QED  BY <1>3, <1>5, <1>6, <1>7 DEF Create, FlagsInit

(***************************************************************************)
(* The imports.                                                            *)
(***************************************************************************)
LEMMA SoundIsEnough ==
  ASSUME TableInv, Sound', phase' \in {"none", "entries", "rest"}, forced' \in BOOLEAN,
         listed' \in BOOLEAN, wanted' \subseteq Keys
  PROVE  TableInv'
  BY DEF TableInv, TypeOK, Sound, Roomy

LEMMA EmptyIsSound ==
  ASSUME table' = Empty, filled' = 0, bare' = {}, ret' \in 0 .. Size, short' \in 0 .. MaxShort
  PROVE  Sound'
<1>1. table' \in [Slots -> Slot] /\ \A i \in Slots : table'[i].used = "no"
  BY SlotTypes DEF Empty, Clean
<1>2. Taken' = {} /\ Entries' = {}
  BY <1>1 DEF Taken, Entries
<1>3. Cardinality({}) = 0 /\ filled' \in 0 .. Word - 1 /\ 0 <= MaxTaken
  BY FS_EmptySet, EnvAssumption
<1>4. InReach' /\ FlagsKept'
  BY <1>1 DEF InReach, FlagsKept, Holds
<1> QED  BY <1>1, <1>2, <1>3, <1>4 DEF Room, Counted, Sound

LEMMA InitInv == Roomy /\ Init => TableInv
<1> SUFFICES ASSUME Roomy, Init PROVE TableInv  OBVIOUS
<1>1. table \in [Slots -> Slot] /\ \A i \in Slots : table[i].used = "no"
  BY SlotTypes DEF Init, Empty, Clean
<1>2. Taken = {} /\ Entries = {}
  BY <1>1 DEF Taken, Entries
<1>3. Cardinality({}) = 0 /\ filled \in 0 .. Word - 1 /\ 0 <= MaxTaken
  BY FS_EmptySet, EnvAssumption DEF Init
<1>4. InReach /\ FlagsKept
  BY <1>1 DEF InReach, FlagsKept, Holds
<1>5. ret \in 0 .. Size /\ short \in 0 .. MaxShort
  BY EnvAssumption DEF Init
<1> QED  BY <1>1, <1>2, <1>3, <1>4, <1>5 DEF Init, Room, Counted, TableInv, TypeOK

LEMMA NextKeeps == TableInv /\ [Next]_vars => TableInv'
<1> SUFFICES ASSUME TableInv, [Next]_vars PROVE TableInv'  OBVIOUS
<1>1. ASSUME Start PROVE TableInv'
  <2>1. Sound'
    BY <1>1, SameTable, EmptyIsSound DEF Start, TableInv, TypeOK
  <2> QED  BY <1>1, <2>1, SoundIsEnough DEF Start
<1>2. ASSUME NEW k \in Keys, NEW v \in Values, ImportEntry(k, v) PROVE TableInv'
  <2>1. Sound'
    BY <1>2, OverwriteKeeps, CreateKeeps DEF ImportEntry, Enter
  <2> QED  BY <1>2, <2>1, SoundIsEnough DEF ImportEntry, Meet, TableInv, TypeOK
<1>3. ASSUME NEW k \in Keys, ImportDelete(k) PROVE TableInv'
  BY <1>3, DeleteKeeps, SoundIsEnough DEF ImportDelete, Meet, TableInv, TypeOK
<1>4. ASSUME NEW k \in Keys, DeleteUnmet(k) PROVE TableInv'
  BY <1>4, DeleteKeeps, SoundIsEnough DEF DeleteUnmet, TableInv, TypeOK
<1>5. ASSUME EmptyName \/ EndEntries \/ Finish \/ UNCHANGED vars PROVE TableInv'
  <2>1. UNCHANGED <<table, filled, forced, listed, ret, short, bare>>
    BY <1>5 DEF EmptyName, EndEntries, Finish, vars
  <2>2. phase' \in {"none", "entries", "rest"} /\ wanted' \subseteq Keys
    BY <1>5 DEF EmptyName, EndEntries, Finish, vars, TableInv, TypeOK
  <2> QED  BY <2>1, <2>2, SameTable, SoundIsEnough DEF TableInv, TypeOK
<1> QED  BY <1>1, <1>2, <1>3, <1>4, <1>5 DEF Next

LEMMA Invariant == Roomy => (Spec => []TableInv)
<1>1. ASSUME Roomy PROVE Spec => []TableInv
  <2>1. Init => TableInv
    BY <1>1, InitInv
  <2> QED  BY <2>1, NextKeeps, PTL DEF Spec
<1> QED  BY <1>1

(* The table's slots and the import's state keep their types.              *)
THEOREM TypeCorrect == Roomy => (Spec => []TypeOK)
<1>1. TableInv => TypeOK
  BY DEF TableInv
<1> QED  BY Invariant, <1>1, PTL

(* As long as a clean slot is left, no sequence of entries, refusals and   *)
(* deletions puts an entry of hushtable.c's table out of reach or doubles  *)
(* it, and the counter is right while memory lasts.                        *)
THEOREM NoLostEntriesHolds == Roomy => (Spec => []NoLostEntries)
<1>1. TableInv => NoLostEntries
  <2> SUFFICES ASSUME TableInv PROVE NoLostEntries  OBVIOUS
  <2>1. ASSUME NEW i \in Slots, table[i].used = "yes", table[i].key # NoKey
        PROVE  Found(table[i].key) /\ Last(table[i].key) = i
    <3>1. table[i].key \in Keys
      BY <2>1 DEF TableInv, TypeOK, Slot
    <3> QED  BY <2>1, <3>1, HeldIsFound DEF Holds
  <2>2. short = 0 => filled = Cardinality({i \in Slots : table[i].used = "yes"})
    BY DEF TableInv, Counted, Entries
  <2> QED  BY <2>1, <2>2 DEF NoLostEntries
<1> QED  BY Invariant, <1>1, PTL

(***************************************************************************)
(* The map.                                                                *)
(***************************************************************************)
(* What getenv returns, told by the slots alone.                           *)
Readable ==
  \A k \in Keys :
    /\ \A i \in Slots : Holds(i, k) => Value(k) = table[i].data
    /\ (\A i \in Slots : ~Holds(i, k)) => Value(k) = Missing

LEMMA ValuesReadable == TableInv => Readable
<1> SUFFICES ASSUME TableInv, NEW k \in Keys
             PROVE  /\ \A i \in Slots : Holds(i, k) => Value(k) = table[i].data
                    /\ (\A i \in Slots : ~Holds(i, k)) => Value(k) = Missing
  BY DEF Readable
<1>1. ASSUME NEW i \in Slots, Holds(i, k) PROVE Value(k) = table[i].data
  BY <1>1, HeldIsFound DEF Value
<1>2. ASSUME \A i \in Slots : ~Holds(i, k) PROVE Value(k) = Missing
  BY <1>2, SearchStops DEF Found, Value
<1> QED  BY <1>1, <1>2

Env == [k \in Keys |-> Value(k)]

(* A change of one slot changes the map at one variable, if that slot      *)
(* concerns no other variable and the variable has no other slot.          *)
LEMMA OneChanges ==
  ASSUME TableInv, Readable, Readable', NEW s \in Slots, NEW e \in Slot, NEW k \in Keys,
         table' = [table EXCEPT ![s] = e],
         \A j \in Keys \ {k} : ~Holds(s, j) /\ ~(e.used = "yes" /\ e.key = j),
         \A i \in Slots : Holds(i, k) => i = s
  PROVE  Env' = [Env EXCEPT ![k] = IF e.used = "yes" /\ e.key = k THEN e.data ELSE Missing]
<1>1. table'[s] = e /\ \A i \in Slots \ {s} : table'[i] = table[i]
  BY DEF TableInv, TypeOK
<1>2. ASSUME NEW j \in Keys \ {k} PROVE Value(j)' = Value(j)
  <2>1. \A i \in Slots : Holds(i, j)' <=> Holds(i, j)
    BY <1>1 DEF Holds
  <2>2. CASE \E i \in Slots : Holds(i, j)
    <3>1. PICK i \in Slots : Holds(i, j)
      BY <2>2
    <3>2. i # s /\ Holds(i, j)'
      BY <2>1, <3>1
    <3> QED  BY <1>1, <3>1, <3>2 DEF Readable
  <2>3. CASE ~\E i \in Slots : Holds(i, j)
    BY <2>1, <2>3 DEF Readable
  <2> QED  BY <2>2, <2>3
<1>3. Value(k)' = IF e.used = "yes" /\ e.key = k THEN e.data ELSE Missing
  <2>1. CASE e.used = "yes" /\ e.key = k
    BY <1>1, <2>1 DEF Readable, Holds
  <2>2. CASE ~(e.used = "yes" /\ e.key = k)
    <3>1. \A i \in Slots : ~Holds(i, k)'
      BY <1>1, <2>2 DEF Holds
    <3> QED  BY <2>2, <3>1 DEF Readable
  <2> QED  BY <2>1, <2>2
<1>4. Env' = [j \in Keys |-> Value(j)']
  BY DEF Env
<1> QED  BY <1>2, <1>3, <1>4 DEF Env

(* A step of the map in the middle of an import.                           *)
MapEdit ==
  \/ \E k \in Keys, w \in Values \cup {Missing} : Map!Change(k, w)
  \/ \E k \in Keys : Map!Fail(k)
  \/ UNCHANGED Map!vars

LEMMA MapStutters ==
  ASSUME Env' = Env, UNCHANGED <<forced, ret, bare>>
  PROVE  MapEdit
  BY DEF MapEdit, Map!vars, Env

LEMMA MapBegins ==
  ASSUME \/ Env' = Env /\ bare' = bare
         \/ Env' = [k \in Keys |-> Missing] /\ bare' = {},
         forced' \in BOOLEAN, ret' = ret
  PROVE  Map!Begin
  BY DEF Map!Begin, Env

LEMMA MapChanges ==
  ASSUME NEW k \in Keys, NEW w \in Values \cup {Missing}, Env' = [Env EXCEPT ![k] = w],
         ret' # 0, forced' = forced, bare' = IF w = Missing THEN bare \ {k} ELSE bare,
         k \in bare \/ (w \notin BadValues[k] /\ (Barred(k, Value(k), w) => forced))
  PROVE  MapEdit
<1>1. Map!Change(k, w)
  BY DEF Map!Change, Map!Allowed, Env
<1> QED  BY <1>1 DEF MapEdit

LEMMA MapFails ==
  ASSUME NEW k \in Keys, ret' = 0, forced' = forced,
         \/ Env' = Env /\ bare' = bare
         \/ /\ Env' = [Env EXCEPT ![k] = Missing] /\ bare' = bare
            /\ \E v \in Values :
                 k \in bare \/ (v \notin BadValues[k] /\ (Barred(k, Value(k), v) => forced))
         \/ Env' = Env /\ Value(k) = Missing /\ bare' = bare \cup {k}
  PROVE  MapEdit
<1>1. Map!Fail(k)
  BY DEF Map!Fail, Map!Allowed, Env
<1> QED  BY <1>1 DEF MapEdit

LEMMA NothingMissing ==
  /\ Missing \notin Values /\ NoKey \notin Keys
  /\ \A k \in Keys : BadValues[k] \subseteq Values
  BY EnvAssumption

(* What the flags of an entry bar is what Barred says, unless the variable *)
(* is bare.                                                                *)
LEMMA Protects ==
  ASSUME TableInv, NEW k \in Keys, NEW i \in Slots, Holds(i, k), k \notin bare
  PROVE  /\ Access[k] # "any" \/ BadValues[k] # {} => table[i].flags = k
         /\ \A v \in Values : v \in BadValues[k] => BadType(table[i].flags, v)
         /\ Denied(k, {"readonly", "writeonce", "changedefault"}) => DeleteBarred(table[i].flags)
<1>1. k \in Flagged => table[i].flags = k
  BY DEF TableInv, FlagsKept
<1>2. k # NoKey
  BY NothingMissing
<1> QED  BY <1>1, <1>2 DEF Flagged, BadType, Denied, DeleteBarred

(* The only slot of a variable that is found is where the search ended.    *)
LEMMA FoundFacts ==
  ASSUME TableInv, NEW k \in Keys
  PROVE  /\ Found(k) => /\ Last(k) \in Slots /\ Holds(Last(k), k)
                        /\ \A i \in Slots : Holds(i, k) => i = Last(k)
                        /\ Value(k) = table[Last(k)].data
         /\ ~Found(k) => Value(k) = Missing /\ \A i \in Slots : ~Holds(i, k)
  BY SearchStops, HeldIsFound DEF Found, Value

LEMMA FailureMaps ==
  ASSUME NEW k \in Keys, Failure, forced' = forced
  PROVE  MapEdit
<1>1. Env' = Env /\ ret' = 0 /\ bare' = bare
  BY DEF Failure, Env, Value, Found, Last, Tried, Stops, Holds
<1> QED  BY <1>1, MapFails

LEMMA DeleteMaps ==
  ASSUME TableInv, Readable, Readable', NEW k \in Keys, Delete(k), forced' = forced
  PROVE  MapEdit
<1>1. CASE Failure
  BY <1>1, FailureMaps
<1>2. CASE /\ Found(k) /\ ~(DeleteBarred(table[Last(k)].flags) /\ ~forced)
           /\ table' = [table EXCEPT ![Last(k)] = Deleted] /\ bare' = bare \ {k} /\ ret' = 1
  <2>1. /\ Last(k) \in Slots /\ Holds(Last(k), k)
        /\ \A i \in Slots : Holds(i, k) => i = Last(k)
    BY <1>2, FoundFacts
  <2>2. Deleted \in Slot /\ Deleted.used = "deleted"
    BY SlotTypes DEF Deleted
  <2>3. \A j \in Keys \ {k} : ~Holds(Last(k), j) /\ ~(Deleted.used = "yes" /\ Deleted.key = j)
    BY <2>1, <2>2 DEF Holds
  <2>4. Env' = [Env EXCEPT ![k] = Missing]
    <3>1. Env' = [Env EXCEPT ![k] = IF Deleted.used = "yes" /\ Deleted.key = k
                                      THEN Deleted.data ELSE Missing]
      BY <1>2, <2>1, <2>2, <2>3, OneChanges
    <3> QED  BY <2>2, <3>1
  <2>5. k \in bare \/ (Barred(k, Value(k), Missing) => forced)
    <3> SUFFICES ASSUME k \notin bare, Barred(k, Value(k), Missing) PROVE forced
      OBVIOUS
    <3>1. Denied(k, {"readonly", "writeonce", "changedefault"})
      BY DEF Barred, DeleteBarred, CreateBarred, Denied
    <3> QED  BY <1>2, <2>1, <3>1, Protects
  <2>6. ret' # 0 /\ Missing \notin BadValues[k]
    BY <1>2, NothingMissing
  <2>7. bare' = IF Missing = Missing THEN bare \ {k} ELSE bare
    BY <1>2
  <2> QED  BY <2>4, <2>5, <2>6, <2>7, MapChanges
<1> QED  BY <1>1, <1>2 DEF Delete

LEMMA OverwriteMaps ==
  ASSUME TableInv, Readable, Readable', NEW k \in Keys, NEW v \in Values, Found(k),
         Overwrite(k, v), forced' = forced
  PROVE  MapEdit
<1>1. CASE Failure
  BY <1>1, FailureMaps
<1>2. CASE /\ ~BadType(table[Last(k)].flags, v)
           /\ ~(OverwriteBarred(k, table[Last(k)]) /\ ~forced) /\ bare' = bare
  <2>1. /\ Last(k) \in Slots /\ Holds(Last(k), k)
        /\ \A i \in Slots : Holds(i, k) => i = Last(k)
        /\ Value(k) = table[Last(k)].data
    BY FoundFacts
  <2>2. k \in bare \/ (v \notin BadValues[k] /\ (Barred(k, Value(k), v) => forced))
    <3> SUFFICES ASSUME k \notin bare PROVE v \notin BadValues[k] /\ (Barred(k, Value(k), v) => forced)
      OBVIOUS
    <3>1. v \notin BadValues[k]
      BY <1>2, <2>1, Protects
    <3>2. ASSUME Barred(k, Value(k), v) PROVE forced
      <4>1. k # NoKey /\ v # Missing
        BY NothingMissing
      <4>2. Access[k] # "any" /\ OverwriteBarred(k, Entry(k, Value(k), k))
        BY <3>2, <4>1 DEF Barred, OverwriteBarred, CreateBarred, Denied, Entry
      <4>3. table[Last(k)].flags = k /\ table[Last(k)].data = Value(k)
        BY <2>1, <4>2, Protects
      <4>4. OverwriteBarred(k, table[Last(k)])
        BY <4>2, <4>3 DEF OverwriteBarred, Entry
      <4> QED  BY <1>2, <4>4
    <3> QED  BY <3>1, <3>2
  <2>3. ASSUME NEW w \in Values \cup {Missing}, table' = [table EXCEPT ![Last(k)].data = w]
        PROVE  Env' = [Env EXCEPT ![k] = w]
    <3> DEFINE e == [table[Last(k)] EXCEPT !.data = w]
    <3>1. table[Last(k)] \in Slot /\ table[Last(k)].used = "yes" /\ table[Last(k)].key = k
      BY <2>1 DEF TableInv, TypeOK, Holds
    <3>2. e \in Slot /\ e.used = "yes" /\ e.key = k /\ e.data = w
      BY <3>1 DEF Slot
    <3>3. table' = [table EXCEPT ![Last(k)] = e]
      BY <2>3
    <3> HIDE DEF e
    <3>4. \A j \in Keys \ {k} : ~Holds(Last(k), j) /\ ~(e.used = "yes" /\ e.key = j)
      BY <2>1, <3>2 DEF Holds
    <3>5. Env' = [Env EXCEPT ![k] = IF e.used = "yes" /\ e.key = k THEN e.data ELSE Missing]
      BY <2>1, <3>2, <3>3, <3>4, OneChanges
    <3> QED  BY <3>2, <3>5
  <2>4. CASE table' = [table EXCEPT ![Last(k)].data = v] /\ ret' = Last(k)
    <3>1. ret' # 0
      BY <2>1, <2>4 DEF Slots
    <3>2. v # Missing /\ Env' = [Env EXCEPT ![k] = v]
      BY <2>3, <2>4, NothingMissing
    <3> QED  BY <1>2, <2>2, <3>1, <3>2, MapChanges
  <2>5. CASE table' = [table EXCEPT ![Last(k)].data = Missing] /\ ret' = 0
    <3>1. Env' = [Env EXCEPT ![k] = Missing]
      BY <2>3, <2>5
    <3> QED  BY <1>2, <2>2, <2>5, <3>1, MapFails
  <2> QED  BY <1>2, <2>4, <2>5 DEF Overwrite, Short
<1> QED  BY <1>1, <1>2 DEF Overwrite

LEMMA CreateMaps ==
  ASSUME TableInv, Readable, Readable', NEW k \in Keys, NEW v \in Values, ~Found(k),
         Create(k, v), forced' = forced
  PROVE  MapEdit
<1>1. CASE Failure
  BY <1>1, FailureMaps
<1>2. /\ Vacant(k) \in Slots /\ \A j \in Keys : ~Holds(Vacant(k), j)
      /\ Value(k) = Missing /\ \A i \in Slots : ~Holds(i, k)
  BY VacantFacts, FoundFacts DEF Holds
<1>3. ASSUME NEW e \in Slot, table' = [table EXCEPT ![Vacant(k)] = e],
             e.used = "yes" => e.key \in {k, NoKey}
      PROVE  Env' = [Env EXCEPT ![k] = IF e.used = "yes" /\ e.key = k THEN e.data ELSE Missing]
  <2>1. \A j \in Keys \ {k} : ~Holds(Vacant(k), j) /\ ~(e.used = "yes" /\ e.key = j)
    BY <1>2, <1>3, NothingMissing
  <2>2. \A i \in Slots : Holds(i, k) => i = Vacant(k)
    BY <1>2
  <2>3. Vacant(k) \in Slots /\ table' = [table EXCEPT ![Vacant(k)] = e]
    BY <1>2, <1>3
  <2> QED  BY <2>1, <2>2, <2>3, OneChanges
<1>4. [Env EXCEPT ![k] = Missing] = Env
  BY <1>2 DEF Env
<1>5. CASE table' = [table EXCEPT ![Vacant(k)] = Deleted] /\ ret' = 0 /\ bare' = bare
  <2>1. Deleted \in Slot /\ Deleted.used = "deleted"
    BY SlotTypes DEF Deleted
  <2>2. Env' = Env
    BY <1>3, <1>4, <1>5, <2>1
  <2> QED  BY <1>5, <2>2, MapFails
<1> DEFINE old == table[Vacant(k)].flags
           f == FlagsInit(k, old)
           made == Entry(k, v, f)
<1>9. old \in Keys \cup {NoKey} /\ f \in Keys \cup {NoKey} /\ (k \in Flagged => f = k)
  BY <1>2 DEF TableInv, TypeOK, Slot, FlagsInit
<1>6. CASE /\ ~BadType(f, v) /\ ~(CreateBarred(f) /\ ~forced) /\ bare' = bare
           /\ table' = [table EXCEPT ![Vacant(k)] = made] /\ ret' = 1
  <2>1. made \in Slot /\ made.used = "yes" /\ made.key = k /\ made.data = v
    BY <1>9, SlotTypes DEF Entry
  <2>5. k # NoKey /\ v # Missing
    BY NothingMissing
  <2>2. Env' = [Env EXCEPT ![k] = v]
    BY <1>3, <1>6, <2>1
  <2>3. Barred(k, Value(k), v) => forced
    <3> SUFFICES ASSUME Denied(k, {"readonly"}) PROVE forced
      BY <1>2, <2>5 DEF Barred, CreateBarred
    <3>1. f = k
      BY <1>9 DEF Denied, Flagged
    <3> QED  BY <1>6, <3>1 DEF CreateBarred
  <2>4. ret' # 0 /\ v \notin BadValues[k]
    <3> SUFFICES ASSUME v \in BadValues[k] PROVE FALSE
      BY <1>6
    <3>1. f = k
      BY <1>9 DEF Flagged
    <3> QED  BY <1>6, <2>5, <3>1 DEF BadType
  <2>6. bare' = IF v = Missing THEN bare \ {k} ELSE bare
    BY <1>6, <2>5
  <2> QED  BY <1>6, <2>2, <2>3, <2>4, <2>6, MapChanges
<1>7. CASE /\ Short
           /\ \/ /\ table' = [table EXCEPT ![Vacant(k)] = Entry(k, Missing, old)]
                 /\ bare' = bare \cup {k}
              \/ /\ \E d \in {v, Missing} : table' = [table EXCEPT ![Vacant(k)] = Entry(NoKey, d, old)]
                 /\ UNCHANGED bare
  <2>1. PICK e \in {Entry(k, Missing, old), Entry(NoKey, v, old), Entry(NoKey, Missing, old)} :
               /\ table' = [table EXCEPT ![Vacant(k)] = e] /\ bare' \in {bare, bare \cup {k}}
    BY <1>7
  <2>2. e \in Slot /\ e.key \in {k, NoKey} /\ (e.key = k => e.data = Missing)
    BY <1>9, SlotTypes, NothingMissing DEF Entry
  <2>3. Env' = Env
    BY <1>3, <1>4, <2>1, <2>2
  <2> QED  BY <1>2, <1>7, <2>1, <2>3, MapFails DEF Short
<1> QED  BY <1>1, <1>5, <1>6, <1>7 DEF Create

LEMMA StartMaps ==
  ASSUME Readable', Start
  PROVE  Map!Begin
<1>1. forced' \in BOOLEAN /\ ret' = ret
  BY DEF Start
<1>2. CASE table' = table /\ bare' = bare
  <2>1. Env' = Env
    BY <1>2 DEF Env, Value, Found, Last, Tried, Stops, Holds
  <2> QED  BY <1>1, <1>2, <2>1, MapBegins
<1>3. CASE table' = Empty /\ bare' = {}
  <2>1. \A k \in Keys, i \in Slots : ~Holds(i, k)'
    BY <1>3 DEF Empty, Clean, Holds
  <2>2. Env' = [k \in Keys |-> Missing]
    BY <2>1 DEF Readable, Env
  <2> QED  BY <1>1, <1>3, <2>2, MapBegins
<1> QED  BY <1>2, <1>3 DEF Start

LEMMA NextMaps ==
  ASSUME TableInv, Readable, Readable', [Next]_vars
  PROVE  MapEdit \/ (Start /\ Map!Begin)
<1>1. ASSUME NEW k \in Keys, NEW v \in Values, ImportEntry(k, v) PROVE MapEdit
  BY <1>1, OverwriteMaps, CreateMaps DEF ImportEntry, Enter, Meet
<1>2. ASSUME NEW k \in Keys, ImportDelete(k) \/ DeleteUnmet(k) PROVE MapEdit
  BY <1>2, DeleteMaps DEF ImportDelete, DeleteUnmet, Meet
<1>3. ASSUME EmptyName \/ EndEntries \/ Finish \/ UNCHANGED vars PROVE MapEdit
  <2>1. UNCHANGED <<table, forced, ret, bare>>
    BY <1>3 DEF EmptyName, EndEntries, Finish, vars
  <2>2. Env' = Env
    BY <2>1 DEF Env, Value, Found, Last, Tried, Stops, Holds
  <2> QED  BY <2>1, <2>2, MapStutters
<1> QED  BY <1>1, <1>2, <1>3, StartMaps DEF Next

LEMMA InitMaps == Readable /\ Init => Map!Init
<1> SUFFICES ASSUME Readable, Init PROVE Map!Init  OBVIOUS
<1>1. \A k \in Keys, i \in Slots : ~Holds(i, k)
  BY DEF Init, Empty, Clean, Holds
<1>2. \A k \in Keys : Value(k) = Missing
  BY <1>1 DEF Readable
<1> QED  BY <1>2 DEF Init, Map!Init

(* What getenv returns is a map that imports change one variable at a      *)
(* time, as the access flags and types of env_flags.c allow, and that an   *)
(* allocation failure in hsearch_r costs at most the value being replaced. *)
THEOREM ImplementsMapHolds == Roomy => (Spec => ImplementsMap)
<1>1. ASSUME Roomy PROVE Spec => ImplementsMap
  <2>1. Spec => []TableInv
    BY <1>1, Invariant
  <2>2. Readable /\ Readable' /\ TableInv /\ [Next]_vars => [Map!Next]_(Map!vars)
    BY NextMaps DEF MapEdit, Map!Next
  <2> QED  BY <2>1, <2>2, ValuesReadable, InitMaps, PTL DEF Spec, ImplementsMap, Map!Spec
<1> QED  BY <1>1

(* Between a clearing of the table and a forced import no sequence of      *)
(* imports, refusals and failed allocations of hsearch_r changes or loses  *)
(* the value of a write-once variable, but for one: the allocation that    *)
(* failed when the variable's own entry was made.                          *)
THEOREM WriteOnceKeptHolds == Roomy => (Spec => WriteOnceKept)
<1>1. ASSUME Roomy PROVE Spec => WriteOnceKept
  <2>1. Spec => []TableInv
    BY <1>1, Invariant
  <2>2. ASSUME TableInv, Readable, Readable', [Next]_vars, NEW k \in Keys,
               Access[k] = "writeonce", k \notin bare,
               Value(k) # Missing, Value(k)' # Value(k), ~forced
        PROVE  table' = Empty
    <3>1. Env[k] = Value(k) /\ Env'[k] = Value(k)'
      BY DEF Env
    <3>2. \A v \in Values \cup {Missing} : Barred(k, Value(k), v)
      BY <2>2, NothingMissing DEF Barred, DeleteBarred, OverwriteBarred, Denied, Entry
    <3>3. ~MapEdit
      <4>1. ASSUME NEW j \in Keys, NEW v \in Values \cup {Missing}, Map!Change(j, v) PROVE FALSE
        <5>1. Env' = [Env EXCEPT ![j] = v] /\ (j \in bare \/ (Barred(j, Value(j), v) => forced))
          BY <4>1 DEF Map!Change, Map!Allowed, Env
        <5>2. j = k
          BY <2>2, <3>1, <5>1 DEF Env
        <5> QED  BY <2>2, <3>2, <5>1, <5>2
      <4>2. ASSUME NEW j \in Keys, Map!Fail(j) PROVE FALSE
        <5>1. \/ Env' = Env
              \/ /\ Env' = [Env EXCEPT ![j] = Missing]
                 /\ j \in bare \/ \E v \in Values : Barred(j, Value(j), v) => forced
          BY <4>2 DEF Map!Fail, Map!Allowed, Env
        <5>2. j = k /\ Env' # Env
          BY <2>2, <3>1, <5>1 DEF Env
        <5> QED  BY <2>2, <3>2, <5>1, <5>2
      <4>3. ~UNCHANGED Map!vars
        BY <2>2, <3>1 DEF Map!vars, Env
      <4> QED  BY <4>1, <4>2, <4>3 DEF MapEdit
    <3>4. Start
      BY <2>2, <3>3, NextMaps
    <3>5. table' # table
      <4>1. table' = table => Env' = Env
        BY DEF Env, Value, Found, Last, Tried, Stops, Holds
      <4> QED  BY <2>2, <3>1, <4>1
    <3> QED  BY <3>4, <3>5 DEF Start
  <2>3. Readable /\ Readable' /\ TableInv /\ [Next]_vars =>
          [\A k \in Keys :
             Access[k] = "writeonce" /\ k \notin bare
               /\ Value(k) # Missing /\ Value(k)' # Value(k)
               => forced \/ table' = Empty]_vars
    BY <2>2
  <2> QED  BY <2>1, <2>3, ValuesReadable, PTL DEF Spec, WriteOnceKept
<1> QED  BY <1>1
==============================================================================
