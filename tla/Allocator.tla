------------------------------ MODULE Allocator ------------------------------
(***************************************************************************)
(* What malloc, calloc, realloc and free promise the program that calls    *)
(* them: blocks of memory that do not overlap, each with the contents the  *)
(* program gave it.  Where a block is put, and when a request is refused,  *)
(* is left open.                                                           *)
(***************************************************************************)
EXTENDS Integers, Sequences

CONSTANTS
    Space,      \* the words there are
    Lengths     \* the words a request may ask for

VARIABLE store  \* address |-> the words of the block there, and if it is zero

Place(a) == a .. a + Len(store[a].words) - 1

\* Blocks lie within the heap, aligned, and apart from each other.
Apart ==
    \A a \in DOMAIN store :
        /\ a % 2 = 0 /\ Place(a) \subseteq 0 .. Space - 1
        /\ \A b \in DOMAIN store \ {a} : Place(a) \cap Place(b) = {} /\ a # b

Others(a) == \A b \in DOMAIN store \ {a} : b \in DOMAIN store' /\ store'[b] = store[b]

\* malloc, memalign, calloc: one more block, of zeros if that was asked for
Grant(a) ==
    /\ a \notin DOMAIN store /\ DOMAIN store' = DOMAIN store \cup {a}
    /\ Len(store'[a].words) \in Lengths
    /\ store'[a].cleared => \A i \in DOMAIN store'[a].words : store'[a].words[i] = 0
    /\ Others(a)
    /\ Apart'

\* realloc: block a, here or elsewhere, longer or shorter
Resize(a, b) ==
    /\ a \in DOMAIN store /\ DOMAIN store' = (DOMAIN store \ {a}) \cup {b}
    /\ Len(store'[b].words) \in Lengths
    /\ store'[b].cleared = store[a].cleared
    /\ \A i \in DOMAIN store[a].words \cap DOMAIN store'[b].words :
          store'[b].words[i] = store[a].words[i]
    /\ Others(a)
    /\ Apart'

Release(a) ==
    /\ a \in DOMAIN store /\ DOMAIN store' = DOMAIN store \ {a}
    /\ Others(a)

Init == DOMAIN store = {}

Next ==
    \/ \E a \in 0 .. Space - 1 : Grant(a) \/ Release(a)
    \/ \E a, b \in DOMAIN store \cup DOMAIN store' : Resize(a, b)

Spec == Init /\ [][Next]_store
=============================================================================
