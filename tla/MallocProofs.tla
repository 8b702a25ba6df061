---------------------------- MODULE MallocProofs ----------------------------
(***************************************************************************)
(* Proofs about Malloc, for every size of page, number of pages and set of *)
(* requests, alignments and values that HeapConstants admits.              *)
(*                                                                         *)
(* A heap h in order is described by what its memory does not say in so    *)
(* many words: B, the places where chunks begin, the top among them; z,    *)
(* their sizes; F, which of them are free.                                 *)
(*    Tiled  the chunks cover the words below the break without a gap, no  *)
(*           two free ones are neighbours, and the tags say so;            *)
(*    Lists  each bin lists the free chunks of its sizes, in order, once;  *)
(*    Heap   both;   Holds(h, U)  for some B, z and F, and the chunks of U *)
(*           are those in use;   Good(h, U)  that, or the heap before the  *)
(*           first request.                                                *)
(* Each function is shown to go from one such heap to another, and to keep *)
(* every chunk of U (Keeps): it returns a chunk that was not in use (Got), *)
(* none (Refused), or one with the contents of another (Moves).            *)
(*                                                                         *)
(* HeapInv says so of heap and live.  The properties of Malloc are stated  *)
(* as walks over the memory, from chunk to chunk; B is then found by these *)
(* walks, and a walk that misses it would have a last place where it does. *)
(* BestInv adds that nothing free fits a request while it is refused.      *)
(* The refinement follows the contents of each block.                      *)
(***************************************************************************)
EXTENDS Malloc, SequenceTheorems, WellFoundedInduction, TLAPS

(***************************************************************************)
(* Arithmetic.                                                             *)
(***************************************************************************)
LEMMA Least ==
  ASSUME NEW T \in SUBSET Nat, T # {}
  PROVE  \E m \in T : \A n \in T : m <= n
<1> DEFINE R == {ss \in Nat \X Nat : ss[1] < ss[2]}
<1>1. IsWellFoundedOn(R, Nat)
  BY NatLessThanWellFounded DEF OpToRel
<1>2. PICK m \in T : \A n \in T : ~(<<n, m>> \in R)
  BY <1>1, WFMin
<1>3. \A n \in T : n < m => <<n, m>> \in R
  OBVIOUS
<1>4. \A n \in T : m \in Nat /\ n \in Nat /\ ~(n < m)
  BY <1>2, <1>3
<1>5. \A n \in T : m <= n
  BY <1>4
<1> QED  BY <1>5

LEMMA Greatest ==
  ASSUME NEW n \in Nat, NEW T \in SUBSET (0 .. n), T # {}
  PROVE  \E m \in T : \A k \in T : k <= m
<1>. DEFINE S == {n - k : k \in T}
<1>1. S \in SUBSET Nat /\ S # {}
  <2>1. \A k \in T : n - k \in Nat
    OBVIOUS
  <2>2. PICK k \in T : TRUE
    OBVIOUS
  <2>3. n - k \in S
    OBVIOUS
  <2>. QED
    BY <2>1, <2>3
<1>2. PICK m \in S : \A k \in S : m <= k
  BY <1>1, Least
<1>3. PICK t \in T : m = n - t
  OBVIOUS
<1>4. \A k \in T : n - k \in S /\ k \in Nat
  OBVIOUS
<1>5. \A k \in T : n - t <= n - k
  BY <1>2, <1>3, <1>4
<1>6. \A k \in T : k <= t
  BY <1>4, <1>5
<1>. QED
  BY <1>6

LEMMA MinIsIn ==
  ASSUME NEW T \in SUBSET Nat, T # {}
  PROVE  Min(T) \in T /\ \A n \in T : Min(T) <= n
BY Least DEF Min

LEMMA MaxIsIn ==
  ASSUME NEW n \in Nat, NEW T \in SUBSET (0 .. n), T # {}
  PROVE  Max(T) \in T /\ \A k \in T : k <= Max(T)
BY Greatest DEF Max

IsSize(s) == s \in Nat /\ s >= 4 /\ s % 2 = 0

IsPlace(p) == p \in Nat /\ p % 2 = 0

LEMMA Sizes ==
  /\ \A s : IsSize(s) => s \in Nat /\ s >= 4
  /\ \A s, t : IsSize(s) /\ IsSize(t) => IsSize(s + t)
  /\ \A p, s : IsPlace(p) /\ IsSize(s) => IsPlace(p + s)
  /\ \A p : IsPlace(p) => p \in Nat
BY DEF IsSize, IsPlace

LEMMA SizeOfTag ==
  \A t, s, b : s \in Int /\ s % 2 = 0 /\ b \in {0, 1} /\ t = s + b
     => t - (t % 2) = s /\ t % 2 = b /\ t \in Int
OBVIOUS

(* What a search of a list finds.                                          *)

LEMMA SmallestInIs ==
  ASSUME NEW h, NEW i, NEW nb, Len(h.bins[i]) \in Nat
  PROVE  \/ SmallestIn(h, i, nb) = NULL
            /\ \A k \in 1 .. Len(h.bins[i]) : ~(ChunkSize(h.mem, h.bins[i][k]) >= nb)
         \/ \E k \in 1 .. Len(h.bins[i]) :
              /\ SmallestIn(h, i, nb) = h.bins[i][k] /\ ChunkSize(h.mem, h.bins[i][k]) >= nb
              /\ \A j \in 1 .. Len(h.bins[i]) : ChunkSize(h.mem, h.bins[i][j]) >= nb => j <= k
<1>. DEFINE s == h.bins[i]
            fits == {k \in 1 .. Len(s) : ChunkSize(h.mem, s[k]) >= nb}
            last == Max(fits)
<1>1. SmallestIn(h, i, nb) = IF (IF fits # {} THEN last ELSE 0) = 0 THEN NULL
                             ELSE s[IF fits # {} THEN last ELSE 0]
  BY DEF SmallestIn, SelectLastInSeq
<1>2. fits # {} => last \in fits /\ \A j \in fits : j <= last
  <2>1. fits \in SUBSET (0 .. Len(s))
    OBVIOUS
  <2>. HIDE DEF fits, s
  <2>. QED
    BY <2>1, MaxIsIn
<1>. HIDE DEF last
<1>3. CASE fits = {}
  <2>1. SmallestIn(h, i, nb) = NULL
    BY <1>1, <1>3
  <2>2. \A k \in 1 .. Len(s) : ~(ChunkSize(h.mem, s[k]) >= nb)
    BY <1>3
  <2>. QED
    BY <2>1, <2>2
<1>4. CASE fits # {}
  <2>1. last \in 1 .. Len(s) /\ ChunkSize(h.mem, s[last]) >= nb
    BY <1>2, <1>4
  <2>2. SmallestIn(h, i, nb) = s[last]
    <3>. HIDE DEF fits, s
    <3>1. last # 0
      BY <2>1
    <3>. QED
      BY <1>1, <1>4, <3>1
  <2>3. \A j \in 1 .. Len(s) : ChunkSize(h.mem, s[j]) >= nb => j <= last
    BY <1>2, <1>4
  <2>. QED
    BY <2>1, <2>2, <2>3
<1>. QED
  BY <1>3, <1>4

(***************************************************************************)
(* How the heap is laid out: chunks begin in B, the top among them, z has  *)
(* their sizes, and they cover the words below brk without a gap.          *)
(***************************************************************************)
Layout(B, z, brk) ==
  /\ brk \in Nat /\ 0 \in B
  /\ \A p \in B : /\ IsPlace(p) /\ IsSize(z[p])
                  /\ p + z[p] \in B \cup {brk} /\ p + z[p] <= brk
                  /\ \A q \in B : p < q => p + z[p] <= q
  /\ \A q \in B : q = 0 \/ \E p \in B : p + z[p] = q

(* Two chunks in place of one, and one in place of two.                    *)
LEMMA SplitLayout ==
  ASSUME NEW B, NEW z, NEW brk, Layout(B, z, brk), NEW p \in B,
         NEW k, IsSize(k), IsSize(z[p] - k),
         NEW y, y[p] = k, y[p + k] = z[p] - k,
         \A q \in B : q # p => y[q] = z[q]
  PROVE  Layout(B \cup {p + k}, y, brk) /\ p + k \notin B
<1>. DEFINE n == p + k  C == B \cup {n}  s == z[p]  l == z[p] - k
<1>1. /\ IsPlace(p) /\ IsSize(s) /\ p + s <= brk /\ brk \in Nat /\ p + s \in B \cup {brk}
      /\ \A q \in B : p < q => p + s <= q
      /\ \A q \in B : IsPlace(q) /\ IsSize(z[q]) /\ (q < p => q + z[q] <= p)
  BY DEF Layout
<1>2. /\ y[p] = k /\ y[n] = l /\ IsSize(k) /\ IsSize(l) /\ s = k + l
  BY <1>1, Sizes
<1>. HIDE DEF s, l
<1>3. /\ IsPlace(n) /\ p + k = n /\ n + l = p + s /\ p < n /\ n < p + s
      /\ p \in Nat /\ n \in Nat /\ s \in Nat /\ k \in Nat /\ l \in Nat
  BY <1>1, <1>2, Sizes
<1>. HIDE DEF n
<1>4. n \notin B
  BY <1>1, <1>3
<1>5. ASSUME NEW q \in B, q # p PROVE (q < n => q < p /\ q + z[q] <= p) /\ (n < q => p + s <= q)
  BY <1>1, <1>3, <1>4, <1>5, Sizes
<1>6. ASSUME NEW q \in C
      PROVE  /\ IsPlace(q) /\ IsSize(y[q])
             /\ q + y[q] \in C \cup {brk} /\ q + y[q] <= brk
             /\ \A r \in C : q < r => q + y[q] <= r
  <2>1. CASE q = n
    BY <1>1, <1>2, <1>3, <1>4, <1>5, <2>1
  <2>2. CASE q = p
    BY <1>1, <1>2, <1>3, <1>4, <1>5, <2>2
  <2>3. CASE q \in B /\ q # p
    <3>1. /\ IsPlace(q) /\ IsSize(y[q]) /\ y[q] = z[q]
          /\ q + z[q] \in B \cup {brk} /\ q + z[q] <= brk
          /\ \A r \in B : q < r => q + z[q] <= r
      BY <2>3 DEF Layout
    <3>2. q < n => q + z[q] <= n
      BY <1>3, <1>5, <2>3, <3>1, Sizes
    <3>. QED
      BY <3>1, <3>2
  <2>. QED
    BY <2>1, <2>2, <2>3
<1>7. ASSUME NEW q \in C PROVE q = 0 \/ \E r \in C : r + y[r] = q
  <2>1. CASE q = n
    BY <1>2, <1>3, <2>1
  <2>2. CASE q \in B /\ q # 0
    <3>1. PICK r \in B : r + z[r] = q
      BY <2>2 DEF Layout
    <3>2. CASE r = p
      BY <1>2, <1>3, <3>1, <3>2 DEF s
    <3>3. CASE r # p
      BY <3>1, <3>3
    <3>. QED
      BY <3>2, <3>3
  <2>. QED
    BY <2>1, <2>2
<1>. QED
  BY <1>4, <1>6, <1>7 DEF Layout, n

Join(B, a, e) == {q \in B : q <= a \/ e <= q}

LEMMA JoinLayout ==
  ASSUME NEW B, NEW z, NEW brk, Layout(B, z, brk), IsPlace(brk),
         NEW a \in B, NEW e \in B \cup {brk}, a < e,
         NEW y, y[a] = e - a, \A q \in B : q # a => y[q] = z[q]
  PROVE  Layout(Join(B, a, e), y, brk)
<1>. DEFINE C == Join(B, a, e)  s == z[a]
<1>1. /\ IsPlace(a) /\ IsSize(s) /\ a + s <= brk /\ IsPlace(e) /\ IsPlace(brk) /\ e <= brk
      /\ \A q \in B : IsPlace(q) /\ IsSize(z[q]) /\ (q < a => q + z[q] <= a)
      /\ a + s <= e
  <2>1. e \in B => e + z[e] <= brk /\ IsPlace(e) /\ IsSize(z[e])
    BY DEF Layout
  <2>2. a + s <= brk /\ (e \in B => a + s <= e)
    BY DEF Layout
  <2>. QED
    BY <2>1, <2>2, Sizes DEF Layout
<1>. HIDE DEF s
<1>2. /\ a \in Nat /\ e \in Nat /\ brk \in Nat /\ s \in Nat /\ s >= 4
      /\ IsSize(e - a) /\ a + y[a] = e
  BY <1>1, Sizes DEF IsPlace, IsSize
<1>3. C \subseteq B /\ \A q \in C : q \in Nat /\ (q <= a \/ e <= q)
  BY <1>1, Sizes DEF Join
<1>4. ASSUME NEW q \in C
      PROVE  /\ IsPlace(q) /\ IsSize(y[q])
             /\ q + y[q] \in C \cup {brk} /\ q + y[q] <= brk
             /\ \A r \in C : q < r => q + y[q] <= r
  <2>1. CASE q = a
    <3>1. e \in C \cup {brk}
      BY <1>2 DEF Join
    <3>. QED
      BY <1>1, <1>2, <1>3, <2>1, <3>1
  <2>2. CASE q # a
    <3>1. /\ IsPlace(q) /\ IsSize(y[q]) /\ y[q] = z[q]
          /\ q + z[q] \in B \cup {brk} /\ q + z[q] <= brk
          /\ \A r \in B : q < r => q + z[q] <= r
      BY <1>3, <2>2 DEF Layout
    <3>2. q + z[q] <= a \/ e <= q + z[q]
      BY <1>1, <1>2, <1>3, <2>2, <3>1, Sizes
    <3>3. q + z[q] \in C \cup {brk}
      BY <3>1, <3>2 DEF Join
    <3>. QED
      BY <1>3, <3>1, <3>3
  <2>. QED
    BY <2>1, <2>2
<1>5. ASSUME NEW q \in C PROVE q = 0 \/ \E r \in C : r + y[r] = q
  <2>1. CASE q = e
    BY <1>2, <2>1 DEF Join
  <2>2. CASE q # 0 /\ q # e
    <3>1. PICK r \in B : r + z[r] = q
      BY <1>3, <2>2 DEF Layout
    <3>2. IsPlace(r) /\ IsSize(z[r]) /\ r \in Nat /\ z[r] \in Nat /\ z[r] >= 4
      BY <1>1, Sizes
    <3>3. r < a \/ e <= r
      <4>1. CASE e \in B
        <5>1. r < e => q <= e
          BY <3>1, <4>1 DEF Layout
        <5>. QED
          BY <1>1, <1>2, <1>3, <2>2, <3>1, <3>2, <5>1
      <4>2. CASE e = brk
        <5>1. q < brk
          <6>1. q + z[q] <= brk /\ IsSize(z[q])
            BY <1>3 DEF Layout
          <6>. QED
            BY <1>2, <1>3, <6>1, Sizes
        <5>. QED
          BY <1>1, <1>2, <1>3, <2>2, <3>1, <3>2, <4>2, <5>1
      <4>. QED
        BY <4>1, <4>2
    <3>4. r \in C /\ r # a
      BY <1>2, <3>2, <3>3 DEF Join
    <3>. QED
      BY <3>1, <3>4
  <2>. QED
    BY <2>1, <2>2
<1>6. 0 \in C
  BY <1>2 DEF Join, Layout
<1>. QED
  BY <1>4, <1>5, <1>6 DEF Layout

(* Two chunks do not end at the same word.                                 *)
LEMMA OneEnd ==
  ASSUME NEW B, NEW z, NEW brk, Layout(B, z, brk),
         NEW p \in B, NEW q \in B, p + z[p] = q + z[q]
  PROVE  p = q
<1>1. /\ p \in Nat /\ z[p] \in Nat /\ z[p] >= 4 /\ q \in Nat /\ z[q] \in Nat /\ z[q] >= 4
  BY Sizes DEF Layout
<1>2. (p < q => p + z[p] <= q) /\ (q < p => q + z[q] <= p)
  BY DEF Layout
<1>. QED
  BY <1>1, <1>2

(* The free chunks: what comes behind one is in use.                       *)
Frees(B, z, F) == F \subseteq B /\ \A p \in F : p + z[p] \in B \ F

Ends(F, z) == {p + z[p] : p \in F}

(***************************************************************************)
(* What the boundary tags say: every chunk has its size and, in PREV_INUSE,*)
(* that no free chunk comes before it; a free one has its size at its end. *)
(***************************************************************************)
Bit(n, F, z) == IF n \in Ends(F, z) THEN 0 ELSE 1

Tagged(m, B, z, F) ==
  /\ \A n \in B : m[n + 1] = z[n] + Bit(n, F, z)
  /\ \A p \in F : m[p + z[p]] = z[p]

LEMMA TagsAreRead ==
  ASSUME NEW m, NEW B, NEW z, NEW F, NEW brk,
         Layout(B, z, brk), Frees(B, z, F), Tagged(m, B, z, F), NEW p \in B
  PROVE  /\ ChunkSize(m, p) = z[p]
         /\ PrevInuse(m, p) <=> p \notin Ends(F, z)
         /\ m[p + 1] % 2 = Bit(p, F, z)
         /\ p + z[p] \in B => (Inuse(m, p) <=> p \notin F)
<1>1. \A n \in B : /\ ChunkSize(m, n) = z[n]
                   /\ m[n + 1] % 2 = Bit(n, F, z)
                   /\ PrevInuse(m, n) <=> n \notin Ends(F, z)
  <2>. SUFFICES ASSUME NEW n \in B
       PROVE  /\ ChunkSize(m, n) = z[n]
              /\ m[n + 1] % 2 = Bit(n, F, z)
              /\ PrevInuse(m, n) <=> n \notin Ends(F, z)
    OBVIOUS
  <2>. DEFINE t == m[n + 1]  s == z[n]  b == Bit(n, F, z)
  <2>1. t = s + b /\ IsSize(s)
    BY DEF Tagged, Layout
  <2>2. b \in {0, 1} /\ (b = 1 <=> n \notin Ends(F, z))
    BY DEF Bit
  <2>. HIDE DEF t, s, b
  <2>3. t - (t % 2) = s /\ t % 2 = b
    BY <2>1, <2>2, SizeOfTag DEF IsSize
  <2>4. ChunkSize(m, n) = t - (t % 2) /\ (PrevInuse(m, n) <=> t % 2 = 1)
    BY DEF ChunkSize, PrevInuse, t
  <2>. QED
    BY <2>2, <2>3, <2>4 DEF t, s, b
<1>2. p + z[p] \in Ends(F, z) <=> p \in F
  BY OneEnd DEF Ends, Frees
<1>3. p + z[p] \in B => (Inuse(m, p) <=> PrevInuse(m, p + z[p]))
  BY <1>1 DEF Inuse
<1>. QED
  BY <1>1, <1>2, <1>3

(* The words from a on and up to the chunk at e are laid out anew.         *)
LEMMA Retiled ==
  ASSUME NEW m, NEW B, NEW z, NEW F, NEW brk,
         Layout(B, z, brk), Frees(B, z, F), Tagged(m, B, z, F),
         NEW a \in B, NEW e \in B \cup {brk}, a < e,
         NEW C, NEW y, NEW G, Layout(C, y, brk), Frees(C, y, G), a \in C, e \in C \cup {brk},
         \A q \in Nat : q < a \/ e <= q => /\ q \in C <=> q \in B
                                           /\ q \in G <=> q \in F
                                           /\ q \in B => y[q] = z[q],
         NEW n, \A w \in Nat : w < brk /\ (w <= a \/ e + 1 < w) => n[w] = m[w],
         \A q \in C : a <= q /\ q <= e => n[q + 1] = y[q] + Bit(q, G, y),
         \A q \in G : a <= q /\ q < e => n[q + y[q]] = y[q]
  PROVE  Tagged(n, C, y, G)
<1>1. /\ \A q \in B : q \in Nat /\ z[q] \in Nat /\ z[q] >= 4
      /\ \A q \in C : q \in Nat /\ y[q] \in Nat /\ y[q] >= 4
      /\ a \in Nat /\ e \in Nat /\ F \subseteq B /\ G \subseteq C
      /\ brk \in Nat /\ \A q \in C : q + y[q] <= brk
  BY Sizes DEF Layout, Frees
<1>2. /\ \A q \in B : (q < a => q + z[q] <= a) /\ (q < e => q + z[q] <= e)
      /\ \A q \in C : (q < a => q + y[q] <= a) /\ (q < e => q + y[q] <= e)
  BY DEF Layout
<1>3. ASSUME NEW q \in C, q < a \/ e < q
      PROVE  Bit(q, G, y) = Bit(q, F, z)
  <2>1. ASSUME NEW r \in G, r + y[r] = q PROVE q \in Ends(F, z)
    <3>1. r < a \/ e <= r
      BY <1>1, <1>2, <1>3, <2>1
    <3>2. r \in F /\ y[r] = z[r]
      BY <1>1, <3>1
    <3>. QED
      BY <2>1, <3>2 DEF Ends
  <2>2. ASSUME NEW r \in F, r + z[r] = q PROVE q \in Ends(G, y)
    <3>1. r < a \/ e <= r
      BY <1>1, <1>2, <1>3, <2>2
    <3>2. r \in G /\ y[r] = z[r]
      BY <1>1, <3>1
    <3>. QED
      BY <2>2, <3>2 DEF Ends
  <2>. QED
    BY <2>1, <2>2 DEF Bit, Ends
<1>4. ASSUME NEW q \in C PROVE n[q + 1] = y[q] + Bit(q, G, y)
  <2>1. CASE q < a \/ e < q
    <3>1. q \in B /\ y[q] = z[q]
      BY <1>1, <2>1
    <3>2. n[q + 1] = m[q + 1]
      <4>1. q + 1 \in Nat /\ q + 1 < brk /\ (q + 1 <= a \/ e + 1 < q + 1)
        BY <1>1, <2>1
      <4>. QED
        BY <4>1
    <3>3. m[q + 1] = z[q] + Bit(q, F, z)
      BY <3>1 DEF Tagged
    <3>. QED
      BY <1>3, <2>1, <3>1, <3>2, <3>3
  <2>2. CASE a <= q /\ q <= e
    BY <2>2
  <2>. QED
    BY <1>1, <2>1, <2>2
<1>5. ASSUME NEW q \in G PROVE n[q + y[q]] = y[q]
  <2>1. CASE q < a \/ e <= q
    <3>1. q \in F /\ y[q] = z[q] /\ q \in C
      BY <1>1, <2>1
    <3>0. q + y[q] \in C
      BY DEF Frees
    <3>2. q + y[q] \in Nat /\ (q + y[q] <= a \/ e + 1 < q + y[q]) /\ q + y[q] < brk
      BY <1>1, <1>2, <2>1, <3>0, <3>1
    <3>3. n[q + y[q]] = m[q + y[q]]
      BY <3>2
    <3>. QED
      BY <3>1, <3>3 DEF Tagged
  <2>2. CASE a <= q /\ q < e
    BY <2>2
  <2>. QED
    BY <1>1, <2>1, <2>2
<1>. QED
  BY <1>4, <1>5 DEF Tagged
(* The break is at the end of a page.                                      *)
Breaks == {PageWords * n : n \in 0 .. HeapPages}

LEMMA BreakIsPlace == \A brk \in Breaks : IsPlace(brk) /\ brk <= End
<1>. SUFFICES ASSUME NEW n \in 0 .. HeapPages
     PROVE  IsPlace(PageWords * n) /\ PageWords * n <= End
  BY DEF Breaks
<1>. DEFINE w == PageWords  k == w \div 2
<1>1. w \in Nat /\ HeapPages \in Nat /\ w % 2 = 0 /\ End = w * HeapPages
  BY HeapConstants DEF HeapConstants, End
<1>2. k \in Nat /\ w = 2 * k
  BY <1>1
<1>. HIDE DEF w, k
<1>3. w * n = 2 * (k * n) /\ k * n \in Nat
  BY <1>2
<1>4. w * n <= w * HeapPages
  BY <1>1
<1>5. \A x \in Nat : (2 * x) % 2 = 0 /\ 2 * x \in Nat
  OBVIOUS
<1>. QED
  BY <1>1, <1>3, <1>4, <1>5 DEF IsPlace, w

(***************************************************************************)
(* The memory of a heap that is in order.                                  *)
(***************************************************************************)
Words0 == 0 .. End - 1

Tiled(m, top, brk, B, z, F) ==
  /\ m \in [Words0 -> Int] /\ brk \in Breaks /\ z \in [Nat -> Nat]
  /\ Layout(B, z, brk) /\ Frees(B, z, F) /\ Tagged(m, B, z, F)
  /\ top \in B \ F /\ top \notin Ends(F, z) /\ top + z[top] = brk
  /\ \A w \in Words0 : brk <= w => m[w] = 0

With(z, a, s) == [z EXCEPT ![a] = s]

LEMMA WithIs ==
  \A z, a, s : z \in [Nat -> Nat] /\ a \in Nat /\ s \in Nat =>
     /\ With(z, a, s) \in [Nat -> Nat] /\ With(z, a, s)[a] = s
     /\ \A q \in Nat : q # a => With(z, a, s)[q] = z[q]
BY DEF With

Beside(F, a, e) == {q \in F : q < a \/ e <= q}

(* What stays when the words from a to e are laid out anew.                *)
Around(m, n, a, e, brk) ==
  /\ n \in [Words0 -> Int]
  /\ \A w \in Words0 : w <= a \/ e + 1 < w \/ (e = brk /\ e <= w) => n[w] = m[w]

LEMMA TiledFacts ==
  ASSUME NEW m, NEW top, NEW brk, NEW B, NEW z, NEW F, Tiled(m, top, brk, B, z, F)
  PROVE  /\ IsPlace(brk) /\ brk \in Nat /\ brk <= End /\ End \in Nat
         /\ \A q \in B : /\ IsPlace(q) /\ IsSize(z[q]) /\ q \in Nat /\ z[q] \in Nat /\ z[q] >= 4
                         /\ q + z[q] <= brk /\ q + z[q] \in B \cup {brk} /\ q + 3 < brk
         /\ \A q, r \in B : q < r => q + z[q] <= r
         /\ top \in B /\ top \notin F /\ top \notin Ends(F, z) /\ F \subseteq B
         /\ \A q \in B : q + z[q] = brk => q = top
<1>1. IsPlace(brk) /\ brk \in Nat /\ brk <= End
  BY BreakIsPlace, Sizes DEF Tiled
<1>2. \A q \in B : IsPlace(q) /\ IsSize(z[q]) /\ q + z[q] <= brk /\ q + z[q] \in B \cup {brk}
  BY DEF Tiled, Layout
<1>3. \A q \in B : q \in Nat /\ z[q] \in Nat /\ z[q] >= 4
  BY <1>2, Sizes
<1>4. \A q, r \in B : q < r => q + z[q] <= r
  BY DEF Tiled, Layout
<1>5. \A q \in B : q + z[q] = brk => q = top
  BY OneEnd DEF Tiled
<1>6. \A q \in B : q + 3 < brk
  BY <1>1, <1>2, <1>3
<1>7. End \in Nat
  BY HeapConstants DEF HeapConstants, End
<1>. QED
  BY <1>1, <1>2, <1>3, <1>4, <1>5, <1>6, <1>7 DEF Tiled, Frees

LEMMA OneChunk ==
  ASSUME NEW m, NEW top, NEW brk, NEW B, NEW z, NEW F, Tiled(m, top, brk, B, z, F),
         NEW a \in B, NEW e \in B \cup {brk}, a < e,
         NEW G, G = {} \/ (G = {a} /\ e \in B \ F /\ e # top),
         G # {} \/ e = brk => a \notin Ends(F, z),
         NEW n, Around(m, n, a, e, brk),
         n[a + 1] = (e - a) + Bit(a, F, z),
         e # brk => n[e + 1] = z[e] + (IF G = {} THEN 1 ELSE 0),
         G # {} => n[e] = e - a
  PROVE  Tiled(n, IF e = brk THEN a ELSE top, brk, Join(B, a, e),
               With(z, a, e - a), Beside(F, a, e) \cup G)
<1>. DEFINE C == Join(B, a, e)
            y == With(z, a, e - a)
            H == Beside(F, a, e) \cup G
            t == IF e = brk THEN a ELSE top
<1>1. /\ IsPlace(brk) /\ brk \in Nat
      /\ \A q \in B : /\ q \in Nat /\ z[q] \in Nat /\ z[q] >= 4
                      /\ q + z[q] <= brk /\ q + z[q] \in B \cup {brk} /\ q + 3 < brk
      /\ \A q, r \in B : q < r => q + z[q] <= r
      /\ top \in B /\ top \notin F /\ F \subseteq B
  BY TiledFacts
<1>2. a \in Nat /\ e \in Nat /\ e - a \in Nat /\ z \in [Nat -> Nat]
  BY <1>1 DEF Tiled
<1>3. y \in [Nat -> Nat] /\ y[a] = e - a /\ \A q \in B : q # a => y[q] = z[q]
  <2>. DEFINE s == e - a
  <2>1. s \in Nat
    BY <1>2
  <2>. HIDE DEF s
  <2>2. With(z, a, s) \in [Nat -> Nat] /\ With(z, a, s)[a] = s /\ \A q \in Nat : q # a => With(z, a, s)[q] = z[q]
    BY <1>2, <2>1, WithIs
  <2>. QED
    BY <1>1, <2>2 DEF s
<1>. HIDE DEF y
<1>4. Layout(C, y, brk)
  BY <1>1, <1>3, JoinLayout DEF Tiled
<1>5. \A q \in C : q \in B /\ (q <= a \/ e <= q)
  BY DEF Join
<1>6. a \in C /\ e \in C \cup {brk}
  BY <1>2 DEF Join
<1>7. \A q \in H : (q \in F /\ (q < a \/ e <= q)) \/ (q = a /\ G = {a})
  BY DEF Beside
<1>8. Frees(C, y, H)
  <2>1. ASSUME NEW q \in H PROVE q \in C
    <3>1. q \in F => q \in B /\ q \in Nat
      BY <1>1
    <3>. QED
      BY <1>2, <1>6, <1>7, <3>1 DEF Join
  <2>2. ASSUME NEW q \in H PROVE q + y[q] \in C \ H
    <3>1. CASE q \in F /\ (q < a \/ e <= q)
      <4>1. q \in B /\ y[q] = z[q] /\ q + z[q] \in B \ F
        BY <1>1, <1>2, <1>3, <3>1 DEF Tiled, Frees
      <4>2. q + z[q] <= a \/ e <= q + z[q]
        BY <1>1, <1>2, <3>1, <4>1
      <4>3. q + z[q] = a => G = {}
        BY <3>1 DEF Ends
      <4>. QED
        BY <1>7, <4>1, <4>2, <4>3 DEF Join
    <3>2. CASE q = a /\ G = {a}
      <4>1. q + y[q] = e /\ e \in B \ F
        BY <1>1, <1>2, <1>3, <3>2
      <4>. QED
        BY <1>2, <1>7, <4>1 DEF Join
    <3>. QED
      BY <1>7, <3>1, <3>2
  <2>. QED
    BY <2>1, <2>2 DEF Frees
<1>9. Bit(a, H, y) = Bit(a, F, z)
  <2>1. ASSUME NEW q \in H, q + y[q] = a PROVE a \in Ends(F, z)
    <3>1. q # a
      BY <1>2, <1>3, <2>1
    <3>2. q \in F /\ y[q] = z[q]
      BY <1>1, <1>3, <1>7, <3>1
    <3>. QED
      BY <2>1, <3>2 DEF Ends
  <2>2. ASSUME NEW q \in F, q + z[q] = a PROVE a \in Ends(H, y)
    <3>1. q < a /\ q \in B
      BY <1>1, <2>2
    <3>2. q \in H /\ y[q] = z[q]
      BY <1>1, <1>2, <1>3, <3>1 DEF Beside
    <3>. QED
      BY <2>2, <3>2 DEF Ends
  <2>. QED
    BY <2>1, <2>2 DEF Bit, Ends
<1>10. Bit(e, H, y) = IF G = {} THEN 1 ELSE 0
  <2>1. ASSUME NEW q \in H, q + y[q] = e PROVE q = a /\ G = {a}
    <3>1. CASE q \in F /\ (q < a \/ e <= q)
      <4>1. q \in B /\ y[q] = z[q]
        BY <1>1, <1>2, <1>3, <3>1
      <4>. QED
        BY <1>1, <1>2, <2>1, <3>1, <4>1
    <3>. QED
      BY <1>7, <3>1
  <2>2. G # {} => a \in H /\ a + y[a] = e
    BY <1>1, <1>2, <1>3
  <2>. QED
    BY <2>1, <2>2 DEF Bit, Ends
<1>11. Tagged(n, C, y, H)
  <2>1. \A q \in Nat : q < a \/ e <= q => /\ q \in C <=> q \in B
                                          /\ q \in H <=> q \in F
                                          /\ q \in B => y[q] = z[q]
    <3>1. \A q \in Nat : q < a \/ e <= q => q # a
      BY <1>2
    <3>2. \A q \in Nat : q < a \/ e <= q => (q \in C <=> q \in B)
      BY <1>2 DEF Join
    <3>3. \A q \in Nat : q < a \/ e <= q => (q \in H <=> q \in F)
      BY <1>7, <3>1 DEF Beside
    <3>. QED
      BY <1>3, <3>1, <3>2, <3>3
  <2>2. \A w \in Nat : w < brk /\ (w <= a \/ e + 1 < w) => n[w] = m[w]
    BY TiledFacts DEF Around, Words0
  <2>3. ASSUME NEW q \in C, a <= q, q <= e PROVE n[q + 1] = y[q] + Bit(q, H, y)
    <3>0. q \in B /\ q \in Nat /\ (q <= a \/ e <= q) /\ q # brk
      <4>1. q \in B /\ (q <= a \/ e <= q)
        BY <1>5
      <4>2. q \in Nat /\ q + 3 < brk
        BY <1>1, <4>1
      <4>. QED
        BY <1>1, <4>1, <4>2
    <3>1. CASE q = a
      BY <1>3, <1>9, <3>1
    <3>2. CASE q = e /\ e # a
      <4>1. y[q] = z[q] /\ q # a
        BY <1>3, <3>0, <3>2
      <4>. QED
        BY <1>10, <3>0, <3>2, <4>1
    <3>3. q = a \/ (q = e /\ e # a)
      BY <1>2, <2>3, <3>0
    <3>. QED
      BY <3>1, <3>2, <3>3
  <2>4. ASSUME NEW q \in H, a <= q, q < e PROVE n[q + y[q]] = y[q]
    <3>0. q \in F => q \in Nat
      BY <1>1
    <3>1. q = a /\ G = {a}
      BY <1>2, <1>7, <2>4, <3>0
    <3>2. a + y[a] = e
      BY <1>2, <1>3
    <3>. QED
      BY <1>3, <3>1, <3>2
  <2>. HIDE DEF C, H
  <2>. QED
    BY <1>4, <1>6, <1>8, <2>1, <2>2, <2>3, <2>4, Retiled DEF Tiled
<1>12. t \in C \ H /\ t \notin Ends(H, y) /\ t + y[t] = brk
  <2>1. CASE e = brk
    <3>1. G = {}
      BY <1>1, <2>1
    <3>2. a + y[a] = e
      BY <1>2, <1>3
    <3>3. a \notin H
      BY <1>2, <1>7, <3>1
    <3>4. a \notin Ends(H, y)
      <4>1. Bit(a, H, y) = 1
        BY <1>9, <2>1 DEF Bit
      <4>. QED
        BY <4>1 DEF Bit
    <3>. QED
      BY <1>6, <2>1, <3>2, <3>3, <3>4
  <2>2. CASE e # brk
    <3>1. e \in B /\ top + z[top] = brk
      BY <2>2 DEF Tiled
    <3>2. e <= top
      BY <1>1, <1>2, <3>1
    <3>3. top # a /\ top \in C /\ top \notin H /\ y[top] = z[top]
      BY <1>1, <1>2, <1>3, <1>7, <3>2 DEF Join
    <3>4. ASSUME NEW q \in H, q + y[q] = top PROVE FALSE
      <4>1. CASE q = a /\ G = {a}
        BY <1>2, <1>3, <3>4, <4>1
      <4>2. CASE q \in F /\ (q < a \/ e <= q)
        <5>1. q \in Nat
          BY <1>1, <4>2
        <5>2. y[q] = z[q]
          BY <1>1, <1>2, <1>3, <4>2, <5>1
        <5>3. top \in Ends(F, z)
          BY <3>4, <4>2, <5>2 DEF Ends
        <5>. QED
          BY <5>3, TiledFacts
      <4>. QED
        BY <1>7, <4>1, <4>2
    <3>5. top \notin Ends(H, y)
      BY <3>4 DEF Ends
    <3>. QED
      BY <2>2, <3>1, <3>3, <3>5
  <2>. QED
    BY <2>1, <2>2
<1>13. \A w \in Words0 : brk <= w => n[w] = 0
  <2>1. e <= brk
    <3>1. e \in B => e + z[e] <= brk /\ z[e] \in Nat
      BY <1>1
    <3>. QED
      BY <1>1, <1>2, <3>1
  <2>2. e # brk => e + 1 < brk
    BY <1>1, <1>2
  <2>3. \A w \in Words0 : w \in Nat
    BY TiledFacts DEF Words0
  <2>4. \A w \in Words0 : brk <= w => n[w] = m[w]
    BY <1>1, <1>2, <2>1, <2>2, <2>3 DEF Around
  <2>. QED
    BY <2>4 DEF Tiled
<1>. QED
  BY <1>3, <1>4, <1>8, <1>11, <1>12, <1>13 DEF Tiled, Around, y

LEMMA TwoChunks ==
  ASSUME NEW m, NEW top, NEW brk, NEW B, NEW z, NEW F, Tiled(m, top, brk, B, z, F),
         NEW a \in B, NEW e \in B \cup {brk}, a < e,
         NEW c, IsSize(c - a), IsSize(e - c), c \in Nat,
         NEW G, G = {} \/ (G = {c} /\ e \in B \ F /\ e # top),
         NEW n, Around(m, n, a, e, brk),
         n[a + 1] = (c - a) + Bit(a, F, z), n[c + 1] = (e - c) + 1,
         e # brk => n[e + 1] = z[e] + (IF G = {} THEN 1 ELSE 0),
         G # {} => n[e] = e - c
  PROVE  Tiled(n, IF e = brk THEN c ELSE top, brk, Join(B, a, e) \cup {c},
               With(With(z, a, c - a), c, e - c), Beside(F, a, e) \cup G)
<1>. DEFINE J == Join(B, a, e)
            C == J \cup {c}
            x == With(z, a, e - a)
            y == With(With(z, a, c - a), c, e - c)
            H == Beside(F, a, e) \cup G
            t == IF e = brk THEN c ELSE top
<1>1. /\ IsPlace(brk) /\ brk \in Nat
      /\ \A q \in B : /\ q \in Nat /\ z[q] \in Nat /\ z[q] >= 4
                      /\ q + z[q] <= brk /\ q + z[q] \in B \cup {brk} /\ q + 3 < brk
      /\ \A q, r \in B : q < r => q + z[q] <= r
      /\ top \in B /\ top \notin F /\ F \subseteq B
  BY TiledFacts
<1>2. /\ a \in Nat /\ e \in Nat /\ e - a \in Nat /\ z \in [Nat -> Nat]
      /\ c \in Nat /\ c - a \in Nat /\ e - c \in Nat /\ a < c /\ c < e
      /\ c - a >= 4 /\ e - c >= 4
  <2>1. z \in [Nat -> Nat]
    BY DEF Tiled
  <2>2. a \in Nat /\ e \in Nat
    BY <1>1
  <2>3. c - a \in Nat /\ c - a >= 4 /\ e - c \in Nat /\ e - c >= 4
    BY Sizes
  <2>. QED
    BY <2>1, <2>2, <2>3
<1>3. /\ x \in [Nat -> Nat] /\ x[a] = e - a /\ \A q \in B : q # a => x[q] = z[q]
  <2>. DEFINE s == e - a
  <2>1. s \in Nat
    BY <1>2
  <2>. HIDE DEF s
  <2>2. With(z, a, s) \in [Nat -> Nat] /\ With(z, a, s)[a] = s /\ \A q \in Nat : q # a => With(z, a, s)[q] = z[q]
    BY <1>2, <2>1, WithIs
  <2>. QED
    BY <1>1, <2>2 DEF s
<1>4. /\ y \in [Nat -> Nat] /\ y[a] = c - a /\ y[c] = e - c
      /\ \A q \in Nat : q # a /\ q # c => y[q] = z[q] /\ y[q] = x[q]
  <2>. DEFINE k == c - a  l == e - c  s == e - a  v == With(z, a, k)
  <2>1. k \in Nat /\ l \in Nat /\ s \in Nat
    BY <1>2
  <2>. HIDE DEF k, l, s
  <2>2. v \in [Nat -> Nat] /\ v[a] = k /\ \A q \in Nat : q # a => v[q] = z[q]
    BY <1>2, <2>1, WithIs
  <2>3. \A q \in Nat : q # a => With(z, a, s)[q] = z[q]
    BY <1>2, <2>1, WithIs, SMTT(30)
  <2>. HIDE DEF v
  <2>4. With(v, c, l) \in [Nat -> Nat] /\ With(v, c, l)[c] = l /\ \A q \in Nat : q # c => With(v, c, l)[q] = v[q]
    BY <1>2, <2>1, <2>2, WithIs
  <2>. QED
    BY <1>2, <2>2, <2>3, <2>4 DEF v, k, l, s
<1>. HIDE DEF x, y
<1>5. Layout(J, x, brk)
  BY <1>1, <1>3, JoinLayout DEF Tiled
<1>6. a \in J /\ e \in J \cup {brk} /\ \A q \in J : q \in B /\ (q <= a \/ e <= q)
  BY <1>2 DEF Join
<1>7. c \notin J
  BY <1>2, <1>6
<1>8. Layout(C, y, brk)
  <2>. DEFINE k == c - a
  <2>1. IsSize(k) /\ IsSize(x[a] - k) /\ a + k = c /\ y[a] = k /\ y[a + k] = x[a] - k
    <3>1. x[a] - k = e - c
      BY <1>2, <1>3
    <3>. QED
      BY <1>2, <1>4, <3>1
  <2>2. \A q \in J : q # a => y[q] = x[q]
    BY <1>1, <1>4, <1>6, <1>7
  <2>. HIDE DEF k, J
  <2>3. Layout(J \cup {a + k}, y, brk)
    BY <1>5, <1>6, <2>1, <2>2, SplitLayout
  <2>. QED
    BY <2>1, <2>3
<1>9. \A q \in C : (q \in B /\ (q <= a \/ e <= q)) \/ q = c
  BY <1>6
<1>10. \A q \in H : (q \in F /\ (q < a \/ e <= q)) \/ (q = c /\ G = {c})
  BY DEF Beside
<1>11. \A q \in B : (q < a \/ e <= q) => y[q] = z[q] /\ q \in C
  BY <1>1, <1>2, <1>4 DEF Join
<1>12. Frees(C, y, H)
  <2>1. ASSUME NEW q \in H PROVE q \in C
    BY <1>1, <1>10, <1>11
  <2>2. ASSUME NEW q \in H PROVE q + y[q] \in C \ H
    <3>1. CASE q \in F /\ (q < a \/ e <= q)
      <4>1. q \in B /\ y[q] = z[q] /\ q + z[q] \in B \ F
        BY <1>1, <1>11, <3>1 DEF Tiled, Frees
      <4>2. (q + z[q] <= a \/ e <= q + z[q]) /\ q + z[q] # c
        BY <1>1, <1>2, <3>1, <4>1
      <4>. QED
        BY <1>10, <4>1, <4>2 DEF Join
    <3>2. CASE q = c /\ G = {c}
      <4>1. q + y[q] = e /\ e \in B \ F
        BY <1>2, <1>4, <3>2
      <4>. QED
        BY <1>2, <1>10, <4>1 DEF Join
    <3>. QED
      BY <1>10, <3>1, <3>2
  <2>. QED
    BY <2>1, <2>2 DEF Frees
<1>13. Bit(a, H, y) = Bit(a, F, z)
  <2>1. ASSUME NEW q \in H, q + y[q] = a PROVE a \in Ends(F, z)
    <3>1. q # c
      BY <1>2, <1>4, <2>1
    <3>2. q \in F /\ y[q] = z[q]
      BY <1>1, <1>10, <1>11, <3>1
    <3>. QED
      BY <2>1, <3>2 DEF Ends
  <2>2. ASSUME NEW q \in F, q + z[q] = a PROVE a \in Ends(H, y)
    <3>1. q < a /\ q \in B
      BY <1>1, <2>2
    <3>2. q \in H /\ y[q] = z[q]
      BY <1>11, <3>1 DEF Beside
    <3>. QED
      BY <2>2, <3>2 DEF Ends
  <2>. QED
    BY <2>1, <2>2 DEF Bit, Ends
<1>14. Bit(c, H, y) = 1
  <2>1. ASSUME NEW q \in H, q + y[q] = c PROVE FALSE
    <3>1. CASE q \in F /\ (q < a \/ e <= q)
      <4>1. q \in B /\ y[q] = z[q]
        BY <1>1, <1>11, <3>1
      <4>. QED
        BY <1>1, <1>2, <2>1, <3>1, <4>1
    <3>2. CASE q = c
      BY <1>2, <1>4, <2>1, <3>2
    <3>. QED
      BY <1>10, <3>1, <3>2
  <2>. QED
    BY <2>1 DEF Bit, Ends
<1>15. Bit(e, H, y) = IF G = {} THEN 1 ELSE 0
  <2>1. ASSUME NEW q \in H, q + y[q] = e PROVE q = c /\ G = {c}
    <3>1. CASE q \in F /\ (q < a \/ e <= q)
      <4>1. q \in B /\ y[q] = z[q]
        BY <1>1, <1>11, <3>1
      <4>. QED
        BY <1>1, <1>2, <2>1, <3>1, <4>1
    <3>. QED
      BY <1>10, <3>1
  <2>2. G # {} => c \in H /\ c + y[c] = e
    BY <1>1, <1>2, <1>4
  <2>. QED
    BY <2>1, <2>2 DEF Bit, Ends
<1>16. Tagged(n, C, y, H)
  <2>1. \A q \in Nat : q < a \/ e <= q => /\ q \in C <=> q \in B
                                          /\ q \in H <=> q \in F
                                          /\ q \in B => y[q] = z[q]
    <3>1. \A q \in Nat : q < a \/ e <= q => q # c
      BY <1>2
    <3>2. \A q \in Nat : q < a \/ e <= q => (q \in C <=> q \in B)
      BY <1>9, <1>11, <3>1
    <3>3. \A q \in Nat : q < a \/ e <= q => (q \in H <=> q \in F)
      BY <1>10, <3>1 DEF Beside
    <3>. QED
      BY <1>11, <3>2, <3>3
  <2>2. \A w \in Nat : w < brk /\ (w <= a \/ e + 1 < w) => n[w] = m[w]
    BY TiledFacts, SMTT(30) DEF Around, Words0
  <2>3. ASSUME NEW q \in C, a <= q, q <= e PROVE n[q + 1] = y[q] + Bit(q, H, y)
    <3>1. CASE q = a
      BY <1>4, <1>13, <3>1
    <3>2. CASE q = c
      BY <1>4, <1>14, <3>2
    <3>3. CASE q \in B /\ q # a /\ q # c
      <4>1. q \in B /\ (q <= a \/ e <= q)
        BY <1>9, <3>3
      <4>2. q \in Nat /\ q + 3 < brk
        BY <1>1, <4>1
      <4>3. q = e /\ e # brk
        BY <1>1, <1>2, <2>3, <3>3, <4>1, <4>2
      <4>4. y[q] = z[q]
        BY <1>4, <3>3, <4>2
      <4>. QED
        BY <1>15, <4>3, <4>4
    <3>. QED
      BY <1>9, <3>1, <3>2, <3>3
  <2>4. ASSUME NEW q \in H, a <= q, q < e PROVE n[q + y[q]] = y[q]
    <3>0. q \in F => q \in Nat
      BY <1>1
    <3>1. q = c /\ G = {c}
      BY <1>2, <1>10, <2>4, <3>0
    <3>2. c + y[c] = e
      BY <1>2, <1>4
    <3>. QED
      BY <1>4, <3>1, <3>2
  <2>5. a \in C /\ e \in C \cup {brk}
    BY <1>6
  <2>. HIDE DEF C, H
  <2>. QED
    BY <1>8, <1>12, <2>1, <2>2, <2>3, <2>4, <2>5, Retiled DEF Tiled
<1>17. t \in C \ H /\ t \notin Ends(H, y) /\ t + y[t] = brk
  <2>1. CASE e = brk
    <3>1. G = {}
      BY <1>1, <2>1
    <3>2. c + y[c] = e
      BY <1>2, <1>4
    <3>3. c \notin H
      BY <1>2, <1>10, <3>1
    <3>4. c \notin Ends(H, y)
      BY <1>14 DEF Bit
    <3>. QED
      BY <2>1, <3>2, <3>3, <3>4
  <2>2. CASE e # brk
    <3>1. e \in B /\ top + z[top] = brk
      BY <2>2 DEF Tiled
    <3>2. e <= top
      BY <1>1, <1>2, <3>1
    <3>3. top \in C /\ y[top] = z[top] /\ top # c
      BY <1>1, <1>2, <1>11, <3>2
    <3>4. top \notin H
      BY <1>1, <1>10, <3>3
    <3>5. ASSUME NEW q \in H, q + y[q] = top PROVE FALSE
      <4>1. CASE q = c /\ G = {c}
        BY <1>2, <1>4, <3>5, <4>1
      <4>2. CASE q \in F /\ (q < a \/ e <= q)
        <5>1. y[q] = z[q]
          BY <1>1, <1>11, <4>2
        <5>2. top \in Ends(F, z)
          BY <3>5, <4>2, <5>1 DEF Ends
        <5>. QED
          BY <5>2, TiledFacts
      <4>. QED
        BY <1>10, <4>1, <4>2
    <3>6. top \notin Ends(H, y)
      BY <3>5 DEF Ends
    <3>. QED
      BY <2>2, <3>1, <3>3, <3>4, <3>6
  <2>. QED
    BY <2>1, <2>2
<1>18. \A w \in Words0 : brk <= w => n[w] = 0
  <2>1. e <= brk
    <3>1. e \in B => e + z[e] <= brk /\ z[e] \in Nat
      BY <1>1
    <3>. QED
      BY <1>1, <1>2, <3>1
  <2>2. e # brk => e + 1 < brk
    BY <1>1, <1>2
  <2>3. \A w \in Words0 : w \in Nat
    BY TiledFacts DEF Words0
  <2>4. \A w \in Words0 : brk <= w => n[w] = m[w]
    BY <1>1, <1>2, <2>1, <2>2, <2>3 DEF Around
  <2>. QED
    BY <2>4 DEF Tiled
<1>. QED
  BY <1>4, <1>8, <1>12, <1>16, <1>17, <1>18 DEF Tiled, Around, y

(***************************************************************************)
(* Lists: one element removed, one put in.                                 *)
(***************************************************************************)
LEMMA RemovedAt ==
  ASSUME NEW s \in Seq(Nat), NEW i \in 1 .. Len(s)
  PROVE  /\ RemoveAt(s, i) \in Seq(Nat) /\ Len(RemoveAt(s, i)) = Len(s) - 1
         /\ \A k \in 1 .. Len(s) - 1 : RemoveAt(s, i)[k] = IF k < i THEN s[k] ELSE s[k + 1]
<1>. DEFINE u == SubSeq(s, 1, i - 1)  v == SubSeq(s, i + 1, Len(s))  n == Len(s)
<1>1. n \in Nat /\ i \in Nat /\ i <= n /\ 1 <= i /\ \A k \in 1 .. n : s[k] \in Nat
  BY LenProperties, ElementOfSeq
<1>2. /\ u \in Seq(Nat) /\ Len(u) = i - 1
      /\ \A k \in 1 .. i - 1 : u[k] = s[k]
  <2>1. /\ SubSeq(s, 1, i - 1) \in Seq(Nat)
        /\ Len(SubSeq(s, 1, i - 1)) = IF 1 <= i - 1 THEN i - 1 - 1 + 1 ELSE 0
        /\ \A k \in 1 .. i - 1 - 1 + 1 : SubSeq(s, 1, i - 1)[k] = s[1 + k - 1]
    BY <1>1, SubSeqProperties
  <2>. QED
    BY <1>1, <2>1
<1>3. /\ v \in Seq(Nat) /\ Len(v) = n - i
      /\ \A k \in 1 .. n - i : v[k] = s[i + k]
  <2>1. /\ SubSeq(s, i + 1, n) \in Seq(Nat)
        /\ Len(SubSeq(s, i + 1, n)) = IF i + 1 <= n THEN n - (i + 1) + 1 ELSE 0
        /\ \A k \in 1 .. n - (i + 1) + 1 : SubSeq(s, i + 1, n)[k] = s[(i + 1) + k - 1]
    BY <1>1, SubSeqProperties
  <2>. QED
    BY <1>1, <2>1
<1>. HIDE DEF u, v
<1>4. /\ u \o v \in Seq(Nat) /\ Len(u \o v) = Len(u) + Len(v)
      /\ \A k \in 1 .. Len(u) + Len(v) : (u \o v)[k] = IF k <= Len(u) THEN u[k] ELSE v[k - Len(u)]
  BY <1>2, <1>3, ConcatProperties
<1>5. RemoveAt(s, i) = u \o v
  BY DEF RemoveAt, u, v
<1>6. Len(u) + Len(v) = n - 1
  BY <1>1, <1>2, <1>3
<1>7. ASSUME NEW k \in 1 .. n - 1 PROVE (u \o v)[k] = IF k < i THEN s[k] ELSE s[k + 1]
  <2>1. (u \o v)[k] = IF k <= i - 1 THEN u[k] ELSE v[k - (i - 1)]
    BY <1>2, <1>4, <1>6
  <2>2. CASE k < i
    BY <1>1, <1>2, <2>1, <2>2
  <2>3. CASE k >= i
    <3>1. k - (i - 1) \in 1 .. n - i /\ i + (k - (i - 1)) = k + 1
      BY <1>1, <2>3
    <3>. QED
      BY <1>1, <1>3, <2>1, <2>3, <3>1
  <2>4. k < i \/ k >= i
    BY <1>1
  <2>. QED
    BY <2>2, <2>3, <2>4
<1>. QED
  BY <1>4, <1>5, <1>6, <1>7

LEMMA Inserted ==
  ASSUME NEW s \in Seq(Nat), NEW i \in 1 .. Len(s) + 1, NEW e \in Nat
  PROVE  /\ InsertAt(s, i, e) \in Seq(Nat) /\ Len(InsertAt(s, i, e)) = Len(s) + 1
         /\ \A k \in 1 .. Len(s) + 1 :
              InsertAt(s, i, e)[k] = IF k < i THEN s[k] ELSE IF k = i THEN e ELSE s[k - 1]
<1>. DEFINE u == SubSeq(s, 1, i - 1)  v == SubSeq(s, i, Len(s))  n == Len(s)  w == u \o <<e>>
<1>1. n \in Nat /\ i \in Nat /\ i <= n + 1 /\ 1 <= i /\ \A k \in 1 .. n : s[k] \in Nat
  BY LenProperties, ElementOfSeq
<1>2. /\ u \in Seq(Nat) /\ Len(u) = i - 1
      /\ \A k \in 1 .. i - 1 : u[k] = s[k]
  <2>1. /\ SubSeq(s, 1, i - 1) \in Seq(Nat)
        /\ Len(SubSeq(s, 1, i - 1)) = IF 1 <= i - 1 THEN i - 1 - 1 + 1 ELSE 0
        /\ \A k \in 1 .. i - 1 - 1 + 1 : SubSeq(s, 1, i - 1)[k] = s[1 + k - 1]
    BY <1>1, SubSeqProperties
  <2>. QED
    BY <1>1, <2>1
<1>3. /\ v \in Seq(Nat) /\ Len(v) = n - i + 1
      /\ \A k \in 1 .. n - i + 1 : v[k] = s[i + k - 1]
  <2>1. /\ SubSeq(s, i, n) \in Seq(Nat)
        /\ Len(SubSeq(s, i, n)) = IF i <= n THEN n - i + 1 ELSE 0
        /\ \A k \in 1 .. n - i + 1 : SubSeq(s, i, n)[k] = s[i + k - 1]
    BY <1>1, SubSeqProperties
  <2>. QED
    BY <1>1, <2>1
<1>. HIDE DEF u, v
<1>4. /\ w \in Seq(Nat) /\ Len(w) = i /\ \A k \in 1 .. i : w[k] = IF k < i THEN s[k] ELSE e
  <2>1. <<e>> \in Seq(Nat) /\ Len(<<e>>) = 1 /\ <<e>>[1] = e
    OBVIOUS
  <2>2. /\ u \o <<e>> \in Seq(Nat) /\ Len(u \o <<e>>) = Len(u) + Len(<<e>>)
        /\ \A k \in 1 .. Len(u) + Len(<<e>>) :
              (u \o <<e>>)[k] = IF k <= Len(u) THEN u[k] ELSE <<e>>[k - Len(u)]
    BY <1>2, <2>1, ConcatProperties
  <2>3. Len(u) + Len(<<e>>) = i
    BY <1>1, <1>2, <2>1
  <2>4. ASSUME NEW k \in 1 .. i PROVE w[k] = IF k < i THEN s[k] ELSE e
    <3>1. w[k] = IF k <= i - 1 THEN u[k] ELSE <<e>>[k - (i - 1)]
      BY <1>2, <2>2, <2>3
    <3>2. k - (i - 1) = 1 \/ k <= i - 1
      BY <1>1
    <3>. QED
      BY <1>1, <1>2, <2>1, <3>1, <3>2
  <2>. QED
    BY <2>2, <2>3, <2>4
<1>. HIDE DEF w
<1>5. /\ w \o v \in Seq(Nat) /\ Len(w \o v) = Len(w) + Len(v)
      /\ \A k \in 1 .. Len(w) + Len(v) : (w \o v)[k] = IF k <= Len(w) THEN w[k] ELSE v[k - Len(w)]
  BY <1>3, <1>4, ConcatProperties
<1>6. InsertAt(s, i, e) = w \o v
  BY DEF InsertAt, u, v, w
<1>7. Len(w) + Len(v) = n + 1
  BY <1>1, <1>3, <1>4
<1>8. ASSUME NEW k \in 1 .. n + 1
      PROVE  (w \o v)[k] = IF k < i THEN s[k] ELSE IF k = i THEN e ELSE s[k - 1]
  <2>1. (w \o v)[k] = IF k <= i THEN w[k] ELSE v[k - i]
    BY <1>4, <1>5, <1>7
  <2>2. CASE k <= i
    BY <1>1, <1>4, <2>1, <2>2
  <2>3. CASE k > i
    <3>1. k - i \in 1 .. n - i + 1 /\ i + (k - i) - 1 = k - 1
      BY <1>1, <2>3
    <3>. QED
      BY <1>1, <1>3, <2>1, <2>3, <3>1
  <2>4. k <= i \/ k > i
    BY <1>1
  <2>. QED
    BY <2>2, <2>3, <2>4
<1>. QED
  BY <1>5, <1>6, <1>7, <1>8

(* What is left of list s without element p: all the others, in order.     *)
Thins(s, t, p, f) ==
  /\ t \in Seq(Nat) /\ Len(t) <= Len(s)
  /\ \A k \in 1 .. Len(t) : f[k] \in 1 .. Len(s) /\ t[k] = s[f[k]] /\ t[k] # p
  /\ \A k, l \in 1 .. Len(t) : k < l => f[k] < f[l]
  /\ \A j \in 1 .. Len(s) : s[j] # p => \E k \in 1 .. Len(t) : f[k] = j

Thinned(s, t, p) == \E f : Thins(s, t, p, f)

LEMMA RemovedFirst ==
  ASSUME NEW s \in Seq(Nat), \A j, k \in 1 .. Len(s) : s[j] = s[k] => j = k, NEW p
  PROVE  Thinned(s, RemoveFirst(s, p), p)
<1>. DEFINE t == RemoveFirst(s, p)  n == Len(s)
<1>1. n \in Nat
  BY LenProperties
<1>2. CASE ~ \E i \in 1 .. n : s[i] = p
  <2>. DEFINE f == [k \in 1 .. n |-> k]
  <2>1. t = s
    BY <1>2 DEF RemoveFirst
  <2>2. /\ \A k \in 1 .. n : f[k] = k /\ s[k] # p
    BY <1>2
  <2>. HIDE DEF f, t
  <2>3. /\ \A k \in 1 .. n : f[k] \in 1 .. n /\ t[k] = s[f[k]] /\ t[k] # p
        /\ \A k, l \in 1 .. n : k < l => f[k] < f[l]
        /\ \A j \in 1 .. n : s[j] # p => \E k \in 1 .. n : f[k] = j
    BY <2>1, <2>2
  <2>4. Thins(s, t, p, f)
    BY <1>1, <2>1, <2>3 DEF Thins
  <2>. QED
    BY <2>4 DEF Thinned, t
<1>3. CASE \E i \in 1 .. n : s[i] = p
  <2>. DEFINE I == {i \in 1 .. n : s[i] = p}  a == Min(I)
  <2>1. t = RemoveAt(s, a)
    BY <1>3 DEF RemoveFirst, SelectInSeq
  <2>2. a \in 1 .. n /\ s[a] = p
    <3>1. I \in SUBSET Nat /\ I # {}
      BY <1>3
    <3>2. a \in I
      <4>. HIDE DEF I
      <4>. QED
        BY <3>1, MinIsIn
    <3>. QED
      BY <3>2
  <2>. HIDE DEF a, t
  <2>. DEFINE f == [k \in 1 .. n - 1 |-> IF k < a THEN k ELSE k + 1]
  <2>3. /\ t \in Seq(Nat) /\ Len(t) = n - 1
        /\ \A k \in 1 .. n - 1 : t[k] = IF k < a THEN s[k] ELSE s[k + 1]
    BY <2>1, <2>2, RemovedAt
  <2>4. \A k \in 1 .. n - 1 : f[k] = IF k < a THEN k ELSE k + 1
    OBVIOUS
  <2>5. \A j \in 1 .. n : s[j] = p => j = a
    BY <2>2
  <2>. HIDE DEF f
  <2>6. ASSUME NEW k \in 1 .. n - 1 PROVE f[k] \in 1 .. n /\ t[k] = s[f[k]] /\ f[k] # a
    <3>1. CASE k < a
      <4>1. f[k] = k /\ t[k] = s[k]
        BY <2>3, <2>4, <3>1
      <4>. QED
        BY <1>1, <2>2, <3>1, <4>1
    <3>2. CASE ~(k < a)
      <4>1. f[k] = k + 1 /\ t[k] = s[k + 1]
        BY <2>3, <2>4, <3>2
      <4>. QED
        BY <1>1, <2>2, <3>2, <4>1
    <3>. QED
      BY <3>1, <3>2
  <2>7. \A k, l \in 1 .. n - 1 : k < l => f[k] < f[l]
    BY <1>1, <2>2, <2>4
  <2>8. ASSUME NEW j \in 1 .. n, s[j] # p PROVE \E k \in 1 .. n - 1 : f[k] = j
    <3>1. CASE j < a
      <4>1. j \in 1 .. n - 1 /\ f[j] = j
        BY <1>1, <2>2, <2>4, <3>1
      <4>. QED
        BY <4>1
    <3>2. CASE j > a
      <4>1. j - 1 \in 1 .. n - 1 /\ f[j - 1] = j
        BY <1>1, <2>2, <2>4, <3>2
      <4>. QED
        BY <4>1
    <3>3. j < a \/ j > a
      BY <1>1, <2>2, <2>8
    <3>. QED
      BY <3>1, <3>2, <3>3
  <2>9. \A k \in 1 .. n - 1 : f[k] \in 1 .. n /\ t[k] = s[f[k]] /\ t[k] # p
    BY <2>5, <2>6
  <2>10. n - 1 <= n
    BY <1>1
  <2>11. Thins(s, t, p, f)
    BY <2>3, <2>7, <2>8, <2>9, <2>10 DEF Thins
  <2>. QED
    BY <2>11 DEF Thinned, t
<1>. QED
  BY <1>2, <1>3

(***************************************************************************)
(* The bins.                                                               *)
(***************************************************************************)
LEMMA BinOfSize ==
  ASSUME NEW s, IsSize(s)
  PROVE  /\ BinIndex(s) \in Bins /\ BinIndex(s) # 1 /\ BinIndex(s) \in Nat
         /\ s < SmallLimit => 2 * BinIndex(s) = s
         /\ 2 * BinIndex(s) < SmallLimit => s = 2 * BinIndex(s)
<1>. DEFINE h == SmallLimit \div 2  g == (s - SmallLimit) \div LargeWidth
<1>1. /\ s \in Nat /\ s >= 4 /\ s % 2 = 0 /\ SmallLimit \in Nat /\ SmallLimit >= 8
      /\ SmallLimit % 2 = 0 /\ LargeWidth \in Nat /\ LargeWidth > 0 /\ LastBin \in Nat
      /\ LastBin > h
  BY HeapConstants DEF HeapConstants, IsSize
<1>2. h \in Nat /\ 2 * h = SmallLimit
  BY <1>1
<1>3. s >= SmallLimit => g \in Nat
  BY <1>1
<1>4. 2 * (s \div 2) = s /\ s \div 2 \in Nat
  BY <1>1
<1>5. BinIndex(s) = IF s < SmallLimit THEN s \div 2 ELSE IF h + g < LastBin THEN h + g ELSE LastBin
  BY DEF BinIndex
<1>6. \A i \in Nat : 1 <= i /\ i <= LastBin => i \in Bins
  BY <1>1 DEF Bins, BinBlockWidth
<1>. HIDE DEF h, g
<1>7. CASE s < SmallLimit
  BY <1>1, <1>2, <1>4, <1>5, <1>6, <1>7
<1>8. CASE ~(s < SmallLimit)
  <2>1. BinIndex(s) \in Nat /\ BinIndex(s) >= h /\ BinIndex(s) <= LastBin
    BY <1>1, <1>2, <1>3, <1>5, <1>8
  <2>. QED
    BY <1>1, <1>2, <1>6, <1>8, <2>1
<1>. QED
  BY <1>7, <1>8

LEMMA BinsGrow ==
  ASSUME NEW s, IsSize(s), NEW t, IsSize(t), s <= t
  PROVE  BinIndex(s) <= BinIndex(t)
<1>. DEFINE h == SmallLimit \div 2  w == LargeWidth
            g == (s - SmallLimit) \div w  k == (t - SmallLimit) \div w
<1>1. /\ s \in Nat /\ t \in Nat /\ SmallLimit \in Nat /\ SmallLimit % 2 = 0
      /\ w \in Nat /\ w > 0 /\ LastBin \in Nat /\ LastBin > h
  BY HeapConstants DEF HeapConstants, IsSize
<1>2. h \in Nat /\ 2 * h = SmallLimit
  BY <1>1
<1>3. \A x, y \in Nat : x <= y => x \div w <= y \div w
  <2>. HIDE DEF w
  <2>. SUFFICES ASSUME NEW x \in Nat, NEW y \in Nat, x <= y PROVE x \div w <= y \div w
    OBVIOUS
  <2>. DEFINE a == x \div w  b == y \div w
  <2>1. a \in Nat /\ b \in Nat /\ w * a <= x /\ y < w * b + w
    BY <1>1
  <2>. HIDE DEF a, b
  <2>2. w * a < w * (b + 1)
    BY <1>1, <2>1
  <2>3. a < b + 1
    BY <1>1, <2>1, <2>2
  <2>. QED
    BY <2>1, <2>3 DEF a, b
<1>4. s >= SmallLimit => g \in Nat /\ k \in Nat /\ g <= k
  <2>. HIDE DEF w
  <2>1. s >= SmallLimit => s - SmallLimit \in Nat /\ t - SmallLimit \in Nat /\ s - SmallLimit <= t - SmallLimit
    BY <1>1
  <2>2. \A x \in Nat : x \div w \in Nat
    BY <1>1
  <2>. QED
    BY <1>3, <2>1, <2>2
<1>4a. t >= SmallLimit => k \in Nat
  BY <1>1
<1>5. BinIndex(s) = IF s < SmallLimit THEN s \div 2 ELSE IF h + g < LastBin THEN h + g ELSE LastBin
  BY DEF BinIndex
<1>6. BinIndex(t) = IF t < SmallLimit THEN t \div 2 ELSE IF h + k < LastBin THEN h + k ELSE LastBin
  BY DEF BinIndex
<1>7. s \div 2 <= t \div 2 /\ (s < SmallLimit => s \div 2 <= h) /\ s \div 2 \in Nat /\ t \div 2 \in Nat
  BY <1>1
<1>. HIDE DEF h, g, k, w
<1>. QED
  BY <1>1, <1>2, <1>4, <1>4a, <1>5, <1>6, <1>7

(* Every free chunk is in one list, once; those of a bin have its sizes,   *)
(* the larger ones first, and mark its block.                              *)
Lists(bins, blocks, F, z) ==
  /\ bins \in [Bins -> Seq(Nat)] /\ blocks \subseteq {Block(i) : i \in Bins}
  /\ Len(bins[1]) <= 1
  /\ \A i \in Bins : \A k \in 1 .. Len(bins[i]) : bins[i][k] \in F
  /\ \A i, j \in Bins : \A k \in 1 .. Len(bins[i]), l \in 1 .. Len(bins[j]) :
        bins[i][k] = bins[j][l] => i = j /\ k = l
  /\ \A c \in F : \E i \in Bins : \E k \in 1 .. Len(bins[i]) : bins[i][k] = c
  /\ \A i \in Bins \ {1} : \A k \in 1 .. Len(bins[i]) :
        /\ BinIndex(z[bins[i][k]]) = i /\ Block(i) \in blocks
        /\ \A l \in 1 .. Len(bins[i]) : k < l => z[bins[i][l]] <= z[bins[i][k]]

Fields(h) == DOMAIN h = {"mem", "bins", "blocks", "top", "brk"}

LEMMA OneIsABin == 1 \in Bins
BY HeapConstants DEF HeapConstants, Bins, BinBlockWidth

LEMMA ListLengths ==
  ASSUME NEW bins, NEW blocks, NEW F, NEW z, Lists(bins, blocks, F, z)
  PROVE  \A i \in Bins : bins[i] \in Seq(Nat) /\ Len(bins[i]) \in Nat
<1>1. \A i \in Bins : bins[i] \in Seq(Nat)
  BY DEF Lists
<1>. QED
  BY <1>1, LenProperties

LEMMA InBin ==
  ASSUME NEW bins, NEW blocks, NEW F, NEW z, Lists(bins, blocks, F, z), NEW i \in Bins, i # 1
  PROVE  /\ bins[i] \in Seq(Nat) /\ Len(bins[i]) \in Nat
         /\ \A k \in 1 .. Len(bins[i]) :
              /\ bins[i][k] \in F /\ BinIndex(z[bins[i][k]]) = i /\ Block(i) \in blocks
              /\ \A l \in 1 .. Len(bins[i]) : k < l => z[bins[i][l]] <= z[bins[i][k]]
BY ListLengths DEF Lists

LEMMA BinsAreLists ==
  ASSUME NEW bins, NEW blocks, NEW F, NEW z, Lists(bins, blocks, F, z)
  PROVE  bins \in [Bins -> Seq(Nat)] /\ blocks \subseteq {Block(i) : i \in Bins}
BY DEF Lists

(* Sizes of other chunks may change.                                       *)
LEMMA ListsStay ==
  ASSUME NEW bins, NEW blocks, NEW F, NEW z, Lists(bins, blocks, F, z),
         NEW y, \A c \in F : y[c] = z[c]
  PROVE  Lists(bins, blocks, F, y)
<1>1. \A i \in Bins : \A k \in 1 .. Len(bins[i]) : y[bins[i][k]] = z[bins[i][k]]
  BY DEF Lists
<1>2. \A i \in Bins \ {1} : \A k \in 1 .. Len(bins[i]) :
        /\ BinIndex(y[bins[i][k]]) = i /\ Block(i) \in blocks
        /\ \A l \in 1 .. Len(bins[i]) : k < l => y[bins[i][l]] <= y[bins[i][k]]
  BY <1>1 DEF Lists
<1>. QED
  BY <1>2 DEF Lists

LEMMA UnlinkFields ==
  ASSUME NEW h, Fields(h), NEW p
  PROVE  /\ Fields(Unlink(h, p)) /\ Unlink(h, p).mem = h.mem /\ Unlink(h, p).blocks = h.blocks
         /\ Unlink(h, p).top = h.top /\ Unlink(h, p).brk = h.brk
         /\ Unlink(h, p).bins = [i \in Bins |-> RemoveFirst(h.bins[i], p)]
BY DEF Fields, Unlink

Removal(u, b, p) == u = [i \in Bins |-> RemoveFirst(b[i], p)]

LEMMA UnlinkedBins ==
  ASSUME NEW b, NEW blocks, NEW F, NEW z, Lists(b, blocks, F, z), NEW p,
         NEW u, Removal(u, b, p)
  PROVE  Lists(u, blocks, F \ {p}, z)
<1>0. /\ \A i \in Bins : \A k \in 1 .. Len(b[i]) : b[i][k] \in F
      /\ \A c \in F : \E i \in Bins : \E k \in 1 .. Len(b[i]) : b[i][k] = c
      /\ Len(b[1]) <= 1 /\ blocks \subseteq {Block(i) : i \in Bins}
      /\ \A i \in Bins \ {1} : \A k \in 1 .. Len(b[i]) :
            /\ BinIndex(z[b[i][k]]) = i /\ Block(i) \in blocks
            /\ \A l \in 1 .. Len(b[i]) : k < l => z[b[i][l]] <= z[b[i][k]]
  BY DEF Lists
<1>01. \A i, j \in Bins : \A k \in 1 .. Len(b[i]), l \in 1 .. Len(b[j]) :
         b[i][k] = b[j][l] => i = j /\ k = l
  BY DEF Lists
<1>1. /\ \A i \in Bins : b[i] \in Seq(Nat) /\ Len(b[i]) \in Nat
      /\ \A i \in Bins : \A j, k \in 1 .. Len(b[i]) : b[i][j] = b[i][k] => j = k
  BY <1>01, ListLengths
<1>2. \A i \in Bins : Thinned(b[i], RemoveFirst(b[i], p), p)
  BY <1>1, RemovedFirst
<1>4. \A i \in Bins : Thinned(b[i], u[i], p)
  BY <1>2 DEF Removal
<1>5. u \in [Bins -> Seq(Nat)] /\ \A i \in Bins : Len(u[i]) \in Nat /\ Len(u[i]) <= Len(b[i])
  <2>1. \A i \in Bins : u[i] \in Seq(Nat) /\ Len(u[i]) <= Len(b[i])
    BY <1>4 DEF Thinned, Thins
  <2>. QED
    BY <2>1, LenProperties DEF Removal
<1>6. ASSUME NEW i \in Bins, NEW k \in 1 .. Len(u[i]) PROVE u[i][k] \in F \ {p}
  <2>1. PICK f : Thins(b[i], u[i], p, f)
    BY <1>4 DEF Thinned
  <2>2. f[k] \in 1 .. Len(b[i]) /\ u[i][k] = b[i][f[k]] /\ u[i][k] # p
    BY <2>1 DEF Thins
  <2>. QED
    BY <1>0, <2>2
<1>7. ASSUME NEW i \in Bins, NEW j \in Bins, NEW k \in 1 .. Len(u[i]), NEW l \in 1 .. Len(u[j]),
             u[i][k] = u[j][l]
      PROVE  i = j /\ k = l
  <2>1. PICK f : Thins(b[i], u[i], p, f)
    BY <1>4 DEF Thinned
  <2>2. PICK g : Thins(b[j], u[j], p, g)
    BY <1>4 DEF Thinned
  <2>3. /\ f[k] \in 1 .. Len(b[i]) /\ u[i][k] = b[i][f[k]]
        /\ g[l] \in 1 .. Len(b[j]) /\ u[j][l] = b[j][g[l]]
    BY <2>1, <2>2 DEF Thins
  <2>4. i = j /\ f[k] = g[l]
    <3>1. \A x \in 1 .. Len(b[i]), y \in 1 .. Len(b[j]) : b[i][x] = b[j][y] => i = j /\ x = y
      BY <1>01
    <3>. QED
      BY <1>7, <2>3, <3>1
  <2>5. l \in 1 .. Len(u[i]) /\ f[l] \in 1 .. Len(b[i]) /\ u[i][l] = b[i][f[l]]
    BY <2>1, <2>4 DEF Thins
  <2>6. f[l] = f[k]
    BY <1>1, <1>7, <2>3, <2>4, <2>5
  <2>7. (k < l => f[k] < f[l]) /\ (l < k => f[l] < f[k])
    BY <2>1, <2>5 DEF Thins
  <2>8. k = l
    BY <1>1, <1>5, <2>3, <2>5, <2>6, <2>7
  <2>. QED
    BY <2>4, <2>8
<1>8. ASSUME NEW c \in F \ {p} PROVE \E i \in Bins : \E k \in 1 .. Len(u[i]) : u[i][k] = c
  <2>0. PICK i \in Bins : \E j \in 1 .. Len(b[i]) : b[i][j] = c
    BY <1>0
  <2>1. PICK j \in 1 .. Len(b[i]) : b[i][j] = c
    BY <2>0
  <2>2. PICK f : Thins(b[i], u[i], p, f)
    BY <1>4 DEF Thinned
  <2>3. PICK k \in 1 .. Len(u[i]) : f[k] = j
    BY <2>1, <2>2 DEF Thins
  <2>4. u[i][k] = c
    BY <2>1, <2>2, <2>3 DEF Thins
  <2>. QED
    BY <2>4
<1>9. ASSUME NEW i \in Bins \ {1}, NEW k \in 1 .. Len(u[i])
      PROVE  /\ BinIndex(z[u[i][k]]) = i /\ Block(i) \in blocks
             /\ \A l \in 1 .. Len(u[i]) : k < l => z[u[i][l]] <= z[u[i][k]]
  <2>1. PICK f : Thins(b[i], u[i], p, f)
    BY <1>4 DEF Thinned
  <2>2. /\ \A l \in 1 .. Len(u[i]) : f[l] \in 1 .. Len(b[i]) /\ u[i][l] = b[i][f[l]]
        /\ \A l \in 1 .. Len(u[i]) : k < l => f[k] < f[l]
    BY <2>1 DEF Thins
  <2>3. \A j \in 1 .. Len(b[i]) :
           /\ BinIndex(z[b[i][j]]) = i /\ Block(i) \in blocks
           /\ \A l \in 1 .. Len(b[i]) : j < l => z[b[i][l]] <= z[b[i][j]]
    BY <1>0
  <2>. QED
    BY <2>2, <2>3
<1>10. Len(u[1]) <= 1
  <2>1. Len(b[1]) <= 1
    BY <1>0
  <2>. QED
    BY <1>1, <1>5, <2>1, OneIsABin
<1>11. blocks \subseteq {Block(i) : i \in Bins}
  BY <1>0
<1>. QED
  BY <1>5, <1>6, <1>7, <1>8, <1>9, <1>10, <1>11 DEF Lists

LEMMA Unlinked ==
  ASSUME NEW h, Fields(h), NEW F, NEW z, Lists(h.bins, h.blocks, F, z), NEW p
  PROVE  Lists(Unlink(h, p).bins, h.blocks, F \ {p}, z)
<1>1. Removal(Unlink(h, p).bins, h.bins, p)
  BY UnlinkFields DEF Removal
<1>. QED
  BY <1>1, UnlinkedBins

(* One chunk more, at place at of list i.                                  *)
Placed(u, b, i, at, p) ==
  /\ u \in [Bins -> Seq(Nat)] /\ Len(u[i]) = Len(b[i]) + 1
  /\ \A k \in 1 .. Len(b[i]) + 1 :
        u[i][k] = IF k < at THEN b[i][k] ELSE IF k = at THEN p ELSE b[i][k - 1]
  /\ \A j \in Bins : j # i => u[j] = b[j]

LEMMA PlacedInOrder ==
  ASSUME NEW b, NEW blocks, NEW F, NEW z, Lists(b, blocks, F, z),
         NEW p \in Nat, p \notin F, NEW i \in Bins, NEW at \in 1 .. Len(b[i]) + 1,
         NEW u, Placed(u, b, i, at, p),
         NEW marks, blocks \subseteq marks, marks \subseteq blocks \cup {Block(i)},
         i = 1 => Len(b[i]) = 0,
         i # 1 => /\ BinIndex(z[p]) = i /\ Block(i) \in marks
                  /\ \A k \in 1 .. Len(b[i]) : /\ k < at => z[p] <= z[b[i][k]]
                                               /\ at <= k => z[b[i][k]] <= z[p]
  PROVE  Lists(u, marks, F \cup {p}, z)
<1>. DEFINE n == Len(b[i])  old == [k \in 1 .. n + 1 |-> IF k < at THEN k ELSE k - 1]
<1>0. /\ \A j \in Bins : \A k \in 1 .. Len(b[j]) : b[j][k] \in F
      /\ \A c \in F : \E j \in Bins : \E k \in 1 .. Len(b[j]) : b[j][k] = c
      /\ Len(b[1]) <= 1 /\ blocks \subseteq {Block(j) : j \in Bins}
      /\ \A j \in Bins \ {1} : \A k \in 1 .. Len(b[j]) :
            /\ BinIndex(z[b[j][k]]) = j /\ Block(j) \in blocks
            /\ \A l \in 1 .. Len(b[j]) : k < l => z[b[j][l]] <= z[b[j][k]]
  BY DEF Lists
<1>1. \A j, m \in Bins : \A k \in 1 .. Len(b[j]), l \in 1 .. Len(b[m]) :
         b[j][k] = b[m][l] => j = m /\ k = l
  BY DEF Lists
<1>2. n \in Nat /\ at \in Nat /\ at <= n + 1 /\ 1 <= at
  BY ListLengths
<1>3. /\ Len(u[i]) = n + 1 /\ u[i][at] = p /\ \A j \in Bins : j # i => u[j] = b[j]
      /\ u \in [Bins -> Seq(Nat)]
  BY <1>2 DEF Placed
<1>4. ASSUME NEW k \in 1 .. n + 1, k # at
      PROVE  /\ old[k] \in 1 .. n /\ u[i][k] = b[i][old[k]] /\ u[i][k] \in F
             /\ old[k] = IF k < at THEN k ELSE k - 1
  <2>1. old[k] = IF k < at THEN k ELSE k - 1
    OBVIOUS
  <2>2. u[i][k] = IF k < at THEN b[i][k] ELSE IF k = at THEN p ELSE b[i][k - 1]
    BY DEF Placed
  <2>. HIDE DEF old
  <2>3. old[k] \in 1 .. n
    BY <1>2, <1>4, <2>1
  <2>4. u[i][k] = b[i][old[k]]
    BY <1>4, <2>1, <2>2
  <2>. QED
    BY <1>0, <2>1, <2>3, <2>4
<1>. HIDE DEF old, n
<1>5. ASSUME NEW j \in Bins, NEW k \in 1 .. Len(u[j])
      PROVE  u[j][k] \in F \cup {p} /\ (u[j][k] = p <=> j = i /\ k = at)
  <2>1. CASE j = i
    BY <1>3, <1>4, <2>1
  <2>2. CASE j # i
    BY <1>0, <1>3, <2>2
  <2>. QED
    BY <2>1, <2>2
<1>6. ASSUME NEW j \in Bins, NEW m \in Bins, NEW k \in 1 .. Len(u[j]), NEW l \in 1 .. Len(u[m]),
             u[j][k] = u[m][l]
      PROVE  j = m /\ k = l
  <2>1. CASE u[j][k] = p
    BY <1>5, <1>6, <2>1
  <2>2. CASE u[j][k] # p
    <3>. DEFINE x == IF j = i THEN old[k] ELSE k  y == IF m = i THEN old[l] ELSE l
    <3>1. x \in 1 .. Len(b[j]) /\ u[j][k] = b[j][x]
      BY <1>3, <1>4, <1>5, <2>2 DEF n
    <3>2. y \in 1 .. Len(b[m]) /\ u[m][l] = b[m][y]
      BY <1>3, <1>4, <1>5, <1>6, <2>2 DEF n
    <3>3. j = m /\ x = y
      <4>. HIDE DEF x, y
      <4>1. \A v \in 1 .. Len(b[j]), w \in 1 .. Len(b[m]) : b[j][v] = b[m][w] => j = m /\ v = w
        BY <1>1
      <4>. QED
        BY <1>6, <3>1, <3>2, <4>1
    <3>4. CASE j = i
      <4>1. k \in 1 .. n + 1 /\ l \in 1 .. n + 1 /\ k # at /\ l # at
        BY <1>3, <1>5, <1>6, <2>2, <3>3, <3>4
      <4>2. old[k] = old[l]
        BY <3>3, <3>4
      <4>. QED
        BY <1>2, <1>4, <3>3, <4>1, <4>2
    <3>5. CASE j # i
      BY <3>3, <3>5
    <3>. QED
      BY <3>4, <3>5
  <2>. QED
    BY <2>1, <2>2
<1>7. ASSUME NEW c \in F \cup {p} PROVE \E j \in Bins : \E k \in 1 .. Len(u[j]) : u[j][k] = c
  <2>1. CASE c = p
    <3>1. at \in 1 .. Len(u[i])
      BY <1>2, <1>3
    <3>. QED
      BY <1>3, <2>1, <3>1
  <2>2. CASE c # p
    <3>1. PICK j \in Bins : \E k \in 1 .. Len(b[j]) : b[j][k] = c
      BY <1>0, <2>2
    <3>2. PICK k \in 1 .. Len(b[j]) : b[j][k] = c
      BY <3>1
    <3>3. CASE j = i
      <4>. DEFINE l == IF k < at THEN k ELSE k + 1
      <4>1. l \in 1 .. n + 1 /\ l # at /\ (IF l < at THEN l ELSE l - 1) = k
        BY <1>2, <3>2, <3>3 DEF n
      <4>. HIDE DEF l
      <4>2. u[i][l] = b[i][k]
        BY <1>4, <4>1
      <4>. QED
        BY <1>3, <3>2, <3>3, <4>1, <4>2
    <3>4. CASE j # i
      BY <1>3, <3>2, <3>4
    <3>. QED
      BY <3>3, <3>4
  <2>. QED
    BY <2>1, <2>2
<1>8. ASSUME NEW j \in Bins \ {1}, NEW k \in 1 .. Len(u[j])
      PROVE  /\ BinIndex(z[u[j][k]]) = j /\ Block(j) \in marks
             /\ \A l \in 1 .. Len(u[j]) : k < l => z[u[j][l]] <= z[u[j][k]]
  <2>1. CASE j # i
    <3>1. u[j] = b[j]
      BY <1>3, <2>1
    <3>. QED
      BY <1>0, <3>1
  <2>2. CASE j = i
    <3>1. /\ BinIndex(z[p]) = i /\ Block(i) \in marks
          /\ \A v \in 1 .. n : /\ v < at => z[p] <= z[b[i][v]]
                               /\ at <= v => z[b[i][v]] <= z[p]
      BY <2>2 DEF n
    <3>2. \A v \in 1 .. n : /\ BinIndex(z[b[i][v]]) = i
                            /\ \A w \in 1 .. n : v < w => z[b[i][w]] <= z[b[i][v]]
      BY <1>0, <2>2 DEF n
    <3>3. BinIndex(z[u[i][k]]) = i
      <4>1. CASE k = at
        BY <1>3, <3>1, <4>1
      <4>2. CASE k # at
        <5>1. k \in 1 .. n + 1
          BY <1>3, <2>2
        <5>2. old[k] \in 1 .. n /\ u[i][k] = b[i][old[k]]
          BY <1>4, <4>2, <5>1
        <5>3. BinIndex(z[b[i][old[k]]]) = i
          BY <3>2, <5>2
        <5>. QED
          BY <5>2, <5>3
      <4>. QED
        BY <4>1, <4>2
    <3>4. ASSUME NEW l \in 1 .. n + 1, k < l PROVE z[u[i][l]] <= z[u[i][k]]
      <4>0. k \in 1 .. n + 1
        BY <1>3, <2>2
      <4>1. CASE k = at
        <5>1. l # at /\ old[l] = l - 1 /\ at <= old[l] /\ old[l] \in 1 .. n /\ u[i][l] = b[i][old[l]]
          BY <1>2, <1>4, <3>4, <4>1
        <5>. QED
          BY <1>3, <3>1, <4>1, <5>1
      <4>2. CASE l = at
        <5>1. k # at /\ old[k] = k /\ k < at /\ old[k] \in 1 .. n /\ u[i][k] = b[i][old[k]]
          BY <1>2, <1>4, <3>4, <4>0, <4>2
        <5>. QED
          BY <1>3, <3>1, <4>2, <5>1
      <4>3. CASE k # at /\ l # at
        <5>1. /\ old[k] \in 1 .. n /\ u[i][k] = b[i][old[k]]
              /\ old[l] \in 1 .. n /\ u[i][l] = b[i][old[l]]
          BY <1>4, <4>0, <4>3
        <5>2. old[k] < old[l]
          BY <1>2, <1>4, <3>4, <4>0, <4>3
        <5>. QED
          BY <3>2, <5>1, <5>2
      <4>. QED
        BY <4>1, <4>2, <4>3
    <3>. QED
      BY <1>3, <2>2, <3>1, <3>3, <3>4
  <2>. QED
    BY <2>1, <2>2
<1>9. Len(u[1]) <= 1
  <2>1. CASE i = 1
    <3>1. Len(u[i]) = 1
      BY <1>3, <2>1 DEF n
    <3>. QED
      BY <2>1, <3>1
  <2>2. CASE i # 1
    <3>1. u[1] = b[1]
      BY <1>3, <2>2, OneIsABin
    <3>. QED
      BY <1>0, <3>1
  <2>. QED
    BY <2>1, <2>2
<1>10. marks \subseteq {Block(j) : j \in Bins}
  BY <1>0
<1>. QED
  BY <1>3, <1>5, <1>6, <1>7, <1>8, <1>9, <1>10 DEF Lists
Sized(h, F, z) == \A c \in F : ChunkSize(h.mem, c) = z[c] /\ IsSize(z[c])

Linked(g, h, F, z, p) ==
  /\ Fields(g) /\ g.mem = h.mem /\ g.top = h.top /\ g.brk = h.brk
  /\ g.bins[1] = h.bins[1] /\ Lists(g.bins, g.blocks, F \cup {p}, z)

LEMMA FrontLinked ==
  ASSUME NEW h, Fields(h), NEW F, NEW z, Lists(h.bins, h.blocks, F, z), Sized(h, F, z),
         NEW p \in Nat, p \notin F, NEW size, size = z[p], IsSize(size)
  PROVE  Linked(FrontLink(h, p, size), h, F, z, p)
<1>0. \A c \in F : ChunkSize(h.mem, c) = z[c] /\ IsSize(z[c])
  BY DEF Sized
<1>. DEFINE s == z[p]  i == BinIndex(s)  b == h.bins  n == Len(b[i])
            larger == {k \in 1 .. n : s >= ChunkSize(h.mem, b[i][k])}
            notLarger == IF larger # {} THEN Min(larger) ELSE 0
            at == IF s < SmallLimit THEN 1 ELSE IF notLarger = 0 THEN n + 1 ELSE notLarger
            marks == IF s < SmallLimit \/ b[i] = <<>> THEN h.blocks \cup {Block(i)} ELSE h.blocks
            u == [b EXCEPT ![i] = InsertAt(@, at, p)]
            g == FrontLink(h, p, z[p])
<1>1. i \in Bins /\ i # 1
  BY BinOfSize
<1>2. g = [h EXCEPT !.bins = u, !.blocks = marks]
  BY DEF FrontLink, SelectInSeq
<1>3. /\ \A j \in Bins : b[j] \in Seq(Nat) /\ Len(b[j]) \in Nat
      /\ b \in [Bins -> Seq(Nat)]
      /\ \A k \in 1 .. n : /\ b[i][k] \in F /\ BinIndex(z[b[i][k]]) = i /\ Block(i) \in h.blocks
                           /\ \A l \in 1 .. n : k < l => z[b[i][l]] <= z[b[i][k]]
  <2>1. \A j \in Bins : b[j] \in Seq(Nat) /\ Len(b[j]) \in Nat
    BY ListLengths
  <2>2. b \in [Bins -> Seq(Nat)]
    BY BinsAreLists
  <2>. QED
    BY <1>1, <2>1, <2>2, InBin
<1>4. /\ \A k \in 1 .. n : /\ ChunkSize(h.mem, b[i][k]) = z[b[i][k]] /\ IsSize(z[b[i][k]])
                           /\ z[b[i][k]] \in Nat
      /\ s \in Nat /\ n \in Nat
  BY <1>0, <1>1, <1>3, Sizes
<1>. HIDE DEF u, marks, g, i, b
<1>5. /\ at \in 1 .. n + 1
      /\ \A k \in 1 .. n : /\ k < at => s <= z[b[i][k]]
                           /\ at <= k => z[b[i][k]] <= s
  <2>1. CASE s < SmallLimit
    <3>1. ASSUME NEW k \in 1 .. n PROVE z[b[i][k]] = s
      <4>1. 2 * i = s
        BY <2>1, BinOfSize DEF i
      <4>2. BinIndex(z[b[i][k]]) = i
        BY <1>3
      <4>3. 2 * BinIndex(z[b[i][k]]) < SmallLimit => z[b[i][k]] = 2 * BinIndex(z[b[i][k]])
        BY <1>4, BinOfSize
      <4>. QED
        BY <2>1, <4>1, <4>2, <4>3
    <3>. QED
      BY <1>4, <2>1, <3>1
  <2>2. CASE ~(s < SmallLimit) /\ larger = {}
    <3>1. at = n + 1
      BY <2>2
    <3>2. \A k \in 1 .. n : ~(s >= z[b[i][k]])
      BY <1>4, <2>2
    <3>. HIDE DEF at, larger, n
    <3>. QED
      BY <1>4, <3>1, <3>2
  <2>3. CASE ~(s < SmallLimit) /\ larger # {}
    <3>1. larger \in SUBSET Nat
      BY <1>4
    <3>2. Min(larger) \in larger /\ \A k \in larger : Min(larger) <= k
      <4>. HIDE DEF larger
      <4>. QED
        BY <2>3, <3>1, MinIsIn
    <3>3. notLarger = Min(larger) /\ notLarger \in 1 .. n
      BY <2>3, <3>2
    <3>. DEFINE a == Min(larger)
    <3>4. at = a /\ a \in 1 .. n
      BY <2>3, <3>3
    <3>5. /\ s >= z[b[i][a]]
          /\ \A k \in 1 .. n : s >= z[b[i][k]] => a <= k
      BY <1>4, <3>2, <3>4
    <3>. HIDE DEF at, a, larger, n
    <3>. QED
      BY <1>3, <1>4, <3>4, <3>5
  <2>. QED
    BY <2>1, <2>2, <2>3
<1>. HIDE DEF at
<1>6. Placed(u, b, i, at, p)
  <2>0. b[i] \in Seq(Nat)
    BY <1>1, <1>3
  <2>1. /\ InsertAt(b[i], at, p) \in Seq(Nat) /\ Len(InsertAt(b[i], at, p)) = Len(b[i]) + 1
        /\ \A k \in 1 .. Len(b[i]) + 1 :
             InsertAt(b[i], at, p)[k] = IF k < at THEN b[i][k] ELSE IF k = at THEN p ELSE b[i][k - 1]
    <3>. DEFINE v == b[i]
    <3>1. v \in Seq(Nat) /\ at \in 1 .. Len(v) + 1
      BY <1>5, <2>0
    <3>. HIDE DEF v
    <3>2. /\ InsertAt(v, at, p) \in Seq(Nat) /\ Len(InsertAt(v, at, p)) = Len(v) + 1
          /\ \A k \in 1 .. Len(v) + 1 :
               InsertAt(v, at, p)[k] = IF k < at THEN v[k] ELSE IF k = at THEN p ELSE v[k - 1]
      BY <3>1, Inserted
    <3>. QED
      BY <3>2 DEF v
  <2>2. u[i] = InsertAt(b[i], at, p) /\ \A j \in Bins : j # i => u[j] = b[j]
    BY <1>1, <1>3 DEF u
  <2>3. u \in [Bins -> Seq(Nat)]
    BY <1>1, <1>3, <2>1 DEF u
  <2>. QED
    BY <2>1, <2>2, <2>3 DEF Placed
<1>7. h.blocks \subseteq marks /\ marks \subseteq h.blocks \cup {Block(i)} /\ Block(i) \in marks
  <2>1. b[i] # <<>> => Block(i) \in h.blocks
    <3>1. b[i] # <<>> => 1 \in 1 .. n
      BY <1>1, <1>3, EmptySeq
    <3>. QED
      BY <1>3, <3>1
  <2>. QED
    BY <2>1 DEF marks
<1>8. Lists(u, marks, F \cup {p}, z)
  <2>1. Lists(b, h.blocks, F, z)
    BY DEF b
  <2>2. BinIndex(z[p]) = i
    BY DEF i
  <2>. HIDE DEF n
  <2>3. \A k \in 1 .. Len(b[i]) : /\ k < at => z[p] <= z[b[i][k]]
                                  /\ at <= k => z[b[i][k]] <= z[p]
    BY <1>5 DEF n
  <2>4. at \in 1 .. Len(b[i]) + 1
    BY <1>5 DEF n
  <2>. QED
    BY <1>1, <1>6, <1>7, <2>1, <2>2, <2>3, <2>4, PlacedInOrder
<1>9. u[1] = b[1]
  BY <1>1, <1>3, OneIsABin DEF u
<1>10. /\ Fields(g) /\ g.mem = h.mem /\ g.top = h.top /\ g.brk = h.brk
       /\ g.bins = u /\ g.blocks = marks
  BY <1>2 DEF Fields
<1>. QED
  BY <1>8, <1>9, <1>10 DEF g, b, Linked

LEMMA RemainderLinked ==
  ASSUME NEW h, Fields(h), NEW F, NEW z, Lists(h.bins, h.blocks, F, z), h.bins[1] = <<>>,
         NEW p \in Nat, p \notin F
  PROVE  /\ Fields(LinkRemainder(h, p)) /\ LinkRemainder(h, p).mem = h.mem
         /\ LinkRemainder(h, p).top = h.top /\ LinkRemainder(h, p).brk = h.brk
         /\ LinkRemainder(h, p).blocks = h.blocks
         /\ Lists(LinkRemainder(h, p).bins, h.blocks, F \cup {p}, z)
<1>. DEFINE u == [h.bins EXCEPT ![1] = <<p>>]  b == h.bins
<1>1. LinkRemainder(h, p) = [h EXCEPT !.bins = u]
  BY DEF LinkRemainder, LastRemainder
<1>2. b \in [Bins -> Seq(Nat)] /\ Len(b[1]) = 0 /\ h.blocks \subseteq {Block(i) : i \in Bins}
  BY DEF Lists
<1>3. <<p>> \in Seq(Nat) /\ Len(<<p>>) = 1 /\ <<p>>[1] = p
  OBVIOUS
<1>4. u \in [Bins -> Seq(Nat)] /\ u[1] = <<p>> /\ \A j \in Bins : j # 1 => u[j] = b[j]
  BY <1>2, <1>3, OneIsABin
<1>. HIDE DEF u
<1>5. Placed(u, b, 1, 1, p)
  <2>1. \A k \in 1 .. 0 + 1 : k = 1
    OBVIOUS
  <2>2. \A k \in 1 .. Len(b[1]) + 1 :
          u[1][k] = IF k < 1 THEN b[1][k] ELSE IF k = 1 THEN p ELSE b[1][k - 1]
    BY <1>2, <1>3, <1>4, <2>1
  <2>. QED
    BY <1>2, <1>3, <1>4, <2>2 DEF Placed
<1>6. Lists(u, h.blocks, F \cup {p}, z)
  <2>1. 1 \in 1 .. Len(b[1]) + 1
    BY <1>2
  <2>. QED
    BY <1>2, <1>5, <2>1, OneIsABin, PlacedInOrder
<1>. QED
  BY <1>1, <1>6 DEF Fields

(***************************************************************************)
(* Writes to memory.                                                       *)
(***************************************************************************)
Memory == [Words0 -> Int]

(* Memory n is m but for the words in W.                                   *)
But(m, n, W) == n \in Memory /\ \A w \in Words0 : w \in W \/ n[w] = m[w]

LEMMA HeadIsSet ==
  ASSUME NEW m \in Memory, NEW p \in Int, p + 1 \in Words0, NEW s \in Int
  PROVE  But(m, SetHead(m, p, s), {p + 1}) /\ SetHead(m, p, s)[p + 1] = s + 1
BY DEF But, Memory, SetHead

LEMMA HeadSizeIsSet ==
  ASSUME NEW m \in Memory, NEW p \in Int, p + 1 \in Words0, NEW s \in Int
  PROVE  /\ But(m, SetHeadSize(m, p, s), {p + 1})
         /\ SetHeadSize(m, p, s)[p + 1] = s + (m[p + 1] % 2)
BY DEF But, Memory, SetHeadSize

LEMMA FootIsSet ==
  ASSUME NEW m \in Memory, NEW p \in Int, NEW s \in Int, p + s \in Words0
  PROVE  But(m, SetFoot(m, p, s), {p + s}) /\ SetFoot(m, p, s)[p + s] = s
BY DEF But, Memory, SetFoot

LEMMA InuseIsSet ==
  ASSUME NEW m \in Memory, NEW p \in Int, p + 1 \in Words0
  PROVE  /\ But(m, SetInuseAt(m, p), {p + 1})
         /\ SetInuseAt(m, p)[p + 1] = ChunkSize(m, p) + 1
BY DEF But, Memory, SetInuseAt, ChunkSize

LEMMA InuseIsCleared ==
  ASSUME NEW m \in Memory, NEW p \in Int, p + 1 \in Words0
  PROVE  /\ But(m, ClearInuseAt(m, p), {p + 1})
         /\ ClearInuseAt(m, p)[p + 1] = ChunkSize(m, p)
BY DEF But, Memory, ClearInuseAt, ChunkSize

LEMMA RangeIsSet ==
  ASSUME NEW m \in Memory, NEW from, NEW to, NEW v \in Int
  PROVE  But(m, Set(m, from, to, v), from .. to)
BY DEF But, Memory, Set

Copied(m, k, dest, src, n) ==
  /\ But(m, k, dest .. dest + n - 1)
  /\ \A i \in 0 .. n - 1 : dest + i \in Words0 => k[dest + i] = m[src + i]

LEMMA RangeIsCopied ==
  ASSUME NEW m \in Memory, NEW dest \in Nat, NEW src \in Nat, NEW n \in Nat, src + n <= End
  PROVE  Copied(m, Copy(m, dest, src, n), dest, src, n)
<1>. DEFINE c == Copy(m, dest, src, n)  W == dest .. dest + n - 1
<1>1. c = [w \in Words0 |-> IF w \in W THEN m[src + (w - dest)] ELSE m[w]]
  BY DEF Copy, Memory
<1>2. \A w \in Words0 : w \in W => src + (w - dest) \in Words0
  <2>1. End \in Int
    BY HeapConstants DEF HeapConstants, End
  <2>. HIDE DEF c
  <2>. QED
    BY <2>1 DEF Words0
<1>3. \A w \in Words0 : m[w] \in Int
  BY DEF Memory
<1>. HIDE DEF c, W
<1>4. c \in Memory
  BY <1>1, <1>2, <1>3 DEF Memory
<1>5. \A w \in Words0 : w \in W \/ c[w] = m[w]
  BY <1>1
<1>6. ASSUME NEW i \in 0 .. n - 1, dest + i \in Words0 PROVE c[dest + i] = m[src + i]
  <2>1. dest + i \in W /\ src + ((dest + i) - dest) = src + i
    BY DEF W
  <2>. QED
    BY <1>1, <1>6, <2>1
<1>. QED
  BY <1>4, <1>5, <1>6 DEF But, c, W, Copied

LEMMA ButIsMemory == \A m, n, W : But(m, n, W) => n \in Memory
BY DEF But

(***************************************************************************)
(* The heap: memory that is in order, and the lists of its free chunks.    *)
(***************************************************************************)
Heap(h, B, z, F) ==
  /\ Fields(h) /\ Tiled(h.mem, h.top, h.brk, B, z, F) /\ Lists(h.bins, h.blocks, F, z)

Outside(S, a, e) == {q \in S : q < a \/ e <= q}

(* The chunks in use keep their sizes and their data.                      *)
KeptChunk(m, n, p) ==
  /\ ChunkSize(n, p) = ChunkSize(m, p)
  /\ \A w \in p + 2 .. p + ChunkSize(m, p) : n[w] = m[w]

Keeps(m, n, U) == \A p \in U : KeptChunk(m, n, p)

LEMMA KeepsOn ==
  ASSUME NEW m, NEW n, NEW k, NEW U, Keeps(m, n, U), Keeps(n, k, U)
  PROVE  Keeps(m, k, U)
BY DEF Keeps, KeptChunk

LEMMA TagsOfTiled ==
  ASSUME NEW m, NEW top, NEW brk, NEW B, NEW z, NEW F, Tiled(m, top, brk, B, z, F), NEW p \in B
  PROVE  /\ ChunkSize(m, p) = z[p]
         /\ m[p + 1] = z[p] + Bit(p, F, z)
         /\ PrevInuse(m, p) <=> p \notin Ends(F, z)
         /\ m[p + 1] % 2 = Bit(p, F, z)
         /\ p # top => p + z[p] \in B /\ (Inuse(m, p) <=> p \notin F)
         /\ p \in F => m[p + z[p]] = z[p] /\ p + z[p] \in B \ F /\ p + z[p] # top
<1>1. p # top => p + z[p] \in B
  BY TiledFacts
<1>2. p \in F => m[p + z[p]] = z[p] /\ p + z[p] \in B \ F
  BY DEF Tiled, Frees, Tagged
<1>3. p \in F => p + z[p] # top
  BY TiledFacts DEF Ends
<1>4. m[p + 1] = z[p] + Bit(p, F, z)
  BY DEF Tiled, Tagged
<1>. QED
  BY <1>1, <1>2, <1>3, <1>4, TagsAreRead DEF Tiled

LEMMA NoChunkInside ==
  ASSUME NEW m, NEW top, NEW brk, NEW B, NEW z, NEW F, Tiled(m, top, brk, B, z, F),
         NEW p \in B, NEW q \in B, p <= q, q < p + z[p]
  PROVE  q = p
BY TiledFacts

(* Chunks in use that are not laid out anew are kept.                      *)
Beyond(B, z, C, y, a, e) == \A q \in B : q < a \/ e <= q => q \in C /\ y[q] = z[q]

LEMMA OutsideIsKept ==
  ASSUME NEW m, NEW top, NEW brk, NEW B, NEW z, NEW F, Tiled(m, top, brk, B, z, F),
         NEW a \in B, NEW e \in B \cup {brk}, a < e,
         NEW n, Around(m, n, a, e, brk),
         NEW tip, NEW C, NEW y, NEW G, Tiled(n, tip, brk, C, y, G),
         Beyond(B, z, C, y, a, e),
         NEW U, U \subseteq B \ {top}
  PROVE  Keeps(m, n, Outside(U, a, e))
<1>0. \A q \in B : q < a \/ e <= q => q \in C /\ y[q] = z[q]
  BY DEF Beyond
<1>. SUFFICES ASSUME NEW q \in B, q # top, q < a \/ e <= q PROVE KeptChunk(m, n, q)
  BY DEF Keeps, Outside
<1>1. ChunkSize(m, q) = z[q] /\ ChunkSize(n, q) = z[q]
  <2>1. q \in C /\ y[q] = z[q]
    BY <1>0
  <2>. QED
    BY <2>1, TagsOfTiled
<1>2. /\ q \in Nat /\ z[q] \in Nat /\ q + z[q] <= brk /\ a \in Nat /\ z[a] \in Nat /\ (q < a => q + z[q] <= a)
      /\ brk \in Nat /\ brk <= End /\ End \in Nat /\ e \in Nat
  BY TiledFacts
<1>3. ASSUME NEW w \in q + 2 .. q + z[q] PROVE n[w] = m[w]
  <2>1. w \in Nat /\ (w <= a \/ e + 1 < w \/ (e = brk /\ e <= w))
    BY <1>2
  <2>2. q + z[q] < brk
    BY TiledFacts
  <2>3. w \in Words0
    BY <1>2, <2>1, <2>2 DEF Words0
  <2>. QED
    BY <2>1, <2>3 DEF Around
<1>. QED
  BY <1>1, <1>3 DEF KeptChunk

(***************************************************************************)
(* fREe.                                                                   *)
(***************************************************************************)
Freed(m, start, next, end) ==
  SetHead(Set(ClearInuseAt(m, next), start + 2, end - 1, Junk), start, end - start)

LEMMA FreedMemory ==
  ASSUME NEW m, NEW top, NEW brk, NEW B, NEW z, NEW F, Tiled(m, top, brk, B, z, F),
         NEW start \in B, NEW next \in B, NEW end \in B \cup {brk}, start < next,
         end = next \/ end = next + z[next], end # brk /\ end # next => next \in F,
         NEW n, n = Freed(m, start, next, end)
  PROVE  /\ n \in Memory /\ Around(m, n, start, end, brk) /\ n[start + 1] = (end - start) + 1
         /\ end # brk => n[end + 1] = z[end]
         /\ end # brk =>
              /\ SetFoot(n, start, end - start) \in Memory
              /\ Around(m, SetFoot(n, start, end - start), start, end, brk)
              /\ SetFoot(n, start, end - start)[start + 1] = (end - start) + 1
              /\ SetFoot(n, start, end - start)[end + 1] = z[end]
              /\ SetFoot(n, start, end - start)[end] = end - start
<1>. DEFINE s == end - start
            c == ClearInuseAt(m, next)
            j == Set(c, start + 2, end - 1, Junk)
            f == SetFoot(n, start, s)
<1>1. /\ brk \in Nat /\ brk <= End /\ End \in Nat
      /\ start \in Nat /\ next \in Nat /\ z[next] \in Nat /\ z[next] >= 4 /\ next + z[next] <= brk
      /\ end \in Nat /\ (end # brk => end + 3 < brk /\ end \in B) /\ next + 3 < brk
      /\ end <= brk /\ next <= end /\ start + 4 <= next
  <2>1. start + z[start] <= next /\ z[start] \in Nat /\ z[start] >= 4 /\ start \in Nat
    BY TiledFacts
  <2>2. next \in Nat /\ z[next] \in Nat /\ z[next] >= 4 /\ next + z[next] <= brk /\ next + 3 < brk
    BY TiledFacts
  <2>3. brk \in Nat /\ brk <= End /\ End \in Nat /\ (end # brk => end + 3 < brk /\ end \in B)
    BY TiledFacts
  <2>. QED
    BY <2>1, <2>2, <2>3
<1>2. start + s = end /\ s \in Int /\ m \in Memory /\ Junk \in Int
  BY <1>1 DEF Tiled, Memory, Junk
<1>3. \A w \in Nat : w < brk => w \in Words0
  BY <1>1 DEF Words0
<1>4. /\ next + 1 \in Words0 /\ start + 1 \in Words0
      /\ end # brk => end \in Words0 /\ end + 1 \in Words0
  BY <1>1, <1>3
<1>. HIDE DEF s
<1>5. But(m, c, {next + 1}) /\ c[next + 1] = z[next] /\ c \in Memory
  <2>1. ChunkSize(m, next) = z[next]
    BY TagsOfTiled
  <2>2. But(m, c, {next + 1}) /\ c[next + 1] = ChunkSize(m, next)
    BY <1>1, <1>2, <1>4, InuseIsCleared
  <2>. QED
    BY <2>1, <2>2 DEF But
<1>. HIDE DEF c
<1>6. But(c, j, start + 2 .. end - 1) /\ j \in Memory
  BY <1>2, <1>5, RangeIsSet DEF But
<1>. HIDE DEF j
<1>7. But(j, n, {start + 1}) /\ n[start + 1] = s + 1 /\ n \in Memory
  <2>1. n = SetHead(j, start, s)
    BY DEF Freed, j, c, s
  <2>2. start \in Int
    BY <1>1
  <2>3. But(j, SetHead(j, start, s), {start + 1}) /\ SetHead(j, start, s)[start + 1] = s + 1
    BY <1>2, <1>4, <1>6, <2>2, HeadIsSet
  <2>. QED
    BY <2>1, <2>3, ButIsMemory
<1>8. \A w \in Words0 : w # next + 1 /\ w \notin start + 1 .. end - 1 => n[w] = m[w]
  BY <1>1, <1>5, <1>6, <1>7 DEF But
<1>9. Around(m, n, start, end, brk)
  <2>1. \A w \in Words0 : w \in Int
    BY <1>1 DEF Words0
  <2>2. ASSUME NEW w \in Words0, w <= start \/ end + 1 < w \/ (end = brk /\ end <= w)
        PROVE  w # next + 1 /\ w \notin start + 1 .. end - 1
    BY <1>1, <2>1, <2>2
  <2>. QED
    BY <1>7, <1>8, <2>2 DEF Around, Memory
<1>10. end # brk => n[end + 1] = z[end]
  <2>1. CASE end # brk /\ end = next
    <3>1. end + 1 \notin start + 2 .. end - 1 /\ end + 1 # start + 1
      BY <1>1
    <3>. QED
      BY <1>4, <1>5, <1>6, <1>7, <2>1, <3>1 DEF But
  <2>2. CASE end # brk /\ end # next
    <3>1. end + 1 # next + 1 /\ end + 1 \notin start + 1 .. end - 1
      BY <1>1, <2>2
    <3>2. n[end + 1] = m[end + 1]
      BY <1>4, <1>8, <2>2, <3>1
    <3>3. end \in Ends(F, z) /\ end \in B
      BY <1>1, <2>2 DEF Ends
    <3>4. m[end + 1] = z[end] + 0
      BY <3>3, TagsOfTiled DEF Bit
    <3>5. z[end] \in Nat
      BY <3>3, TiledFacts
    <3>. QED
      BY <3>2, <3>4, <3>5
  <2>. QED
    BY <2>1, <2>2
<1>11. ASSUME end # brk
       PROVE  /\ f \in Memory /\ Around(m, f, start, end, brk)
              /\ f[start + 1] = s + 1 /\ f[end + 1] = z[end] /\ f[end] = s
  <2>1. But(n, f, {end}) /\ f[end] = s
    <3>1. start \in Int /\ start + s \in Words0
      BY <1>1, <1>2, <1>4, <1>11
    <3>2. But(n, f, {start + s}) /\ f[start + s] = s
      BY <1>2, <1>7, <3>1, FootIsSet
    <3>. QED
      BY <1>2, <3>2
  <2>2. start + 1 # end /\ end + 1 # end
    BY <1>1
  <2>3. f[start + 1] = s + 1 /\ f[end + 1] = z[end]
    BY <1>4, <1>7, <1>10, <1>11, <2>1, <2>2 DEF But
  <2>4. Around(m, f, start, end, brk)
    <3>1. \A w \in Words0 : w \in Int
      BY <1>1 DEF Words0
    <3>2. ASSUME NEW w \in Words0, w <= start \/ end + 1 < w PROVE f[w] = m[w]
      <4>1. w # end
        BY <1>1, <3>1, <3>2
      <4>. QED
        BY <1>9, <2>1, <3>2, <4>1 DEF But, Around
    <3>. QED
      BY <1>11, <2>1, <3>2 DEF Around, But, Memory
  <2>. QED
    BY <2>1, <2>3, <2>4 DEF But
<1>. QED
  BY <1>7, <1>9, <1>10, <1>11 DEF s

(***************************************************************************)
(* The top grows and shrinks.                                              *)
(***************************************************************************)
Retopped(m, n, top, b) ==
  /\ n \in Memory /\ b \in Breaks /\ top + 4 <= b /\ n[top + 1] = (b - top) + 1
  /\ \A w \in Words0 : (w <= top => n[w] = m[w]) /\ (b <= w => n[w] = 0)

LEMMA TopResized ==
  ASSUME NEW m, NEW top, NEW brk, NEW B, NEW z, NEW F, Tiled(m, top, brk, B, z, F),
         NEW b, NEW n, Retopped(m, n, top, b)
  PROVE  \E y : /\ Tiled(n, top, b, B, y, F) /\ Keeps(m, n, B \ {top})
                /\ \A q \in B : q # top => y[q] = z[q]
<1>1. /\ IsPlace(brk) /\ brk \in Nat /\ brk <= End /\ End \in Nat
      /\ \A q \in B : /\ IsPlace(q) /\ IsSize(z[q]) /\ q \in Nat /\ z[q] \in Nat /\ z[q] >= 4
                      /\ q + z[q] <= brk /\ q + z[q] \in B \cup {brk} /\ q + 3 < brk
      /\ \A q, r \in B : q < r => q + z[q] <= r
      /\ top \in B /\ top \notin F /\ top \notin Ends(F, z) /\ F \subseteq B
      /\ \A q \in B : q + z[q] = brk => q = top
  BY TiledFacts
<1>0. /\ n \in Memory /\ b \in Breaks /\ top + 4 <= b /\ n[top + 1] = (b - top) + 1
      /\ \A w \in Words0 : (w <= top => n[w] = m[w]) /\ (b <= w => n[w] = 0)
  BY DEF Retopped
<1>2. IsPlace(b) /\ b \in Nat /\ b <= End
  BY <1>0, BreakIsPlace, Sizes
<1>3. /\ z \in [Nat -> Nat] /\ top + z[top] = brk /\ top \in Nat
      /\ \A q \in B : q = 0 \/ \E p \in B : p + z[p] = q
      /\ 0 \in B
  BY <1>1 DEF Tiled, Layout
<1>4. IsSize(b - top) /\ b - top \in Nat /\ top + (b - top) = b
  <2>1. IsPlace(top)
    BY <1>1
  <2>2. b - top \in Nat /\ b - top >= 4 /\ top + (b - top) = b
    BY <1>0, <1>2, <1>3
  <2>3. (b - top) % 2 = 0
    BY <1>2, <1>3, <2>1 DEF IsPlace
  <2>. QED
    BY <2>2, <2>3 DEF IsSize
<1>. DEFINE d == b - top  y == With(z, top, d)
<1>5. y \in [Nat -> Nat] /\ y[top] = d /\ \A q \in Nat : q # top => y[q] = z[q]
  <2>1. d \in Nat
    BY <1>4
  <2>. HIDE DEF d
  <2>. QED
    BY <1>3, <2>1, WithIs
<1>6. IsSize(d) /\ d \in Nat /\ top + d = b /\ n[top + 1] = d + 1
  BY <1>0, <1>4
<1>. HIDE DEF d, y
<1>7. \A q \in B : q # top => y[q] = z[q] /\ q < top /\ q + z[q] \in B /\ q + z[q] <= top
  BY <1>1, <1>3, <1>5
<1>8. Layout(B, y, b)
  <2>1. ASSUME NEW p \in B
        PROVE  /\ IsPlace(p) /\ IsSize(y[p])
               /\ p + y[p] \in B \cup {b} /\ p + y[p] <= b
               /\ \A q \in B : p < q => p + y[p] <= q
    <3>1. CASE p = top
      <4>1. \A q \in B : q <= top
        BY <1>3, <1>7
      <4>2. \A q \in B : q \in Nat
        BY <1>1
      <4>. QED
        BY <1>1, <1>3, <1>5, <1>6, <3>1, <4>1, <4>2
    <3>2. CASE p # top
      <4>1. y[p] = z[p] /\ p + z[p] \in B /\ p + z[p] <= top /\ IsPlace(p) /\ IsSize(z[p])
            /\ \A q \in B : p < q => p + z[p] <= q
        BY <1>1, <1>7, <3>2
      <4>2. p + z[p] <= b
        BY <1>1, <1>2, <1>3, <1>6, <4>1
      <4>. QED
        BY <4>1, <4>2
    <3>. QED
      BY <3>1, <3>2
  <2>2. ASSUME NEW q \in B PROVE q = 0 \/ \E p \in B : p + y[p] = q
    <3>1. CASE q # 0
      <4>1. PICK p \in B : p + z[p] = q
        BY <1>3, <3>1
      <4>2. q \in Nat /\ q < brk
        BY <1>1
      <4>3. p # top
        BY <1>1, <1>3, <4>1, <4>2
      <4>. QED
        BY <1>7, <4>1, <4>3
    <3>. QED
      BY <3>1
  <2>. QED
    BY <1>2, <1>3, <2>1, <2>2 DEF Layout
<1>9. \A p \in F : p # top /\ p \in B /\ y[p] = z[p]
  BY <1>1, <1>7
<1>10. Ends(F, y) = Ends(F, z)
  BY <1>9 DEF Ends
<1>11. Frees(B, y, F)
  BY <1>9 DEF Frees, Tiled
<1>12. Tagged(n, B, y, F)
  <2>1. \A w \in Nat : w <= top => w \in Words0
    BY <1>1, <1>3 DEF Words0
  <2>2. ASSUME NEW q \in B PROVE n[q + 1] = y[q] + Bit(q, F, y)
    <3>1. CASE q = top
      BY <1>1, <1>5, <1>6, <1>10, <3>1 DEF Bit
    <3>2. CASE q # top
      <4>1. q + 1 \in Nat /\ q + 1 <= top
        BY <1>1, <1>3, <1>7, <3>2
      <4>2. n[q + 1] = m[q + 1]
        BY <1>0, <2>1, <4>1
      <4>3. m[q + 1] = z[q] + Bit(q, F, z)
        BY TagsOfTiled
      <4>. QED
        BY <1>7, <1>10, <3>2, <4>2, <4>3 DEF Bit
    <3>. QED
      BY <3>1, <3>2
  <2>3. ASSUME NEW p \in F PROVE n[p + y[p]] = y[p]
    <3>1. p \in B /\ p # top /\ y[p] = z[p] /\ p + z[p] <= top /\ p + z[p] \in B
      BY <1>7, <1>9
    <3>2. n[p + z[p]] = m[p + z[p]]
      BY <1>0, <1>1, <2>1, <3>1
    <3>3. m[p + z[p]] = z[p]
      BY <3>1, TagsOfTiled
    <3>. QED
      BY <3>1, <3>2, <3>3
  <2>. QED
    BY <2>2, <2>3 DEF Tagged
<1>13. Tiled(n, top, b, B, y, F)
  BY <1>0, <1>1, <1>5, <1>6, <1>8, <1>10, <1>11, <1>12 DEF Tiled, Memory
<1>14. ASSUME NEW p \in B, p # top PROVE KeptChunk(m, n, p)
  <2>1. ChunkSize(m, p) = z[p] /\ ChunkSize(n, p) = z[p]
    <3>1. ChunkSize(m, p) = z[p]
      BY TagsOfTiled
    <3>2. ChunkSize(n, p) = y[p]
      BY <1>13, TagsOfTiled
    <3>. QED
      BY <1>7, <1>14, <3>1, <3>2
  <2>2. ASSUME NEW w \in p + 2 .. p + z[p] PROVE n[w] = m[w]
    <3>1. w \in Words0 /\ w <= top
      BY <1>1, <1>3, <1>7, <1>14 DEF Words0
    <3>. QED
      BY <1>0, <3>1
  <2>. QED
    BY <2>1, <2>2 DEF KeptChunk
<1>. QED
  BY <1>7, <1>13, <1>14 DEF Keeps

(* Whole pages, in words.                                                  *)
LEMMA Pages ==
  /\ PageWords \in Nat /\ PageWords > 0 /\ HeapPages \in Nat /\ End = PageWords * HeapPages
  /\ \A w \in Nat : /\ Up(w) \in Nat /\ w <= Up(w)
                    /\ \E k \in Nat : Up(w) = PageWords * k
  /\ \A k \in Nat : PageWords * k <= End => PageWords * k \in Breaks
  /\ \A brk \in Breaks : \E k \in Nat : brk = PageWords * k /\ k <= HeapPages
<1>. DEFINE d == PageWords
<1>1. d \in Nat /\ d > 0 /\ HeapPages \in Nat /\ End = d * HeapPages
  BY HeapConstants DEF HeapConstants, End
<1>2. ASSUME NEW w \in Nat
      PROVE  Up(w) \in Nat /\ w <= Up(w) /\ \E k \in Nat : Up(w) = d * k
  <2>. DEFINE x == w + d - 1  k == x \div d
  <2>1. x \in Nat /\ Up(w) = x - (x % d)
    BY <1>1 DEF Up
  <2>. HIDE DEF d, x
  <2>2. k \in Nat /\ x = d * k + (x % d) /\ x % d \in Nat /\ x % d < d
    BY <1>1, <2>1
  <2>. HIDE DEF k
  <2>3. d * k \in Nat
    BY <1>1, <2>2
  <2>. DEFINE r == x % d  y == d * k
  <2>4. r \in Nat /\ r < d /\ x = y + r /\ y \in Nat /\ Up(w) = x - r
    BY <2>1, <2>2, <2>3
  <2>. HIDE DEF r, y
  <2>5. Up(w) = y
    BY <2>1, <2>4
  <2>6. w <= y
    BY <1>1, <2>4 DEF x
  <2>. QED
    BY <2>2, <2>4, <2>5, <2>6 DEF y
<1>3. ASSUME NEW k \in Nat, d * k <= End PROVE d * k \in Breaks
  <2>1. k <= HeapPages
    <3>. HIDE DEF d
    <3>. QED
      BY <1>1, <1>3
  <2>. QED
    BY <1>1, <2>1 DEF Breaks
<1>4. \A brk \in Breaks : \E k \in Nat : brk = d * k /\ k <= HeapPages
  BY <1>1 DEF Breaks
<1>. QED
  BY <1>1, <1>2, <1>3, <1>4

LEMMA Trims ==
  ASSUME NEW h, NEW B, NEW z, NEW F, Heap(h, B, z, F)
  PROVE  \E y : /\ Heap(Trim(h), B, y, F) /\ Trim(h).top = h.top
                /\ \A q \in B : q # h.top => y[q] = z[q]
                /\ Keeps(h.mem, Trim(h).mem, B \ {h.top})
<1>. DEFINE d == PageWords  top == h.top  t == TopSize(h)
            j == ((t - MinSize + d - 1) \div d - 1)  extra == j * d  b == h.brk - extra
            n == SetHead(Set(h.mem, b, h.brk - 1, 0), top, b - top)
            g == [h EXCEPT !.mem = n, !.brk = b]
<1>1. /\ d \in Nat /\ d > 0 /\ HeapPages \in Nat /\ End = d * HeapPages
      /\ Fields(h) /\ Tiled(h.mem, top, h.brk, B, z, F) /\ Lists(h.bins, h.blocks, F, z)
  BY Pages DEF Heap
<1>2. /\ h.brk \in Nat /\ h.brk <= End /\ End \in Nat /\ top \in B /\ top \in Nat /\ z[top] \in Nat /\ z[top] >= 4
      /\ top + z[top] = h.brk /\ h.mem \in Memory /\ h.brk \in Breaks /\ F \subseteq B /\ top \notin F
      /\ IsPlace(h.brk) /\ IsPlace(top)
  BY <1>1, TiledFacts DEF Tiled, Memory
<1>3. t = z[top]
  BY <1>1, <1>2, TagsOfTiled DEF TopSize, NULL
<1>4. CASE extra < d
  <2>1. Trim(h) = h
    BY <1>4 DEF Trim
  <2>2. Keeps(h.mem, h.mem, B \ {top})
    BY DEF Keeps, KeptChunk
  <2>. QED
    BY <2>1, <2>2
<1>5. CASE ~(extra < d)
  <2>1. /\ extra \in Int /\ b \in Nat /\ b >= top + 4 /\ b <= h.brk /\ b \in Breaks
    <3>. DEFINE x == t - 4 + d - 1  q == x \div d
    <3>1. x \in Nat
      BY <1>1, <1>2, <1>3
    <3>2. q \in Nat /\ j = q - 1 /\ d * q <= x
      <4>1. j = q - 1
        BY DEF MinSize
      <4>. HIDE DEF x, d
      <4>. QED
        BY <1>1, <3>1, <4>1
    <3>. HIDE DEF q, j
    <3>3. PICK k \in Nat : h.brk = d * k /\ k <= HeapPages
      BY <1>1, <1>2, Pages
    <3>4. extra = d * q - d
      <4>. HIDE DEF d
      <4>. QED
        BY <1>1, <3>2
    <3>5. extra <= t - 5
      <4>. DEFINE v == d * q
      <4>1. v \in Int
        BY <1>1, <3>2
      <4>2. v <= t - 4 + d - 1 /\ extra = v - d
        BY <3>2, <3>4
      <4>. HIDE DEF v, extra, d
      <4>. QED
        BY <1>1, <1>2, <1>3, <4>1, <4>2
    <3>6. extra \in Int /\ extra >= 0
      <4>1. extra \in Int
        BY <1>1, <3>2
      <4>. HIDE DEF extra, d
      <4>. QED
        BY <1>1, <1>5, <4>1
    <3>7. b \in Nat /\ b >= top + 4 /\ b <= h.brk
      <4>. HIDE DEF extra
      <4>. QED
        BY <1>2, <1>3, <3>5, <3>6
    <3>8. b = d * (k - q + 1) /\ k - q + 1 \in Int
      <4>. HIDE DEF d
      <4>. QED
        BY <1>1, <3>2, <3>3, <3>4
    <3>9. k - q + 1 \in Nat
      <4>. DEFINE i == k - q + 1
      <4>1. d * i >= 0 /\ i \in Int
        BY <3>7, <3>8
      <4>. HIDE DEF i, d
      <4>2. i >= 0
        BY <1>1, <4>1
      <4>. QED
        BY <4>1, <4>2 DEF i
    <3>10. b <= End
      <4>. HIDE DEF b
      <4>. QED
        BY <1>2, <3>7
    <3>11. b \in Breaks
      <4>. DEFINE i == k - q + 1
      <4>1. i \in Nat /\ b = PageWords * i
        BY <3>8, <3>9
      <4>. HIDE DEF i, b
      <4>. QED
        BY <3>10, <4>1, Pages
    <3>. QED
      BY <3>6, <3>7, <3>11
  <2>. HIDE DEF b
  <2>2. Trim(h) = g
    <3>1. Trim(h) = IF extra < d THEN h
                    ELSE [h EXCEPT !.mem = SetHead(Set(@, b, h.brk - 1, 0), h.top, b - h.top), !.brk = b]
      BY DEF Trim, b
    <3>. QED
      BY <1>5, <3>1
  <2>. HIDE DEF extra, j
  <2>3. /\ But(h.mem, Set(h.mem, b, h.brk - 1, 0), b .. h.brk - 1)
        /\ \A w \in Words0 : w \in b .. h.brk - 1 => Set(h.mem, b, h.brk - 1, 0)[w] = 0
    <3>1. \A from, to : But(h.mem, Set(h.mem, from, to, 0), from .. to)
      BY <1>2, RangeIsSet
    <3>2. \A from, to : \A w \in Words0 : w \in from .. to => Set(h.mem, from, to, 0)[w] = 0
      BY <1>2 DEF Set, Memory
    <3>. QED
      BY <3>1, <3>2
  <2>. DEFINE c == Set(h.mem, b, h.brk - 1, 0)
  <2>4. But(c, n, {top + 1}) /\ n[top + 1] = (b - top) + 1
    <3>1. c \in Memory
      BY <2>3, ButIsMemory
    <3>2. top \in Int /\ top + 1 \in Words0 /\ b - top \in Int
      BY <1>2, <2>1 DEF Words0
    <3>. HIDE DEF c
    <3>3. \A s \in Int : But(c, SetHead(c, top, s), {top + 1}) /\ SetHead(c, top, s)[top + 1] = s + 1
      BY <3>1, <3>2, HeadIsSet
    <3>. QED
      BY <3>2, <3>3 DEF c
  <2>5. \A w \in Words0 : (w <= top => n[w] = h.mem[w]) /\ (b <= w => n[w] = 0)
    <3>1. \A w \in Words0 : w \in Int
      BY <1>2 DEF Words0
    <3>. SUFFICES ASSUME NEW w \in Words0 PROVE (w <= top => n[w] = h.mem[w]) /\ (b <= w => n[w] = 0)
      OBVIOUS
    <3>2. h.brk <= w => h.mem[w] = 0
      BY <1>1 DEF Tiled
    <3>3. w # top + 1 => n[w] = c[w]
      BY <2>4 DEF But
    <3>4. w \notin b .. h.brk - 1 => c[w] = h.mem[w]
      BY <2>3 DEF But
    <3>. HIDE DEF n, c
    <3>5. w <= top => n[w] = h.mem[w]
      BY <1>2, <2>1, <3>1, <3>3, <3>4
    <3>6. b <= w => n[w] = 0
      <4>1. b <= w => w # top + 1 /\ (w \in b .. h.brk - 1 \/ h.brk <= w)
        BY <1>2, <2>1, <3>1
      <4>2. w \in b .. h.brk - 1 => c[w] = 0
        BY <2>3 DEF c
      <4>. QED
        BY <1>2, <3>1, <3>2, <3>3, <3>4, <4>1, <4>2
    <3>. QED
      BY <3>5, <3>6
  <2>6. n \in Memory
    BY <2>4, ButIsMemory
  <2>. HIDE DEF n
  <2>7. PICK y : /\ Tiled(n, top, b, B, y, F) /\ Keeps(h.mem, n, B \ {top})
                 /\ \A q \in B : q # top => y[q] = z[q]
    <3>1. Retopped(h.mem, n, top, b)
      BY <2>1, <2>4, <2>5, <2>6 DEF Retopped
    <3>. HIDE DEF top
    <3>. QED
      BY <1>1, <3>1, TopResized
  <2>8. Lists(h.bins, h.blocks, F, y)
    <3>1. \A c1 \in F : y[c1] = z[c1]
      BY <1>2, <2>7
    <3>. QED
      BY <1>1, <3>1, ListsStay
  <2>9. Fields(g) /\ g.mem = n /\ g.top = top /\ g.brk = b /\ g.bins = h.bins /\ g.blocks = h.blocks
    BY <1>1 DEF Fields
  <2>10. Heap(g, B, y, F)
    BY <2>7, <2>8, <2>9 DEF Heap
  <2>. QED
    BY <2>2, <2>7, <2>9, <2>10
<1>. QED
  BY <1>4, <1>5

(***************************************************************************)
(* The blocks in use.                                                      *)

(***************************************************************************)
(* What fREe makes free: from the free chunk before p, if there is one, to *)
(* the end of the free chunk after it, or of the top.                      *)
LEMMA FreeSpan ==
  ASSUME NEW m, NEW top, NEW brk, NEW B, NEW z, NEW F, Tiled(m, top, brk, B, z, F),
         NEW p \in B, p \notin F, p # top,
         NEW start, start = IF ~PrevInuse(m, p) THEN p - m[p] ELSE p,
         NEW next, next = p + ChunkSize(m, p),
         NEW end, end = IF (next # top /\ ~Inuse(m, next)) \/ next = top
                        THEN next + ChunkSize(m, next) ELSE next
  PROVE  /\ start \in B /\ next \in B /\ end \in B \cup {brk}
         /\ start <= p /\ p < next /\ next <= end /\ start < end /\ start < next
         /\ start \notin Ends(F, z)
         /\ ~PrevInuse(m, p) => start \in F
         /\ PrevInuse(m, p) => start = p
         /\ next # top => (~Inuse(m, next) <=> next \in F)
         /\ end = next \/ end = next + z[next]
         /\ end = brk <=> next = top
         /\ end # brk => end \in B \ F /\ end # top /\ (end # next => next \in F)
         /\ \A q \in B : start <= q /\ q < end => q \in {start, p, next}
         /\ next \in F => next < end
<1>1. /\ \A q \in B : /\ q \in Nat /\ z[q] \in Nat /\ z[q] >= 4
                      /\ q + z[q] <= brk /\ q + z[q] \in B \cup {brk} /\ q + 3 < brk
      /\ \A q, r \in B : q < r => q + z[q] <= r
      /\ top \in B /\ top \notin F /\ top \notin Ends(F, z) /\ F \subseteq B
      /\ \A q \in B : q + z[q] = brk => q = top
      /\ top + z[top] = brk /\ brk \in Nat
  BY TiledFacts DEF Tiled
<1>2. /\ \A q \in B : /\ ChunkSize(m, q) = z[q]
                      /\ PrevInuse(m, q) <=> q \notin Ends(F, z)
                      /\ q # top => q + z[q] \in B /\ (Inuse(m, q) <=> q \notin F)
      /\ \A q \in F : m[q + z[q]] = z[q] /\ q + z[q] \in B \ F /\ q + z[q] # top
  <2>1. \A q \in B : /\ ChunkSize(m, q) = z[q]
                     /\ PrevInuse(m, q) <=> q \notin Ends(F, z)
                     /\ q # top => q + z[q] \in B /\ (Inuse(m, q) <=> q \notin F)
    BY TagsOfTiled
  <2>2. \A q \in F : m[q + z[q]] = z[q] /\ q + z[q] \in B \ F /\ q + z[q] # top
    BY <1>1, TagsOfTiled
  <2>. QED
    BY <2>1, <2>2
<1>3. next = p + z[p] /\ next \in B /\ p \in Nat /\ next \in Nat /\ p < next
  BY <1>1, <1>2
<1>4. end = IF next \in F \/ next = top THEN next + z[next] ELSE next
  BY <1>1, <1>2, <1>3
<1>5. /\ start \in B /\ start <= p /\ start \notin Ends(F, z)
      /\ ~PrevInuse(m, p) => start \in F /\ start + z[start] = p
      /\ PrevInuse(m, p) => start = p
  <2>1. CASE PrevInuse(m, p)
    BY <1>2, <1>3, <2>1
  <2>2. CASE ~PrevInuse(m, p)
    <3>1. PICK q \in F : q + z[q] = p
      BY <1>2, <2>2 DEF Ends
    <3>2. m[p] = z[q] /\ q \in B /\ q \in Nat /\ z[q] \in Nat /\ z[q] >= 4
      BY <1>1, <1>2, <3>1
    <3>3. start = q
      BY <1>3, <2>2, <3>1, <3>2
    <3>4. q \notin Ends(F, z)
      BY <1>2 DEF Ends
    <3>. QED
      BY <1>3, <2>2, <3>1, <3>2, <3>3, <3>4
  <2>. QED
    BY <2>1, <2>2
<1>6. start \in Nat /\ start < next
  BY <1>1, <1>3, <1>5
<1>7. next # top => next < brk /\ next # brk
  BY <1>1, <1>3
<1>8. CASE next = top
  <2>1. end = brk /\ next < end
    BY <1>1, <1>3, <1>4, <1>8
  <2>2. ASSUME NEW q \in B, start <= q, q < end PROVE q \in {start, p, next}
    <3>1. q \in Nat /\ (q < p => q = start) /\ (p < q => next <= q) /\ ~(next < q)
      BY <1>1, <1>3, <1>5, <1>6, <1>8, <2>1, <2>2
    <3>. QED
      BY <1>3, <3>1
  <2>. QED
    BY <1>1, <1>2, <1>3, <1>5, <1>6, <1>8, <1>4, <2>1, <2>2
<1>9. CASE next # top /\ next \in F
  <2>1. end = next + z[next] /\ end \in B \ F /\ end # top /\ next < end /\ end # brk
    BY <1>1, <1>2, <1>3, <1>4, <1>9
  <2>2. ASSUME NEW q \in B, start <= q, q < end PROVE q \in {start, p, next}
    <3>1. q \in Nat /\ (q < p => q = start) /\ (p < q => next <= q) /\ ~(next < q)
      BY <1>1, <1>3, <1>5, <1>6, <2>1, <2>2
    <3>. QED
      BY <1>3, <3>1
  <2>. QED
    BY <1>2, <1>3, <1>5, <1>6, <1>9, <2>1, <2>2
<1>10. CASE next # top /\ next \notin F
  <2>1. end = next /\ end \in B \ F /\ end # top /\ end # brk
    BY <1>3, <1>4, <1>7, <1>10
  <2>2. ASSUME NEW q \in B, start <= q, q < end PROVE q \in {start, p, next}
    <3>1. q \in Nat /\ (q < p => q = start) /\ (p < q => next <= q)
      BY <1>1, <1>3, <1>5, <1>6, <2>2
    <3>. QED
      BY <1>3, <2>1, <2>2, <3>1
  <2>. QED
    BY <1>2, <1>3, <1>5, <1>6, <1>10, <2>1, <2>2
<1>. QED
  BY <1>8, <1>9, <1>10
(* What is unlinked is gone from its list, and nothing is put in.          *)
Within(t, s) == \A k \in 1 .. Len(t) : \E l \in 1 .. Len(s) : s[l] = t[k]

LEMMA UnlinkKeeps ==
  ASSUME NEW h, Fields(h), NEW p
  PROVE  /\ Fields(Unlink(h, p)) /\ Unlink(h, p).mem = h.mem /\ Unlink(h, p).blocks = h.blocks
         /\ Unlink(h, p).top = h.top /\ Unlink(h, p).brk = h.brk
         /\ Removal(Unlink(h, p).bins, h.bins, p)
BY UnlinkFields DEF Removal

LEMMA UnlinkedIn ==
  ASSUME NEW h, Fields(h), NEW F, NEW z, Lists(h.bins, h.blocks, F, z), NEW p
  PROVE  Within(Unlink(h, p).bins[1], h.bins[1])
<1>. DEFINE i == 1  s == h.bins[1]  t == Unlink(h, p).bins[1]
<1>0. i \in Bins
  BY OneIsABin
<1>1. s \in Seq(Nat) /\ \A j, l \in 1 .. Len(s) : s[j] = s[l] => j = l
  <2>1. s \in Seq(Nat)
    BY <1>0, ListLengths
  <2>2. \A j, l \in 1 .. Len(h.bins[i]) : h.bins[i][j] = h.bins[i][l] => j = l
    BY <1>0 DEF Lists
  <2>. QED
    BY <2>1, <2>2
<1>2. t = RemoveFirst(s, p)
  <2>1. Removal(Unlink(h, p).bins, h.bins, p)
    BY UnlinkKeeps
  <2>. QED
    BY <1>0, <2>1 DEF Removal
<1>3. PICK f : Thins(s, t, p, f)
  <2>. HIDE DEF s, t
  <2>. QED
    BY <1>1, <1>2, RemovedFirst DEF Thinned
<1>. HIDE DEF s, t
<1>4. ASSUME NEW k \in 1 .. Len(t) PROVE \E l \in 1 .. Len(s) : s[l] = t[k]
  <2>1. f[k] \in 1 .. Len(s) /\ t[k] = s[f[k]]
    BY <1>3, <1>4 DEF Thins
  <2>. QED
    BY <2>1
<1>. QED
  BY <1>4 DEF s, t, Within

LEMMA WithinWithin ==
  ASSUME NEW s, NEW t, NEW u, Within(t, s), Within(u, t)
  PROVE  Within(u, s)
<1>1. ASSUME NEW k \in 1 .. Len(u) PROVE \E l \in 1 .. Len(s) : s[l] = u[k]
  <2>1. PICK j \in 1 .. Len(t) : t[j] = u[k]
    BY DEF Within
  <2>2. PICK l \in 1 .. Len(s) : s[l] = t[j]
    BY DEF Within
  <2>. QED
    BY <2>1, <2>2
<1>. QED
  BY <1>1 DEF Within

(* The remainder's list is empty once the remainder is taken out of it.    *)
LEMMA RemainderGone ==
  ASSUME NEW h, Fields(h), NEW F, NEW z, Lists(h.bins, h.blocks, F, z),
         NEW g, Fields(g), NEW G, Lists(g.bins, g.blocks, G, z), NEW c,
         c \in Binned(h, 1), c \notin G,
         Within(g.bins[1], h.bins[1])
  PROVE  g.bins[1] = <<>>
<1>. DEFINE s == h.bins[1]  t == g.bins[1]
<1>1. s \in Seq(Nat) /\ t \in Seq(Nat) /\ Len(s) \in Nat /\ Len(s) <= 1 /\ Len(t) \in Nat
  BY OneIsABin, ListLengths DEF Lists
<1>2. \A k \in 1 .. Len(t) : t[k] \in G
  BY OneIsABin DEF Lists
<1>3. PICK j \in 1 .. Len(s) : s[j] = c
  BY <1>1 DEF Binned, Range
<1>. HIDE DEF s, t
<1>4. j = 1 /\ \A l \in 1 .. Len(s) : l = 1
  BY <1>1, <1>3
<1>5. \A k \in 1 .. Len(t) : FALSE
  <2>1. \A k \in 1 .. Len(t) : \E l \in 1 .. Len(s) : s[l] = t[k]
    BY DEF s, t, Within
  <2>. QED
    BY <1>2, <1>3, <1>4, <2>1
<1>6. Len(t) = 0
  <2>1. Len(t) >= 1 => 1 \in 1 .. Len(t)
    BY <1>1
  <2>. QED
    BY <1>1, <1>5, <2>1
<1>. QED
  BY <1>1, <1>6, EmptySeq DEF t
(* The lists without the free chunks that fREe makes part of its own.      *)
Apart(g, h, F, z, start, other) ==
  /\ Fields(g) /\ g.mem = h.mem /\ g.top = h.top /\ g.brk = h.brk /\ g.blocks = h.blocks
  /\ Lists(g.bins, h.blocks, F \ {start, other}, z)
  /\ start \in Binned(h, 1) \/ other \in Binned(h, 1) => g.bins[1] = <<>>

LEMMA Parted ==
  ASSUME NEW h, Fields(h), NEW F, NEW z, Lists(h.bins, h.blocks, F, z),
         NEW one, NEW other, NEW g, g = Unlink(one, other),
         NEW start, (one = h /\ start \notin F) \/ one = Unlink(h, start)
  PROVE  Apart(g, h, F, z, start, other)
<1>1. /\ Fields(one) /\ one.mem = h.mem /\ one.top = h.top /\ one.brk = h.brk /\ one.blocks = h.blocks
      /\ Lists(one.bins, h.blocks, F \ {start}, z)
  <2>1. CASE one = h /\ start \notin F
    <3>1. F \ {start} = F
      BY <2>1
    <3>. QED
      BY <2>1, <3>1
  <2>2. CASE one = Unlink(h, start)
    BY <2>2, UnlinkKeeps, Unlinked
  <2>. QED
    BY <2>1, <2>2
<1>2. /\ Fields(g) /\ g.mem = h.mem /\ g.top = h.top /\ g.brk = h.brk /\ g.blocks = h.blocks
  BY <1>1, UnlinkKeeps
<1>3. Lists(g.bins, h.blocks, F \ {start, other}, z)
  <2>1. (F \ {start}) \ {other} = F \ {start, other}
    OBVIOUS
  <2>2. Lists(one.bins, one.blocks, F \ {start}, z)
    BY <1>1
  <2>3. Lists(g.bins, one.blocks, (F \ {start}) \ {other}, z)
    BY <1>1, <2>2, Unlinked
  <2>. QED
    BY <1>1, <2>1, <2>3
<1>4. Within(g.bins[1], h.bins[1])
  <2>1. Lists(one.bins, one.blocks, F \ {start}, z)
    BY <1>1
  <2>2. Within(g.bins[1], one.bins[1])
    BY <1>1, <2>1, UnlinkedIn
  <2>3. CASE one = h
    BY <2>2, <2>3
  <2>4. CASE one = Unlink(h, start)
    <3>1. Within(one.bins[1], h.bins[1])
      BY <2>4, UnlinkedIn
    <3>. QED
      BY <2>2, <3>1, WithinWithin
  <2>. QED
    BY <2>3, <2>4
<1>5. ASSUME NEW c \in Binned(h, 1), c = start \/ c = other PROVE g.bins[1] = <<>>
  <2>1. c \notin F \ {start, other}
    BY <1>5
  <2>2. Lists(g.bins, g.blocks, F \ {start, other}, z)
    BY <1>2, <1>3
  <2>. QED
    BY <1>2, <1>4, <2>1, <2>2, RemainderGone
<1>. QED
  BY <1>2, <1>3, <1>5 DEF Apart
(* The heap has the chunks U in use.                                       *)
Used(h, B, F) == B \ (F \cup {h.top})
Holds(h, U) == \E B, z, F : Heap(h, B, z, F) /\ U = Used(h, B, F)

LEMMA FreeHolds ==
  ASSUME NEW h, NEW U, Holds(h, U), NEW p \in U
  PROVE  Holds(fREe(h, p), U \ {p}) /\ Keeps(h.mem, fREe(h, p).mem, U \ {p})
<1>1. PICK B, z, F : Heap(h, B, z, F) /\ U = Used(h, B, F)
  BY DEF Holds
<1>. DEFINE m == h.mem  top == h.top  brk == h.brk
            start == IF ~PrevInuse(m, p) THEN p - m[p] ELSE p
            next == p + ChunkSize(m, p)
            end == IF (next # top /\ ~Inuse(m, next)) \/ next = top
                   THEN next + ChunkSize(m, next) ELSE next
            one == IF ~PrevInuse(m, p) THEN Unlink(h, start) ELSE h
            other == IF next # top /\ ~Inuse(m, next) THEN next ELSE p
            g == Unlink(one, other)
            n == Freed(m, start, next, end)
            s == end - start
            t == [g EXCEPT !.mem = n, !.top = start]
            f == [g EXCEPT !.mem = SetFoot(n, start, s)]
            C == Join(B, start, end)
            y == With(z, start, s)
            G == Beside(F, start, end)
<1>2. fREe(h, p) =
        IF next = top THEN (IF s >= TrimThreshold THEN Trim(t) ELSE t)
        ELSE IF (~PrevInuse(m, p) /\ start \in Binned(h, 1)) \/ ((next # top /\ ~Inuse(m, next)) /\ next \in Binned(h, 1))
             THEN LinkRemainder(f, start) ELSE FrontLink(f, start, s)
  BY DEF fREe, Freed, LastRemainder
<1>3. /\ Fields(h) /\ Tiled(m, top, brk, B, z, F) /\ Lists(h.bins, h.blocks, F, z)
      /\ p \in B /\ p \notin F /\ p # top /\ U = B \ (F \cup {top})
  BY <1>1 DEF Heap, Used
<1>4. /\ start \in B /\ next \in B /\ end \in B \cup {brk}
      /\ start <= p /\ p < next /\ next <= end /\ start < end /\ start < next
      /\ start \notin Ends(F, z)
      /\ ~PrevInuse(m, p) => start \in F
      /\ PrevInuse(m, p) => start = p
      /\ next # top => (~Inuse(m, next) <=> next \in F)
      /\ end = next \/ end = next + z[next]
      /\ end = brk <=> next = top
      /\ end # brk => end \in B \ F /\ end # top /\ (end # next => next \in F)
      /\ \A q \in B : start <= q /\ q < end => q \in {start, p, next}
      /\ next \in F => next < end
  BY <1>3, FreeSpan
<1>. HIDE DEF m, top, brk, start, next, end
<1>5. /\ \A q \in B : q \in Nat /\ z[q] \in Nat
      /\ F \subseteq B /\ top \in B /\ top \notin F /\ brk \in Nat /\ z \in [Nat -> Nat]
      /\ p \in Nat /\ start \in Nat /\ next \in Nat /\ end \in Nat /\ s \in Nat
  BY <1>3, <1>4, TiledFacts DEF Tiled
<1>6. G = F \ {start, other} /\ start \notin G
  <2>1. ASSUME NEW q \in G PROVE q \in F \ {start, other}
    <3>1. q \in F /\ q \in Nat /\ (q < start \/ end <= q)
      BY <1>5 DEF Beside
    <3>. QED
      BY <1>3, <1>4, <1>5, <3>1
  <2>2. ASSUME NEW q \in F \ {start, other} PROVE q \in G
    <3>1. q \in B /\ q \in Nat /\ q # top
      BY <1>5
    <3>2. CASE start <= q /\ q < end
      <4>1. q = next /\ next # top
        BY <1>3, <1>4, <3>1, <3>2
      <4>. QED
        BY <1>4, <4>1
    <3>. QED
      BY <1>5, <3>1, <3>2 DEF Beside
  <2>. QED
    BY <1>5, <2>1, <2>2 DEF Beside
<1>7. /\ Fields(g) /\ g.mem = m /\ g.top = top /\ g.brk = brk /\ g.blocks = h.blocks
      /\ Lists(g.bins, h.blocks, G, z)
      /\ start \in Binned(h, 1) \/ other \in Binned(h, 1) => g.bins[1] = <<>>
  <2>1. (one = h /\ start \notin F) \/ one = Unlink(h, start)
    BY <1>3, <1>4
  <2>. HIDE DEF one, other
  <2>2. /\ Fields(g) /\ g.mem = h.mem /\ g.top = h.top /\ g.brk = h.brk /\ g.blocks = h.blocks
        /\ Lists(g.bins, h.blocks, F \ {start, other}, z)
        /\ start \in Binned(h, 1) \/ other \in Binned(h, 1) => g.bins[1] = <<>>
    <3>1. g = Unlink(one, other)
      BY DEF g
    <3>. HIDE DEF g, G
    <3>2. Fields(h) /\ Lists(h.bins, h.blocks, F, z)
      BY <1>3
    <3>3. Apart(g, h, F, z, start, other)
      BY <2>1, <3>1, <3>2, Parted
    <3>. QED
      BY <3>3 DEF Apart
  <2>. QED
    BY <1>6, <2>2 DEF m, top, brk
<1>. HIDE DEF one, other, g, s
<1>8. /\ n \in Memory /\ Around(m, n, start, end, brk) /\ n[start + 1] = s + 1
      /\ end # brk => n[end + 1] = z[end]
      /\ end # brk =>
           /\ SetFoot(n, start, s) \in Memory
           /\ Around(m, SetFoot(n, start, s), start, end, brk)
           /\ SetFoot(n, start, s)[start + 1] = s + 1
           /\ SetFoot(n, start, s)[end + 1] = z[end]
           /\ SetFoot(n, start, s)[end] = s
  BY <1>3, <1>4, FreedMemory DEF s
<1>9. Bit(start, F, z) = 1
  BY <1>4 DEF Bit
<1>. HIDE DEF n
<1>10. /\ y[start] = s /\ \A q \in B : q # start => y[q] = z[q]
  BY <1>5, WithIs
<1>11. \A q \in G : y[q] = z[q]
  BY <1>5, <1>6, <1>10
<1>12. Lists(g.bins, h.blocks, G, y)
  BY <1>7, <1>11, ListsStay
<1>. HIDE DEF y
<1>13. Beyond(B, z, C, y, start, end)
  BY <1>4, <1>5, <1>10 DEF Join, Beyond
<1>14. U \subseteq B \ {top}
  BY <1>3
<1>15. Outside(U, start, end) = U \ {p}
  <2>1. ASSUME NEW q \in U, q # p PROVE q < start \/ end <= q
    <3>1. q \in B /\ q \in Nat /\ q \notin F /\ q # top
      BY <1>3, <1>5
    <3>2. CASE start <= q /\ q < end
      BY <1>4, <2>1, <3>1, <3>2
    <3>. QED
      BY <1>5, <3>1, <3>2
  <2>2. ~(p < start \/ end <= p)
    BY <1>4, <1>5
  <2>. QED
    BY <2>1, <2>2 DEF Outside
<1>16. CASE next = top
  <2>1. end = brk
    BY <1>4, <1>16
  <2>2. Tiled(n, start, brk, C, y, G)
    <3>1. n[start + 1] = (end - start) + Bit(start, F, z)
      BY <1>8, <1>9 DEF s
    <3>2. Tiled(n, IF end = brk THEN start ELSE top, brk, Join(B, start, end),
                With(z, start, end - start), Beside(F, start, end) \cup {})
      BY <1>3, <1>4, <1>8, <2>1, <3>1, OneChunk
    <3>3. Beside(F, start, end) \cup {} = G
      OBVIOUS
    <3>. QED
      BY <2>1, <3>2, <3>3 DEF y, s
  <2>3. Keeps(m, n, U \ {p})
    <3>1. Keeps(m, n, Outside(U, start, end))
      BY <1>3, <1>4, <1>8, <1>13, <1>14, <2>2, OutsideIsKept
    <3>. QED
      BY <1>15, <3>1
  <2>4. Fields(t) /\ t.mem = n /\ t.top = start /\ t.brk = brk /\ t.bins = g.bins /\ t.blocks = h.blocks
    BY <1>7 DEF Fields
  <2>. HIDE DEF t, C, G
  <2>5. Heap(t, C, y, G)
    BY <1>12, <2>2, <2>4 DEF Heap
  <2>6. C \ (G \cup {start}) = U \ {p}
    <3>1. ASSUME NEW q PROVE q \in C \ (G \cup {start}) <=> q \in Outside(U, start, end)
      <4>1. q \in B => q \in Nat /\ q <= end /\ q # end
        BY <1>3, <2>1, <1>5, TiledFacts
      <4>2. q \in C <=> q \in B /\ (q <= start \/ end <= q)
        BY DEF C, Join
      <4>3. q \in G <=> q \in F /\ (q < start \/ end <= q)
        BY DEF G, Beside
      <4>4. q \in Outside(U, start, end) <=> q \in B /\ q \notin F /\ q # top /\ (q < start \/ end <= q)
        BY <1>3 DEF Outside
      <4>5. start < top
        BY <1>4, <1>16
      <4>. QED
        BY <1>5, <2>1, <4>1, <4>2, <4>3, <4>4, <4>5
    <3>. QED
      BY <1>15, <3>1
  <2>7. CASE s >= TrimThreshold
    <3>1. fREe(h, p) = Trim(t)
      BY <1>2, <1>16, <2>7
    <3>2. PICK x : /\ Heap(Trim(t), C, x, G) /\ Trim(t).top = t.top
                   /\ Keeps(t.mem, Trim(t).mem, C \ {t.top})
      BY <2>5, Trims
    <3>3. U \ {p} = Used(Trim(t), C, G)
      BY <2>4, <2>6, <3>2 DEF Used
    <3>4. Keeps(n, Trim(t).mem, U \ {p})
      BY <2>4, <2>6, <3>2 DEF Keeps
    <3>5. Keeps(m, Trim(t).mem, U \ {p})
      BY <2>3, <3>4, KeepsOn
    <3>. QED
      BY <3>1, <3>2, <3>3, <3>5 DEF Holds, m
  <2>8. CASE ~(s >= TrimThreshold)
    <3>1. fREe(h, p) = t
      BY <1>2, <1>16, <2>8
    <3>2. U \ {p} = Used(t, C, G)
      BY <2>4, <2>6 DEF Used
    <3>. QED
      BY <2>3, <2>4, <2>5, <3>1, <3>2 DEF Holds, m
  <2>. QED
    BY <2>7, <2>8
<1>17. CASE next # top
  <2>. DEFINE k == SetFoot(n, start, s)  H == G \cup {start}
  <2>1. end # brk /\ end \in B \ F /\ end # top
    BY <1>4, <1>17
  <2>2. Tiled(k, top, brk, C, y, H)
    <3>1. k[start + 1] = (end - start) + Bit(start, F, z) /\ k[end] = end - start /\ k[end + 1] = z[end]
          /\ Around(m, k, start, end, brk)
      BY <1>8, <1>9, <2>1 DEF s
    <3>. HIDE DEF k
    <3>2. k[end + 1] = z[end] + (IF {start} = {} THEN 1 ELSE 0)
      BY <1>5, <2>1, <3>1
    <3>3. Tiled(k, IF end = brk THEN start ELSE top, brk, Join(B, start, end),
                With(z, start, end - start), Beside(F, start, end) \cup {start})
      BY <1>3, <1>4, <2>1, <3>1, <3>2, OneChunk
    <3>. QED
      BY <2>1, <3>3 DEF y, s
  <2>3. Keeps(m, k, U \ {p})
    <3>1. Around(m, k, start, end, brk)
      BY <1>8, <2>1
    <3>. HIDE DEF k, H
    <3>2. Keeps(m, k, Outside(U, start, end))
      BY <1>3, <1>4, <1>13, <1>14, <2>2, <3>1, OutsideIsKept
    <3>. QED
      BY <1>15, <3>2
  <2>4. Fields(f) /\ f.mem = k /\ f.top = top /\ f.brk = brk /\ f.bins = g.bins /\ f.blocks = h.blocks
    BY <1>7 DEF Fields
  <2>. HIDE DEF f, k, C, G
  <2>5. C \ (H \cup {top}) = U \ {p}
    <3>1. ASSUME NEW q PROVE q \in C \ (H \cup {top}) <=> q \in Outside(U, start, end)
      <4>1. q \in B => q \in Nat
        BY <1>5
      <4>2. q \in C <=> q \in B /\ (q <= start \/ end <= q)
        BY DEF C, Join
      <4>3. q \in H <=> (q \in F /\ (q < start \/ end <= q)) \/ q = start
        BY DEF G, Beside
      <4>4. q \in Outside(U, start, end) <=> q \in B /\ q \notin F /\ q # top /\ (q < start \/ end <= q)
        BY <1>3 DEF Outside
      <4>. QED
        BY <1>4, <1>5, <4>1, <4>2, <4>3, <4>4
    <3>. QED
      BY <1>15, <3>1
  <2>6. Lists(f.bins, f.blocks, G, y) /\ f.bins[1] = g.bins[1]
    BY <1>12, <2>4
  <2>7. CASE (~PrevInuse(m, p) /\ start \in Binned(h, 1)) \/ ((next # top /\ ~Inuse(m, next)) /\ next \in Binned(h, 1))
    <3>. DEFINE r == LinkRemainder(f, start)
    <3>1. fREe(h, p) = r
      BY <1>2, <1>17, <2>7
    <3>2. f.bins[1] = <<>>
      BY <1>7, <2>6, <2>7 DEF other
    <3>3. /\ Fields(r) /\ r.mem = k /\ r.top = top /\ r.brk = brk /\ r.blocks = f.blocks
          /\ Lists(r.bins, f.blocks, H, y)
      BY <1>5, <1>6, <2>4, <2>6, <3>2, RemainderLinked, ZenonT(60)
    <3>. HIDE DEF r, H
    <3>4. Heap(r, C, y, H)
      BY <2>2, <3>3 DEF Heap
    <3>5. U \ {p} = Used(r, C, H)
      BY <2>5, <3>3 DEF Used
    <3>. QED
      BY <2>3, <3>1, <3>3, <3>4, <3>5 DEF Holds, m
  <2>8. CASE ~((~PrevInuse(m, p) /\ start \in Binned(h, 1)) \/ ((next # top /\ ~Inuse(m, next)) /\ next \in Binned(h, 1)))
    <3>. DEFINE r == FrontLink(f, start, s)
    <3>1. fREe(h, p) = r
      BY <1>2, <1>17, <2>8
    <3>2. IsSize(s) /\ Sized(f, G, y)
      <4>1. start \in C /\ G \subseteq C
        BY <2>2 DEF Tiled, Frees
      <4>. HIDE DEF H
      <4>2. \A c \in C : ChunkSize(k, c) = y[c] /\ IsSize(y[c])
        BY <2>2, TiledFacts, TagsOfTiled
      <4>. QED
        BY <1>10, <2>4, <4>1, <4>2 DEF Sized
    <3>3. /\ Fields(r) /\ r.mem = f.mem /\ r.top = f.top /\ r.brk = f.brk
          /\ Lists(r.bins, r.blocks, H, y)
      <4>1. Linked(r, f, G, y, start)
        BY <1>5, <1>6, <1>10, <2>4, <2>6, <3>2, FrontLinked
      <4>. QED
        BY <4>1 DEF Linked
    <3>. HIDE DEF r, H
    <3>4. Heap(r, C, y, H)
      BY <2>2, <2>4, <3>3 DEF Heap
    <3>5. U \ {p} = Used(r, C, H)
      BY <2>4, <2>5, <3>3 DEF Used
    <3>. QED
      BY <2>3, <2>4, <3>1, <3>3, <3>4, <3>5 DEF Holds, m
  <2>. QED
    BY <2>7, <2>8
<1>. QED
  BY <1>16, <1>17

(***************************************************************************)
(* A chunk is taken from the lists.                                        *)

(***************************************************************************)
(* Chunk r[2] of heap r[1] is in use besides those of U, for nb words.     *)
Got(r, m, U, nb) ==
  /\ r[2] \in Nat /\ r[2] \notin U /\ Holds(r[1], U \cup {r[2]})
  /\ Keeps(m, r[1].mem, U) /\ ChunkSize(r[1].mem, r[2]) \in nb .. nb + 3

Alone(B, F, p, e) ==
  /\ Join(B, p, e) = B /\ Beside(F, p, e) = F \ {p}
  /\ \A q \in B : p <= q /\ q < e => q = p
  /\ \A U \in SUBSET B : Outside(U, p, e) = U \ {p}

LEMMA ChunkSpan ==
  ASSUME NEW m, NEW top, NEW brk, NEW B, NEW z, NEW F, Tiled(m, top, brk, B, z, F),
         NEW p \in B, NEW e, e = p + z[p]
  PROVE  Alone(B, F, p, e)
<1>1. /\ \A q \in B : q \in Nat /\ (p <= q /\ q < e => q = p)
      /\ F \subseteq B /\ e \in Nat /\ p < e
  <2>1. \A q \in B : p <= q /\ q < e => q = p
    BY NoChunkInside
  <2>2. \A q \in B : q \in Nat /\ z[q] \in Nat /\ z[q] >= 4
    BY TiledFacts
  <2>. QED
    BY <2>1, <2>2, TiledFacts
<1>2. Join(B, p, e) = B
  BY <1>1 DEF Join
<1>3. Beside(F, p, e) = F \ {p}
  BY <1>1 DEF Beside
<1>4. \A U \in SUBSET B : Outside(U, p, e) = U \ {p}
  BY <1>1 DEF Outside
<1>. QED
  BY <1>1, <1>2, <1>3, <1>4 DEF Alone

LEMMA TakeHolds ==
  ASSUME NEW h, NEW B, NEW z, NEW F, Heap(h, B, z, F), NEW p \in F,
         NEW nb \in Nat, z[p] >= nb, z[p] < nb + 4,
         NEW r, r = <<Take(h, p, z[p]), p>>
  PROVE  Got(r, h.mem, Used(h, B, F), nb)
<1>. DEFINE m == h.mem  top == h.top  brk == h.brk  s == z[p]  e == p + s
            n == SetInuseAt(m, e)  u == Unlink(h, p)  g == [u EXCEPT !.mem = n]
            y == With(z, p, s)  G == F \ {p}  U == Used(h, B, F)
<1>1. Fields(h) /\ Tiled(m, top, brk, B, z, F) /\ Lists(h.bins, h.blocks, F, z)
  BY DEF Heap
<1>2. /\ p \in B /\ p \in Nat /\ s \in Nat /\ s >= 4 /\ z \in [Nat -> Nat] /\ F \subseteq B /\ top \in B /\ top \notin F
      /\ brk \in Nat /\ brk <= End /\ End \in Nat /\ m \in Memory
      /\ \A q \in B : q \in Nat
  BY <1>1, TiledFacts DEF Tiled, Memory
<1>3. /\ m[p + 1] = s + Bit(p, F, z) /\ m[e] = s /\ e \in B \ F /\ e # top
      /\ ChunkSize(m, e) = z[e] /\ e + 3 < brk /\ e \in Nat /\ p < e /\ e # brk /\ e - p = s
  <2>1. m[p + 1] = s + Bit(p, F, z) /\ m[e] = s /\ e \in B \ F /\ e # top
    BY <1>1, <1>2, TagsOfTiled
  <2>2. ChunkSize(m, e) = z[e]
    BY <1>1, <2>1, TagsOfTiled
  <2>3. e + 3 < brk /\ e \in Nat
    BY <1>1, <2>1, TiledFacts
  <2>. QED
    BY <1>2, <2>1, <2>2, <2>3
<1>4. Join(B, p, e) = B /\ Beside(F, p, e) = G /\ Outside(U, p, e) = U /\ p \notin U /\ U \subseteq B \ {top}
  <2>1. U \subseteq B /\ U \subseteq B \ {top} /\ p \notin U
    BY DEF Used
  <2>2. Alone(B, F, p, e)
    <3>1. e = p + z[p]
      OBVIOUS
    <3>. HIDE DEF e, m, top, brk
    <3>. QED
      BY <1>1, <1>2, <3>1, ChunkSpan
  <2>3. U \ {p} = U
    BY <2>1
  <2>. HIDE DEF U, e
  <2>. QED
    BY <2>1, <2>2, <2>3 DEF Alone
<1>. HIDE DEF m, top, brk, s, e, U
<1>5. But(m, n, {e + 1}) /\ n[e + 1] = z[e] + 1 /\ n \in Memory
  <2>1. e \in Int /\ e + 1 \in Words0
    BY <1>2, <1>3 DEF Words0
  <2>2. But(m, n, {e + 1}) /\ n[e + 1] = ChunkSize(m, e) + 1
    BY <1>2, <2>1, InuseIsSet
  <2>. QED
    BY <1>3, <2>2, ButIsMemory
<1>. HIDE DEF n
<1>6. Around(m, n, p, e, brk) /\ n[p + 1] = (e - p) + Bit(p, F, z)
  <2>1. \A w \in Words0 : w \in Int
    BY <1>2 DEF Words0
  <2>2. p + 1 \in Words0 /\ p + 1 # e + 1
    BY <1>2, <1>3 DEF Words0
  <2>3. \A w \in Words0 : w # e + 1 => n[w] = m[w]
    BY <1>5 DEF But
  <2>4. n[p + 1] = (e - p) + Bit(p, F, z)
    BY <1>3, <2>2, <2>3
  <2>5. \A w \in Words0 : w <= p \/ e + 1 < w => w # e + 1
    BY <1>2, <1>3, <2>1
  <2>. QED
    BY <1>3, <1>5, <2>3, <2>4, <2>5 DEF Around, Memory
<1>7. Tiled(n, top, brk, B, y, G)
  <2>1. Tiled(n, IF e = brk THEN p ELSE top, brk, Join(B, p, e), With(z, p, e - p), Beside(F, p, e) \cup {})
    BY <1>1, <1>2, <1>3, <1>5, <1>6, OneChunk
  <2>2. Beside(F, p, e) \cup {} = G
    BY <1>4
  <2>. QED
    BY <1>3, <1>4, <2>1, <2>2
<1>8. y[p] = s /\ \A q \in B : q # p => y[q] = z[q]
  BY <1>2, WithIs
<1>9. Lists(u.bins, h.blocks, G, y)
  <2>1. Lists(u.bins, h.blocks, G, z)
    BY <1>1, Unlinked
  <2>2. \A q \in G : y[q] = z[q]
    BY <1>2, <1>8
  <2>. QED
    BY <2>1, <2>2, ListsStay
<1>. HIDE DEF y
<1>10. Fields(g) /\ g.mem = n /\ g.top = top /\ g.brk = brk /\ g.bins = u.bins /\ g.blocks = h.blocks
  <2>1. Fields(u) /\ u.blocks = h.blocks /\ u.top = h.top /\ u.brk = h.brk
    BY <1>1, UnlinkKeeps
  <2>. QED
    BY <2>1 DEF Fields, top, brk
<1>11. r[1] = g /\ r[2] = p
  <2>1. u.mem = m
    BY <1>1, UnlinkKeeps DEF m
  <2>2. Take(h, p, s) = [u EXCEPT !.mem = SetInuseAt(u.mem, e)]
    BY DEF Take, e
  <2>. QED
    BY <2>1, <2>2 DEF s, n
<1>. HIDE DEF g, G
<1>12. Heap(g, B, y, G)
  BY <1>7, <1>9, <1>10 DEF Heap
<1>13. Holds(g, U \cup {p})
  <2>1. U \cup {p} = Used(g, B, G)
    BY <1>2, <1>10 DEF Used, U, G, top
  <2>. QED
    BY <1>12, <2>1 DEF Holds
<1>14. Keeps(m, n, U)
  <2>1. Beyond(B, z, B, y, p, e)
    BY <1>2, <1>3, <1>8 DEF Beyond
  <2>2. e \in B \cup {brk}
    BY <1>3
  <2>3. Keeps(m, n, Outside(U, p, e))
    BY <1>1, <1>2, <1>3, <1>4, <1>6, <1>7, <2>1, <2>2, OutsideIsKept
  <2>. QED
    BY <1>4, <2>3
<1>15. ChunkSize(n, p) = s
  BY <1>2, <1>7, <1>8, TagsOfTiled
<1>16. s \in nb .. nb + 3
  BY <1>2 DEF s
<1>. QED
  BY <1>2, <1>4, <1>10, <1>11, <1>13, <1>14, <1>15, <1>16 DEF Got, U, m
Only(s, p) == \A k \in 1 .. Len(s) : s[k] = p

LEMMA RemainderTaken ==
  ASSUME NEW h, Fields(h), NEW F, NEW z, Lists(h.bins, h.blocks, F, z), NEW p, Only(h.bins[1], p)
  PROVE  Unlink(h, p).bins[1] = <<>>
<1>. DEFINE s == h.bins[1]  t == Unlink(h, p).bins[1]
<1>1. /\ t \in Seq(Nat) /\ Len(t) \in Nat /\ \A k \in 1 .. Len(t) : t[k] # p
      /\ Within(t, s)
  <2>1. Lists(Unlink(h, p).bins, h.blocks, F \ {p}, z)
    BY Unlinked
  <2>2. t \in Seq(Nat) /\ Len(t) \in Nat
    BY <2>1, OneIsABin, ListLengths
  <2>3. \A k \in 1 .. Len(t) : t[k] \in F \ {p}
    BY <2>1, OneIsABin DEF Lists
  <2>4. Within(t, s)
    BY UnlinkedIn
  <2>. QED
    BY <2>2, <2>3, <2>4
<1>2. \A k \in 1 .. Len(s) : s[k] = p
  BY DEF Only
<1>. HIDE DEF s, t
<1>3. \A k \in 1 .. Len(t) : FALSE
  BY <1>1, <1>2 DEF Within
<1>4. Len(t) = 0
  <2>1. Len(t) >= 1 => 1 \in 1 .. Len(t)
    BY <1>1
  <2>. QED
    BY <1>1, <1>3, <2>1
<1>. QED
  BY <1>1, <1>4, EmptySeq DEF t

LEMMA SplitHolds ==
  ASSUME NEW h, NEW B, NEW z, NEW F, Heap(h, B, z, F), NEW p \in F, Only(h.bins[1], p),
         NEW nb, IsSize(nb), z[p] >= nb + 4,
         NEW r, r = <<Split(h, p, z[p], nb), p>>
  PROVE  Got(r, h.mem, Used(h, B, F), nb)
<1>. DEFINE m == h.mem  top == h.top  brk == h.brk  s == z[p]  e == p + s  c == p + nb  l == s - nb
            m1 == SetHead(m, p, nb)  m2 == SetHead(m1, c, l)  n == SetFoot(m2, c, l)
            u == Unlink(h, p)  v == [u EXCEPT !.mem = n]  g == LinkRemainder(v, c)
            x == With(z, p, nb)  y == With(x, c, l)  G == F \ {p}  H == G \cup {c}  C == B \cup {c}
            U == Used(h, B, F)
<1>1. Fields(h) /\ Tiled(m, top, brk, B, z, F) /\ Lists(h.bins, h.blocks, F, z)
  BY DEF Heap
<1>2. /\ p \in B /\ p \in Nat /\ IsSize(s) /\ s \in Nat /\ z \in [Nat -> Nat] /\ F \subseteq B /\ top \in B /\ top \notin F
      /\ brk \in Nat /\ brk <= End /\ End \in Nat /\ m \in Memory
      /\ \A q \in B : q \in Nat
  BY <1>1, TiledFacts DEF Tiled, Memory
<1>3. nb \in Nat /\ nb >= 4 /\ l \in Nat /\ l >= 4 /\ IsSize(l) /\ nb + l = s /\ c \in Nat /\ IsSize(nb)
  BY <1>2 DEF IsSize
<1>4. /\ e \in B \ F /\ e # top /\ e \in Ends(F, z) /\ p \notin Ends(F, z)
      /\ m[e + 1] = z[e] /\ e + 3 < brk /\ e \in Nat /\ p < e /\ e # brk /\ e - p = s
      /\ c + l = e /\ c - p = nb /\ e - c = l /\ p < c /\ c < e
  <2>1. e \in B \ F /\ e # top
    BY <1>1, <1>2, TagsOfTiled
  <2>2. e \in Ends(F, z) /\ p \notin Ends(F, z)
    BY <1>1 DEF Ends, Tiled, Frees
  <2>3. m[e + 1] = z[e] + Bit(e, F, z) /\ z[e] \in Nat
    BY <1>1, <2>1, TagsOfTiled, TiledFacts
  <2>4. e + 3 < brk /\ e \in Nat
    BY <1>1, <2>1, TiledFacts
  <2>5. m[e + 1] = z[e]
    BY <2>2, <2>3 DEF Bit
  <2>. QED
    BY <1>2, <1>3, <2>1, <2>2, <2>4, <2>5
<1>5. Join(B, p, e) = B /\ Beside(F, p, e) = G /\ Outside(U, p, e) = U /\ p \notin U /\ U \subseteq B \ {top}
  <2>1. U \subseteq B /\ U \subseteq B \ {top} /\ p \notin U
    BY DEF Used
  <2>2. Alone(B, F, p, e)
    <3>1. e = p + z[p]
      OBVIOUS
    <3>. HIDE DEF e, m, top, brk
    <3>. QED
      BY <1>1, <1>2, <3>1, ChunkSpan
  <2>3. U \ {p} = U
    BY <2>1
  <2>. HIDE DEF U, e
  <2>. QED
    BY <2>1, <2>2, <2>3 DEF Alone
<1>6. c \notin B
  <2>1. Alone(B, F, p, e)
    <3>1. e = p + z[p]
      OBVIOUS
    <3>. HIDE DEF e, m, top, brk
    <3>. QED
      BY <1>1, <1>2, <3>1, ChunkSpan
  <2>. HIDE DEF e, c
  <2>. QED
    BY <1>2, <1>3, <1>4, <2>1 DEF Alone
<1>. HIDE DEF m, top, brk, s, e, U, c, l
<1>7. /\ n \in Memory /\ But(m, n, {p + 1, c + 1, e})
      /\ n[p + 1] = nb + 1 /\ n[c + 1] = l + 1 /\ n[e] = l /\ n[e + 1] = z[e]
  <2>1. \A w \in Nat : w < brk => w \in Words0
    BY <1>2 DEF Words0
  <2>2. p + 1 \in Words0 /\ c + 1 \in Words0 /\ e \in Words0 /\ e + 1 \in Words0
    <3>1. p + 1 \in Nat /\ p + 1 < brk /\ c + 1 \in Nat /\ c + 1 < brk /\ e < brk /\ e + 1 \in Nat /\ e + 1 < brk
      BY <1>2, <1>3, <1>4
    <3>. QED
      BY <1>4, <2>1, <3>1
  <2>3. p \in Int /\ c \in Int /\ nb \in Int /\ l \in Int
    BY <1>2, <1>3
  <2>4. But(m, m1, {p + 1}) /\ m1[p + 1] = nb + 1 /\ m1 \in Memory
    BY <1>2, <2>2, <2>3, HeadIsSet, ButIsMemory
  <2>. HIDE DEF m1
  <2>5. But(m1, m2, {c + 1}) /\ m2[c + 1] = l + 1 /\ m2 \in Memory
    BY <2>2, <2>3, <2>4, HeadIsSet, ButIsMemory
  <2>. HIDE DEF m2
  <2>6. But(m2, n, {e}) /\ n[e] = l /\ n \in Memory
    <3>1. c + l \in Words0
      BY <1>4, <2>2
    <3>2. But(m2, n, {c + l}) /\ n[c + l] = l
      BY <2>3, <2>5, <3>1, FootIsSet
    <3>. QED
      BY <1>4, <3>2, ButIsMemory
  <2>. HIDE DEF n
  <2>7. p + 1 # c + 1 /\ p + 1 # e /\ c + 1 # e /\ e + 1 # p + 1 /\ e + 1 # c + 1 /\ e + 1 # e
    <3>1. c + 1 # e
      BY <1>3, <1>4
    <3>. QED
      BY <1>2, <1>3, <1>4, <3>1
  <2>8. /\ \A w \in Words0 : w # p + 1 => m1[w] = m[w]
        /\ \A w \in Words0 : w # c + 1 => m2[w] = m1[w]
        /\ \A w \in Words0 : w # e => n[w] = m2[w]
    BY <2>4, <2>5, <2>6 DEF But
  <2>9. \A w \in Words0 : w \notin {p + 1, c + 1, e} => n[w] = m[w]
    BY <2>8
  <2>10. n[p + 1] = nb + 1 /\ n[c + 1] = l + 1 /\ n[e + 1] = m[e + 1]
    BY <2>2, <2>4, <2>5, <2>7, <2>8
  <2>. QED
    BY <1>4, <2>6, <2>9, <2>10 DEF But
<1>. HIDE DEF n
<1>8. Around(m, n, p, e, brk)
  <2>1. \A w \in Words0 : w \in Int
    BY <1>2 DEF Words0
  <2>2. \A w \in Words0 : w <= p \/ e + 1 < w => w \notin {p + 1, c + 1, e}
    BY <1>2, <1>3, <1>4, <2>1
  <2>. QED
    BY <1>4, <1>7, <2>2 DEF Around, Memory, But
<1>9. Tiled(n, top, brk, C, y, H)
  <2>1. n[p + 1] = (c - p) + Bit(p, F, z) /\ n[c + 1] = (e - c) + 1 /\ n[e] = e - c
        /\ n[e + 1] = z[e] + (IF {c} = {} THEN 1 ELSE 0)
    <3>1. Bit(p, F, z) = 1
      BY <1>4 DEF Bit
    <3>2. z[e] + 0 = z[e]
      BY <1>2, <1>4
    <3>. QED
      BY <1>4, <1>7, <3>1, <3>2
  <2>2. Tiled(n, IF e = brk THEN c ELSE top, brk, Join(B, p, e) \cup {c},
              With(With(z, p, c - p), c, e - c), Beside(F, p, e) \cup {c})
    <3>1. IsSize(c - p) /\ IsSize(e - c)
      BY <1>3, <1>4
    <3>. QED
      BY <1>1, <1>2, <1>3, <1>4, <1>8, <2>1, <3>1, TwoChunks
  <2>. QED
    BY <1>4, <1>5, <2>2
<1>10. /\ y[p] = nb /\ \A q \in B : q # p => y[q] = z[q]
  <2>1. x \in [Nat -> Nat] /\ x[p] = nb /\ \A q \in Nat : q # p => x[q] = z[q]
    BY <1>2, <1>3, WithIs
  <2>. HIDE DEF x
  <2>2. \A q \in Nat : q # c => y[q] = x[q]
    BY <1>3, <2>1, WithIs
  <2>. QED
    BY <1>2, <1>6, <2>1, <2>2
<1>. HIDE DEF y
<1>11. Lists(u.bins, h.blocks, G, y) /\ u.bins[1] = <<>>
  <2>1. Lists(u.bins, h.blocks, G, z)
    BY <1>1, Unlinked
  <2>2. \A q \in G : y[q] = z[q]
    BY <1>2, <1>10
  <2>3. Lists(u.bins, h.blocks, G, y)
    BY <2>1, <2>2, ListsStay
  <2>4. u.bins[1] = <<>>
    BY <1>1, RemainderTaken
  <2>. QED
    BY <2>3, <2>4
<1>12. Fields(v) /\ v.mem = n /\ v.top = top /\ v.brk = brk /\ v.bins = u.bins /\ v.blocks = h.blocks
  <2>1. Fields(u) /\ u.blocks = h.blocks /\ u.top = h.top /\ u.brk = h.brk
    BY <1>1, UnlinkKeeps
  <2>. QED
    BY <2>1 DEF Fields, top, brk
<1>13. r[1] = g /\ r[2] = p
  <2>1. Split(h, p, s, nb) = LinkRemainder([u EXCEPT !.mem = n], c)
    BY DEF Split, n, c, l, m
  <2>. QED
    BY <2>1 DEF s
<1>. HIDE DEF v, u
<1>14. Fields(g) /\ g.mem = n /\ g.top = top /\ g.brk = brk /\ Lists(g.bins, g.blocks, H, y)
  <2>1. Lists(v.bins, v.blocks, G, y) /\ v.bins[1] = <<>> /\ c \notin G
    BY <1>2, <1>6, <1>11, <1>12
  <2>. HIDE DEF G
  <2>2. /\ Fields(g) /\ g.mem = v.mem /\ g.top = v.top /\ g.brk = v.brk /\ g.blocks = v.blocks
        /\ Lists(g.bins, v.blocks, H, y)
    BY <1>3, <1>12, <2>1, RemainderLinked, ZenonT(60)
  <2>. QED
    BY <1>12, <2>2
<1>. HIDE DEF g
<1>15. Holds(g, U \cup {p})
  <2>1. U \cup {p} = Used(g, C, H)
    BY <1>2, <1>6, <1>14 DEF Used, U, top
  <2>2. Heap(g, C, y, H)
    BY <1>9, <1>14 DEF Heap
  <2>. QED
    BY <2>1, <2>2 DEF Holds
<1>16. Keeps(m, n, U)
  <2>1. Beyond(B, z, C, y, p, e)
    BY <1>2, <1>4, <1>10 DEF Beyond
  <2>2. e \in B \cup {brk}
    BY <1>4
  <2>. HIDE DEF C, H
  <2>3. Keeps(m, n, Outside(U, p, e))
    BY <1>1, <1>2, <1>4, <1>5, <1>8, <1>9, <2>1, <2>2, OutsideIsKept
  <2>. QED
    BY <1>5, <2>3
<1>17. ChunkSize(n, p) = nb
  <2>1. p \in C
    BY <1>2
  <2>. HIDE DEF C, H
  <2>. QED
    BY <1>9, <1>10, <2>1, TagsOfTiled
<1>18. nb \in nb .. nb + 3
  BY <1>3
<1>. QED
  BY <1>2, <1>5, <1>13, <1>14, <1>15, <1>16, <1>17, <1>18 DEF Got, U, m

LEMMA FitHolds ==
  ASSUME NEW h, NEW B, NEW z, NEW F, Heap(h, B, z, F), NEW p \in F,
         NEW nb, IsSize(nb), z[p] >= nb, z[p] >= nb + 4 => Only(h.bins[1], p)
  PROVE  Got(Fit(h, p, nb), h.mem, Used(h, B, F), nb)
<1>1. ChunkSize(h.mem, p) = z[p] /\ z[p] \in Nat /\ nb \in Nat
  <2>1. Tiled(h.mem, h.top, h.brk, B, z, F)
    BY DEF Heap
  <2>2. p \in B
    BY <2>1, TiledFacts
  <2>. QED
    BY <2>1, <2>2, TagsOfTiled, TiledFacts DEF IsSize
<1>2. Fit(h, p, nb) = IF z[p] >= nb + 4 THEN <<Split(h, p, z[p], nb), p>> ELSE <<Take(h, p, z[p]), p>>
  BY <1>1 DEF Fit, MinSize
<1>3. CASE z[p] >= nb + 4
  BY <1>2, <1>3, SplitHolds
<1>4. CASE ~(z[p] >= nb + 4)
  <2>1. z[p] < nb + 4
    BY <1>1, <1>4
  <2>. QED
    BY <1>1, <1>2, <1>4, <2>1, TakeHolds
<1>. QED
  BY <1>3, <1>4

(***************************************************************************)
(* The top.                                                                *)

(***************************************************************************)
(* The heap before the first request, and any heap.                        *)
Blank(h) ==
  /\ Fields(h) /\ h.mem \in Memory /\ \A w \in Words0 : h.mem[w] = 0
  /\ h.top = NULL /\ h.brk = 0 /\ \E z : Lists(h.bins, h.blocks, {}, z)

Good(h, U) == Holds(h, U) \/ (Blank(h) /\ U = {})

LEMMA KeepsAll == \A m, U : Keeps(m, m, U)
BY DEF Keeps, KeptChunk

LEMMA KeepsNone == \A m, n : Keeps(m, n, {})
BY DEF Keeps

LEMMA TopTaken ==
  ASSUME NEW h, NEW B, NEW z, NEW F, Heap(h, B, z, F),
         NEW nb, IsSize(nb), z[h.top] >= nb + 4, NEW s, s = z[h.top],
         NEW n, n = SetHead(Set(SetHead(h.mem, h.top, nb), h.top + nb + 2, h.brk - 1, Junk), h.top + nb, s - nb)
  PROVE  Got(<<[h EXCEPT !.mem = n, !.top = @ + nb], h.top>>, h.mem, Used(h, B, F), nb)
<1>. DEFINE m == h.mem  top == h.top  brk == h.brk  c == top + nb  l == s - nb
            m1 == SetHead(m, top, nb)  m2 == Set(m1, c + 2, brk - 1, Junk)
            g == [h EXCEPT !.mem = n, !.top = @ + nb]
            x == With(z, top, nb)  y == With(x, c, l)  C == B \cup {c}
            U == Used(h, B, F)
<1>1. Fields(h) /\ Tiled(m, top, brk, B, z, F) /\ Lists(h.bins, h.blocks, F, z)
  BY DEF Heap
<1>2. /\ top \in B /\ top \in Nat /\ IsSize(s) /\ s \in Nat /\ z \in [Nat -> Nat] /\ F \subseteq B /\ top \notin F
      /\ brk \in Nat /\ brk <= End /\ End \in Nat /\ m \in Memory /\ top + s = brk /\ top \notin Ends(F, z)
      /\ \A q \in B : q \in Nat
  BY <1>1, TiledFacts DEF Tiled, Memory
<1>3. nb \in Nat /\ nb >= 4 /\ l \in Nat /\ l >= 4 /\ IsSize(l) /\ nb + l = s /\ c \in Nat /\ IsSize(nb)
  BY <1>2 DEF IsSize
<1>4. c + l = brk /\ c - top = nb /\ brk - c = l /\ top < c /\ c < brk /\ top < brk /\ c + 3 < brk
  BY <1>2, <1>3
<1>5. Alone(B, F, top, brk)
  <2>1. brk = top + z[top]
    BY <1>2
  <2>. HIDE DEF m, top, brk
  <2>. QED
    BY <1>1, <1>2, <2>1, ChunkSpan
<1>6. n = SetHead(m2, c, l)
  OBVIOUS
<1>. HIDE DEF m, top, brk, c, l
<1>7. c \notin B
  BY <1>2, <1>3, <1>4, <1>5 DEF Alone
<1>8. Join(B, top, brk) = B /\ Beside(F, top, brk) = F /\ Outside(U, top, brk) = U /\ U \subseteq B \ {top}
      /\ top \notin U
  <2>1. U \subseteq B /\ U \subseteq B \ {top}
    BY DEF Used, top
  <2>2. F \ {top} = F /\ U \ {top} = U
    BY <1>2, <2>1
  <2>. HIDE DEF U
  <2>. QED
    BY <1>5, <2>1, <2>2 DEF Alone
<1>9. /\ n \in Memory /\ \A w \in Words0 : w \notin {top + 1, c + 1} /\ w \notin c + 2 .. brk - 1 => n[w] = m[w]
      /\ n[top + 1] = nb + 1 /\ n[c + 1] = l + 1
  <2>1. \A w \in Nat : w < brk => w \in Words0
    BY <1>2 DEF Words0
  <2>2. top + 1 \in Words0 /\ c + 1 \in Words0
    <3>1. top + 1 \in Nat /\ top + 1 < brk /\ c + 1 \in Nat /\ c + 1 < brk
      BY <1>2, <1>3, <1>4
    <3>. QED
      BY <2>1, <3>1
  <2>3. top \in Int /\ c \in Int /\ nb \in Int /\ l \in Int /\ Junk \in Int
    BY <1>2, <1>3 DEF Junk
  <2>4. But(m, m1, {top + 1}) /\ m1[top + 1] = nb + 1 /\ m1 \in Memory
    BY <1>2, <2>2, <2>3, HeadIsSet, ButIsMemory
  <2>. HIDE DEF m1
  <2>5. But(m1, m2, c + 2 .. brk - 1) /\ m2 \in Memory
    BY <2>3, <2>4, RangeIsSet, ButIsMemory
  <2>. HIDE DEF m2
  <2>6. But(m2, n, {c + 1}) /\ n[c + 1] = l + 1 /\ n \in Memory
    BY <1>6, <2>2, <2>3, <2>5, HeadIsSet, ButIsMemory
  <2>7. top + 1 # c + 1 /\ top + 1 \notin c + 2 .. brk - 1
    BY <1>2, <1>3, <1>4
  <2>8. /\ \A w \in Words0 : w # top + 1 => m1[w] = m[w]
        /\ \A w \in Words0 : w \notin c + 2 .. brk - 1 => m2[w] = m1[w]
        /\ \A w \in Words0 : w # c + 1 => n[w] = m2[w]
    BY <2>4, <2>5, <2>6 DEF But
  <2>9. n[top + 1] = nb + 1
    BY <2>2, <2>4, <2>7, <2>8
  <2>10. \A w \in Words0 : w \notin {top + 1, c + 1} /\ w \notin c + 2 .. brk - 1 => n[w] = m[w]
    BY <2>8
  <2>. QED
    BY <2>6, <2>9, <2>10
<1>10. Around(m, n, top, brk, brk)
  <2>1. \A w \in Words0 : w \in Int
    BY <1>2 DEF Words0
  <2>2. \A w \in Words0 : w <= top \/ brk + 1 < w \/ brk <= w => w \notin {top + 1, c + 1} /\ w \notin c + 2 .. brk - 1
    BY <1>2, <1>3, <1>4, <2>1
  <2>. QED
    BY <1>9, <2>2 DEF Around, Memory
<1>11. Tiled(n, c, brk, C, y, F)
  <2>1. n[top + 1] = (c - top) + Bit(top, F, z) /\ n[c + 1] = (brk - c) + 1
    BY <1>2, <1>4, <1>9 DEF Bit
  <2>2. IsSize(c - top) /\ IsSize(brk - c) /\ brk \in B \cup {brk}
    BY <1>3, <1>4
  <2>3. Tiled(n, IF brk = brk THEN c ELSE top, brk, Join(B, top, brk) \cup {c},
              With(With(z, top, c - top), c, brk - c), Beside(F, top, brk) \cup {})
    BY <1>1, <1>2, <1>3, <1>4, <1>10, <2>1, <2>2, TwoChunks, ZenonT(40)
  <2>4. Beside(F, top, brk) \cup {} = F
    BY <1>8
  <2>. QED
    BY <1>4, <1>8, <2>3, <2>4
<1>12. /\ y[top] = nb /\ \A q \in B : q # top => y[q] = z[q]
  <2>1. x \in [Nat -> Nat] /\ x[top] = nb /\ \A q \in Nat : q # top => x[q] = z[q]
    BY <1>2, <1>3, WithIs
  <2>. HIDE DEF x
  <2>2. \A q \in Nat : q # c => y[q] = x[q]
    BY <1>3, <2>1, WithIs
  <2>. QED
    BY <1>2, <1>7, <2>1, <2>2
<1>. HIDE DEF y
<1>13. Lists(h.bins, h.blocks, F, y)
  <2>1. \A q \in F : y[q] = z[q]
    BY <1>2, <1>12
  <2>. QED
    BY <1>1, <2>1, ListsStay
<1>14. Fields(g) /\ g.mem = n /\ g.top = c /\ g.brk = brk /\ g.bins = h.bins /\ g.blocks = h.blocks
  BY <1>1 DEF Fields, top, brk, c
<1>. HIDE DEF g
<1>15. Holds(g, U \cup {top})
  <2>1. Heap(g, C, y, F)
    BY <1>11, <1>13, <1>14 DEF Heap
  <2>2. U \cup {top} = Used(g, C, F)
    BY <1>2, <1>7, <1>14 DEF Used, U, top
  <2>. QED
    BY <2>1, <2>2 DEF Holds
<1>16. Keeps(m, n, U)
  <2>1. Beyond(B, z, C, y, top, brk)
    BY <1>2, <1>4, <1>12 DEF Beyond
  <2>. HIDE DEF C, U
  <2>2. PICK e : e = brk
    OBVIOUS
  <2>3. /\ e \in B \cup {brk} /\ top < e /\ Around(m, n, top, e, brk) /\ Beyond(B, z, C, y, top, e)
        /\ Outside(U, top, e) = U
    BY <1>4, <1>8, <1>10, <2>1, <2>2
  <2>4. Keeps(m, n, Outside(U, top, e))
    BY <1>1, <1>2, <1>8, <1>11, <2>3, OutsideIsKept
  <2>. QED
    BY <2>3, <2>4
<1>17. ChunkSize(n, top) = nb
  <2>1. top \in C
    BY <1>2
  <2>. HIDE DEF C
  <2>. QED
    BY <1>11, <1>12, <2>1, TagsOfTiled
<1>18. nb \in nb .. nb + 3
  BY <1>3
<1>19. Got(<<g, top>>, m, U, nb)
  BY <1>2, <1>8, <1>14, <1>15, <1>16, <1>17, <1>18 DEF Got
<1>. QED
  BY <1>19 DEF g, U, m, top
(* A heap begins with its top.                                             *)
LEMMA HeapBegins ==
  ASSUME NEW h, Blank(h), NEW b \in Breaks, b >= 4,
         NEW g, g = [h EXCEPT !.mem = SetHead(@, 0, b), !.top = 0, !.brk = b]
  PROVE  Holds(g, {})
<1>. DEFINE m == h.mem  n == SetHead(m, 0, b)  y == [q \in Nat |-> b]
<1>1. Fields(h) /\ m \in Memory /\ \A w \in Words0 : m[w] = 0
  BY DEF Blank
<1>2. b \in Nat /\ b <= End /\ IsSize(b) /\ IsPlace(b) /\ IsPlace(0) /\ 0 \in Int /\ 1 \in Words0 /\ b \in Int /\ End \in Nat
  <2>1. IsPlace(b) /\ b <= End /\ b \in Nat
    BY BreakIsPlace, Sizes
  <2>2. IsSize(b)
    BY <2>1 DEF IsSize, IsPlace
  <2>3. End \in Nat
    BY HeapConstants DEF HeapConstants, End
  <2>. QED
    BY <2>1, <2>2, <2>3 DEF IsPlace, Words0
<1>3. But(m, n, {0 + 1}) /\ n[0 + 1] = b + 1 /\ n \in Memory
  <2>1. 0 + 1 \in Words0
    BY <1>2
  <2>. QED
    BY <1>1, <1>2, <2>1, HeadIsSet, ButIsMemory
<1>. HIDE DEF n
<1>4. y \in [Nat -> Nat] /\ y[0] = b
  BY <1>2
<1>. HIDE DEF y
<1>5. Layout({0}, y, b)
  BY <1>2, <1>4 DEF Layout
<1>6. Frees({0}, y, {}) /\ Ends({}, y) = {}
  BY DEF Frees, Ends
<1>7. Tagged(n, {0}, y, {})
  BY <1>2, <1>3, <1>4, <1>6 DEF Tagged, Bit
<1>8. \A w \in Words0 : b <= w => n[w] = 0
  <2>1. \A w \in Words0 : b <= w => w # 0 + 1
    BY <1>2 DEF Words0
  <2>. QED
    BY <1>1, <1>3, <2>1 DEF But
<1>9. Tiled(n, 0, b, {0}, y, {})
  BY <1>2, <1>3, <1>4, <1>5, <1>6, <1>7, <1>8 DEF Tiled, Memory
<1>10. Lists(h.bins, h.blocks, {}, y)
  <2>1. PICK z : Lists(h.bins, h.blocks, {}, z)
    BY DEF Blank
  <2>2. \A c \in {} : y[c] = z[c]
    OBVIOUS
  <2>. QED
    BY <2>1, <2>2, ListsStay
<1>11. Fields(g) /\ g.mem = n /\ g.top = 0 /\ g.brk = b /\ g.bins = h.bins /\ g.blocks = h.blocks
  BY <1>1 DEF Fields, n
<1>12. Heap(g, {0}, y, {})
  BY <1>9, <1>10, <1>11 DEF Heap
<1>13. {} = Used(g, {0}, {})
  BY <1>11 DEF Used
<1>. QED
  BY <1>12, <1>13 DEF Holds

LEMMA TopGrows ==
  ASSUME NEW h, NEW B, NEW z, NEW F, Heap(h, B, z, F), NEW b \in Breaks, h.brk <= b,
         NEW g, g = [h EXCEPT !.mem = SetHead(@, h.top, b - h.top), !.top = h.top, !.brk = b]
  PROVE  Holds(g, Used(h, B, F)) /\ Keeps(h.mem, g.mem, Used(h, B, F))
<1>. DEFINE m == h.mem  top == h.top  brk == h.brk  d == b - top  n == SetHead(m, top, d)
<1>1. Fields(h) /\ Tiled(m, top, brk, B, z, F) /\ Lists(h.bins, h.blocks, F, z)
  BY DEF Heap
<1>2. /\ top \in B /\ top \in Nat /\ F \subseteq B /\ top \notin F /\ z[top] \in Nat /\ z[top] >= 4
      /\ brk \in Nat /\ brk <= End /\ End \in Nat /\ m \in Memory /\ top + z[top] = brk
      /\ \A w \in Words0 : brk <= w => m[w] = 0
  BY <1>1, TiledFacts DEF Tiled, Memory
<1>3. b \in Nat /\ d \in Int /\ top + 4 <= b /\ top + 1 \in Words0 /\ top \in Int
  <2>1. b \in Nat
    BY BreakIsPlace, Sizes
  <2>. QED
    BY <1>2, <2>1 DEF Words0
<1>4. But(m, n, {top + 1}) /\ n[top + 1] = d + 1 /\ n \in Memory
  <2>. HIDE DEF d, top, m
  <2>. QED
    BY <1>2, <1>3, HeadIsSet, ButIsMemory
<1>. HIDE DEF n
<1>5. Retopped(m, n, top, b)
  <2>1. \A w \in Words0 : w \in Int
    BY <1>2 DEF Words0
  <2>2. ASSUME NEW w \in Words0 PROVE (w <= top => n[w] = m[w]) /\ (b <= w => n[w] = 0)
    <3>1. w <= top \/ b <= w => w # top + 1
      BY <1>2, <1>3, <2>1
    <3>2. b <= w => brk <= w
      BY <1>2, <1>3, <2>1
    <3>. QED
      BY <1>2, <1>4, <3>1, <3>2 DEF But
  <2>. QED
    BY <1>3, <1>4, <2>2 DEF Retopped
<1>. HIDE DEF m, top, brk
<1>6. PICK y : /\ Tiled(n, top, b, B, y, F) /\ Keeps(m, n, B \ {top})
               /\ \A q \in B : q # top => y[q] = z[q]
  BY <1>1, <1>5, TopResized
<1>7. Lists(h.bins, h.blocks, F, y)
  <2>1. \A c \in F : y[c] = z[c]
    BY <1>2, <1>6
  <2>. QED
    BY <1>1, <2>1, ListsStay
<1>8. Fields(g) /\ g.mem = n /\ g.top = top /\ g.brk = b /\ g.bins = h.bins /\ g.blocks = h.blocks
  BY <1>1 DEF Fields, n, top, m
<1>9. Heap(g, B, y, F)
  BY <1>6, <1>7, <1>8 DEF Heap
<1>10. Used(g, B, F) = Used(h, B, F) /\ Used(h, B, F) \subseteq B \ {top}
  BY <1>8 DEF Used, top
<1>11. Keeps(m, n, Used(h, B, F))
  BY <1>6, <1>10 DEF Keeps
<1>. QED
  BY <1>8, <1>9, <1>10, <1>11 DEF Holds, m

LEMMA ExtendHolds ==
  ASSUME NEW h, NEW U, Good(h, U), NEW nb \in Nat
  PROVE  Good(ExtendTop(h, nb), U) /\ Keeps(h.mem, ExtendTop(h, nb).mem, U)
<1>. DEFINE wanted == nb + 4
            brk == IF h.top = NULL THEN Up(h.brk + wanted) ELSE h.brk + Up(wanted)
            base == IF h.top = NULL THEN h.brk ELSE h.top
            g == [h EXCEPT !.mem = SetHead(@, base, brk - base), !.top = base, !.brk = brk]
<1>1. ExtendTop(h, nb) = IF brk > End THEN h ELSE g
  BY DEF ExtendTop, MinSize
<1>2. CASE brk > End
  BY <1>1, <1>2, KeepsAll
<1>3. CASE ~(brk > End) /\ Blank(h) /\ U = {}
  <2>1. h.top = NULL /\ h.brk = 0
    BY <1>3 DEF Blank
  <2>2. wanted \in Nat /\ wanted >= 4 /\ End \in Nat
    BY HeapConstants DEF HeapConstants, End
  <2>. HIDE DEF wanted
  <2>3. base = 0 /\ brk = Up(wanted) /\ brk \in Nat /\ wanted <= brk /\ brk \in Breaks
    <3>1. base = 0 /\ brk = Up(wanted)
      BY <2>1, <2>2
    <3>2. Up(wanted) \in Nat /\ wanted <= Up(wanted)
      BY <2>2, Pages
    <3>3. PICK k \in Nat : Up(wanted) = PageWords * k
      BY <2>2, Pages
    <3>4. PageWords * k <= End
      BY <1>3, <2>2, <3>1, <3>2, <3>3
    <3>. QED
      BY <3>1, <3>2, <3>3, <3>4, Pages
  <2>4. brk >= 4 /\ brk - 0 = brk
    BY <2>2, <2>3
  <2>. HIDE DEF brk, base
  <2>5. g = [h EXCEPT !.mem = SetHead(@, 0, brk), !.top = 0, !.brk = brk]
    BY <2>3, <2>4
  <2>. HIDE DEF g
  <2>6. Holds(g, {})
    BY <1>3, <2>3, <2>4, <2>5, HeapBegins
  <2>. QED
    BY <1>1, <1>3, <2>6, KeepsNone DEF Good
<1>4. CASE ~(brk > End) /\ Holds(h, U)
  <2>1. PICK B, z, F : Heap(h, B, z, F) /\ U = Used(h, B, F)
    BY <1>4 DEF Holds
  <2>2. h.top \in Nat /\ h.brk \in Nat /\ h.brk \in Breaks /\ End \in Nat
    <3>1. Tiled(h.mem, h.top, h.brk, B, z, F)
      BY <2>1 DEF Heap
    <3>. QED
      BY <3>1, TiledFacts DEF Tiled
  <2>3. wanted \in Nat
    OBVIOUS
  <2>. HIDE DEF wanted
  <2>4. base = h.top /\ brk = h.brk + Up(wanted)
    BY <2>2 DEF NULL
  <2>5. brk \in Breaks /\ h.brk <= brk
    <3>1. Up(wanted) \in Nat
      BY <2>3, Pages
    <3>2. PICK k \in Nat : Up(wanted) = PageWords * k
      BY <2>3, Pages
    <3>3. PICK j \in Nat : h.brk = PageWords * j
      BY <2>2, Pages
    <3>4. brk = PageWords * (j + k) /\ brk <= End
      <4>1. PageWords * (j + k) = PageWords * j + PageWords * k
        BY Pages
      <4>2. brk = PageWords * (j + k)
        BY <2>4, <3>2, <3>3, <4>1
      <4>3. brk \in Nat
        BY <2>2, <2>4, <3>1
      <4>. HIDE DEF brk
      <4>. QED
        BY <1>4, <2>2, <4>2, <4>3
    <3>5. j + k \in Nat
      OBVIOUS
    <3>6. brk \in Breaks
      <4>. DEFINE i == j + k
      <4>1. brk = PageWords * i /\ i \in Nat /\ PageWords * i <= End
        BY <3>4, <3>5
      <4>. HIDE DEF i, brk
      <4>. QED
        BY <4>1, Pages
    <3>. QED
      BY <2>2, <2>4, <3>1, <3>6
  <2>. HIDE DEF brk, base
  <2>6. g = [h EXCEPT !.mem = SetHead(@, h.top, brk - h.top), !.top = h.top, !.brk = brk]
    BY <2>4
  <2>. HIDE DEF g
  <2>7. Holds(g, U) /\ Keeps(h.mem, g.mem, U)
    BY <2>1, <2>5, <2>6, TopGrows
  <2>. QED
    BY <1>1, <1>4, <2>7 DEF Good
<1>. QED
  BY <1>2, <1>3, <1>4 DEF Good

Refused(r, m, U) == r[2] = NULL /\ Good(r[1], U) /\ Keeps(m, r[1].mem, U)

LEMMA GotAfter ==
  ASSUME NEW m, NEW n, NEW U, NEW nb, NEW r, Keeps(m, n, U), Got(r, n, U, nb)
  PROVE  Got(r, m, U, nb)
BY KeepsOn DEF Got

LEMMA FromTopHolds ==
  ASSUME NEW h, NEW U, Good(h, U), NEW nb, IsSize(nb)
  PROVE  Got(FromTop(h, nb), h.mem, U, nb) \/ Refused(FromTop(h, nb), h.mem, U)
<1>. DEFINE e == IF TopSize(h) < nb + 4 THEN ExtendTop(h, nb) ELSE h
            s == TopSize(e)
            n == SetHead(Set(SetHead(e.mem, e.top, nb), e.top + nb + 2, e.brk - 1, Junk), e.top + nb, s - nb)
            r == <<[e EXCEPT !.mem = n, !.top = @ + nb], e.top>>
<1>1. FromTop(h, nb) = IF s < nb + 4 THEN <<e, NULL>> ELSE r
  BY DEF FromTop, MinSize
<1>2. Good(e, U) /\ Keeps(h.mem, e.mem, U) /\ nb \in Nat /\ nb >= 4
  BY ExtendHolds, KeepsAll DEF IsSize
<1>. HIDE DEF e
<1>3. CASE s < nb + 4
  <2>1. FromTop(h, nb)[1] = e /\ FromTop(h, nb)[2] = NULL
    BY <1>1, <1>3
  <2>. QED
    BY <1>2, <2>1 DEF Refused
<1>4. CASE ~(s < nb + 4)
  <2>1. Holds(e, U)
    <3>1. Blank(e) => s = 0
      BY DEF Blank, TopSize
    <3>2. ~Blank(e)
      BY <1>2, <1>4, <3>1
    <3>. QED
      BY <1>2, <3>2 DEF Good
  <2>2. PICK B, z, F : Heap(e, B, z, F) /\ U = Used(e, B, F)
    BY <2>1 DEF Holds
  <2>3. s = z[e.top] /\ z[e.top] \in Nat
    <3>1. Tiled(e.mem, e.top, e.brk, B, z, F)
      BY <2>2 DEF Heap
    <3>2. e.top \in B /\ e.top \in Nat /\ z[e.top] \in Nat
      BY <3>1, TiledFacts
    <3>3. ChunkSize(e.mem, e.top) = z[e.top]
      BY <3>1, <3>2, TagsOfTiled
    <3>. QED
      BY <3>2, <3>3 DEF TopSize, NULL
  <2>4. z[e.top] >= nb + 4
    BY <1>2, <1>4, <2>3
  <2>5. n = SetHead(Set(SetHead(e.mem, e.top, nb), e.top + nb + 2, e.brk - 1, Junk), e.top + nb, s - nb)
    OBVIOUS
  <2>. HIDE DEF s, n
  <2>6. Got(r, e.mem, U, nb)
    BY <2>2, <2>3, <2>4, <2>5, TopTaken
  <2>. HIDE DEF r
  <2>7. Got(r, h.mem, U, nb)
    BY <1>2, <2>6, GotAfter
  <2>. QED
    BY <1>1, <1>4, <2>7 DEF s
<1>. QED
  BY <1>3, <1>4

(***************************************************************************)
(* The search for a free chunk.                                            *)
(***************************************************************************)
LEMMA InList ==
  ASSUME NEW bins, NEW blocks, NEW F, NEW z, Lists(bins, blocks, F, z), NEW c \in F
  PROVE  /\ c \in Nat
         /\ \/ \E k \in 1 .. Len(bins[1]) : bins[1][k] = c
            \/ /\ BinIndex(z[c]) \in Bins \ {1}
               /\ \E k \in 1 .. Len(bins[BinIndex(z[c])]) : bins[BinIndex(z[c])][k] = c
<1>1. PICK i \in Bins : \E k \in 1 .. Len(bins[i]) : bins[i][k] = c
  BY DEF Lists
<1>2. PICK k \in 1 .. Len(bins[i]) : bins[i][k] = c
  BY <1>1
<1>3. c \in Nat
  <2>1. bins[i] \in Seq(Nat)
    BY ListLengths
  <2>. QED
    BY <1>2, <2>1
<1>4. i # 1 => BinIndex(z[c]) = i
  BY <1>2, InBin
<1>. QED
  BY <1>1, <1>2, <1>3, <1>4

\* What SmallestIn finds in bin i, p, is a free chunk of that bin
Smallest(p, h, F, z, i, nb) ==
  \/ /\ p = NULL
     /\ \A c \in F : BinIndex(z[c]) = i /\ c \notin Binned(h, 1) => ~(z[c] >= nb)
  \/ /\ p \in F /\ p # NULL /\ z[p] >= nb /\ BinIndex(z[p]) = i /\ p \notin Binned(h, 1)
     /\ \A c \in F : BinIndex(z[c]) = i /\ c \notin Binned(h, 1) /\ z[c] >= nb => z[p] <= z[c]

LEMMA SmallestFound ==
  ASSUME NEW h, NEW F, NEW z, Lists(h.bins, h.blocks, F, z), Sized(h, F, z),
         NEW i \in Bins \ {1}, NEW nb
  PROVE  Smallest(SmallestIn(h, i, nb), h, F, z, i, nb)
<1>. DEFINE s == h.bins[i]  one == h.bins[1]  p == SmallestIn(h, i, nb)
<1>1. /\ Len(s) \in Nat
      /\ \A k \in 1 .. Len(s) :
              /\ s[k] \in F /\ BinIndex(z[s[k]]) = i
              /\ \A l \in 1 .. Len(s) : k < l => z[s[l]] <= z[s[k]]
  BY InBin
<1>2. \A c \in F : ChunkSize(h.mem, c) = z[c] /\ z[c] \in Nat /\ c \in Nat /\ c # NULL
  BY InList, Sizes DEF Sized, NULL
<1>3. \/ /\ p = NULL
         /\ \A k \in 1 .. Len(s) : ~(ChunkSize(h.mem, s[k]) >= nb)
      \/ \E k \in 1 .. Len(s) :
            /\ p = s[k] /\ ChunkSize(h.mem, s[k]) >= nb
            /\ \A j \in 1 .. Len(s) : ChunkSize(h.mem, s[j]) >= nb => j <= k
  BY <1>1, SmallestInIs
<1>. HIDE DEF p
<1>4. \A c \in F : BinIndex(z[c]) = i /\ c \notin Binned(h, 1) => \E k \in 1 .. Len(s) : s[k] = c
  <2>. SUFFICES ASSUME NEW c \in F, BinIndex(z[c]) = i, c \notin Binned(h, 1)
       PROVE  \E k \in 1 .. Len(s) : s[k] = c
    OBVIOUS
  <2>1. ~(\E k \in 1 .. Len(one) : one[k] = c)
    <3>1. one \in Seq(Nat)
      BY OneIsABin, ListLengths
    <3>. QED
      BY <3>1 DEF Binned, Range
  <2>. QED
    BY <2>1, InList
<1>5. CASE p = NULL /\ \A k \in 1 .. Len(s) : ~(ChunkSize(h.mem, s[k]) >= nb)
  <2>1. \A c \in F : BinIndex(z[c]) = i /\ c \notin Binned(h, 1) => ~(z[c] >= nb)
    BY <1>2, <1>4, <1>5
  <2>. QED
    BY <1>5, <2>1 DEF Smallest, p
<1>6. ASSUME NEW k \in 1 .. Len(s), p = s[k], ChunkSize(h.mem, s[k]) >= nb,
             \A j \in 1 .. Len(s) : ChunkSize(h.mem, s[j]) >= nb => j <= k
      PROVE  Smallest(p, h, F, z, i, nb)
  <2>1. p \in F /\ p # NULL /\ z[p] >= nb /\ BinIndex(z[p]) = i
    BY <1>1, <1>2, <1>6
  <2>2. p \notin Binned(h, 1)
    <3>1. ASSUME NEW j \in 1 .. Len(h.bins[1]), h.bins[1][j] = p PROVE FALSE
      <4>1. h.bins[1][j] = h.bins[i][k]
        BY <1>6, <3>1
      <4>2. \A m, n \in Bins : \A l \in 1 .. Len(h.bins[m]), o \in 1 .. Len(h.bins[n]) :
              h.bins[m][l] = h.bins[n][o] => m = n /\ l = o
        BY DEF Lists
      <4>3. \A l \in 1 .. Len(h.bins[1]), o \in 1 .. Len(h.bins[i]) :
              h.bins[1][l] = h.bins[i][o] => 1 = i /\ l = o
        BY <4>2, OneIsABin
      <4>. QED
        BY <4>1, <4>3
    <3>2. h.bins[1] \in Seq(Nat)
      BY OneIsABin, ListLengths
    <3>. QED
      BY <3>1, <3>2 DEF Binned, Range
  <2>3. ASSUME NEW c \in F, BinIndex(z[c]) = i, c \notin Binned(h, 1), z[c] >= nb PROVE z[p] <= z[c]
    <3>1. PICK j \in 1 .. Len(s) : s[j] = c
      BY <1>4, <2>3
    <3>2. j <= k
      BY <1>2, <1>6, <2>3, <3>1
    <3>3. j = k \/ j < k
      BY <1>1, <3>2
    <3>4. z[p] \in Nat
      BY <1>2, <2>1
    <3>. QED
      BY <1>1, <1>6, <3>1, <3>3, <3>4
  <2>. QED
    BY <2>1, <2>2, <2>3 DEF Smallest
<1>. QED
  BY <1>3, <1>5, <1>6 DEF p

\* Step 1 finds, at p, a free chunk so small that no chunk would be left of it.
Exact(p, h, F, z, nb) ==
  p # NULL => /\ p \in F /\ z[p] >= nb /\ z[p] < nb + 4 /\ p \notin Binned(h, 1)
              /\ \A c \in F : c \notin Binned(h, 1) /\ z[c] >= nb => z[p] <= z[c]
Has(s, p) == \E k \in 1 .. Len(s) : s[k] = p

InBinOf(p, h, F, z, i) == p \in F /\ BinIndex(z[p]) = i /\ p \notin Binned(h, 1)

LEMMA InOtherBin ==
  ASSUME NEW h, NEW F, NEW z, Lists(h.bins, h.blocks, F, z), NEW i \in Bins, i # 1,
         NEW p, Has(h.bins[i], p)
  PROVE  InBinOf(p, h, F, z, i)
<1>0. PICK k \in 1 .. Len(h.bins[i]) : p = h.bins[i][k]
  BY DEF Has
<1>1. p \in F /\ BinIndex(z[p]) = i
  BY <1>0, InBin
<1>2. ASSUME NEW j \in 1 .. Len(h.bins[1]), h.bins[1][j] = p PROVE FALSE
  <2>1. h.bins[1][j] = h.bins[i][k]
    BY <1>0, <1>2
  <2>2. \A m, n \in Bins : \A l \in 1 .. Len(h.bins[m]), o \in 1 .. Len(h.bins[n]) :
          h.bins[m][l] = h.bins[n][o] => m = n /\ l = o
    BY DEF Lists
  <2>3. \A l \in 1 .. Len(h.bins[1]), o \in 1 .. Len(h.bins[i]) :
          h.bins[1][l] = h.bins[i][o] => 1 = i /\ l = o
    BY <2>2, OneIsABin
  <2>. QED
    BY <2>1, <2>3
<1>3. h.bins[1] \in Seq(Nat)
  BY OneIsABin, ListLengths
<1>4. ASSUME p \in Binned(h, 1) PROVE FALSE
  <2>1. PICK j \in DOMAIN h.bins[1] : h.bins[1][j] = p
    BY <1>4 DEF Binned, Range
  <2>2. j \in 1 .. Len(h.bins[1])
    BY <1>3
  <2>. QED
    BY <1>2, <2>1, <2>2
<1>. QED
  BY <1>1, <1>4 DEF InBinOf

LEMMA LargerBins ==
  ASSUME NEW s, IsSize(s), NEW t, IsSize(t)
  PROVE  /\ BinIndex(s) \in Nat /\ BinIndex(t) \in Nat
         /\ BinIndex(s) < BinIndex(t) => s <= t
         /\ s <= t => BinIndex(s) <= BinIndex(t)
<1>1. s \in Nat /\ t \in Nat /\ BinIndex(s) \in Nat /\ BinIndex(t) \in Nat
  BY BinOfSize, Sizes
<1>2. s <= t => BinIndex(s) <= BinIndex(t)
  BY BinsGrow
<1>3. t <= s => BinIndex(t) <= BinIndex(s)
  BY BinsGrow
<1>. QED
  BY <1>1, <1>2, <1>3

LEMMA ExactFound ==
  ASSUME NEW h, NEW F, NEW z, Lists(h.bins, h.blocks, F, z), Sized(h, F, z), NEW nb, IsSize(nb)
  PROVE  Exact(ExactFit(h, nb), h, F, z, nb)
<1>1. \A c \in F : ChunkSize(h.mem, c) = z[c] /\ IsSize(z[c]) /\ z[c] \in Nat /\ c \in Nat /\ c # NULL
  BY InList, Sizes DEF Sized, NULL
<1>2. nb \in Nat /\ nb >= 4 /\ nb % 2 = 0 /\ SmallLimit \in Nat
  BY HeapConstants DEF HeapConstants, IsSize
<1>3. \A s, t : IsSize(s) /\ IsSize(t) => /\ BinIndex(s) \in Nat /\ BinIndex(t) \in Nat
                                          /\ BinIndex(s) < BinIndex(t) => s <= t
                                          /\ s <= t => BinIndex(s) <= BinIndex(t)
  BY LargerBins
<1>4. CASE SmallRequest(nb)
  <2>. DEFINE j == nb \div 2  i == IF h.bins[j] # <<>> THEN j ELSE j + 1
              s == h.bins[i]  p == Last(s)
  <2>1. ExactFit(h, nb) = IF s = <<>> THEN NULL ELSE p
    BY <1>4 DEF ExactFit
  <2>2. j \in Nat /\ j >= 2 /\ 2 * j = nb /\ 2 * (j + 1) = nb + 2 /\ nb + 2 < SmallLimit
    BY <1>2, <1>4 DEF SmallRequest
  <2>. HIDE DEF j
  <2>3. BinIndex(nb) = j /\ BinIndex(nb + 2) = j + 1 /\ j \in Bins /\ j + 1 \in Bins
    <3>1. IsSize(nb + 2)
      BY <1>2 DEF IsSize
    <3>2. 2 * BinIndex(nb) = nb /\ BinIndex(nb) \in Nat /\ BinIndex(nb) \in Bins
      BY <1>2, <2>2, BinOfSize
    <3>3. 2 * BinIndex(nb + 2) = nb + 2 /\ BinIndex(nb + 2) \in Nat /\ BinIndex(nb + 2) \in Bins
      BY <1>2, <2>2, <3>1, BinOfSize
    <3>4. BinIndex(nb) = j
      BY <2>2, <3>2
    <3>5. BinIndex(nb + 2) = j + 1
      BY <2>2, <3>3
    <3>. QED
      BY <3>2, <3>3, <3>4, <3>5
  <2>4. i \in Bins /\ i # 1 /\ i \in Nat /\ (i = j \/ (i = j + 1 /\ h.bins[j] = <<>>)) /\ s \in Seq(Nat)
    <3>1. i \in Bins /\ i # 1 /\ i \in Nat /\ (i = j \/ (i = j + 1 /\ h.bins[j] = <<>>))
      BY <2>2, <2>3
    <3>. HIDE DEF i
    <3>. QED
      BY <3>1, ListLengths
  <2>. HIDE DEF i
  <2>5. CASE s = <<>>
    BY <2>1, <2>5 DEF Exact
  <2>6. CASE s # <<>>
    <3>1. Len(s) \in 1 .. Len(s) /\ p = s[Len(s)]
      BY <2>4, <2>6, EmptySeq DEF Last
    <3>2. p \in F /\ BinIndex(z[p]) = i /\ p \notin Binned(h, 1)
      <4>1. Has(h.bins[i], p)
        BY <3>1 DEF Has
      <4>. HIDE DEF p
      <4>2. InBinOf(p, h, F, z, i)
        BY <2>4, <4>1, InOtherBin
      <4>. QED
        BY <4>2 DEF InBinOf
    <3>3. z[p] = 2 * i
      <4>1. 2 * i < SmallLimit
        BY <1>2, <2>2, <2>4
      <4>2. IsSize(z[p])
        BY <1>1, <3>2
      <4>3. 2 * BinIndex(z[p]) < SmallLimit => z[p] = 2 * BinIndex(z[p])
        BY <4>2, BinOfSize
      <4>. QED
        BY <3>2, <4>1, <4>3
    <3>4. z[p] >= nb /\ z[p] < nb + 4
      BY <2>2, <2>4, <3>3
    <3>5. ASSUME NEW c \in F, c \notin Binned(h, 1), z[c] >= nb PROVE z[p] <= z[c]
      <4>1. CASE i = j
        BY <1>1, <2>2, <3>3, <3>5, <4>1
      <4>2. CASE i = j + 1 /\ h.bins[j] = <<>>
        <5>1. z[c] # nb
          <6>1. ASSUME z[c] = nb PROVE FALSE
            <7>1. BinIndex(z[c]) = j
              BY <2>3, <6>1
            <7>2. ~(\E k \in 1 .. Len(h.bins[1]) : h.bins[1][k] = c)
              <8>1. h.bins[1] \in Seq(Nat)
                BY OneIsABin, ListLengths
              <8>. QED
                BY <3>5, <8>1 DEF Binned, Range
            <7>3. \E k \in 1 .. Len(h.bins[j]) : h.bins[j][k] = c
              BY <7>1, <7>2, InList
            <7>4. Len(h.bins[j]) = 0
              BY <4>2
            <7>. QED
              BY <7>3, <7>4
          <6>. QED
            BY <6>1
        <5>2. z[c] \in Nat /\ z[c] % 2 = 0
          BY <1>1 DEF IsSize
        <5>3. z[p] = nb + 2
          BY <2>2, <3>3, <4>2
        <5>. QED
          BY <1>2, <3>5, <5>1, <5>2, <5>3
      <4>. QED
        BY <2>4, <4>1, <4>2
    <3>. HIDE DEF s, p
    <3>. QED
      BY <2>1, <2>6, <3>2, <3>4, <3>5 DEF Exact
  <2>. QED
    BY <2>5, <2>6
<1>5. CASE ~SmallRequest(nb)
  <2>. DEFINE i == BinIndex(nb)  p == SmallestIn(h, i, nb)
  <2>1. ExactFit(h, nb) = IF p # NULL /\ ChunkSize(h.mem, p) < nb + 4 THEN p ELSE NULL
    BY <1>5 DEF ExactFit, MinSize
  <2>2. Smallest(p, h, F, z, i, nb)
    BY BinOfSize, SmallestFound
  <2>. HIDE DEF p
  <2>3. CASE p # NULL /\ ChunkSize(h.mem, p) < nb + 4
    <3>1. /\ p \in F /\ z[p] >= nb /\ BinIndex(z[p]) = i /\ p \notin Binned(h, 1) /\ z[p] < nb + 4
          /\ \A c \in F : BinIndex(z[c]) = i /\ c \notin Binned(h, 1) /\ z[c] >= nb => z[p] <= z[c]
      BY <1>1, <2>2, <2>3 DEF Smallest
    <3>2. ASSUME NEW c \in F, c \notin Binned(h, 1), z[c] >= nb PROVE z[p] <= z[c]
      <4>1. IsSize(z[c]) /\ IsSize(z[p]) /\ z[c] \in Nat
        BY <1>1, <3>1
      <4>2. BinIndex(nb) <= BinIndex(z[c]) /\ BinIndex(nb) \in Nat /\ BinIndex(z[c]) \in Nat
        BY <1>2, <1>3, <3>2, <4>1
      <4>3. BinIndex(z[p]) < BinIndex(z[c]) => z[p] <= z[c]
        BY <1>3, <4>1
      <4>. QED
        BY <3>1, <3>2, <4>2, <4>3
    <3>3. ExactFit(h, nb) = p
      BY <2>1, <2>3
    <3>. QED
      BY <3>1, <3>2, <3>3 DEF Exact
  <2>4. CASE ~(p # NULL /\ ChunkSize(h.mem, p) < nb + 4)
    BY <2>1, <2>4 DEF Exact
  <2>. QED
    BY <2>3, <2>4
<1>. QED
  BY <1>4, <1>5
\* Heap g is h, but the remainder is in a bin, and marks may be cleared.
Ready(g, h, F, z) ==
  /\ Fields(g) /\ g.mem = h.mem /\ g.top = h.top /\ g.brk = h.brk
  /\ Lists(g.bins, g.blocks, F, z) /\ g.bins[1] = <<>>

LEMMA OneRemainder ==
  ASSUME NEW h, NEW F, NEW z, Lists(h.bins, h.blocks, F, z), h.bins[1] # <<>>
  PROVE  /\ Last(h.bins[1]) = h.bins[1][1] /\ Only(h.bins[1], h.bins[1][1])
         /\ h.bins[1][1] \in F /\ h.bins[1][1] \in Nat /\ Binned(h, 1) = {h.bins[1][1]}
<1>. DEFINE s == h.bins[1]
<1>1. s \in Seq(Nat) /\ Len(s) <= 1
  BY OneIsABin, ListLengths DEF Lists
<1>2. \A k \in 1 .. Len(s) : s[k] \in F
  BY OneIsABin DEF Lists
<1>. HIDE DEF s
<1>3. Len(s) = 1
  <2>1. Len(s) \in Nat /\ Len(s) # 0
    BY <1>1, EmptySeq DEF s
  <2>2. \A n \in Nat : n # 0 /\ n <= 1 => n = 1
    OBVIOUS
  <2>. QED
    BY <1>1, <2>1, <2>2
<1>4. \A k \in 1 .. Len(s) : k = 1
  BY <1>3
<1>5. 1 \in 1 .. Len(s) /\ s[1] \in Nat
  BY <1>1, <1>3, SMTT(30)
<1>6. Range(s) = {s[1]}
  <2>1. DOMAIN s = 1 .. Len(s)
    BY <1>1
  <2>. QED
    BY <1>4, <1>5, <2>1 DEF Range
<1>. QED
  BY <1>2, <1>3, <1>4, <1>5, <1>6 DEF s, Last, Only, Binned

LEMMA RemainderBinned ==
  ASSUME NEW h, Fields(h), NEW F, NEW z, Lists(h.bins, h.blocks, F, z), Sized(h, F, z)
  PROVE  Ready(BinRemainder(h), h, F, z)
<1>. DEFINE p == h.bins[1][1]  u == Unlink(h, p)  G == F \ {p}
<1>1. CASE h.bins[1] = <<>>
  <2>1. BinRemainder(h) = h
    BY <1>1 DEF BinRemainder, LastRemainder
  <2>. QED
    BY <1>1, <2>1 DEF Ready
<1>2. CASE h.bins[1] # <<>>
  <2>1. Last(h.bins[1]) = p /\ Only(h.bins[1], p) /\ p \in F /\ p \in Nat
    BY <1>2, OneRemainder
  <2>2. ChunkSize(h.mem, p) = z[p] /\ IsSize(z[p])
    BY <2>1 DEF Sized
  <2>3. BinRemainder(h) = FrontLink(u, p, z[p])
    BY <1>2, <2>1, <2>2 DEF BinRemainder, LastRemainder
  <2>. HIDE DEF p
  <2>4. /\ Fields(u) /\ u.mem = h.mem /\ u.blocks = h.blocks /\ u.top = h.top /\ u.brk = h.brk
        /\ Lists(u.bins, h.blocks, G, z) /\ u.bins[1] = <<>>
    BY <2>1, UnlinkKeeps, Unlinked, RemainderTaken
  <2>5. Sized(u, G, z)
    BY <2>4 DEF Sized
  <2>6. G \cup {p} = F /\ p \notin G
    BY <2>1
  <2>. HIDE DEF u, G
  <2>7. Linked(FrontLink(u, p, z[p]), u, G, z, p)
    BY <2>1, <2>2, <2>4, <2>5, <2>6, FrontLinked
  <2>. QED
    BY <2>3, <2>4, <2>6, <2>7 DEF Linked, Ready
<1>. QED
  BY <1>1, <1>2

\* Where the scan starts there is nothing before that would do.
LEMMA ScanStart ==
  ASSUME NEW h, NEW F, NEW z, Lists(h.bins, h.blocks, F, z), Sized(h, F, z), NEW nb, IsSize(nb),
         NEW i, i = ScanFrom(h, nb)
  PROVE  /\ i \in Nat /\ i >= 2 /\ BinIndex(nb) \in Nat
         /\ \/ i > BinIndex(nb)
            \/ /\ i = BinIndex(nb)
               /\ \E q \in F : BinIndex(z[q]) = i /\ z[q] >= nb
         /\ ExactFit(h, nb) = NULL /\ (\A c \in Binned(h, 1) : ~(z[c] >= nb)) =>
               \A c \in F : z[c] >= nb => i <= BinIndex(z[c])
<1>1. \A c \in F : ChunkSize(h.mem, c) = z[c] /\ IsSize(z[c]) /\ z[c] \in Nat /\ c \in Nat /\ c # NULL
  BY InList, Sizes DEF Sized, NULL
<1>2. nb \in Nat /\ nb >= 4 /\ nb % 2 = 0 /\ SmallLimit \in Nat
  BY HeapConstants DEF HeapConstants, IsSize
<1>3. /\ BinIndex(nb) \in Bins /\ BinIndex(nb) # 1 /\ BinIndex(nb) \in Nat /\ BinIndex(nb) >= 2
      /\ \A c \in F : BinIndex(z[c]) \in Nat /\ (z[c] >= nb => BinIndex(nb) <= BinIndex(z[c]))
  <2>1. BinIndex(nb) \in Bins /\ BinIndex(nb) # 1 /\ BinIndex(nb) \in Nat
    BY BinOfSize
  <2>2. BinIndex(nb) >= 1
    BY <2>1 DEF Bins
  <2>3. \A c \in F : BinIndex(z[c]) \in Nat /\ (z[c] >= nb => BinIndex(nb) <= BinIndex(z[c]))
    <3>1. \A c \in F : z[c] >= nb => nb <= z[c]
      BY <1>1, <1>2
    <3>. QED
      BY <1>1, <3>1, LargerBins
  <2>. QED
    BY <2>1, <2>2, <2>3
<1>4. CASE SmallRequest(nb)
  <2>. DEFINE j == nb \div 2
  <2>1. j \in Nat /\ j >= 2 /\ 2 * j = nb /\ i = j + 2 /\ nb + 2 < SmallLimit
    BY <1>2, <1>4 DEF ScanFrom, SmallRequest
  <2>2. BinIndex(nb) = j
    <3>1. 2 * BinIndex(nb) = nb
      BY <1>2, <2>1, BinOfSize
    <3>. HIDE DEF j
    <3>. QED
      BY <1>3, <2>1, <3>1
  <2>3. ExactFit(h, nb) =
          IF h.bins[IF h.bins[j] # <<>> THEN j ELSE j + 1] = <<>> THEN NULL
          ELSE Last(h.bins[IF h.bins[j] # <<>> THEN j ELSE j + 1])
    BY <1>4 DEF ExactFit
  <2>. HIDE DEF j
  <2>4. j \in Bins /\ j + 1 \in Bins
    <3>1. IsSize(nb + 2)
      BY <1>2 DEF IsSize
    <3>2. 2 * BinIndex(nb + 2) = nb + 2 /\ BinIndex(nb + 2) \in Nat /\ BinIndex(nb + 2) \in Bins
      BY <1>2, <2>1, <3>1, BinOfSize
    <3>3. BinIndex(nb + 2) = j + 1
      BY <2>1, <3>2
    <3>. QED
      BY <1>3, <2>2, <3>2, <3>3
  <2>5. ASSUME ExactFit(h, nb) = NULL PROVE Len(h.bins[j]) = 0 /\ Len(h.bins[j + 1]) = 0
    <3>1. \A k \in Bins : h.bins[k] # <<>> => Last(h.bins[k]) # NULL
      <4>. SUFFICES ASSUME NEW k \in Bins, h.bins[k] # <<>> PROVE Last(h.bins[k]) # NULL
        OBVIOUS
      <4>1. h.bins[k] \in Seq(Nat)
        BY ListLengths
      <4>2. Len(h.bins[k]) \in 1 .. Len(h.bins[k])
        BY <4>1, EmptySeq
      <4>3. Last(h.bins[k]) \in Nat
        BY <4>1, <4>2 DEF Last
      <4>. QED
        BY <4>3 DEF NULL
    <3>2. h.bins[j] = <<>>
      BY <2>3, <2>4, <2>5, <3>1
    <3>3. h.bins[j + 1] = <<>>
      BY <2>3, <2>4, <2>5, <3>1, <3>2
    <3>. QED
      BY <3>2, <3>3
  <2>6. ASSUME ExactFit(h, nb) = NULL, \A c \in Binned(h, 1) : ~(z[c] >= nb), NEW c \in F, z[c] >= nb
        PROVE  i <= BinIndex(z[c])
    <3>1. ~(\E k \in 1 .. Len(h.bins[1]) : h.bins[1][k] = c)
      <4>1. h.bins[1] \in Seq(Nat)
        BY OneIsABin, ListLengths
      <4>2. c \notin Binned(h, 1)
        BY <2>6
      <4>. QED
        BY <4>1, <4>2 DEF Binned, Range
    <3>2. \E k \in 1 .. Len(h.bins[BinIndex(z[c])]) : h.bins[BinIndex(z[c])][k] = c
      BY <3>1, InList
    <3>3. BinIndex(z[c]) # j /\ BinIndex(z[c]) # j + 1
      BY <2>5, <2>6, <3>2
    <3>. QED
      BY <1>3, <2>1, <2>2, <2>6, <3>3
  <2>. QED
    BY <1>3, <2>1, <2>2, <2>6
<1>5. CASE ~SmallRequest(nb)
  <2>. DEFINE j == BinIndex(nb)  p == SmallestIn(h, j, nb)
  <2>1. i = (IF p # NULL THEN j ELSE j + 1)
    BY <1>5 DEF ScanFrom
  <2>2. ExactFit(h, nb) = IF p # NULL /\ ChunkSize(h.mem, p) < nb + 4 THEN p ELSE NULL
    BY <1>5 DEF ExactFit, MinSize
  <2>3. Smallest(p, h, F, z, j, nb)
    BY <1>3, SmallestFound
  <2>. HIDE DEF p
  <2>4. CASE p # NULL
    <3>1. i = j /\ p \in F /\ BinIndex(z[p]) = j /\ z[p] >= nb
      BY <2>1, <2>3, <2>4 DEF Smallest
    <3>. QED
      BY <1>3, <3>1
  <2>5. CASE p = NULL
    <3>1. i = j + 1
      BY <2>1, <2>5
    <3>2. \A c \in F : BinIndex(z[c]) = j /\ c \notin Binned(h, 1) => ~(z[c] >= nb)
      BY <1>1, <2>3, <2>5 DEF Smallest
    <3>3. ASSUME \A c \in Binned(h, 1) : ~(z[c] >= nb), NEW c \in F, z[c] >= nb
          PROVE  i <= BinIndex(z[c])
      <4>1. BinIndex(z[c]) # j
        BY <3>2, <3>3
      <4>. QED
        BY <1>3, <3>1, <3>3, <4>1
    <3>. QED
      BY <1>3, <3>1, <3>3
  <2>. QED
    BY <2>4, <2>5
<1>. QED
  BY <1>4, <1>5
\* Chunk r[2] is the smallest that will do, or there is none.
Found(r, h, F, z, nb) ==
  /\ Ready(r[1], h, F, z)
  /\ r[2] # NULL => r[2] \in F /\ z[r[2]] >= nb
  /\ ExactFit(h, nb) = NULL /\ (\A c \in Binned(h, 1) : ~(z[c] >= nb)) =>
        /\ r[2] # NULL => \A c \in F : z[c] >= nb => z[r[2]] <= z[c]
        /\ r[2] = NULL => \A c \in F : ~(z[c] >= nb)

LEMMA ScanFinds ==
  ASSUME NEW h, NEW F, NEW z, Lists(h.bins, h.blocks, F, z), Sized(h, F, z), NEW nb, IsSize(nb),
         NEW b, Ready(b, h, F, z)
  PROVE  Found(Scan(b, ScanFrom(h, nb), nb), h, F, z, nb)
<1>. DEFINE i == ScanFrom(h, nb)
            fits == Fitting(b, i, nb)
            passed == Passed(b, i, nb)
            g == [b EXCEPT !.blocks = @ \ passed]
            p == SmallestIn(b, Min(fits), nb)
            r == Scan(b, i, nb)
            sound == ExactFit(h, nb) = NULL /\ (\A c \in Binned(h, 1) : ~(z[c] >= nb))
<1>1. /\ \A c \in F : ChunkSize(h.mem, c) = z[c] /\ IsSize(z[c]) /\ z[c] \in Nat /\ c \in Nat /\ c # NULL
      /\ nb \in Nat
  BY InList, Sizes DEF Sized, NULL
<1>2. /\ i \in Nat /\ i >= 2 /\ BinIndex(nb) \in Nat
      /\ \/ i > BinIndex(nb)
         \/ /\ i = BinIndex(nb)
            /\ \E q \in F : BinIndex(z[q]) = i /\ z[q] >= nb
      /\ sound => \A c \in F : z[c] >= nb => i <= BinIndex(z[c])
  <2>1. \E k : k = i
    OBVIOUS
  <2>2. PICK k : k = i
    BY <2>1
  <2>3. k = ScanFrom(h, nb)
    BY <2>2
  <2>. HIDE DEF i
  <2>4. /\ k \in Nat /\ k >= 2 /\ BinIndex(nb) \in Nat
        /\ \/ k > BinIndex(nb)
           \/ /\ k = BinIndex(nb)
              /\ \E q \in F : BinIndex(z[q]) = k /\ z[q] >= nb
        /\ sound => \A c \in F : z[c] >= nb => k <= BinIndex(z[c])
    BY <2>3, ScanStart
  <2>. QED
    BY <2>2, <2>4
<1>. HIDE DEF i, sound
<1>3. /\ Fields(b) /\ b.mem = h.mem /\ b.top = h.top /\ b.brk = h.brk
      /\ Lists(b.bins, b.blocks, F, z) /\ b.bins[1] = <<>> /\ Sized(b, F, z) /\ Binned(b, 1) = {}
  <2>1. /\ Fields(b) /\ b.mem = h.mem /\ b.top = h.top /\ b.brk = h.brk
        /\ Lists(b.bins, b.blocks, F, z) /\ b.bins[1] = <<>>
    BY DEF Ready
  <2>2. Sized(b, F, z)
    BY <2>1 DEF Sized
  <2>3. Binned(b, 1) = {}
    BY <2>1 DEF Binned, Range
  <2>. QED
    BY <2>1, <2>2, <2>3
<1>4. \A j \in Bins \ {1} : Smallest(SmallestIn(b, j, nb), b, F, z, j, nb)
  BY <1>3, SmallestFound
<1>5. \A j \in Bins : j \in Nat
  BY DEF Bins
<1>6. \A c \in F : /\ BinIndex(z[c]) \in Bins \ {1}
                   /\ \E k \in 1 .. Len(b.bins[BinIndex(z[c])]) : b.bins[BinIndex(z[c])][k] = c
                   /\ Block(BinIndex(z[c])) \in b.blocks
  <2>. SUFFICES ASSUME NEW c \in F
       PROVE  /\ BinIndex(z[c]) \in Bins \ {1}
              /\ \E k \in 1 .. Len(b.bins[BinIndex(z[c])]) : b.bins[BinIndex(z[c])][k] = c
              /\ Block(BinIndex(z[c])) \in b.blocks
    OBVIOUS
  <2>1. Len(b.bins[1]) = 0
    BY <1>3
  <2>2. \/ \E k \in 1 .. Len(b.bins[1]) : b.bins[1][k] = c
        \/ /\ BinIndex(z[c]) \in Bins \ {1}
           /\ \E k \in 1 .. Len(b.bins[BinIndex(z[c])]) : b.bins[BinIndex(z[c])][k] = c
    BY <1>3, InList
  <2>3. /\ BinIndex(z[c]) \in Bins \ {1}
        /\ \E k \in 1 .. Len(b.bins[BinIndex(z[c])]) : b.bins[BinIndex(z[c])][k] = c
    BY <2>1, <2>2
  <2>4. PICK j \in Bins \ {1} : j = BinIndex(z[c])
    BY <2>3
  <2>5. Block(j) \in b.blocks
    <3>1. PICK k \in 1 .. Len(b.bins[j]) : b.bins[j][k] = c
      BY <2>3, <2>4
    <3>. QED
      BY <1>3, <3>1, InBin
  <2>. QED
    BY <2>3, <2>4, <2>5
<1>7. Ready(g, h, F, z)
  <2>1. ASSUME NEW j \in Bins \ {1}, NEW k \in 1 .. Len(b.bins[j]), Block(j) \in passed PROVE FALSE
    <3>1. PICK c \in F : c = b.bins[j][k] /\ BinIndex(z[c]) = j /\ Block(j) \in b.blocks
      BY <1>3, InBin
    <3>2. /\ \A l \in fits : Block(j) < Block(l)
          /\ j < i => b.bins[j] = <<>>
      BY <2>1 DEF Passed
    <3>3. ~(j < i)
      <4>1. b.bins[j] = <<>> => Len(b.bins[j]) = 0
        OBVIOUS
      <4>. QED
        BY <3>2, <4>1
    <3>4. j \in Scanned(b, i)
      BY <1>2, <1>5, <3>1, <3>3 DEF Scanned
    <3>5. SmallestIn(b, j, nb) = NULL
      <4>1. Block(j) \in Int
        BY <1>5 DEF Block, BinBlockWidth
      <4>2. j \notin fits
        BY <3>2, <4>1
      <4>. QED
        BY <3>4, <4>2 DEF Fitting
    <3>6. \A q \in F : BinIndex(z[q]) = j => ~(z[q] >= nb)
      <4>1. Smallest(NULL, b, F, z, j, nb)
        BY <1>4, <3>5
      <4>. QED
        BY <1>1, <1>3, <4>1 DEF Smallest
    <3>7. j <= BinIndex(nb)
      <4>1. z[c] <= nb
        BY <1>1, <3>1, <3>6
      <4>. QED
        BY <1>1, <3>1, <4>1, BinsGrow
    <3>. QED
      BY <1>2, <1>5, <3>3, <3>6, <3>7
  <2>2. Fields(g) /\ g.mem = h.mem /\ g.top = h.top /\ g.brk = h.brk /\ g.bins = b.bins
        /\ g.blocks = b.blocks \ passed
    BY <1>3 DEF Fields
  <2>. HIDE DEF g, passed
  <2>3. Lists(b.bins, b.blocks \ passed, F, z)
    <3>1. \A j \in Bins \ {1} : \A k \in 1 .. Len(b.bins[j]) :
             /\ BinIndex(z[b.bins[j][k]]) = j /\ Block(j) \in b.blocks
             /\ \A l \in 1 .. Len(b.bins[j]) : k < l => z[b.bins[j][l]] <= z[b.bins[j][k]]
      <4>. SUFFICES ASSUME NEW j \in Bins, j # 1
           PROVE  \A k \in 1 .. Len(b.bins[j]) :
                    /\ BinIndex(z[b.bins[j][k]]) = j /\ Block(j) \in b.blocks
                    /\ \A l \in 1 .. Len(b.bins[j]) : k < l => z[b.bins[j][l]] <= z[b.bins[j][k]]
        OBVIOUS
      <4>1. Lists(b.bins, b.blocks, F, z)
        BY <1>3
      <4>. QED
        BY <4>1, InBin
    <3>2. \A j \in Bins \ {1} : \A k \in 1 .. Len(b.bins[j]) :
             /\ BinIndex(z[b.bins[j][k]]) = j /\ Block(j) \in b.blocks \ passed
             /\ \A l \in 1 .. Len(b.bins[j]) : k < l => z[b.bins[j][l]] <= z[b.bins[j][k]]
      BY <2>1, <3>1
    <3>3. b.blocks \ passed \subseteq {Block(j) : j \in Bins}
      BY <1>3, BinsAreLists
    <3>. QED
      BY <1>3, <3>2, <3>3 DEF Lists
  <2>. QED
    BY <1>3, <2>2, <2>3 DEF Ready
<1>. HIDE DEF g, passed
<1>8. ASSUME fits = {} PROVE Found(r, h, F, z, nb)
  <2>1. r[1] = g /\ r[2] = NULL
    BY <1>8 DEF Scan, g, passed
  <2>2. ASSUME sound, NEW c \in F, z[c] >= nb PROVE FALSE
    <3>1. PICK j \in Bins \ {1} : j = BinIndex(z[c]) /\ Block(j) \in b.blocks
      BY <1>6
    <3>2. i <= j
      BY <1>2, <2>2, <3>1
    <3>3. j \in Scanned(b, i)
      BY <1>2, <1>5, <3>1, <3>2 DEF Scanned
    <3>4. SmallestIn(b, j, nb) = NULL
      BY <1>8, <3>3 DEF Fitting
    <3>5. Smallest(NULL, b, F, z, j, nb)
      BY <1>4, <3>4
    <3>. QED
      BY <1>1, <1>3, <2>2, <3>1, <3>5 DEF Smallest
  <2>. HIDE DEF r
  <2>. QED
    BY <1>7, <2>1, <2>2 DEF Found, sound
<1>9. ASSUME fits # {} PROVE Found(r, h, F, z, nb)
  <2>1. fits \in SUBSET Nat /\ fits \subseteq Bins \ {1} /\ \A j \in fits : SmallestIn(b, j, nb) # NULL /\ i <= j
    BY <1>2, <1>5 DEF Fitting, Scanned
  <2>. DEFINE first == Min(fits)
  <2>2. first \in fits /\ \A j \in fits : first <= j
    <3>. HIDE DEF fits
    <3>. QED
      BY <1>9, <2>1, MinIsIn
  <2>3. r[1] = g /\ r[2] = SmallestIn(b, first, nb)
    BY <1>9 DEF Scan, g, passed
  <2>. HIDE DEF first
  <2>4. PICK q : q = SmallestIn(b, first, nb)
    OBVIOUS
  <2>5. q # NULL /\ Smallest(q, b, F, z, first, nb)
    BY <1>4, <2>1, <2>2, <2>4
  <2>6. /\ q \in F /\ z[q] >= nb /\ BinIndex(z[q]) = first
        /\ \A c \in F : BinIndex(z[c]) = first /\ z[c] >= nb => z[q] <= z[c]
    BY <1>3, <2>5 DEF Smallest
  <2>7. ASSUME sound, NEW c \in F, z[c] >= nb PROVE z[q] <= z[c]
    <3>1. PICK j \in Bins \ {1} : j = BinIndex(z[c]) /\ Block(j) \in b.blocks
      BY <1>6
    <3>2. i <= j
      BY <1>2, <2>7, <3>1
    <3>3. j \in Scanned(b, i)
      BY <1>2, <1>5, <3>1, <3>2 DEF Scanned
    <3>4. SmallestIn(b, j, nb) # NULL
      <4>1. ASSUME SmallestIn(b, j, nb) = NULL PROVE FALSE
        <5>1. Smallest(NULL, b, F, z, j, nb)
          BY <1>4, <4>1
        <5>. QED
          BY <1>1, <1>3, <2>7, <3>1, <5>1 DEF Smallest
      <4>. QED
        BY <4>1
    <3>5. first <= j
      BY <2>2, <3>3, <3>4 DEF Fitting
    <3>6. CASE first = j
      BY <2>6, <2>7, <3>1, <3>6
    <3>7. CASE first # j
      <4>1. BinIndex(z[q]) < BinIndex(z[c])
        BY <1>5, <2>1, <2>2, <2>6, <3>1, <3>5, <3>7
      <4>. QED
        BY <1>1, <2>6, <4>1, LargerBins
    <3>. QED
      BY <3>6, <3>7
  <2>8. r[1] = g /\ r[2] = q
    BY <2>3, <2>4
  <2>. HIDE DEF r
  <2>. QED
    BY <1>7, <2>5, <2>6, <2>7, <2>8 DEF Found, sound
<1>10. Found(r, h, F, z, nb)
  <2>. HIDE DEF r, fits
  <2>. QED
    BY <1>8, <1>9
<1>. QED
  BY <1>10 DEF r, i

(***************************************************************************)
(* mALLOc.                                                                 *)
(***************************************************************************)
LEMMA HeapSized ==
  ASSUME NEW h, NEW B, NEW z, NEW F, Heap(h, B, z, F)
  PROVE  /\ Fields(h) /\ Lists(h.bins, h.blocks, F, z) /\ Sized(h, F, z)
         /\ Tiled(h.mem, h.top, h.brk, B, z, F)
<1>1. Fields(h) /\ Tiled(h.mem, h.top, h.brk, B, z, F) /\ Lists(h.bins, h.blocks, F, z)
  BY DEF Heap
<1>2. \A c \in F : c \in B /\ IsSize(z[c])
  BY <1>1, TiledFacts
<1>3. \A c \in F : ChunkSize(h.mem, c) = z[c]
  BY <1>1, <1>2, TagsOfTiled
<1>. QED
  BY <1>1, <1>2, <1>3 DEF Sized

LEMMA ReadyHolds ==
  ASSUME NEW h, NEW B, NEW z, NEW F, Heap(h, B, z, F), NEW g, Ready(g, h, F, z)
  PROVE  Heap(g, B, z, F) /\ Used(g, B, F) = Used(h, B, F)
BY DEF Heap, Ready, Used

\* Step 1 to 4 of mALLOc: what is served, if not the front of the top
Served(p, h, F, z, nb) ==
  /\ p # NULL => p \in F /\ z[p] >= nb
  /\ p \notin F => \A c \in F : ~(z[c] >= nb)
  /\ p \in F /\ p \notin Binned(h, 1) => \A c \in F : c \notin Binned(h, 1) /\ z[c] >= nb => z[p] <= z[c]

LEMMA AllocServes ==
  ASSUME NEW h, Fields(h), NEW F, NEW z, Lists(h.bins, h.blocks, F, z), Sized(h, F, z),
         NEW nb, IsSize(nb)
  PROVE  \E g, p : /\ Served(p, h, F, z, nb)
                   /\ g = h \/ Ready(g, h, F, z)
                   /\ p = NULL => mALLOc(h, nb) = FromTop(g, nb) /\ Ready(g, h, F, z)
                   /\ p # NULL => /\ mALLOc(h, nb) = Fit(g, p, nb)
                                  /\ z[p] >= nb + 4 => Only(g.bins[1], p)
<1>. DEFINE x == ExactFit(h, nb)
            lr == h.bins[1]
            b == BinRemainder(h)
            scan == Scan(b, ScanFrom(h, nb), nb)
            Goal == \E g, p : /\ Served(p, h, F, z, nb)
                              /\ g = h \/ Ready(g, h, F, z)
                              /\ p = NULL => mALLOc(h, nb) = FromTop(g, nb) /\ Ready(g, h, F, z)
                              /\ p # NULL => /\ mALLOc(h, nb) = Fit(g, p, nb)
                                             /\ z[p] >= nb + 4 => Only(g.bins[1], p)
<1>1. Exact(x, h, F, z, nb)
  BY ExactFound
<1>2. Found(scan, h, F, z, nb)
  <2>1. Ready(b, h, F, z)
    BY RemainderBinned
  <2>. HIDE DEF b
  <2>. QED
    BY <2>1, ScanFinds
<1>3. /\ \A c \in F : ChunkSize(h.mem, c) = z[c] /\ z[c] \in Nat /\ c \in Nat /\ c # NULL
      /\ nb \in Nat
  BY InList, Sizes DEF Sized, NULL
<1>4. mALLOc(h, nb) = IF x # NULL THEN Fit(h, x, nb)
                      ELSE IF lr # <<>> /\ ChunkSize(h.mem, lr[1]) >= nb THEN Fit(h, lr[1], nb)
                      ELSE IF scan[2] # NULL THEN Fit(scan[1], scan[2], nb)
                      ELSE FromTop(scan[1], nb)
  BY DEF mALLOc, LastRemainder
<1>5. NULL \notin F
  BY <1>3
<1>. HIDE DEF x, scan, b
<1>6. CASE x # NULL
  <2>1. /\ x \in F /\ z[x] >= nb /\ z[x] < nb + 4 /\ x \notin Binned(h, 1)
        /\ \A c \in F : c \notin Binned(h, 1) /\ z[c] >= nb => z[x] <= z[c]
    BY <1>1, <1>6 DEF Exact
  <2>2. Served(x, h, F, z, nb)
    BY <2>1 DEF Served
  <2>3. ~(z[x] >= nb + 4)
    BY <1>3, <2>1
  <2>. QED
    BY <1>4, <1>6, <2>2, <2>3
<1>7. CASE x = NULL /\ lr # <<>> /\ ChunkSize(h.mem, lr[1]) >= nb
  <2>1. Only(lr, lr[1]) /\ lr[1] \in F /\ lr[1] \in Nat /\ Binned(h, 1) = {lr[1]}
    BY <1>7, OneRemainder
  <2>2. lr[1] # NULL /\ z[lr[1]] >= nb
    BY <1>3, <1>7, <2>1
  <2>3. Served(lr[1], h, F, z, nb)
    BY <2>1, <2>2 DEF Served
  <2>. QED
    BY <1>4, <1>7, <2>1, <2>2, <2>3
<1>8. CASE x = NULL /\ ~(lr # <<>> /\ ChunkSize(h.mem, lr[1]) >= nb)
  <2>1. \A c \in Binned(h, 1) : ~(z[c] >= nb)
    <3>1. CASE lr = <<>>
      BY <3>1 DEF Binned, Range
    <3>2. CASE lr # <<>>
      <4>1. lr[1] \in F /\ Binned(h, 1) = {lr[1]}
        BY <3>2, OneRemainder
      <4>. QED
        BY <1>3, <1>8, <3>2, <4>1
    <3>. QED
      BY <3>1, <3>2
  <2>2. /\ Ready(scan[1], h, F, z)
        /\ scan[2] # NULL => scan[2] \in F /\ z[scan[2]] >= nb
        /\ scan[2] # NULL => \A c \in F : z[c] >= nb => z[scan[2]] <= z[c]
        /\ scan[2] = NULL => \A c \in F : ~(z[c] >= nb)
    BY <1>2, <1>8, <2>1 DEF Found, x
  <2>3. Served(scan[2], h, F, z, nb)
    BY <1>5, <2>2 DEF Served
  <2>4. scan[1].bins[1] = <<>>
    BY <2>2 DEF Ready
  <2>5. Only(scan[1].bins[1], scan[2])
    <3>1. Len(<<>>) = 0
      OBVIOUS
    <3>. QED
      BY <2>4, <3>1 DEF Only
  <2>6. PICK g, p : g = scan[1] /\ p = scan[2]
    OBVIOUS
  <2>7. /\ Served(p, h, F, z, nb) /\ Ready(g, h, F, z)
        /\ p = NULL => mALLOc(h, nb) = FromTop(g, nb)
        /\ p # NULL => mALLOc(h, nb) = Fit(g, p, nb) /\ Only(g.bins[1], p)
    BY <1>4, <1>8, <2>2, <2>3, <2>5, <2>6
  <2>. QED
    BY <2>7
<1>. QED
  BY <1>6, <1>7, <1>8

LEMMA AllocHolds ==
  ASSUME NEW h, NEW U, Good(h, U), NEW nb, IsSize(nb)
  PROVE  Got(mALLOc(h, nb), h.mem, U, nb) \/ Refused(mALLOc(h, nb), h.mem, U)
<1>1. CASE Holds(h, U)
  <2>1. PICK B, z, F : Heap(h, B, z, F) /\ U = Used(h, B, F)
    BY <1>1 DEF Holds
  <2>2. Fields(h) /\ Lists(h.bins, h.blocks, F, z) /\ Sized(h, F, z)
    BY <2>1, HeapSized
  <2>3. PICK g, p : /\ Served(p, h, F, z, nb)
                    /\ g = h \/ Ready(g, h, F, z)
                    /\ p = NULL => mALLOc(h, nb) = FromTop(g, nb) /\ Ready(g, h, F, z)
                    /\ p # NULL => /\ mALLOc(h, nb) = Fit(g, p, nb)
                                   /\ z[p] >= nb + 4 => Only(g.bins[1], p)
    BY <2>2, AllocServes
  <2>4. Heap(g, B, z, F) /\ Used(g, B, F) = U /\ g.mem = h.mem
    <3>1. CASE g = h
      BY <2>1, <3>1
    <3>2. CASE Ready(g, h, F, z)
      BY <2>1, <3>2, ReadyHolds DEF Ready
    <3>. QED
      BY <2>3, <3>1, <3>2
  <2>5. CASE p # NULL
    <3>1. p \in F /\ z[p] >= nb
      BY <2>3, <2>5 DEF Served
    <3>2. Got(Fit(g, p, nb), g.mem, Used(g, B, F), nb)
      BY <2>3, <2>4, <2>5, <3>1, FitHolds
    <3>. QED
      BY <2>3, <2>4, <2>5, <3>2
  <2>6. CASE p = NULL
    <3>1. Good(g, U)
      BY <2>4 DEF Good, Holds
    <3>2. Got(FromTop(g, nb), g.mem, U, nb) \/ Refused(FromTop(g, nb), g.mem, U)
      BY <3>1, FromTopHolds
    <3>. QED
      BY <2>3, <2>4, <2>6, <3>2
  <2>. QED
    BY <2>5, <2>6
<1>2. CASE Blank(h) /\ U = {}
  <2>1. PICK z : Lists(h.bins, h.blocks, {}, z)
    BY <1>2 DEF Blank
  <2>2. Fields(h) /\ Sized(h, {}, z)
    BY <1>2 DEF Blank, Sized
  <2>3. PICK g, p : /\ Served(p, h, {}, z, nb)
                    /\ p = NULL => mALLOc(h, nb) = FromTop(g, nb) /\ Ready(g, h, {}, z)
    BY <2>1, <2>2, AllocServes
  <2>4. p = NULL
    BY <2>3 DEF Served
  <2>5. Ready(g, h, {}, z) /\ mALLOc(h, nb) = FromTop(g, nb)
    BY <2>3, <2>4
  <2>6. Blank(g) /\ g.mem = h.mem
    BY <1>2, <2>5 DEF Blank, Ready
  <2>7. Good(g, U)
    BY <1>2, <2>6 DEF Good
  <2>8. Got(FromTop(g, nb), g.mem, U, nb) \/ Refused(FromTop(g, nb), g.mem, U)
    BY <2>7, FromTopHolds
  <2>. QED
    BY <2>5, <2>6, <2>8
<1>. QED
  BY <1>1, <1>2 DEF Good

(***************************************************************************)
(* rEALLOc.                                                                *)

(***************************************************************************)
(* The words from chunk a to e become one chunk in use, or two: all the    *)
(* free chunks there are off the lists.                                    *)
Rebuilt(g, m, F, z, brk, tip, a, e) ==
  /\ Fields(g) /\ Around(m, g.mem, a, e, brk) /\ g.top = tip /\ g.brk = brk
  /\ Lists(g.bins, g.blocks, Beside(F, a, e), z)

InUse(B, F, top) == B \ (F \cup {top})

OneHead(n, F, z, a, e) == n[a + 1] = (e - a) + Bit(a, F, z) /\ n[e + 1] = z[e] + 1

LEMMA OneRebuilt ==
  ASSUME NEW m, NEW top, NEW brk, NEW B, NEW z, NEW F, Tiled(m, top, brk, B, z, F),
         NEW a \in B, NEW e \in B, a < e,
         NEW g, Rebuilt(g, m, F, z, brk, top, a, e),
         OneHead(g.mem, F, z, a, e)
  PROVE  /\ Holds(g, Outside(InUse(B, F, top), a, e) \cup {a})
         /\ Keeps(m, g.mem, Outside(InUse(B, F, top), a, e))
         /\ ChunkSize(g.mem, a) = e - a
<1>. DEFINE U == InUse(B, F, top)
            C == Join(B, a, e)  y == With(z, a, e - a)  G == Beside(F, a, e)
<1>1. /\ \A q \in B : q \in Nat /\ z[q] \in Nat /\ q + z[q] <= brk /\ q + 3 < brk
      /\ \A q, r \in B : q < r => q + z[q] <= r
      /\ top \in B /\ top \notin F /\ F \subseteq B /\ brk \in Nat /\ z \in [Nat -> Nat]
      /\ top + z[top] = brk
  BY TiledFacts DEF Tiled
<1>2. a \in Nat /\ e \in Nat /\ e - a \in Nat /\ e # brk /\ a # top
  <2>1. a \in Nat /\ e \in Nat /\ e + 3 < brk /\ a + z[a] <= e
    BY <1>1
  <2>2. e - a \in Nat /\ e # brk
    BY <1>1, <2>1
  <2>3. a # top
    BY <1>1, <2>1
  <2>. QED
    BY <2>1, <2>2, <2>3
<1>3. /\ Fields(g) /\ Around(m, g.mem, a, e, brk) /\ g.top = top /\ g.brk = brk
      /\ Lists(g.bins, g.blocks, G, z)
  BY DEF Rebuilt
<1>4. Tiled(g.mem, top, brk, C, y, G)
  <2>1. \E n : n = g.mem
    OBVIOUS
  <2>2. PICK n : n = g.mem
    BY <2>1
  <2>3. Around(m, n, a, e, brk) /\ n[a + 1] = (e - a) + Bit(a, F, z) /\ n[e + 1] = z[e] + 1
    BY <1>3, <2>2 DEF OneHead
  <2>4. Tiled(n, IF e = brk THEN a ELSE top, brk, C, y, Beside(F, a, e) \cup {})
    BY <1>2, <2>3, OneChunk
  <2>. QED
    BY <1>2, <2>2, <2>4
<1>5. y[a] = e - a /\ \A q \in Nat : q # a => y[q] = z[q]
  BY <1>1, <1>2, WithIs
<1>. HIDE DEF y
<1>6. a \in C /\ ChunkSize(g.mem, a) = e - a
  <2>1. a \in C
    BY <1>2 DEF Join
  <2>. HIDE DEF C, G
  <2>. QED
    BY <1>4, <1>5, <2>1, TagsOfTiled
<1>7. Lists(g.bins, g.blocks, G, y)
  <2>1. \A q \in G : y[q] = z[q]
    BY <1>1, <1>2, <1>5 DEF Beside
  <2>. HIDE DEF G
  <2>. QED
    BY <1>3, <2>1, ListsStay
<1>8. Outside(U, a, e) \cup {a} = C \ (G \cup {top})
  <2>1. ASSUME NEW q PROVE q \in Outside(U, a, e) \cup {a} <=> q \in C \ (G \cup {top})
    <3>1. CASE q = a
      BY <1>1, <1>2, <3>1 DEF Outside, Join, Beside, InUse
    <3>2. CASE q # a /\ q \in B
      <4>1. q <= a <=> q < a
        BY <1>1, <1>2, <3>2
      <4>. QED
        BY <3>2, <4>1 DEF Outside, Join, Beside, InUse
    <3>3. CASE q # a /\ q \notin B
      BY <3>3 DEF Outside, Join, InUse
    <3>. QED
      BY <3>1, <3>2, <3>3
  <2>. QED
    BY <2>1
<1>9. Holds(g, Outside(U, a, e) \cup {a})
  <2>1. Heap(g, C, y, G)
    BY <1>3, <1>4, <1>7 DEF Heap
  <2>2. Used(g, C, G) = C \ (G \cup {top})
    BY <1>3 DEF Used
  <2>. HIDE DEF C, G
  <2>. QED
    BY <1>8, <2>1, <2>2 DEF Holds
<1>10. Keeps(m, g.mem, Outside(U, a, e))
  <2>1. Beyond(B, z, C, y, a, e)
    BY <1>1, <1>2, <1>5 DEF Beyond, Join
  <2>2. U \subseteq B \ {top}
    BY DEF InUse
  <2>3. PICK n : n = g.mem
    OBVIOUS
  <2>. HIDE DEF C, G
  <2>4. Keeps(m, n, Outside(U, a, e))
    BY <1>3, <1>4, <2>1, <2>2, <2>3, OutsideIsKept
  <2>. QED
    BY <2>3, <2>4
<1>. QED
  BY <1>6, <1>9, <1>10

TwoHeads(n, F, z, brk, a, c, e) ==
  /\ n[a + 1] = (c - a) + Bit(a, F, z) /\ n[c + 1] = (e - c) + 1
  /\ e # brk => n[e + 1] = z[e] + 1

Parts(a, c, e) == c \in Nat /\ IsSize(c - a) /\ IsSize(e - c)

Tip(top, brk, c, e) == IF e = brk THEN c ELSE top

LEMMA TwoRebuilt ==
  ASSUME NEW m, NEW top, NEW brk, NEW B, NEW z, NEW F, Tiled(m, top, brk, B, z, F),
         NEW a \in B, NEW e \in B \cup {brk}, a < e, NEW c, Parts(a, c, e),
         NEW g, Rebuilt(g, m, F, z, brk, Tip(top, brk, c, e), a, e), TwoHeads(g.mem, F, z, brk, a, c, e)
  PROVE  /\ Holds(g, (Outside(InUse(B, F, top), a, e) \cup {a, c}) \ {Tip(top, brk, c, e)})
         /\ Keeps(m, g.mem, Outside(InUse(B, F, top), a, e))
         /\ ChunkSize(g.mem, a) = c - a /\ a # Tip(top, brk, c, e)
         /\ c \notin Outside(InUse(B, F, top), a, e)
<1>. DEFINE U == InUse(B, F, top)
            tip == Tip(top, brk, c, e)
            C == Join(B, a, e) \cup {c}  x == With(z, a, c - a)  y == With(x, c, e - c)  G == Beside(F, a, e)
<1>1. /\ \A q \in B : q \in Nat /\ z[q] \in Nat /\ q + z[q] <= brk /\ q + 3 < brk
      /\ \A q, r \in B : q < r => q + z[q] <= r
      /\ top \in B /\ top \notin F /\ F \subseteq B /\ brk \in Nat /\ z \in [Nat -> Nat]
      /\ top + z[top] = brk
  BY TiledFacts DEF Tiled
<1>2. a \in Nat /\ e \in Nat /\ c - a \in Nat /\ e - c \in Nat /\ c - a >= 4 /\ e - c >= 4
  <2>1. a \in Nat /\ e \in Nat
    BY <1>1
  <2>. QED
    BY <2>1 DEF IsSize, Parts
<1>3. a < c /\ c < e /\ a # c /\ c \in Nat /\ IsSize(c - a) /\ IsSize(e - c)
      /\ tip = IF e = brk THEN c ELSE top
  BY <1>2 DEF Parts, Tip
<1>. HIDE DEF tip
<1>4. /\ Fields(g) /\ Around(m, g.mem, a, e, brk) /\ g.top = tip /\ g.brk = brk
      /\ Lists(g.bins, g.blocks, G, z)
  BY DEF Rebuilt, tip
<1>5. Tiled(g.mem, tip, brk, C, y, G)
  <2>1. \E n : n = g.mem
    OBVIOUS
  <2>2. PICK n : n = g.mem
    BY <2>1
  <2>3. Around(m, n, a, e, brk) /\ n[a + 1] = (c - a) + Bit(a, F, z) /\ n[c + 1] = (e - c) + 1
        /\ (e # brk => n[e + 1] = z[e] + 1)
    BY <1>4, <2>2 DEF TwoHeads
  <2>4. Tiled(n, IF e = brk THEN c ELSE top, brk, C, y, Beside(F, a, e) \cup {})
    BY <1>3, <2>3, TwoChunks
  <2>. QED
    BY <1>3, <2>2, <2>4
<1>6. y[a] = c - a /\ \A q \in Nat : q # a /\ q # c => y[q] = z[q]
  <2>1. z \in [Nat -> Nat] /\ a \in Nat /\ c \in Nat /\ a # c /\ c - a \in Nat /\ e - c \in Nat
    BY <1>1, <1>2, <1>3
  <2>. QED
    BY <2>1 DEF With
<1>. HIDE DEF y
<1>7. a \in C /\ ChunkSize(g.mem, a) = c - a
  <2>1. a \in C
    BY <1>2 DEF Join
  <2>. HIDE DEF C, G
  <2>. QED
    BY <1>5, <1>6, <2>1, TagsOfTiled
<1>8. Lists(g.bins, g.blocks, G, y)
  <2>1. \A q \in G : y[q] = z[q]
    BY <1>1, <1>2, <1>3, <1>6 DEF Beside
  <2>. HIDE DEF G
  <2>. QED
    BY <1>4, <2>1, ListsStay
<1>9. c \notin Outside(U, a, e) /\ a # tip /\ c # a
  <2>1. c \notin Outside(U, a, e)
    BY <1>2, <1>3 DEF Outside, InUse
  <2>2. CASE e = brk
    BY <1>3, <2>1, <2>2
  <2>3. CASE e # brk
    <3>1. a + z[a] <= e /\ e + 3 < brk
      BY <1>1, <2>3
    <3>2. a # top
      BY <1>1, <1>2, <3>1
    <3>. QED
      BY <1>3, <2>1, <2>3, <3>2
  <2>. QED
    BY <2>2, <2>3
<1>10. (Outside(U, a, e) \cup {a, c}) \ {tip} = C \ (G \cup {tip})
  <2>1. CASE e = brk
    <3>1. tip = c /\ ~(e <= top) /\ a <= top
      <4>1. tip = c /\ top + 3 < brk
        BY <1>1, <1>3, <2>1
      <4>2. ~(top < a)
        BY <1>1, <1>2
      <4>. QED
        BY <1>1, <1>2, <2>1, <4>1, <4>2
    <3>2. a = top \/ a < top
      BY <1>1, <1>2, <3>1
    <3>3. ASSUME NEW q PROVE q \in (Outside(U, a, e) \cup {a, c}) \ {tip} <=> q \in C \ (G \cup {tip})
      <4>1. CASE q = a
        BY <1>1, <1>2, <1>3, <3>1, <4>1 DEF Outside, Join, Beside, InUse
      <4>2. CASE q = c
        BY <3>1, <4>2
      <4>3. CASE q # a /\ q # c /\ q \in B
        <5>1. (q <= a <=> q < a) /\ ~(e <= q) /\ (q < a => q # top)
          BY <1>1, <1>2, <2>1, <3>2, <4>3
        <5>. QED
          BY <3>1, <4>3, <5>1 DEF Outside, Join, Beside, InUse
      <4>4. CASE q # a /\ q # c /\ q \notin B
        BY <4>4 DEF Outside, Join, InUse
      <4>. QED
        BY <4>1, <4>2, <4>3, <4>4
    <3>. QED
      BY <3>3
  <2>2. CASE e # brk
    <3>1. tip = top
      BY <1>3, <2>2
    <3>2. ASSUME NEW q PROVE q \in (Outside(U, a, e) \cup {a, c}) \ {tip} <=> q \in C \ (G \cup {tip})
      <4>1. CASE q = a
        BY <1>1, <1>2, <1>3, <1>9, <4>1 DEF Outside, Join, Beside, InUse
      <4>2. CASE q = c
        <5>1. c # top
          <6>1. c < top
            <7>1. e \in B /\ e + z[e] <= brk /\ e + 3 < brk /\ ~(top < e)
              <8>1. e \in B /\ e + 3 < brk
                BY <1>1, <2>2
              <8>2. top < e => top + z[top] <= e
                BY <1>1, <8>1
              <8>. QED
                BY <1>1, <1>2, <8>1, <8>2
            <7>. QED
              BY <1>1, <1>2, <1>3, <7>1
          <6>. QED
            BY <1>1, <6>1
        <5>2. ~(c < a) /\ ~(e <= c)
          BY <1>2, <1>3
        <5>. QED
          BY <3>1, <4>2, <5>1, <5>2 DEF Beside
      <4>3. CASE q # a /\ q # c /\ q \in B
        <5>1. q <= a <=> q < a
          BY <1>1, <1>2, <4>3
        <5>. QED
          BY <3>1, <4>3, <5>1 DEF Outside, Join, Beside, InUse
      <4>4. CASE q # a /\ q # c /\ q \notin B
        BY <4>4 DEF Outside, Join, InUse
      <4>. QED
        BY <4>1, <4>2, <4>3, <4>4
    <3>. QED
      BY <3>2
  <2>. QED
    BY <2>1, <2>2
<1>11. Holds(g, (Outside(U, a, e) \cup {a, c}) \ {tip})
  <2>1. Heap(g, C, y, G)
    BY <1>4, <1>5, <1>8 DEF Heap
  <2>2. Used(g, C, G) = C \ (G \cup {tip})
    BY <1>4 DEF Used
  <2>. HIDE DEF C, G
  <2>. QED
    BY <1>10, <2>1, <2>2 DEF Holds
<1>12. Keeps(m, g.mem, Outside(U, a, e))
  <2>1. Beyond(B, z, C, y, a, e)
    BY <1>1, <1>2, <1>3, <1>6 DEF Beyond, Join
  <2>2. U \subseteq B \ {top}
    BY DEF InUse
  <2>3. PICK n : n = g.mem
    OBVIOUS
  <2>. HIDE DEF C, G
  <2>4. Keeps(m, n, Outside(U, a, e))
    BY <1>4, <1>5, <2>1, <2>2, <2>3, OutsideIsKept
  <2>. QED
    BY <2>3, <2>4
<1>. QED
  BY <1>7, <1>9, <1>11, <1>12 DEF tip
(* A chunk in use, and what may be written there.                          *)
LEMMA UsedChunk ==
  ASSUME NEW h, NEW U, Holds(h, U), NEW p \in U
  PROVE  /\ IsPlace(p) /\ p \in Nat /\ IsSize(ChunkSize(h.mem, p))
         /\ ChunkSize(h.mem, p) \in Nat /\ ChunkSize(h.mem, p) >= 4
         /\ End \in Nat /\ p + ChunkSize(h.mem, p) + 3 < End /\ h.mem \in Memory
<1>1. PICK B, z, F : Heap(h, B, z, F) /\ U = Used(h, B, F)
  BY DEF Holds
<1>2. p \in B /\ p # h.top /\ Tiled(h.mem, h.top, h.brk, B, z, F)
  BY <1>1 DEF Used, Heap
<1>3. ChunkSize(h.mem, p) = z[p] /\ p + z[p] \in B
  BY <1>2, TagsOfTiled
<1>4. /\ IsPlace(p) /\ IsSize(z[p]) /\ p \in Nat /\ z[p] \in Nat /\ z[p] >= 4
      /\ p + z[p] + 3 < h.brk /\ h.brk <= End /\ End \in Nat /\ h.brk \in Nat
  BY <1>2, <1>3, TiledFacts
<1>5. h.mem \in Memory
  BY <1>2 DEF Tiled, Memory
<1>. QED
  BY <1>3, <1>4, <1>5

LEMMA Overwritten ==
  ASSUME NEW h, NEW U, Holds(h, U), NEW p \in U,
         NEW n, But(h.mem, n, p + 2 .. p + ChunkSize(h.mem, p)),
         NEW g, g = [h EXCEPT !.mem = n]
  PROVE  Holds(g, U) /\ Keeps(h.mem, n, U \ {p}) /\ ChunkSize(n, p) = ChunkSize(h.mem, p)
<1>1. PICK B, z, F : Heap(h, B, z, F) /\ U = Used(h, B, F)
  BY DEF Holds
<1>. DEFINE m == h.mem  top == h.top  brk == h.brk  e == p + z[p]
<1>2. /\ p \in B /\ p # top /\ p \notin F /\ U = B \ (F \cup {top})
      /\ Fields(h) /\ Tiled(m, top, brk, B, z, F) /\ Lists(h.bins, h.blocks, F, z)
  BY <1>1 DEF Used, Heap
<1>3. ChunkSize(m, p) = z[p] /\ m[p + 1] = z[p] + Bit(p, F, z) /\ e \in B
  BY <1>2, TagsOfTiled
<1>4. e \notin Ends(F, z)
  <2>1. ASSUME NEW q \in F, q + z[q] = e PROVE FALSE
    <3>1. Layout(B, z, brk) /\ q \in B
      BY <1>2 DEF Tiled, Frees
    <3>2. q = p
      BY <1>2, <2>1, <3>1, OneEnd
    <3>. QED
      BY <1>2, <3>2
  <2>. QED
    BY <2>1 DEF Ends
<1>5. m[e + 1] = z[e] + 1
  <2>1. m[e + 1] = z[e] + Bit(e, F, z)
    BY <1>2, <1>3, TagsOfTiled
  <2>. QED
    BY <1>4, <2>1 DEF Bit
<1>6. /\ p \in Nat /\ z[p] \in Nat /\ z[p] >= 4 /\ e + 3 < brk /\ brk <= End /\ End \in Nat /\ brk \in Nat
      /\ m \in Memory /\ e \in Nat /\ p < e
  <2>1. m \in Memory
    BY <1>2 DEF Tiled, Memory
  <2>2. /\ p \in Nat /\ z[p] \in Nat /\ z[p] >= 4 /\ e + 3 < brk /\ brk <= End /\ End \in Nat /\ brk \in Nat
    BY <1>2, <1>3, TiledFacts
  <2>. QED
    BY <2>1, <2>2
<1>7. Alone(B, F, p, e) /\ Beside(F, p, e) = F /\ Outside(U, p, e) = U \ {p}
  <2>1. Alone(B, F, p, e)
    BY <1>2, ChunkSpan
  <2>2. F \ {p} = F
    BY <1>2
  <2>3. U \in SUBSET B
    BY <1>2
  <2>. HIDE DEF e
  <2>. QED
    BY <2>1, <2>2, <2>3 DEF Alone
<1>8. /\ g.mem = n /\ Fields(g) /\ g.top = top /\ g.brk = brk /\ g.bins = h.bins /\ g.blocks = h.blocks
  BY <1>2 DEF Fields
<1>9. n \in Memory /\ \A w \in Words0 : w \notin p + 2 .. e => n[w] = m[w]
  BY <1>3 DEF But
<1>10. Around(m, n, p, e, brk) /\ n[p + 1] = m[p + 1] /\ n[e + 1] = m[e + 1]
  <2>1. \A w \in Words0 : w \in Int
    BY <1>6 DEF Words0
  <2>2. p + 1 \in Words0 /\ p + 1 \notin p + 2 .. e /\ e + 1 \in Words0 /\ e + 1 \notin p + 2 .. e
    <3>. HIDE DEF e, brk
    <3>. QED
      BY <1>6 DEF Words0
  <2>3. \A w \in Words0 : w <= p \/ e + 1 < w => w \notin p + 2 .. e
    BY <1>6, <2>1
  <2>4. e # brk
    BY <1>6
  <2>. QED
    BY <1>9, <2>2, <2>3, <2>4 DEF Around, Memory
<1>11. p < e /\ e - p = z[p]
  BY <1>6
<1>12. Rebuilt(g, m, F, z, brk, top, p, e)
  BY <1>2, <1>7, <1>8, <1>10 DEF Rebuilt
<1>13. OneHead(g.mem, F, z, p, e)
  BY <1>3, <1>5, <1>8, <1>10, <1>11 DEF OneHead
<1>. HIDE DEF m, top, brk, e
<1>14. /\ Holds(g, Outside(U, p, e) \cup {p}) /\ Keeps(m, g.mem, Outside(U, p, e))
       /\ ChunkSize(g.mem, p) = e - p
  <2>1. Tiled(m, top, brk, B, z, F) /\ p \in B /\ e \in B /\ p < e /\ U = InUse(B, F, top)
    BY <1>2, <1>3, <1>11 DEF InUse
  <2>. QED
    BY ONLY <2>1, <1>12, <1>13, OneRebuilt
<1>15. (U \ {p}) \cup {p} = U
  OBVIOUS
<1>. QED
  BY <1>3, <1>7, <1>8, <1>11, <1>14, <1>15 DEF m
(* The words inside the chunks from a to e hold anything, and those of the *)
(* chunks that are free are off the lists.                                 *)
Inside(m, n, a, e) ==
  n \in Memory /\ \A w \in Words0 : w <= a + 1 \/ e <= w => n[w] = m[w]

Loose(h, m, F, z, top, brk, a, e) ==
  /\ Fields(h) /\ h.top = top /\ h.brk = brk /\ Inside(m, h.mem, a, e)
  /\ Lists(h.bins, h.blocks, Beside(F, a, e), z)

(* What was in memory n at place a is in the chunk there now.              *)
Stays(n, k, a) == \A w \in a + 2 .. a + ChunkSize(k, a) : k[w] = n[w]

LEMMA SpanFacts ==
  ASSUME NEW m, NEW top, NEW brk, NEW B, NEW z, NEW F, Tiled(m, top, brk, B, z, F),
         NEW a \in B, NEW e \in B, a < e
  PROVE  /\ a \in Nat /\ e \in Nat /\ e + 3 < brk /\ brk <= End /\ End \in Nat /\ brk \in Nat
         /\ e - a \in Nat /\ IsSize(e - a) /\ top >= e /\ top \in Nat /\ e # brk
         /\ z[e] \in Nat /\ z[e] % 2 = 0
         /\ m \in Memory /\ a + 1 \in Words0 /\ e + 1 \in Words0
         /\ m[a + 1] % 2 = Bit(a, F, z) /\ ChunkSize(m, e) = z[e]
         /\ top \notin Outside(InUse(B, F, top), a, e) /\ a \notin Outside(InUse(B, F, top), a, e)
<1>1. m \in Memory
  BY DEF Tiled, Memory
<1>2. /\ \A q \in B : /\ IsPlace(q) /\ IsSize(z[q]) /\ q \in Nat /\ z[q] \in Nat /\ z[q] >= 4
                      /\ q + z[q] <= brk /\ q + 3 < brk
      /\ \A q, r \in B : q < r => q + z[q] <= r
      /\ brk \in Nat /\ brk <= End /\ End \in Nat /\ top \in B
  BY TiledFacts
<1>3. top + z[top] = brk
  BY DEF Tiled
<1>4. a \in Nat /\ e \in Nat /\ e + 3 < brk /\ a + z[a] <= e /\ z[a] \in Nat /\ z[a] >= 4
  BY <1>2
<1>5. IsSize(e - a)
  <2>1. a % 2 = 0 /\ e % 2 = 0
    BY <1>2 DEF IsPlace
  <2>2. (e - a) % 2 = 0
    BY <1>4, <2>1
  <2>. QED
    BY <1>4, <2>2 DEF IsSize
<1>6. top >= e /\ top \in Nat
  BY <1>2, <1>3, <1>4
<1>7. a + 1 \in Words0 /\ e + 1 \in Words0
  BY <1>2, <1>4 DEF Words0
<1>8. m[a + 1] % 2 = Bit(a, F, z) /\ ChunkSize(m, e) = z[e]
  BY TagsOfTiled
<1>9. z[e] \in Nat /\ z[e] % 2 = 0
  BY <1>2 DEF IsSize
<1>10. top \notin Outside(InUse(B, F, top), a, e) /\ a \notin Outside(InUse(B, F, top), a, e)
  BY <1>4 DEF Outside, InUse
<1>. QED
  BY <1>1, <1>2, <1>4, <1>5, <1>6, <1>7, <1>8, <1>9, <1>10

LEMMA LopWhole ==
  ASSUME NEW m, NEW top, NEW brk, NEW B, NEW z, NEW F, Tiled(m, top, brk, B, z, F),
         NEW a \in B, NEW e \in B, a < e, NEW h, Loose(h, m, F, z, top, brk, a, e),
         NEW n, n = SetInuseAt(SetHeadSize(h.mem, a, e - a), e),
         NEW g, g = [h EXCEPT !.mem = n]
  PROVE  /\ Rebuilt(g, m, F, z, brk, top, a, e) /\ OneHead(g.mem, F, z, a, e)
         /\ g.mem = n /\ \A w \in Words0 : a + 2 <= w /\ w <= e => n[w] = h.mem[w]
<1>. DEFINE m1 == SetHeadSize(h.mem, a, e - a)  V == Outside(InUse(B, F, top), a, e)
<1>1. /\ a \in Nat /\ e \in Nat /\ e + 3 < brk /\ brk <= End /\ End \in Nat /\ brk \in Nat
      /\ e - a \in Nat /\ e # brk /\ z[e] \in Nat
      /\ m \in Memory /\ a + 1 \in Words0 /\ e + 1 \in Words0
      /\ m[a + 1] % 2 = Bit(a, F, z) /\ ChunkSize(m, e) = z[e]
  BY SpanFacts
<1>2. /\ Fields(h) /\ h.top = top /\ h.brk = brk /\ h.mem \in Memory
      /\ \A w \in Words0 : w <= a + 1 \/ e <= w => h.mem[w] = m[w]
      /\ Lists(h.bins, h.blocks, Beside(F, a, e), z)
  BY DEF Loose, Inside
<1>3. \A w \in Words0 : w \in Int
  BY <1>1 DEF Words0
<1>4. h.mem[a + 1] = m[a + 1] /\ h.mem[e + 1] = m[e + 1]
  BY <1>1, <1>2
<1>5. But(h.mem, m1, {a + 1}) /\ m1[a + 1] = (e - a) + Bit(a, F, z) /\ m1 \in Memory
  <2>1. But(h.mem, m1, {a + 1}) /\ m1[a + 1] = (e - a) + (h.mem[a + 1] % 2)
    <3>1. a \in Int /\ e - a \in Int
      BY <1>1
    <3>. QED
      BY <1>1, <1>2, <3>1, HeadSizeIsSet
  <2>. HIDE DEF m1
  <2>. QED
    BY <1>1, <1>4, <2>1, ButIsMemory
<1>. HIDE DEF m1
<1>6. m1[e + 1] = m[e + 1]
  BY <1>1, <1>4, <1>5 DEF But
<1>7. But(m1, n, {e + 1}) /\ n[e + 1] = z[e] + 1 /\ n \in Memory
  <2>1. n = SetInuseAt(m1, e) /\ e \in Int
    BY <1>1 DEF m1
  <2>2. But(m1, n, {e + 1}) /\ n[e + 1] = ChunkSize(m1, e) + 1
    BY <1>1, <1>5, <2>1, InuseIsSet
  <2>3. ChunkSize(m1, e) = ChunkSize(m, e)
    BY <1>6 DEF ChunkSize
  <2>. QED
    BY <1>1, <2>2, <2>3, ButIsMemory
<1>8. /\ \A w \in Words0 : w # a + 1 => m1[w] = h.mem[w]
      /\ \A w \in Words0 : w # e + 1 => n[w] = m1[w]
  BY <1>5, <1>7 DEF But
<1>9. n[a + 1] = (e - a) + Bit(a, F, z)
  <2>1. a + 1 # e + 1
    BY <1>1
  <2>. QED
    BY <1>1, <1>5, <1>8, <2>1
<1>10. \A w \in Words0 : a + 2 <= w /\ w <= e => n[w] = h.mem[w]
  BY <1>1, <1>3, <1>8
<1>11. Around(m, n, a, e, brk)
  <2>1. \A w \in Words0 : w <= a \/ e + 1 < w => w # a + 1 /\ w # e + 1 /\ (w <= a + 1 \/ e <= w)
    BY <1>1, <1>3
  <2>2. \A w \in Words0 : w <= a \/ e + 1 < w => n[w] = m[w]
    BY <1>2, <1>8, <2>1
  <2>. QED
    BY <1>1, <1>7, <2>2 DEF Around, Memory
<1>12. Fields(g) /\ g.mem = n /\ g.top = top /\ g.brk = brk /\ g.bins = h.bins /\ g.blocks = h.blocks
  BY <1>2 DEF Fields
<1>13. Rebuilt(g, m, F, z, brk, top, a, e) /\ OneHead(g.mem, F, z, a, e)
  BY <1>2, <1>7, <1>9, <1>11, <1>12 DEF Rebuilt, OneHead
<1>. QED
  BY <1>10, <1>12, <1>13

LEMMA LopParts ==
  ASSUME NEW m, NEW top, NEW brk, NEW B, NEW z, NEW F, Tiled(m, top, brk, B, z, F),
         NEW a \in B, NEW e \in B, a < e, NEW h, Loose(h, m, F, z, top, brk, a, e),
         NEW nb, IsSize(nb), e - a >= nb + 4, NEW c, c = a + nb,
         NEW n, n = SetInuseAt(SetHead(SetHeadSize(h.mem, a, nb), c, (e - a) - nb), e),
         NEW g, g = [h EXCEPT !.mem = n]
  PROVE  /\ Rebuilt(g, m, F, z, brk, Tip(top, brk, c, e), a, e) /\ TwoHeads(g.mem, F, z, brk, a, c, e)
         /\ g.mem = n /\ Parts(a, c, e) /\ \A w \in Words0 : a + 2 <= w /\ w <= c => n[w] = h.mem[w]
<1>. DEFINE m1 == SetHeadSize(h.mem, a, nb)  l == (e - a) - nb  m2 == SetHead(m1, c, l)
<1>1. /\ a \in Nat /\ e \in Nat /\ e + 3 < brk /\ brk <= End /\ End \in Nat /\ brk \in Nat
      /\ e - a \in Nat /\ e # brk /\ z[e] \in Nat /\ IsSize(e - a)
      /\ m \in Memory /\ a + 1 \in Words0 /\ e + 1 \in Words0
      /\ m[a + 1] % 2 = Bit(a, F, z) /\ ChunkSize(m, e) = z[e]
  BY SpanFacts
<1>2. /\ Fields(h) /\ h.top = top /\ h.brk = brk /\ h.mem \in Memory
      /\ \A w \in Words0 : w <= a + 1 \/ e <= w => h.mem[w] = m[w]
      /\ Lists(h.bins, h.blocks, Beside(F, a, e), z)
  BY DEF Loose, Inside
<1>3. \A w \in Words0 : w \in Int
  BY <1>1 DEF Words0
<1>4. h.mem[a + 1] = m[a + 1] /\ h.mem[e + 1] = m[e + 1]
  BY <1>1, <1>2
<1>5. /\ nb \in Nat /\ nb >= 4 /\ l \in Nat /\ l >= 4 /\ IsSize(l) /\ c \in Nat /\ c + l = e
      /\ c - a = nb /\ e - c = l /\ a < c /\ c < e
  <2>1. nb \in Nat /\ nb >= 4 /\ nb % 2 = 0 /\ (e - a) % 2 = 0
    BY <1>1 DEF IsSize
  <2>2. l \in Nat /\ l >= 4 /\ l % 2 = 0
    BY <1>1, <2>1
  <2>. QED
    BY <1>1, <2>1, <2>2 DEF IsSize
<1>6. Parts(a, c, e)
  BY <1>5 DEF Parts
<1>. HIDE DEF l
<1>7. c + 1 \in Words0 /\ a + 1 # c + 1 /\ c + 1 # e + 1
  BY <1>1, <1>5 DEF Words0
<1>8. But(h.mem, m1, {a + 1}) /\ m1[a + 1] = nb + Bit(a, F, z) /\ m1 \in Memory
  <2>1. But(h.mem, m1, {a + 1}) /\ m1[a + 1] = nb + (h.mem[a + 1] % 2)
    <3>1. a \in Int /\ nb \in Int
      BY <1>1, <1>5
    <3>. QED
      BY <1>1, <1>2, <3>1, HeadSizeIsSet
  <2>. HIDE DEF m1
  <2>. QED
    BY <1>1, <1>4, <2>1, ButIsMemory
<1>. HIDE DEF m1
<1>9. But(m1, m2, {c + 1}) /\ m2[c + 1] = l + 1 /\ m2 \in Memory
  <2>1. c \in Int /\ l \in Int
    BY <1>5
  <2>. QED
    BY <1>7, <1>8, <2>1, HeadIsSet, ButIsMemory
<1>10. n = SetInuseAt(m2, e)
  BY DEF m1, l
<1>. HIDE DEF m2
<1>11. /\ \A w \in Words0 : w # a + 1 => m1[w] = h.mem[w]
       /\ \A w \in Words0 : w # c + 1 => m2[w] = m1[w]
  BY <1>8, <1>9 DEF But
<1>12. m2[e + 1] = m[e + 1]
  BY <1>1, <1>4, <1>5, <1>7, <1>11
<1>13. But(m2, n, {e + 1}) /\ n[e + 1] = z[e] + 1 /\ n \in Memory
  <2>1. e \in Int
    BY <1>1
  <2>2. But(m2, n, {e + 1}) /\ n[e + 1] = ChunkSize(m2, e) + 1
    BY <1>1, <1>9, <1>10, <2>1, InuseIsSet
  <2>3. ChunkSize(m2, e) = ChunkSize(m, e)
    BY <1>12 DEF ChunkSize
  <2>. QED
    BY <1>1, <2>2, <2>3, ButIsMemory
<1>14. \A w \in Words0 : w # e + 1 => n[w] = m2[w]
  BY <1>13 DEF But
<1>15. n[a + 1] = (c - a) + Bit(a, F, z) /\ n[c + 1] = (e - c) + 1
  <2>1. a + 1 # e + 1
    BY <1>1
  <2>2. n[a + 1] = m1[a + 1] /\ n[c + 1] = m2[c + 1]
    BY <1>1, <1>7, <1>11, <1>14, <2>1
  <2>. QED
    BY <1>5, <1>8, <1>9, <2>2
<1>16. \A w \in Words0 : a + 2 <= w /\ w <= c => n[w] = h.mem[w]
  <2>1. \A w \in Words0 : a + 2 <= w /\ w <= c => w # a + 1 /\ w # c + 1 /\ w # e + 1
    BY <1>1, <1>3, <1>5
  <2>. QED
    BY <1>11, <1>14, <2>1
<1>17. Around(m, n, a, e, brk)
  <2>1. \A w \in Words0 : w <= a \/ e + 1 < w => w # a + 1 /\ w # c + 1 /\ w # e + 1 /\ (w <= a + 1 \/ e <= w)
    BY <1>1, <1>3, <1>5
  <2>2. \A w \in Words0 : w <= a \/ e + 1 < w => n[w] = m[w]
    BY <1>2, <1>11, <1>14, <2>1
  <2>. QED
    BY <1>1, <1>13, <2>2 DEF Around, Memory
<1>18. Fields(g) /\ g.mem = n /\ g.top = top /\ g.brk = brk /\ g.bins = h.bins /\ g.blocks = h.blocks
  BY <1>2 DEF Fields
<1>19. Tip(top, brk, c, e) = top
  BY <1>1 DEF Tip
<1>20. Rebuilt(g, m, F, z, brk, Tip(top, brk, c, e), a, e) /\ TwoHeads(g.mem, F, z, brk, a, c, e)
  BY <1>2, <1>13, <1>15, <1>17, <1>18, <1>19 DEF Rebuilt, TwoHeads
<1>. QED
  BY <1>6, <1>16, <1>18, <1>20

\* Chunk r[2], at a, has at least nb words and what was in memory n there.
Resized(r, n, m, U, nb, a) == r[2] = a /\ Got(r, m, U, nb) /\ Stays(n, r[1].mem, a)

LEMMA LopHolds ==
  ASSUME NEW m, NEW top, NEW brk, NEW B, NEW z, NEW F, Tiled(m, top, brk, B, z, F),
         NEW a \in B, NEW e \in B, a < e, NEW h, Loose(h, m, F, z, top, brk, a, e),
         NEW nb, IsSize(nb), e - a >= nb
  PROVE  Resized(Lop(h, a, e - a, nb), h.mem, m, Outside(InUse(B, F, top), a, e), nb, a)
<1>. DEFINE V == Outside(InUse(B, F, top), a, e)  s == e - a  r == Lop(h, a, s, nb)
<1>1. /\ a \in Nat /\ e \in Nat /\ e + 3 < brk /\ brk <= End /\ End \in Nat /\ brk \in Nat
      /\ s \in Nat /\ e # brk /\ IsSize(s) /\ a + s = e /\ top >= e /\ top \in Nat
      /\ top \notin V /\ a \notin V
  BY SpanFacts
<1>2. nb \in Nat /\ nb >= 4
  BY DEF IsSize
<1>3. \A w \in Nat : w < brk => w \in Words0
  BY <1>1 DEF Words0
<1>. HIDE DEF V
<1>4. CASE s - nb >= 4
  <2>. DEFINE c == a + nb  n == SetInuseAt(SetHead(SetHeadSize(h.mem, a, nb), c, s - nb), e)
              g == [h EXCEPT !.mem = n]  f == fREe(g, c)
  <2>1. r = <<f, a>>
    BY <1>1, <1>4 DEF Lop, MinSize
  <2>. HIDE DEF n, g, f, c, r
  <2>2. /\ Rebuilt(g, m, F, z, brk, Tip(top, brk, c, e), a, e) /\ TwoHeads(g.mem, F, z, brk, a, c, e)
        /\ g.mem = n /\ Parts(a, c, e) /\ \A w \in Words0 : a + 2 <= w /\ w <= c => n[w] = h.mem[w]
    <3>1. e - a >= nb + 4
      BY <1>1, <1>2, <1>4
    <3>2. c = a + nb /\ g = [h EXCEPT !.mem = n]
          /\ n = SetInuseAt(SetHead(SetHeadSize(h.mem, a, nb), c, (e - a) - nb), e)
      BY DEF c, g, n
    <3>. HIDE DEF s
    <3>. QED
      BY <3>1, <3>2, LopParts
  <2>3. Tip(top, brk, c, e) = top
    BY <1>1 DEF Tip
  <2>4. /\ Holds(g, (V \cup {a, c}) \ {top}) /\ Keeps(m, g.mem, V)
        /\ ChunkSize(g.mem, a) = c - a /\ a # top /\ c \notin V
    BY ONLY Tiled(m, top, brk, B, z, F), a \in B, e \in B, a < e, <2>2, <2>3, TwoRebuilt DEF V
  <2>5. c - a = nb /\ c # a /\ c # top /\ c \in Nat
    BY <1>1, <1>2, <1>4 DEF c
  <2>6. (V \cup {a, c}) \ {top} = V \cup {a, c}
    BY <1>1, <2>4, <2>5
  <2>7. (V \cup {a, c}) \ {c} = V \cup {a}
    BY <2>4, <2>5
  <2>8. Holds(g, V \cup {a, c})
    BY <2>4, <2>6
  <2>9. Holds(f, V \cup {a}) /\ Keeps(g.mem, f.mem, V \cup {a})
    <3>1. PICK W : W = V \cup {a, c}
      OBVIOUS
    <3>2. c \in W /\ Holds(g, W)
      BY <2>8, <3>1
    <3>3. Holds(f, W \ {c}) /\ Keeps(g.mem, f.mem, W \ {c})
      BY <3>2, FreeHolds DEF f
    <3>. QED
      BY <2>7, <3>1, <3>3
  <2>10. Keeps(m, f.mem, V)
    <3>1. Keeps(g.mem, f.mem, V)
      BY <2>9 DEF Keeps
    <3>. QED
      BY <2>4, <3>1, KeepsOn
  <2>11. ChunkSize(f.mem, a) = nb /\ \A w \in a + 2 .. a + nb : f.mem[w] = g.mem[w]
    <3>1. KeptChunk(g.mem, f.mem, a)
      BY <2>9 DEF Keeps
    <3>. QED
      BY <2>4, <2>5, <3>1 DEF KeptChunk
  <2>12. Stays(h.mem, f.mem, a)
    <3>1. ASSUME NEW w \in a + 2 .. a + nb PROVE f.mem[w] = h.mem[w]
      <4>1. w \in Nat /\ w < brk /\ a + 2 <= w /\ w <= c
        BY <1>1, <1>2, <1>4, <2>5
      <4>. QED
        BY <1>3, <2>2, <2>11, <4>1
    <3>. QED
      BY <2>11, <3>1 DEF Stays
  <2>13. Got(r, m, V, nb)
    <3>1. nb \in nb .. nb + 3
      BY <1>2
    <3>. QED
      BY <1>1, <2>1, <2>9, <2>10, <2>11, <3>1 DEF Got
  <2>. QED
    BY <2>1, <2>12, <2>13 DEF Resized, r, V
<1>5. CASE ~(s - nb >= 4)
  <2>. DEFINE n == SetInuseAt(SetHeadSize(h.mem, a, s), e)  g == [h EXCEPT !.mem = n]
  <2>1. r = <<g, a>>
    BY <1>1, <1>5 DEF Lop, MinSize
  <2>. HIDE DEF n, g, r
  <2>2. /\ Rebuilt(g, m, F, z, brk, top, a, e) /\ OneHead(g.mem, F, z, a, e)
        /\ g.mem = n /\ \A w \in Words0 : a + 2 <= w /\ w <= e => n[w] = h.mem[w]
    <3>1. g = [h EXCEPT !.mem = n] /\ n = SetInuseAt(SetHeadSize(h.mem, a, e - a), e)
      BY DEF g, n
    <3>. QED
      BY <3>1, LopWhole
  <2>3. Holds(g, V \cup {a}) /\ Keeps(m, g.mem, V) /\ ChunkSize(g.mem, a) = s
    BY ONLY Tiled(m, top, brk, B, z, F), a \in B, e \in B, a < e, <2>2, OneRebuilt DEF V, s
  <2>4. s \in nb .. nb + 3
    BY <1>1, <1>2, <1>5
  <2>5. Stays(h.mem, g.mem, a)
    <3>1. ASSUME NEW w \in a + 2 .. a + s PROVE g.mem[w] = h.mem[w]
      <4>1. w \in Nat /\ w < brk /\ a + 2 <= w /\ w <= e
        BY <1>1
      <4>. QED
        BY <1>3, <2>2, <4>1
    <3>. QED
      BY <2>3, <3>1 DEF Stays
  <2>6. Got(r, m, V, nb)
    BY <1>1, <2>1, <2>3, <2>4 DEF Got
  <2>. QED
    BY <2>1, <2>5, <2>6 DEF Resized, r, V
<1>. QED
  BY <1>4, <1>5

LEMMA IntoTopHolds ==
  ASSUME NEW m, NEW top, NEW brk, NEW B, NEW z, NEW F, Tiled(m, top, brk, B, z, F),
         NEW a \in B, NEW h, Loose(h, m, F, z, top, brk, a, brk),
         NEW nb, IsSize(nb), brk - a >= nb + 4
  PROVE  Resized(IntoTop(h, a, brk - a, nb), h.mem, m, Outside(InUse(B, F, top), a, brk), nb, a)
<1>. DEFINE V == Outside(InUse(B, F, top), a, brk)  s == brk - a  r == IntoTop(h, a, s, nb)
            c == a + nb  l == s - nb  m1 == SetHead(h.mem, c, l)  n == SetHeadSize(m1, a, nb)
            g == [h EXCEPT !.mem = n, !.top = c]
<1>1. /\ IsPlace(brk) /\ IsPlace(a) /\ a \in Nat /\ brk \in Nat /\ brk <= End /\ End \in Nat /\ a + 3 < brk
      /\ m \in Memory /\ m[a + 1] % 2 = Bit(a, F, z) /\ \A q \in B : q \in Nat /\ q + 3 < brk
  <2>1. m \in Memory
    BY DEF Tiled, Memory
  <2>2. m[a + 1] % 2 = Bit(a, F, z)
    BY TagsOfTiled
  <2>3. /\ IsPlace(brk) /\ IsPlace(a) /\ a \in Nat /\ brk \in Nat /\ brk <= End /\ End \in Nat /\ a + 3 < brk
        /\ \A q \in B : q \in Nat /\ q + 3 < brk
    BY TiledFacts
  <2>. QED
    BY <2>1, <2>2, <2>3
<1>2. /\ nb \in Nat /\ nb >= 4 /\ l \in Nat /\ l >= 4 /\ IsSize(l) /\ c \in Nat /\ c + l = brk
      /\ c - a = nb /\ brk - c = l /\ a < c /\ c + 3 < brk /\ a # c
  <2>1. nb \in Nat /\ nb >= 4 /\ nb % 2 = 0 /\ brk % 2 = 0 /\ a % 2 = 0
    BY <1>1 DEF IsSize, IsPlace
  <2>2. l \in Nat /\ l >= 4 /\ l % 2 = 0
    BY <1>1, <2>1
  <2>. QED
    BY <1>1, <2>1, <2>2 DEF IsSize
<1>3. Parts(a, c, brk)
  BY <1>2 DEF Parts
<1>4. r = <<g, a>>
  BY DEF IntoTop
<1>5. /\ Fields(h) /\ h.top = top /\ h.brk = brk /\ h.mem \in Memory
      /\ \A w \in Words0 : w <= a + 1 \/ brk <= w => h.mem[w] = m[w]
      /\ Lists(h.bins, h.blocks, Beside(F, a, brk), z)
  BY DEF Loose, Inside
<1>6. Fields(g) /\ g.mem = n /\ g.top = c /\ g.brk = brk /\ g.bins = h.bins /\ g.blocks = h.blocks
  BY <1>5 DEF Fields
<1>. HIDE DEF V, s, r, c, l, n, g
<1>7. \A w \in Words0 : w \in Int
  BY <1>1 DEF Words0
<1>8. \A w \in Nat : w < brk => w \in Words0
  BY <1>1 DEF Words0
<1>9. a + 1 \in Words0 /\ c + 1 \in Words0 /\ a + 1 # c + 1
  BY <1>1, <1>2, <1>8
<1>10. But(h.mem, m1, {c + 1}) /\ m1[c + 1] = l + 1 /\ m1 \in Memory
  <2>1. c \in Int /\ l \in Int
    BY <1>2
  <2>. QED
    BY <1>5, <1>9, <2>1, HeadIsSet, ButIsMemory
<1>. HIDE DEF m1
<1>11. But(m1, n, {a + 1}) /\ n[a + 1] = nb + (m1[a + 1] % 2) /\ n \in Memory
  <2>1. a \in Int /\ nb \in Int /\ n = SetHeadSize(m1, a, nb)
    BY <1>1, <1>2 DEF n
  <2>. QED
    BY <1>9, <1>10, <2>1, HeadSizeIsSet, ButIsMemory
<1>12. /\ \A w \in Words0 : w # c + 1 => m1[w] = h.mem[w]
       /\ \A w \in Words0 : w # a + 1 => n[w] = m1[w]
  BY <1>10, <1>11 DEF But
<1>13. n[a + 1] = (c - a) + Bit(a, F, z) /\ n[c + 1] = (brk - c) + 1
  <2>1. m1[a + 1] = m[a + 1]
    <3>1. m1[a + 1] = h.mem[a + 1]
      BY <1>9, <1>12
    <3>2. a + 1 <= a + 1
      BY <1>1
    <3>3. h.mem[a + 1] = m[a + 1]
      BY <1>5, <1>9, <3>2
    <3>. QED
      BY <3>1, <3>3
  <2>2. n[c + 1] = m1[c + 1]
    BY <1>9, <1>12
  <2>. QED
    BY <1>1, <1>2, <1>10, <1>11, <2>1, <2>2
<1>14. Around(m, n, a, brk, brk)
  <2>1. \A w \in Words0 : w <= a \/ brk + 1 < w \/ brk <= w =>
           w # a + 1 /\ w # c + 1 /\ (w <= a + 1 \/ brk <= w)
    BY <1>1, <1>2, <1>7
  <2>2. \A w \in Words0 : w <= a \/ brk + 1 < w \/ brk <= w => n[w] = m[w]
    BY <1>5, <1>12, <2>1
  <2>. QED
    BY <1>11, <2>2 DEF Around, Memory
<1>15. Tip(top, brk, c, brk) = c
  BY DEF Tip
<1>16. Rebuilt(g, m, F, z, brk, Tip(top, brk, c, brk), a, brk) /\ TwoHeads(g.mem, F, z, brk, a, c, brk)
  BY <1>5, <1>6, <1>13, <1>14, <1>15 DEF Rebuilt, TwoHeads
<1>17. /\ Holds(g, (V \cup {a, c}) \ {c}) /\ Keeps(m, g.mem, V)
       /\ ChunkSize(g.mem, a) = c - a /\ c \notin V
  <2>1. brk \in B \cup {brk} /\ a < brk
    BY <1>1
  <2>. QED
    BY ONLY Tiled(m, top, brk, B, z, F), a \in B, <2>1, <1>3, <1>15, <1>16, TwoRebuilt DEF V
<1>18. (V \cup {a, c}) \ {c} = V \cup {a} /\ a \notin V
  <2>1. a \notin V
    BY <1>1 DEF V, Outside
  <2>. QED
    BY <1>2, <1>17, <2>1
<1>19. Stays(h.mem, g.mem, a)
  <2>1. ASSUME NEW w \in a + 2 .. a + nb PROVE g.mem[w] = h.mem[w]
    <3>1. w \in Nat /\ w < brk /\ w # a + 1 /\ w # c + 1
      BY <1>1, <1>2 DEF c
    <3>. QED
      BY <1>6, <1>8, <1>12, <3>1
  <2>. QED
    BY <1>2, <1>17, <2>1 DEF Stays
<1>20. Got(r, m, V, nb)
  <2>1. nb \in nb .. nb + 3
    BY <1>2
  <2>. QED
    BY <1>1, <1>2, <1>4, <1>17, <1>18, <2>1 DEF Got
<1>. QED
  BY <1>4, <1>19, <1>20 DEF Resized, r, V, s
(* The chunks around chunk p that rEALLOc makes part of it: from the free  *)
(* one before, if from that, to the one after, if to the end of that.      *)
Around3(B, F, z, top, p, a, e) ==
  /\ a = p \/ (a \in F /\ a + z[a] = p)
  /\ \/ e = p + z[p]
     \/ e = (p + z[p]) + z[p + z[p]] /\ (p + z[p] \in F \/ p + z[p] = top)

LEMMA SpanOf ==
  ASSUME NEW m, NEW top, NEW brk, NEW B, NEW z, NEW F, Tiled(m, top, brk, B, z, F),
         NEW p \in B, p \notin F, p # top, NEW a \in B, NEW e, NEW next, next = p + z[p],
         Around3(B, F, z, top, p, a, e)
  PROVE  /\ p \in Nat /\ a \in Nat /\ z[p] \in Nat /\ z[p] >= 4 /\ next \in B /\ next \in Nat
         /\ e \in B \cup {brk} /\ e \in Nat /\ a < e /\ a <= p /\ next <= e
         /\ e = brk <=> e # next /\ next = top
         /\ Outside(InUse(B, F, top), a, e) = InUse(B, F, top) \ {p}
         /\ a = p /\ e = next => Beside(F, a, e) = F
         /\ a = p /\ e # next => Beside(F, a, e) = F \ {next}
         /\ a # p /\ e = next => Beside(F, a, e) = F \ {a}
         /\ a # p /\ e # next => Beside(F, a, e) = (F \ {a}) \ {next}
<1>1. /\ \A q \in B : /\ q \in Nat /\ z[q] \in Nat /\ z[q] >= 4 /\ q + z[q] <= brk
                      /\ q + z[q] \in B \cup {brk} /\ q + 3 < brk
      /\ \A q, r \in B : q < r => q + z[q] <= r
      /\ top \in B /\ top \notin F /\ F \subseteq B /\ brk \in Nat
      /\ \A q \in B : q + z[q] = brk => q = top
  BY TiledFacts
<1>2. next \in B
  BY <1>1
<1>3. p \in Nat /\ a \in Nat /\ z[p] \in Nat /\ z[p] >= 4 /\ next \in Nat /\ p < next
  BY <1>1, <1>2
<1>4. e \in B \cup {brk} /\ e \in Nat /\ next <= e /\ (e # next => e = next + z[next] /\ (next \in F \/ next = top))
      /\ (e = brk <=> e # next /\ next = top)
  <2>1. CASE e = next
    <3>1. next + 3 < brk
      BY <1>1, <1>2
    <3>. QED
      BY <1>1, <1>2, <1>3, <2>1, <3>1
  <2>2. CASE e # next
    <3>1. e = next + z[next] /\ (next \in F \/ next = top)
      BY <2>2 DEF Around3
    <3>2. e \in B \cup {brk} /\ e \in Nat /\ next <= e
      BY <1>1, <1>2, <1>3, <3>1
    <3>3. top + z[top] = brk
      BY DEF Tiled
    <3>. QED
      BY <1>1, <1>2, <2>2, <3>1, <3>2, <3>3
  <2>. QED
    BY <2>1, <2>2
<1>5. a <= p /\ a < e /\ (a # p => a \in F /\ a + z[a] = p)
  BY <1>1, <1>3, <1>4 DEF Around3
<1>6. \A q \in B : (a <= q /\ q < e) <=> (q = a \/ q = p \/ (q = next /\ e # next))
  <2>. SUFFICES ASSUME NEW q \in B
       PROVE  (a <= q /\ q < e) <=> (q = a \/ q = p \/ (q = next /\ e # next))
    OBVIOUS
  <2>0. q \in Nat
    BY <1>1
  <2>1. CASE q < p
    <3>1. a < q => a + z[a] <= q
      BY <1>1
    <3>. QED
      BY <1>1, <1>3, <1>4, <1>5, <2>0, <2>1, <3>1
  <2>2. CASE q = p
    BY <1>3, <1>4, <1>5, <2>2
  <2>3. CASE p < q
    <3>1. next <= q
      BY <1>1, <2>3
    <3>2. next < q => next + z[next] <= q
      BY <1>1, <1>2
    <3>. QED
      BY <1>1, <1>3, <1>4, <1>5, <2>0, <2>3, <3>1, <3>2
  <2>. QED
    BY <1>3, <2>0, <2>1, <2>2, <2>3
<1>7. \A q \in B : (q < a \/ e <= q) <=> ~(q = a \/ q = p \/ (q = next /\ e # next))
  <2>1. \A q \in B : (q < a \/ e <= q) <=> ~(a <= q /\ q < e)
    BY <1>1, <1>3, <1>4
  <2>. QED
    BY <1>6, <2>1
<1>8. Outside(InUse(B, F, top), a, e) = InUse(B, F, top) \ {p}
  <2>1. ASSUME NEW q \in B, q \notin F, q # top PROVE (q < a \/ e <= q) <=> q # p
    BY <1>4, <1>5, <1>7, <2>1
  <2>. QED
    BY <2>1 DEF Outside, InUse
<1>9. \A q \in F : q \in B /\ q # p
  BY <1>1
<1>10. /\ a = p /\ e = next => Beside(F, a, e) = F
       /\ a = p /\ e # next => Beside(F, a, e) = F \ {next}
       /\ a # p /\ e = next => Beside(F, a, e) = F \ {a}
       /\ a # p /\ e # next => Beside(F, a, e) = (F \ {a}) \ {next}
  BY <1>7, <1>9 DEF Beside
<1>. QED
  BY <1>2, <1>3, <1>4, <1>5, <1>8, <1>10

(* The data of chunk p is, as far as it goes, in chunk q.                  *)
Carried(m, k, p, q) ==
  \A i \in Nat : i + 2 <= ChunkSize(m, p) /\ i + 2 <= ChunkSize(k, q) => k[q + 2 + i] = m[p + 2 + i]

Shifted(m, n, p, a) == \A i \in Nat : i + 2 <= ChunkSize(m, p) => n[a + 2 + i] = m[p + 2 + i]

\* Chunk r[2] has the data of chunk p, and at least nb words.
Moves(r, m, U, nb, p) == Got(r, m, U \ {p}, nb) /\ Carried(m, r[1].mem, p, r[2])

LEMMA ResizedMoves ==
  ASSUME NEW r, NEW n, NEW m, NEW U, NEW nb \in Nat, NEW a \in Nat, NEW p \in Nat,
         Resized(r, n, m, U \ {p}, nb, a), Shifted(m, n, p, a)
  PROVE  Moves(r, m, U, nb, p)
<1>1. r[2] = a /\ Got(r, m, U \ {p}, nb) /\ Stays(n, r[1].mem, a)
  BY DEF Resized
<1>2. ChunkSize(r[1].mem, a) \in nb .. nb + 3
  BY <1>1 DEF Got
<1>3. ASSUME NEW i \in Nat, i + 2 <= ChunkSize(m, p), i + 2 <= ChunkSize(r[1].mem, a)
      PROVE  r[1].mem[a + 2 + i] = m[p + 2 + i]
  <2>1. a + 2 + i \in a + 2 .. a + ChunkSize(r[1].mem, a)
    BY <1>2, <1>3
  <2>2. r[1].mem[a + 2 + i] = n[a + 2 + i]
    BY <1>1, <2>1 DEF Stays
  <2>. QED
    BY <1>3, <2>2 DEF Shifted
<1>. QED
  BY <1>1, <1>3 DEF Moves, Carried

LEMMA LooseHere ==
  ASSUME NEW m, NEW top, NEW brk, NEW B, NEW z, NEW F, Tiled(m, top, brk, B, z, F),
         NEW p, NEW e, NEW g, Fields(g), g.mem = m, g.top = top, g.brk = brk,
         Lists(g.bins, g.blocks, Beside(F, p, e), z)
  PROVE  Loose(g, m, F, z, top, brk, p, e) /\ Shifted(m, g.mem, p, p)
BY DEF Loose, Inside, Shifted, Tiled, Memory

LEMMA LooseBefore ==
  ASSUME NEW m, NEW top, NEW brk, NEW B, NEW z, NEW F, Tiled(m, top, brk, B, z, F),
         NEW p \in B, p \notin F, p # top, NEW a \in B, NEW e, Around3(B, F, z, top, p, a, e), a # p,
         NEW g, Fields(g), g.mem = Copy(m, a + 2, p + 2, z[p] - 1), g.top = top, g.brk = brk,
         Lists(g.bins, g.blocks, Beside(F, a, e), z)
  PROVE  Loose(g, m, F, z, top, brk, a, e) /\ Shifted(m, g.mem, p, a)
<1>1. /\ p \in Nat /\ a \in Nat /\ z[p] \in Nat /\ z[p] >= 4 /\ p + z[p] \in B /\ p + z[p] \in Nat
      /\ e \in Nat /\ a < e /\ a <= p /\ p + z[p] <= e
  BY SpanOf
<1>2. m \in Memory /\ End \in Nat /\ brk <= End /\ brk \in Nat /\ ChunkSize(m, p) = z[p] /\ p + z[p] + 3 < brk
  <2>1. m \in Memory
    BY DEF Tiled, Memory
  <2>2. End \in Nat /\ brk <= End /\ brk \in Nat /\ p + z[p] + 3 < brk
    BY <1>1, TiledFacts
  <2>3. ChunkSize(m, p) = z[p]
    BY TagsOfTiled
  <2>. QED
    BY <2>1, <2>2, <2>3
<1>. DEFINE n == Copy(m, a + 2, p + 2, z[p] - 1)
<1>3. /\ But(m, n, a + 2 .. (a + 2) + (z[p] - 1) - 1)
      /\ \A i \in 0 .. (z[p] - 1) - 1 : (a + 2) + i \in Words0 => n[(a + 2) + i] = m[(p + 2) + i]
  <2>. DEFINE d == a + 2  s == p + 2  l == z[p] - 1
  <2>1. d \in Nat /\ s \in Nat /\ l \in Nat /\ s + l <= End
    BY <1>1, <1>2
  <2>. HIDE DEF d, s, l
  <2>2. Copied(m, Copy(m, d, s, l), d, s, l)
    BY ONLY <1>2, <2>1, RangeIsCopied
  <2>. QED
    BY <2>2 DEF d, s, l, Copied
<1>. HIDE DEF n
<1>4. n \in Memory /\ \A w \in Words0 : w \notin a + 2 .. a + z[p] => n[w] = m[w]
  <2>1. (a + 2) + (z[p] - 1) - 1 = a + z[p]
    BY <1>1
  <2>. QED
    BY <1>3, <2>1 DEF But
<1>5. Inside(m, n, a, e)
  <2>1. \A w \in Words0 : w \in Int
    BY <1>2 DEF Words0
  <2>2. \A w \in Words0 : w <= a + 1 \/ e <= w => w \notin a + 2 .. a + z[p]
    <3>1. a + z[p] < e
      <4>1. a < p
        BY <1>1
      <4>. QED
        BY <1>1, <4>1
    <3>. QED
      BY <1>1, <2>1, <3>1
  <2>. QED
    BY <1>4, <2>2 DEF Inside
<1>6. Shifted(m, n, p, a)
  <2>1. ASSUME NEW i \in Nat, i + 2 <= z[p] PROVE n[a + 2 + i] = m[p + 2 + i]
    <3>1. i \in 0 .. (z[p] - 1) - 1
      BY <1>1, <2>1
    <3>2. (a + 2) + i \in Words0
      BY <1>1, <1>2, <2>1 DEF Words0
    <3>. QED
      BY <1>3, <3>1, <3>2
  <2>. QED
    BY <1>2, <2>1 DEF Shifted
<1>7. g.mem = n
  BY DEF n
<1>. QED
  BY <1>5, <1>6, <1>7 DEF Loose

\* What rEALLOc reads from the tags of the chunks around chunk p
LEMMA Neighbours ==
  ASSUME NEW m, NEW top, NEW brk, NEW B, NEW z, NEW F, Tiled(m, top, brk, B, z, F),
         NEW p \in B, p \notin F, p # top,
         NEW size, size = ChunkSize(m, p), NEW next, next = p + size,
         NEW follows, follows = IF next = top \/ ~Inuse(m, next) THEN ChunkSize(m, next) ELSE 0,
         NEW precedes, precedes = IF PrevInuse(m, p) THEN 0 ELSE m[p],
         NEW prev, prev = p - precedes
  PROVE  /\ size = z[p] /\ p \in Nat /\ size \in Nat /\ size >= 4 /\ next \in Nat /\ next \in B
         /\ follows \in Nat /\ precedes \in Nat
         /\ Around3(B, F, z, top, p, p, next)
         /\ next = top => follows > 0 /\ next + follows = brk
         /\ follows > 0 => /\ Around3(B, F, z, top, p, p, next + follows) /\ next + follows # next
                           /\ next # top => next \in F /\ next + follows \in B
         /\ precedes > 0 => /\ Around3(B, F, z, top, p, prev, next) /\ prev # p /\ prev \in F /\ prev \in B
                            /\ prev \in Nat /\ precedes = p - prev
         /\ precedes > 0 /\ follows > 0 => Around3(B, F, z, top, p, prev, next + follows)
<1>1. /\ \A q \in B : /\ q \in Nat /\ z[q] \in Nat /\ z[q] >= 4
      /\ top \in B /\ top \notin F /\ F \subseteq B
  BY TiledFacts
<1>2. size = z[p] /\ next \in B /\ next = p + z[p]
  BY TagsOfTiled
<1>3. ChunkSize(m, next) = z[next] /\ (next # top => (Inuse(m, next) <=> next \notin F) /\ next + z[next] \in B)
  BY <1>2, TagsOfTiled
<1>4. p \in Nat /\ size \in Nat /\ size >= 4 /\ next \in Nat /\ z[next] \in Nat /\ z[next] >= 4
  BY <1>1, <1>2
<1>5. follows \in Nat /\ (follows > 0 => (next \in F \/ next = top) /\ follows = z[next])
      /\ (next = top => follows = z[next])
  BY <1>3, <1>4
<1>6. top + z[top] = brk
  BY DEF Tiled
<1>7. precedes = 0 \/ \E q \in F : q + z[q] = p /\ precedes = z[q] /\ prev = q
  <2>1. CASE PrevInuse(m, p)
    BY <2>1
  <2>2. CASE ~PrevInuse(m, p)
    <3>1. p \in Ends(F, z)
      BY <2>2, TagsOfTiled
    <3>2. PICK q \in F : q + z[q] = p
      BY <3>1 DEF Ends
    <3>3. m[q + z[q]] = z[q]
      BY <1>1, <3>2, TagsOfTiled
    <3>4. precedes = z[q]
      BY <2>2, <3>2, <3>3
    <3>. QED
      BY <1>1, <3>2, <3>4
  <2>. QED
    BY <2>1, <2>2
<1>8. precedes \in Nat /\ (precedes > 0 => prev \in F /\ prev \in B /\ prev + z[prev] = p /\ prev # p
                                           /\ prev \in Nat /\ precedes = p - prev)
  <2>1. CASE precedes = 0
    BY <2>1
  <2>2. ASSUME NEW q \in F, q + z[q] = p, precedes = z[q], prev = q
        PROVE  /\ precedes \in Nat /\ prev \in F /\ prev \in B /\ prev + z[prev] = p /\ prev # p
               /\ prev \in Nat /\ precedes = p - prev
    <3>1. q \in B /\ q \in Nat /\ z[q] \in Nat /\ z[q] >= 4
      BY <1>1
    <3>2. p - q = z[q] /\ q # p
      BY <1>4, <2>2, <3>1
    <3>. QED
      BY <2>2, <3>1, <3>2
  <2>. QED
    BY <1>7, <2>1, <2>2
<1>9. Around3(B, F, z, top, p, p, next)
  BY <1>2 DEF Around3
<1>10. next = top => follows > 0 /\ next + follows = brk
  BY <1>4, <1>5, <1>6
<1>11. follows > 0 => /\ Around3(B, F, z, top, p, p, next + follows) /\ next + follows # next
                      /\ next # top => next \in F /\ next + follows \in B
  BY <1>2, <1>3, <1>4, <1>5 DEF Around3
<1>12. precedes > 0 => Around3(B, F, z, top, p, prev, next)
  BY <1>2, <1>8 DEF Around3
<1>13. precedes > 0 /\ follows > 0 => Around3(B, F, z, top, p, prev, next + follows)
  BY <1>2, <1>5, <1>8 DEF Around3
<1>. QED
  BY <1>2, <1>4, <1>5, <1>8, <1>9, <1>10, <1>11, <1>12, <1>13

LEMMA LopMoves ==
  ASSUME NEW h, NEW B, NEW z, NEW F, Heap(h, B, z, F), NEW U, U = Used(h, B, F), NEW p \in U,
         NEW a \in B, NEW e \in B, Around3(B, F, z, h.top, p, a, e),
         NEW g, Loose(g, h.mem, F, z, h.top, h.brk, a, e), Shifted(h.mem, g.mem, p, a),
         NEW nb, IsSize(nb), NEW s, s = e - a, s >= nb
  PROVE  Moves(Lop(g, a, s, nb), h.mem, U, nb, p)
<1>. DEFINE m == h.mem  top == h.top  brk == h.brk
<1>1. Tiled(m, top, brk, B, z, F) /\ p \in B /\ p \notin F /\ p # top /\ U = InUse(B, F, top)
  BY DEF Heap, Used, InUse
<1>2. p \in Nat /\ a \in Nat /\ a < e /\ Outside(InUse(B, F, top), a, e) = U \ {p}
  BY <1>1, SpanOf
<1>3. nb \in Nat
  BY DEF IsSize
<1>. HIDE DEF m, top, brk
<1>4. Loose(g, m, F, z, top, brk, a, e) /\ Shifted(m, g.mem, p, a)
  BY DEF m, top, brk
<1>5. Resized(Lop(g, a, s, nb), g.mem, m, U \ {p}, nb, a)
  <2>1. Resized(Lop(g, a, e - a, nb), g.mem, m, Outside(InUse(B, F, top), a, e), nb, a)
    <3>1. e - a >= nb
      OBVIOUS
    <3>. QED
      BY ONLY <1>1, <1>2, <1>4, <3>1, a \in B, e \in B, IsSize(nb), LopHolds
  <2>. QED
    BY <1>2, <2>1
<1>6. Moves(Lop(g, a, s, nb), m, U, nb, p)
  BY <1>2, <1>3, <1>4, <1>5, ResizedMoves
<1>. QED
  BY <1>6 DEF m

LEMMA IntoTopMoves ==
  ASSUME NEW h, NEW B, NEW z, NEW F, Heap(h, B, z, F), NEW U, U = Used(h, B, F), NEW p \in U,
         NEW a \in B, Around3(B, F, z, h.top, p, a, h.brk),
         NEW g, Loose(g, h.mem, F, z, h.top, h.brk, a, h.brk), Shifted(h.mem, g.mem, p, a),
         NEW nb, IsSize(nb), NEW s, s = h.brk - a, s >= nb + 4
  PROVE  Moves(IntoTop(g, a, s, nb), h.mem, U, nb, p)
<1>. DEFINE m == h.mem  top == h.top  brk == h.brk
<1>1. Tiled(m, top, brk, B, z, F) /\ p \in B /\ p \notin F /\ p # top /\ U = InUse(B, F, top)
  BY DEF Heap, Used, InUse
<1>2. p \in Nat /\ a \in Nat /\ a < brk /\ Outside(InUse(B, F, top), a, brk) = U \ {p}
  BY <1>1, SpanOf
<1>3. nb \in Nat
  BY DEF IsSize
<1>. HIDE DEF m, top, brk
<1>4. Loose(g, m, F, z, top, brk, a, brk) /\ Shifted(m, g.mem, p, a) /\ s = brk - a
  BY DEF m, top, brk
<1>5. Resized(IntoTop(g, a, s, nb), g.mem, m, U \ {p}, nb, a)
  <2>1. Resized(IntoTop(g, a, brk - a, nb), g.mem, m, Outside(InUse(B, F, top), a, brk), nb, a)
    <3>1. brk - a >= nb + 4
      BY <1>4
    <3>. QED
      BY ONLY <1>1, <1>2, <1>4, <3>1, a \in B, IsSize(nb), IntoTopHolds
  <2>. QED
    BY <1>2, <1>4, <2>1
<1>6. Moves(IntoTop(g, a, s, nb), m, U, nb, p)
  BY <1>2, <1>3, <1>4, <1>5, ResizedMoves
<1>. QED
  BY <1>6 DEF m
\* The new chunk is elsewhere: the data is copied there and the old one freed.
LEMMA CopyMoves ==
  ASSUME NEW h, NEW U, Holds(h, U), NEW p \in U, NEW nb, IsSize(nb), NEW size, size = ChunkSize(h.mem, p),
         nb > size, NEW new, Got(new, h.mem, U, nb), NEW q, q = new[2],
         NEW c, c = [new[1] EXCEPT !.mem = Copy(@, q + 2, p + 2, size - 1)]
  PROVE  Moves(<<fREe(c, p), q>>, h.mem, U, nb, p)
<1>. DEFINE m == h.mem  g == new[1]  k == g.mem  W == U \cup {q}  f == fREe(c, p)
            n == Copy(k, q + 2, p + 2, size - 1)
<1>1. /\ q \in Nat /\ q \notin U /\ Holds(g, W) /\ Keeps(m, k, U) /\ ChunkSize(k, q) \in nb .. nb + 3
  BY DEF Got
<1>2. /\ p \in Nat /\ size \in Nat /\ size >= 4 /\ End \in Nat /\ p + size + 3 < End
  BY UsedChunk
<1>3. KeptChunk(m, k, p)
  BY <1>1 DEF Keeps
<1>4. nb \in Nat /\ k \in Memory /\ ChunkSize(k, q) \in Nat /\ size < ChunkSize(k, q) /\ q + ChunkSize(k, q) + 3 < End
  <2>1. q \in W
    OBVIOUS
  <2>. HIDE DEF W
  <2>2. k \in Memory /\ ChunkSize(k, q) \in Nat /\ q + ChunkSize(k, q) + 3 < End
    BY <1>1, <2>1, UsedChunk
  <2>3. nb \in Nat
    BY DEF IsSize
  <2>. QED
    BY <1>1, <1>2, <2>2, <2>3
<1>5. Fields(g)
  BY <1>1 DEF Holds, Heap
<1>6. c.mem = n /\ c = [g EXCEPT !.mem = n]
  BY <1>5 DEF Fields
<1>. HIDE DEF m, g, k, f
<1>7. /\ But(k, n, q + 2 .. q + ChunkSize(k, q))
      /\ \A i \in Nat : i + 2 <= size => n[q + 2 + i] = k[p + 2 + i]
  <2>. DEFINE d == q + 2  s == p + 2  l == size - 1
  <2>1. d \in Nat /\ s \in Nat /\ l \in Nat /\ s + l <= End
    BY <1>1, <1>2
  <2>. HIDE DEF d, s, l
  <2>2. Copied(k, Copy(k, d, s, l), d, s, l)
    BY ONLY <1>4, <2>1, RangeIsCopied
  <2>3. n = Copy(k, d, s, l)
    BY DEF d, s, l
  <2>. HIDE DEF n
  <2>4. But(k, n, d .. d + l - 1) /\ \A i \in 0 .. l - 1 : d + i \in Words0 => n[d + i] = k[s + i]
    BY <2>2, <2>3 DEF Copied
  <2>5. \A w \in d .. d + l - 1 : w \in q + 2 .. q + ChunkSize(k, q)
    BY <1>1, <1>2, <1>4 DEF d, l
  <2>6. But(k, n, q + 2 .. q + ChunkSize(k, q))
    BY <2>4, <2>5 DEF But
  <2>7. ASSUME NEW i \in Nat, i + 2 <= size PROVE n[q + 2 + i] = k[p + 2 + i]
    <3>1. i \in 0 .. l - 1 /\ d + i \in Words0 /\ d + i = q + 2 + i /\ s + i = p + 2 + i
      BY <1>1, <1>2, <1>4, <2>7 DEF d, s, l, Words0
    <3>. QED
      BY <2>4, <3>1
  <2>. QED
    BY <2>6, <2>7
<1>. HIDE DEF n
<1>8. Holds(c, W) /\ Keeps(k, n, W \ {q}) /\ ChunkSize(n, q) = ChunkSize(k, q)
  <2>1. q \in W /\ Holds(g, W)
    BY <1>1
  <2>2. But(g.mem, n, q + 2 .. q + ChunkSize(g.mem, q)) /\ c = [g EXCEPT !.mem = n]
    BY <1>6, <1>7 DEF k
  <2>. HIDE DEF W
  <2>3. Holds(c, W) /\ Keeps(g.mem, n, W \ {q}) /\ ChunkSize(n, q) = ChunkSize(g.mem, q)
    BY ONLY <2>1, <2>2, Overwritten
  <2>. QED
    BY <2>3 DEF k
<1>9. Holds(f, W \ {p}) /\ Keeps(n, f.mem, W \ {p})
  <2>1. p \in W
    OBVIOUS
  <2>. HIDE DEF W
  <2>2. Holds(f, W \ {p}) /\ Keeps(c.mem, f.mem, W \ {p})
    BY <1>8, <2>1, FreeHolds DEF f
  <2>. QED
    BY <1>6, <2>2
<1>10. W \ {p} = (U \ {p}) \cup {q} /\ W \ {q} = U /\ q # p
  BY <1>1
<1>11. Keeps(m, f.mem, U \ {p})
  <2>1. Keeps(m, n, U)
    <3>1. Keeps(k, n, U)
      BY <1>8, <1>10
    <3>. QED
      BY <1>1, <3>1, KeepsOn
  <2>2. Keeps(m, n, U \ {p}) /\ Keeps(n, f.mem, U \ {p})
    BY <1>9, <2>1 DEF Keeps
  <2>. QED
    BY <2>2, KeepsOn
<1>12. KeptChunk(n, f.mem, q)
  BY <1>9, <1>10 DEF Keeps
<1>13. Carried(m, f.mem, p, q)
  <2>1. ChunkSize(m, p) = size /\ ChunkSize(k, p) = size
    BY <1>3 DEF KeptChunk, m
  <2>2. ChunkSize(f.mem, q) = ChunkSize(k, q)
    BY <1>8, <1>12 DEF KeptChunk
  <2>3. ASSUME NEW i \in Nat, i + 2 <= size, i + 2 <= ChunkSize(k, q)
        PROVE  f.mem[q + 2 + i] = m[p + 2 + i]
    <3>1. q + 2 + i \in q + 2 .. q + ChunkSize(n, q)
      BY <1>1, <1>4, <1>8, <2>3
    <3>2. f.mem[q + 2 + i] = n[q + 2 + i]
      BY <1>12, <3>1 DEF KeptChunk
    <3>3. p + 2 + i \in p + 2 .. p + ChunkSize(m, p)
      BY <1>2, <2>1, <2>3
    <3>4. k[p + 2 + i] = m[p + 2 + i]
      BY <1>3, <3>3 DEF KeptChunk
    <3>. QED
      BY <1>7, <2>3, <3>2, <3>4
  <2>. QED
    BY <2>1, <2>2, <2>3 DEF Carried
<1>14. Got(<<f, q>>, m, U \ {p}, nb)
  <2>1. ChunkSize(f.mem, q) \in nb .. nb + 3
    BY <1>1, <1>8, <1>12 DEF KeptChunk
  <2>. QED
    BY <1>1, <1>9, <1>10, <1>11, <2>1 DEF Got
<1>. QED
  BY <1>13, <1>14 DEF Moves, f, m

\* The new chunk is the one behind: both become one.
LEMMA BehindMoves ==
  ASSUME NEW h, NEW U, Holds(h, U), NEW p \in U, NEW nb, IsSize(nb), NEW size, size = ChunkSize(h.mem, p),
         NEW new, Got(new, h.mem, U, nb), new[2] = p + size,
         NEW s, s = size + ChunkSize(new[1].mem, new[2])
  PROVE  Moves(Lop(new[1], p, s, nb), h.mem, U, nb, p)
<1>. DEFINE m == h.mem  g == new[1]  k == g.mem  q == p + size
<1>1. /\ q \in Nat /\ q \notin U /\ Holds(g, U \cup {q}) /\ Keeps(m, k, U) /\ ChunkSize(k, q) \in nb .. nb + 3
  BY DEF Got
<1>2. /\ p \in Nat /\ size \in Nat /\ size >= 4
  BY UsedChunk
<1>3. KeptChunk(m, k, p) /\ nb \in Nat
  BY <1>1 DEF Keeps, IsSize
<1>4. PICK B, z, F : Heap(g, B, z, F) /\ U \cup {q} = Used(g, B, F)
  BY <1>1 DEF Holds
<1>. DEFINE top == g.top  brk == g.brk  e == q + z[q]
<1>5. /\ Fields(g) /\ Tiled(k, top, brk, B, z, F) /\ Lists(g.bins, g.blocks, F, z)
      /\ p \in B \ F /\ p # top /\ q \in B \ F /\ q # top /\ U \cup {q} = InUse(B, F, top) /\ F \subseteq B
  <2>1. /\ Fields(g) /\ Tiled(k, top, brk, B, z, F) /\ Lists(g.bins, g.blocks, F, z)
    BY <1>4 DEF Heap
  <2>2. F \subseteq B
    BY <2>1, TiledFacts
  <2>3. U \cup {q} = InUse(B, F, top)
    BY <1>4 DEF Used, InUse
  <2>. HIDE DEF top, q
  <2>4. p \in B \ F /\ p # top /\ q \in B \ F /\ q # top
    BY <2>3 DEF InUse
  <2>. QED
    BY <2>1, <2>2, <2>3, <2>4
<1>6. z[p] = size /\ ChunkSize(k, q) = z[q] /\ e \in B
  <2>1. ChunkSize(k, p) = z[p] /\ ChunkSize(k, q) = z[q] /\ e \in B
    <3>. HIDE DEF k, top, brk, q
    <3>. QED
      BY <1>5, TagsOfTiled DEF e
  <2>. QED
    BY <1>3, <2>1 DEF KeptChunk
<1>7. z[q] \in Nat /\ z[q] >= nb /\ e - p = s /\ s >= nb /\ p < e /\ q < e /\ p < q /\ e \in Nat
  <2>1. s = size + ChunkSize(k, q)
    OBVIOUS
  <2>2. z[q] \in Nat /\ z[q] >= nb /\ s = size + z[q] /\ q = p + size /\ e = q + z[q]
    <3>. HIDE DEF k, q
    <3>1. z[q] \in Nat /\ z[q] >= nb /\ s = size + z[q]
      BY <1>1, <1>3, <1>6, <2>1
    <3>. QED
      BY <3>1 DEF q
  <2>3. nb \in Nat /\ nb >= 4
    BY DEF IsSize
  <2>4. p \in Nat /\ size \in Nat /\ size >= 4
    BY <1>2
  <2>5. PICK t \in Nat : t = z[q]
    BY <2>2
  <2>. HIDE DEF q, e
  <2>6. t >= nb /\ s = size + t /\ q = p + size /\ e = q + t
    BY <2>2, <2>5
  <2>7. e - p = s /\ s >= nb /\ p < e /\ q < e /\ p < q /\ e \in Nat
    BY ONLY <2>3, <2>4, <2>6, t \in Nat
  <2>. QED
    BY <2>2, <2>7
<1>. HIDE DEF top, brk, e, q
<1>8. \A x \in B : (x < p \/ e <= x) <=> (x # p /\ x # q)
  <2>. SUFFICES ASSUME NEW x \in B PROVE (x < p \/ e <= x) <=> (x # p /\ x # q)
    OBVIOUS
  <2>1. x \in Nat
    BY <1>5, TiledFacts
  <2>2. p <= x /\ x < q => x = p
    <3>1. q = p + z[p]
      BY <1>6 DEF q
    <3>. QED
      BY <1>5, <3>1, NoChunkInside
  <2>3. q <= x /\ x < e => x = q
    <3>1. e = q + z[q]
      BY DEF e
    <3>. QED
      BY <1>5, <3>1, NoChunkInside
  <2>. QED
    BY <1>1, <1>2, <1>7, <2>1, <2>2, <2>3
<1>9. Beside(F, p, e) = F
  BY <1>5, <1>8 DEF Beside
<1>10. Outside(InUse(B, F, top), p, e) = U \ {p}
  <2>1. ASSUME NEW x PROVE x \in Outside(InUse(B, F, top), p, e) <=> x \in U \ {p}
    <3>1. x \in InUse(B, F, top) <=> x \in U \/ x = q
      BY <1>5
    <3>2. x \in InUse(B, F, top) => x \in B
      BY DEF InUse
    <3>. QED
      BY <1>1, <1>8, <3>1, <3>2 DEF Outside
  <2>. QED
    BY <2>1
<1>11. Loose(g, k, F, z, top, brk, p, e)
  <2>1. Lists(g.bins, g.blocks, Beside(F, p, e), z)
    BY <1>5, <1>9
  <2>2. g.mem = k /\ g.top = top /\ g.brk = brk
    BY DEF top, brk
  <2>. HIDE DEF g, k
  <2>. QED
    BY <1>5, <2>1, <2>2, LooseHere
<1>12. Resized(Lop(g, p, s, nb), k, k, U \ {p}, nb, p)
  <2>1. p \in B /\ e \in B /\ p < e /\ e - p >= nb /\ IsSize(nb) /\ Tiled(k, top, brk, B, z, F)
    BY <1>5, <1>6, <1>7
  <2>. HIDE DEF k, g
  <2>2. Resized(Lop(g, p, e - p, nb), g.mem, k, Outside(InUse(B, F, top), p, e), nb, p)
    BY ONLY <1>11, <2>1, LopHolds
  <2>. QED
    BY <1>7, <1>10, <2>2 DEF k
<1>13. Resized(Lop(g, p, s, nb), k, m, U \ {p}, nb, p)
  <2>1. Keeps(m, k, U \ {p})
    BY <1>1 DEF Keeps
  <2>. HIDE DEF m, k, g
  <2>2. \A r : Got(r, k, U \ {p}, nb) => Got(r, m, U \ {p}, nb)
    BY <2>1, GotAfter
  <2>. QED
    BY <1>12, <2>2 DEF Resized
<1>14. Shifted(m, k, p, p)
  <2>1. ASSUME NEW i \in Nat, i + 2 <= size PROVE k[p + 2 + i] = m[p + 2 + i]
    <3>1. p + 2 + i \in p + 2 .. p + ChunkSize(m, p)
      BY <1>2, <2>1
    <3>. QED
      BY <1>3, <3>1 DEF KeptChunk
  <2>. QED
    BY <2>1 DEF Shifted
<1>. HIDE DEF m, k
<1>15. Moves(Lop(g, p, s, nb), m, U, nb, p)
  BY <1>2, <1>3, <1>13, <1>14, ResizedMoves
<1>. QED
  BY <1>15 DEF m
\* One of three cases, or the other.
LEMMA CaseOf ==
  ASSUME NEW r, NEW size \in Int, NEW nb \in Int, NEW two \in BOOLEAN, NEW three \in BOOLEAN,
         NEW x1, NEW x2, NEW x3, NEW x4, two => size < nb, three => size < nb /\ ~two,
         r = CASE size >= nb -> x1 [] two -> x2 [] three -> x3 [] OTHER -> x4
  PROVE  /\ size >= nb => r = x1
         /\ two => r = x2
         /\ three => r = x3
         /\ size < nb /\ ~two /\ ~three => r = x4
<1>1. CASE size >= nb
  <2>1. ~two /\ ~three /\ ~(size < nb)
    BY <1>1
  <2>. QED
    BY <1>1, <2>1
<1>2. CASE two
  <2>1. ~(size >= nb) /\ ~three
    BY <1>2
  <2>. QED
    BY <1>2, <2>1
<1>3. CASE three
  <2>1. ~(size >= nb) /\ ~two
    BY <1>3
  <2>. QED
    BY <1>3, <2>1
<1>4. CASE size < nb /\ ~two /\ ~three
  <2>1. ~(size >= nb)
    BY <1>4
  <2>. QED
    BY <1>4, <2>1
<1>5. (size >= nb) \/ (size < nb)
  OBVIOUS
<1>. QED
  BY <1>1, <1>2, <1>3, <1>4, <1>5

\* The chunk is moved, or resized where it is, or mALLOc refuses another.
LEMMA ReallocHolds ==
  ASSUME NEW h, NEW U, Holds(h, U), NEW p \in U, NEW nb, IsSize(nb)
  PROVE  \/ Moves(rEALLOc(h, p, nb), h.mem, U, nb, p)
         \/ Refused(rEALLOc(h, p, nb), h.mem, U) /\ rEALLOc(h, p, nb) = mALLOc(h, nb)
<1>1. PICK B, z, F : Heap(h, B, z, F) /\ U = Used(h, B, F)
  BY DEF Holds
<1>. DEFINE m == h.mem  top == h.top  brk == h.brk
            size == ChunkSize(m, p)
            next == p + size
            isTop == next = top
            follows == IF isTop \/ ~Inuse(m, next) THEN ChunkSize(m, next) ELSE 0
            precedes == IF PrevInuse(m, p) THEN 0 ELSE m[p]
            prev == p - precedes
            spare == IF isTop THEN MinSize ELSE 0
            moved == [Unlink(h, prev) EXCEPT !.mem = Copy(@, prev + 2, p + 2, size - 1)]
            new == mALLOc(h, nb)
            q == new[2]
            copied == [new[1] EXCEPT !.mem = Copy(@, q + 2, p + 2, size - 1)]
            r == rEALLOc(h, p, nb)
            two == size < nb /\ follows > 0 /\ size + follows >= nb + spare
            three == /\ size < nb /\ size + follows < nb + spare
                     /\ precedes > 0 /\ follows > 0 /\ precedes + size + follows >= nb + spare
            x1 == Lop(h, p, size, nb)
            x2 == IF isTop THEN IntoTop(h, p, size + follows, nb)
                  ELSE Lop(Unlink(h, next), p, size + follows, nb)
            x3 == IF isTop THEN IntoTop(moved, prev, precedes + size + follows, nb)
                  ELSE Lop(Unlink(moved, next), prev, precedes + size + follows, nb)
            x4 == IF precedes > 0 /\ precedes + size >= nb THEN Lop(moved, prev, precedes + size, nb)
                  ELSE IF q = NULL THEN new
                  ELSE IF q = next THEN Lop(new[1], p, size + ChunkSize(new[1].mem, q), nb)
                  ELSE <<fREe(copied, p), q>>
            Goal == Moves(r, m, U, nb, p) \/ (Refused(r, m, U) /\ r = mALLOc(h, nb))
<1>2. r = CASE size >= nb -> x1 [] two -> x2 [] three -> x3 [] OTHER -> x4
  BY DEF rEALLOc
<1>3. /\ Tiled(m, top, brk, B, z, F) /\ p \in B /\ p \notin F /\ p # top
      /\ Fields(h) /\ Lists(h.bins, h.blocks, F, z)
  BY <1>1 DEF Heap, Used
<1>. HIDE DEF r, x1, x2, x3, x4, moved, new, copied
<1>4. /\ size = z[p] /\ p \in Nat /\ size \in Nat /\ size >= 4 /\ next \in Nat /\ next \in B
      /\ follows \in Nat /\ precedes \in Nat
      /\ Around3(B, F, z, top, p, p, next)
      /\ next = top => follows > 0 /\ next + follows = brk
      /\ follows > 0 => /\ Around3(B, F, z, top, p, p, next + follows) /\ next + follows # next
                        /\ next # top => next \in F /\ next + follows \in B
      /\ precedes > 0 => /\ Around3(B, F, z, top, p, prev, next) /\ prev # p /\ prev \in F /\ prev \in B
                         /\ prev \in Nat /\ precedes = p - prev
      /\ precedes > 0 /\ follows > 0 => Around3(B, F, z, top, p, prev, next + follows)
  <2>. HIDE DEF m, top, brk
  <2>. QED
    BY <1>3, Neighbours
<1>5. nb \in Nat /\ nb >= 4 /\ spare \in Nat /\ (isTop => spare = 4)
  BY DEF IsSize, MinSize
<1>. HIDE DEF size, follows, precedes, prev, next, spare
<1>6. /\ size >= nb => r = x1
      /\ two => r = x2
      /\ three => r = x3
      /\ size < nb /\ ~two /\ ~three => r = x4
  <2>1. size \in Int /\ nb \in Int /\ two \in BOOLEAN /\ three \in BOOLEAN /\ (two => size < nb)
    BY <1>4, <1>5
  <2>2. three => size < nb /\ ~two
    BY <1>4, <1>5
  <2>. HIDE DEF two, three
  <2>. QED
    BY <1>2, <2>1, <2>2, CaseOf
<1>7. /\ next - p = size
      /\ follows > 0 => (next + follows) - p = size + follows
      /\ precedes > 0 => /\ next - prev = precedes + size
                         /\ follows > 0 => (next + follows) - prev = precedes + size + follows
      /\ next + follows \in Nat
  <2>1. next = p + size
    BY DEF next
  <2>. QED
    BY <1>4, <2>1
<1>. HIDE DEF m, top, brk
<1>8. /\ Heap(h, B, z, F) /\ U = Used(h, B, F) /\ top = h.top /\ brk = h.brk /\ m = h.mem /\ IsSize(nb)
      /\ p \in U /\ F \subseteq B /\ top \notin F
  <2>1. F \subseteq B /\ top \notin F
    BY <1>3, TiledFacts
  <2>. QED
    BY <1>1, <2>1 DEF top, brk, m
<1>9. ASSUME NEW e \in {next, next + follows}, Around3(B, F, z, top, p, p, e),
             NEW g, Fields(g), g.mem = m, g.top = top, g.brk = brk,
             e = next => Lists(g.bins, g.blocks, F, z),
             e # next => Lists(g.bins, g.blocks, F \ {next}, z)
      PROVE  Loose(g, m, F, z, top, brk, p, e) /\ Shifted(m, g.mem, p, p)
  <2>1. next = p + z[p]
    BY <1>4 DEF next
  <2>2. /\ e = next => Beside(F, p, e) = F
        /\ e # next => Beside(F, p, e) = F \ {next}
    BY <1>3, <1>9, <2>1, SpanOf
  <2>3. Lists(g.bins, g.blocks, Beside(F, p, e), z)
    BY <1>9, <2>2
  <2>. QED
    BY <1>3, <1>9, <2>3, LooseHere
<1>10. ASSUME precedes > 0, NEW e \in {next, next + follows}, Around3(B, F, z, top, p, prev, e),
              NEW g, Fields(g), g.mem = moved.mem, g.top = top, g.brk = brk,
              e = next => Lists(g.bins, g.blocks, F \ {prev}, z),
              e # next => Lists(g.bins, g.blocks, (F \ {prev}) \ {next}, z)
       PROVE  Loose(g, m, F, z, top, brk, prev, e) /\ Shifted(m, g.mem, p, prev)
  <2>1. next = p + z[p] /\ prev \in B /\ prev # p
    BY <1>4, <1>10 DEF next
  <2>2. /\ e = next => Beside(F, prev, e) = F \ {prev}
        /\ e # next => Beside(F, prev, e) = (F \ {prev}) \ {next}
    BY <1>3, <1>10, <2>1, SpanOf
  <2>3. Lists(g.bins, g.blocks, Beside(F, prev, e), z)
    BY <1>10, <2>2
  <2>4. moved.mem = Copy(m, prev + 2, p + 2, z[p] - 1)
    <3>1. Fields(Unlink(h, prev)) /\ Unlink(h, prev).mem = m
      BY <1>3, UnlinkKeeps DEF m
    <3>2. size = z[p]
      BY <1>4
    <3>. QED
      BY <3>1, <3>2 DEF moved, Fields
  <2>5. g.mem = Copy(m, prev + 2, p + 2, z[p] - 1)
    BY <1>10, <2>4
  <2>. QED
    BY <1>3, <1>10, <2>1, <2>3, <2>5, LooseBefore
<1>11. ASSUME precedes > 0
       PROVE  /\ Fields(moved) /\ moved.top = top /\ moved.brk = brk
              /\ Lists(moved.bins, moved.blocks, F \ {prev}, z)
  <2>1. /\ Fields(Unlink(h, prev)) /\ Unlink(h, prev).top = top /\ Unlink(h, prev).brk = brk
        /\ Unlink(h, prev).blocks = h.blocks
    BY <1>3, UnlinkKeeps DEF top, brk
  <2>2. Lists(Unlink(h, prev).bins, h.blocks, F \ {prev}, z)
    BY <1>3, Unlinked
  <2>3. /\ Fields(moved) /\ moved.top = Unlink(h, prev).top /\ moved.brk = Unlink(h, prev).brk
        /\ moved.bins = Unlink(h, prev).bins /\ moved.blocks = Unlink(h, prev).blocks
    BY <2>1 DEF moved, Fields
  <2>. QED
    BY <2>1, <2>2, <2>3
<1>12. ASSUME size >= nb PROVE Goal
  <2>1. h.mem = m /\ h.top = top /\ h.brk = brk
    BY <1>8
  <2>2. Loose(h, m, F, z, top, brk, p, next) /\ Shifted(m, h.mem, p, p)
    BY <1>3, <1>4, <1>9, <2>1
  <2>3. Loose(h, h.mem, F, z, h.top, h.brk, p, next) /\ Shifted(h.mem, h.mem, p, p)
        /\ Around3(B, F, z, h.top, p, p, next)
    BY <1>4, <2>1, <2>2
  <2>4. Moves(Lop(h, p, size, nb), h.mem, U, nb, p)
    BY <1>3, <1>4, <1>7, <1>8, <1>12, <2>3, LopMoves
  <2>. QED
    BY <1>6, <1>12, <2>1, <2>4 DEF x1
<1>13. ASSUME two PROVE Goal
  <2>. DEFINE e == next + follows  g == Unlink(h, next)
  <2>1. h.mem = m /\ h.top = top /\ h.brk = brk
    BY <1>8
  <2>2. follows > 0 /\ size + follows >= nb + spare /\ Around3(B, F, z, top, p, p, e) /\ e # next
        /\ e - p = size + follows
    BY <1>4, <1>7, <1>13
  <2>. HIDE DEF e
  <2>3. e \in {next, next + follows}
    BY DEF e
  <2>4. CASE isTop
    <3>1. e = brk /\ F \ {next} = F
      BY <1>4, <1>8, <2>4 DEF e
    <3>2. Loose(h, m, F, z, top, brk, p, e) /\ Shifted(m, h.mem, p, p)
      BY <1>3, <1>9, <2>1, <2>2, <2>3, <3>1
    <3>3. Loose(h, h.mem, F, z, h.top, h.brk, p, h.brk) /\ Shifted(h.mem, h.mem, p, p)
          /\ Around3(B, F, z, h.top, p, p, h.brk)
      BY <2>1, <2>2, <3>1, <3>2
    <3>4. size + follows = h.brk - p /\ size + follows >= nb + 4
      BY <1>5, <2>1, <2>2, <2>4, <3>1
    <3>5. Moves(IntoTop(h, p, size + follows, nb), h.mem, U, nb, p)
      BY <1>3, <1>8, <3>3, <3>4, IntoTopMoves
    <3>6. r = IntoTop(h, p, size + follows, nb)
      BY <1>6, <1>13, <2>4 DEF x2
    <3>. QED
      BY <2>1, <3>5, <3>6
  <2>5. CASE ~isTop
    <3>1. e \in B
      BY <1>4, <2>2, <2>5 DEF e
    <3>2. /\ Fields(g) /\ g.mem = m /\ g.top = top /\ g.brk = brk
          /\ Lists(g.bins, g.blocks, F \ {next}, z)
      <4>1. /\ Fields(g) /\ g.mem = h.mem /\ g.top = h.top /\ g.brk = h.brk /\ g.blocks = h.blocks
        BY <1>3, UnlinkKeeps
      <4>2. Lists(g.bins, h.blocks, F \ {next}, z)
        BY <1>3, Unlinked
      <4>. QED
        BY <2>1, <4>1, <4>2
    <3>. HIDE DEF g
    <3>3. Loose(g, m, F, z, top, brk, p, e) /\ Shifted(m, g.mem, p, p)
      BY <1>9, <2>2, <2>3, <3>2
    <3>4. Loose(g, h.mem, F, z, h.top, h.brk, p, e) /\ Shifted(h.mem, g.mem, p, p)
          /\ Around3(B, F, z, h.top, p, p, e)
      BY <2>1, <2>2, <3>3
    <3>5. size + follows = e - p /\ size + follows >= nb
      BY <1>4, <1>5, <2>2
    <3>6. Moves(Lop(g, p, size + follows, nb), h.mem, U, nb, p)
      BY <1>3, <1>8, <3>1, <3>4, <3>5, LopMoves
    <3>7. r = Lop(g, p, size + follows, nb)
      BY <1>6, <1>13, <2>5 DEF x2, g
    <3>. QED
      BY <2>1, <3>6, <3>7
  <2>. QED
    BY <2>4, <2>5
<1>14. ASSUME three PROVE Goal
  <2>. DEFINE e == next + follows  g == Unlink(moved, next)  l == precedes + size + follows
  <2>1. h.mem = m /\ h.top = top /\ h.brk = brk
    BY <1>8
  <2>2. /\ precedes > 0 /\ follows > 0 /\ l >= nb + spare /\ Around3(B, F, z, top, p, prev, e) /\ e # next
        /\ e - prev = l /\ prev \in B
    BY <1>4, <1>7, <1>14
  <2>3. l \in Nat
    BY <1>4
  <2>. HIDE DEF e, l
  <2>4. e \in {next, next + follows}
    BY DEF e
  <2>5. Fields(moved) /\ moved.top = top /\ moved.brk = brk /\ Lists(moved.bins, moved.blocks, F \ {prev}, z)
    BY <1>11, <2>2
  <2>6. CASE isTop
    <3>1. e = brk /\ (F \ {prev}) \ {next} = F \ {prev}
      BY <1>4, <1>8, <2>6 DEF e
    <3>2. Loose(moved, m, F, z, top, brk, prev, e) /\ Shifted(m, moved.mem, p, prev)
      <4>1. Lists(moved.bins, moved.blocks, (F \ {prev}) \ {next}, z)
        BY <2>5, <3>1
      <4>. QED
        BY <1>10, <2>2, <2>4, <2>5, <4>1
    <3>3. Loose(moved, h.mem, F, z, h.top, h.brk, prev, h.brk) /\ Shifted(h.mem, moved.mem, p, prev)
          /\ Around3(B, F, z, h.top, p, prev, h.brk)
      BY <2>1, <2>2, <3>1, <3>2
    <3>4. l = h.brk - prev /\ l >= nb + 4
      BY <1>5, <2>1, <2>2, <2>6, <3>1
    <3>5. Moves(IntoTop(moved, prev, l, nb), h.mem, U, nb, p)
      BY <1>8, <2>2, <3>3, <3>4, IntoTopMoves
    <3>6. r = IntoTop(moved, prev, l, nb)
      BY <1>6, <1>14, <2>6 DEF x3, l
    <3>. QED
      BY <2>1, <3>5, <3>6
  <2>7. CASE ~isTop
    <3>1. e \in B
      BY <1>4, <2>2, <2>7 DEF e
    <3>2. /\ Fields(g) /\ g.mem = moved.mem /\ g.top = top /\ g.brk = brk
          /\ Lists(g.bins, g.blocks, (F \ {prev}) \ {next}, z)
      <4>1. /\ Fields(g) /\ g.mem = moved.mem /\ g.top = moved.top /\ g.brk = moved.brk /\ g.blocks = moved.blocks
        BY <2>5, UnlinkKeeps
      <4>2. Lists(g.bins, moved.blocks, (F \ {prev}) \ {next}, z)
        BY <2>5, Unlinked
      <4>. QED
        BY <2>5, <4>1, <4>2
    <3>. HIDE DEF g
    <3>3. Loose(g, m, F, z, top, brk, prev, e) /\ Shifted(m, g.mem, p, prev)
      BY <1>10, <2>2, <2>4, <3>2
    <3>4. Loose(g, h.mem, F, z, h.top, h.brk, prev, e) /\ Shifted(h.mem, g.mem, p, prev)
          /\ Around3(B, F, z, h.top, p, prev, e)
      BY <2>1, <2>2, <3>3
    <3>5. l = e - prev /\ l >= nb
      BY <1>5, <2>2, <2>3
    <3>6. Moves(Lop(g, prev, l, nb), h.mem, U, nb, p)
      BY <1>8, <2>2, <3>1, <3>4, <3>5, LopMoves
    <3>7. r = Lop(g, prev, l, nb)
      BY <1>6, <1>14, <2>7 DEF x3, g, l
    <3>. QED
      BY <2>1, <3>6, <3>7
  <2>. QED
    BY <2>6, <2>7
<1>15. ASSUME size < nb, ~two, ~three PROVE Goal
  <2>1. h.mem = m /\ h.top = top /\ h.brk = brk
    BY <1>8
  <2>2. r = x4
    <3>. HIDE DEF two, three
    <3>. QED
      BY <1>6, <1>15
  <2>3. CASE precedes > 0 /\ precedes + size >= nb
    <3>1. /\ Around3(B, F, z, top, p, prev, next) /\ prev \in B /\ next \in B /\ next \in {next, next + follows}
          /\ next - prev = precedes + size
      BY <1>4, <1>7, <2>3
    <3>2. Fields(moved) /\ moved.top = top /\ moved.brk = brk /\ Lists(moved.bins, moved.blocks, F \ {prev}, z)
      BY <1>11, <2>3
    <3>3. Loose(moved, m, F, z, top, brk, prev, next) /\ Shifted(m, moved.mem, p, prev)
      BY <1>10, <2>3, <3>1, <3>2
    <3>4. Loose(moved, h.mem, F, z, h.top, h.brk, prev, next) /\ Shifted(h.mem, moved.mem, p, prev)
          /\ Around3(B, F, z, h.top, p, prev, next)
      BY <2>1, <3>1, <3>3
    <3>5. Moves(Lop(moved, prev, precedes + size, nb), h.mem, U, nb, p)
      BY <1>8, <2>3, <3>1, <3>4, LopMoves
    <3>6. r = Lop(moved, prev, precedes + size, nb)
      BY <2>2, <2>3 DEF x4
    <3>. QED
      BY <2>1, <3>5, <3>6
  <2>4. CASE ~(precedes > 0 /\ precedes + size >= nb)
    <3>1. r = IF q = NULL THEN new
              ELSE IF q = next THEN Lop(new[1], p, size + ChunkSize(new[1].mem, q), nb)
              ELSE <<fREe(copied, p), q>>
      BY <2>2, <2>4 DEF x4
    <3>2. Got(new, m, U, nb) \/ Refused(new, m, U)
      <4>1. Good(h, U)
        BY DEF Good
      <4>. QED
        BY <1>8, <4>1, AllocHolds DEF new
    <3>3. CASE Refused(new, m, U)
      <4>1. q = NULL
        BY <3>3 DEF Refused
      <4>. QED
        BY <3>1, <3>3, <4>1 DEF new
    <3>4. CASE Got(new, m, U, nb)
      <4>1. q # NULL
        BY <3>4 DEF Got, NULL
      <4>2. size = ChunkSize(h.mem, p) /\ next = p + size /\ Got(new, h.mem, U, nb)
        BY <2>1, <3>4 DEF size, next
      <4>3. CASE q = next
        <5>1. Moves(Lop(new[1], p, size + ChunkSize(new[1].mem, q), nb), h.mem, U, nb, p)
          BY <4>2, <4>3, BehindMoves
        <5>. QED
          BY <2>1, <3>1, <4>1, <4>3, <5>1
      <4>4. CASE q # next
        <5>1. nb > size /\ copied = [new[1] EXCEPT !.mem = Copy(@, q + 2, p + 2, size - 1)]
          BY <1>4, <1>5, <1>15 DEF copied
        <5>2. Moves(<<fREe(copied, p), q>>, h.mem, U, nb, p)
          BY <4>2, <5>1, CopyMoves
        <5>. QED
          BY <2>1, <3>1, <4>1, <4>4, <5>2
      <4>. QED
        BY <4>3, <4>4
    <3>. QED
      BY <3>2, <3>3, <3>4
  <2>. QED
    BY <2>3, <2>4
<1>. QED
  <2>1. (size >= nb) \/ (size < nb)
    BY <1>4, <1>5
  <2>2. Goal
    <3>. HIDE DEF two, three, Goal
    <3>. QED
      BY <1>12, <1>13, <1>14, <1>15, <2>1
  <2>. QED
    BY <2>2 DEF r, m

(***************************************************************************)
(* cALLOc.                                                                 *)
(***************************************************************************)
LEMMA TopSizeIs ==
  ASSUME NEW h, NEW U, Good(h, U)
  PROVE  TopSize(h) \in Nat
<1>1. CASE Holds(h, U)
  <2>1. PICK B, z, F : Heap(h, B, z, F)
    BY <1>1 DEF Holds
  <2>2. Tiled(h.mem, h.top, h.brk, B, z, F)
    BY <2>1 DEF Heap
  <2>3. h.top \in B /\ z[h.top] \in Nat /\ h.top \in Nat
    BY <2>2, TiledFacts
  <2>4. ChunkSize(h.mem, h.top) = z[h.top]
    BY <2>2, <2>3, TagsOfTiled
  <2>. QED
    BY <2>3, <2>4 DEF TopSize, NULL
<1>2. CASE Blank(h)
  BY <1>2 DEF Blank, TopSize
<1>. QED
  BY <1>1, <1>2 DEF Good

LEMMA CallocHolds ==
  ASSUME NEW h, NEW U, Good(h, U), NEW nb, IsSize(nb)
  PROVE  Got(cALLOc(h, nb), h.mem, U, nb) \/ Refused(cALLOc(h, nb), h.mem, U)
<1>. DEFINE r == mALLOc(h, nb)  g == r[1]  p == r[2]  had == TopSize(h)  m == h.mem
            size == ChunkSize(g.mem, p)
            k == IF p = h.top /\ size > had THEN had ELSE size
            n == Set(g.mem, p + 2, p + k, 0)
            c == [g EXCEPT !.mem = n]
<1>1. cALLOc(h, nb) = IF p = NULL THEN r ELSE <<c, p>>
  BY DEF cALLOc, Clear
<1>2. Got(r, m, U, nb) \/ Refused(r, m, U)
  BY AllocHolds
<1>3. CASE Refused(r, m, U)
  BY <1>1, <1>3 DEF Refused
<1>4. CASE Got(r, m, U, nb)
  <2>1. p \in Nat /\ p \notin U /\ Holds(g, U \cup {p}) /\ Keeps(m, g.mem, U) /\ size \in nb .. nb + 3
    BY <1>4 DEF Got
  <2>2. had \in Nat
    BY TopSizeIs
  <2>. HIDE DEF r, had, m
  <2>3. PICK W : W = U \cup {p}
    OBVIOUS
  <2>4. p \in W /\ Holds(g, W) /\ W \ {p} = U
    BY <2>1, <2>3
  <2>5. size \in Nat /\ g.mem \in Memory
    BY <2>4, UsedChunk
  <2>6. k \in Nat /\ k <= size
    BY <2>2, <2>5
  <2>. HIDE DEF size, k
  <2>7. But(g.mem, n, p + 2 .. p + size)
    <3>1. But(g.mem, n, p + 2 .. p + k)
      BY <2>5, RangeIsSet
    <3>2. \A w : w \in p + 2 .. p + k => w \in p + 2 .. p + size
      BY <2>1, <2>5, <2>6
    <3>. QED
      BY <3>1, <3>2 DEF But
  <2>8. Fields(g)
    BY <2>4 DEF Holds, Heap
  <2>9. c.mem = n
    BY <2>8 DEF Fields
  <2>. HIDE DEF n, c
  <2>10. Holds(c, W) /\ Keeps(g.mem, n, U) /\ ChunkSize(n, p) = size
    <3>1. But(g.mem, n, p + 2 .. p + ChunkSize(g.mem, p)) /\ c = [g EXCEPT !.mem = n]
      BY <2>7 DEF size, c
    <3>2. Holds(c, W) /\ Keeps(g.mem, n, W \ {p}) /\ ChunkSize(n, p) = ChunkSize(g.mem, p)
      BY ONLY <2>4, <3>1, Overwritten
    <3>. QED
      BY <2>4, <3>2 DEF size
  <2>11. Keeps(m, n, U)
    BY <2>1, <2>10, KeepsOn
  <2>12. p # NULL
    BY <2>1 DEF NULL
  <2>13. Got(<<c, p>>, m, U, nb)
    BY <2>1, <2>3, <2>9, <2>10, <2>11 DEF Got, size
  <2>. QED
    BY <1>1, <2>12, <2>13 DEF m
<1>. QED
  BY <1>2, <1>3, <1>4

(***************************************************************************)
(* mEMALIGn.                                                               *)
(***************************************************************************)
\* The chunk after one in use is told that it is.
LEMMA NextKnows ==
  ASSUME NEW h, NEW U, Holds(h, U), NEW p \in U, NEW e, e = p + ChunkSize(h.mem, p)
  PROVE  h.mem[e + 1] = ChunkSize(h.mem, e) + 1 /\ e \in Nat /\ e + 3 < End
<1>1. PICK B, z, F : Heap(h, B, z, F) /\ U = Used(h, B, F)
  BY DEF Holds
<1>. DEFINE m == h.mem  top == h.top  brk == h.brk
<1>2. /\ p \in B /\ p # top /\ p \notin F /\ Tiled(m, top, brk, B, z, F)
  BY <1>1 DEF Used, Heap
<1>. HIDE DEF m, top, brk
<1>3. ChunkSize(m, p) = z[p] /\ p + z[p] \in B
  BY <1>2, TagsOfTiled
<1>4. e = p + z[p] /\ e \in B
  BY <1>3 DEF m
<1>5. e \notin Ends(F, z)
  <2>1. ASSUME NEW q \in F, q + z[q] = e PROVE FALSE
    <3>1. Layout(B, z, brk) /\ q \in B
      BY <1>2 DEF Tiled, Frees
    <3>2. q = p
      BY <1>2, <1>4, <2>1, <3>1, OneEnd
    <3>. QED
      BY <1>2, <3>2
  <2>. QED
    BY <2>1 DEF Ends
<1>6. m[e + 1] = z[e] + Bit(e, F, z) /\ ChunkSize(m, e) = z[e]
  BY <1>2, <1>4, TagsOfTiled
<1>7. e \in Nat /\ e + 3 < brk /\ brk <= End /\ brk \in Nat /\ End \in Nat
  BY <1>2, <1>4, TiledFacts
<1>. QED
  BY <1>5, <1>6, <1>7 DEF Bit, m

PartedTags(m, n, p, c, e) ==
  /\ n \in Memory /\ \A w \in Words0 : w # p + 1 /\ w # c + 1 => n[w] = m[w]
  /\ n[p + 1] = (c - p) + (m[p + 1] % 2) /\ n[c + 1] = (e - c) + 1

\* A chunk in use becomes two.
PartedHeap(g, n, h, U, p, c, e) ==
  /\ Holds(g, U \cup {c}) /\ c \notin U /\ Keeps(h.mem, n, U \ {p}) /\ g.mem = n
  /\ ChunkSize(n, p) = c - p /\ ChunkSize(n, c) = e - c

LEMMA ChunkParted ==
  ASSUME NEW h, NEW U, Holds(h, U), NEW p \in U, NEW e, e = p + ChunkSize(h.mem, p),
         NEW c, Parts(p, c, e), NEW n, PartedTags(h.mem, n, p, c, e),
         NEW g, g = [h EXCEPT !.mem = n]
  PROVE  PartedHeap(g, n, h, U, p, c, e)
<1>1. PICK B, z, F : Heap(h, B, z, F) /\ U = Used(h, B, F)
  BY DEF Holds
<1>. DEFINE m == h.mem  top == h.top  brk == h.brk
<1>2. /\ p \in B /\ p # top /\ p \notin F /\ Tiled(m, top, brk, B, z, F) /\ U = InUse(B, F, top)
      /\ Fields(h) /\ Lists(h.bins, h.blocks, F, z)
  BY <1>1 DEF Used, Heap, InUse
<1>3. ChunkSize(m, p) = z[p] /\ p + z[p] \in B /\ m[p + 1] % 2 = Bit(p, F, z)
  BY <1>2, TagsOfTiled
<1>4. h.mem[e + 1] = ChunkSize(h.mem, e) + 1
  BY NextKnows
<1>5. Fields(g) /\ g.mem = n /\ g.top = top /\ g.brk = brk /\ g.bins = h.bins /\ g.blocks = h.blocks
  BY <1>2 DEF Fields
<1>6. /\ n \in Memory /\ \A w \in Words0 : w # p + 1 /\ w # c + 1 => n[w] = m[w]
      /\ n[p + 1] = (c - p) + (m[p + 1] % 2) /\ n[c + 1] = (e - c) + 1
      /\ m[e + 1] = ChunkSize(m, e) + 1 /\ e = p + z[p]
  BY <1>3, <1>4 DEF PartedTags
<1>. HIDE DEF m, top, brk
<1>7. e \in B /\ ChunkSize(m, e) = z[e]
  <2>1. e \in B
    BY <1>3, <1>6
  <2>. QED
    BY <1>2, <2>1, TagsOfTiled
<1>8. /\ p \in Nat /\ z[p] \in Nat /\ e \in Nat /\ e + 3 < brk /\ brk \in Nat /\ brk <= End /\ End \in Nat
  BY <1>2, <1>7, TiledFacts
<1>9. c \in Nat /\ IsSize(c - p) /\ IsSize(e - c) /\ p < c /\ c < e
  <2>1. c \in Nat /\ IsSize(c - p) /\ IsSize(e - c)
    BY DEF Parts
  <2>2. c - p \in Nat /\ c - p >= 4 /\ e - c \in Nat /\ e - c >= 4
    BY <2>1 DEF IsSize
  <2>. QED
    BY <1>8, <2>1, <2>2
<1>10. Alone(B, F, p, e)
  BY <1>2, <1>6, ChunkSpan
<1>11. Beside(F, p, e) = F /\ Outside(U, p, e) = U \ {p} /\ c \notin B
  <2>1. F \ {p} = F /\ U \in SUBSET B
    BY <1>2 DEF InUse
  <2>2. c \in B => c = p
    <3>1. p <= c /\ c < e /\ c # p
      BY <1>8, <1>9
    <3>. QED
      BY <1>10, <3>1 DEF Alone
  <2>3. c # p
    BY <1>8, <1>9
  <2>4. Outside(U, p, e) = U \ {p}
    BY <1>10, <2>1 DEF Alone
  <2>5. Beside(F, p, e) = F
    BY <1>10, <2>1 DEF Alone
  <2>. QED
    BY <2>2, <2>3, <2>4, <2>5
<1>12. n[e + 1] = z[e] + 1
  <2>1. e + 1 \in Words0 /\ e + 1 # p + 1 /\ e + 1 # c + 1
    BY <1>8, <1>9 DEF Words0
  <2>2. n[e + 1] = m[e + 1]
    BY <1>6, <2>1
  <2>. QED
    BY <1>6, <1>7, <2>2
<1>13. Around(m, n, p, e, brk)
  <2>1. \A w \in Words0 : w \in Int
    BY <1>8 DEF Words0
  <2>2. \A w \in Words0 : w <= p \/ e + 1 < w => w # p + 1 /\ w # c + 1
    BY <1>8, <1>9, <2>1
  <2>3. e # brk
    BY <1>8
  <2>. QED
    BY <1>6, <2>2, <2>3 DEF Around, Memory
<1>14. Tip(top, brk, c, e) = top /\ e # brk
  BY <1>8 DEF Tip
<1>15. Rebuilt(g, m, F, z, brk, Tip(top, brk, c, e), p, e) /\ TwoHeads(g.mem, F, z, brk, p, c, e)
  <2>1. n[p + 1] = (c - p) + Bit(p, F, z)
    BY <1>3, <1>6
  <2>. QED
    BY <1>2, <1>5, <1>6, <1>11, <1>12, <1>13, <1>14, <2>1 DEF Rebuilt, TwoHeads
<1>16. /\ Holds(g, (Outside(U, p, e) \cup {p, c}) \ {top}) /\ Keeps(m, g.mem, Outside(U, p, e))
       /\ ChunkSize(g.mem, p) = c - p
  <2>1. p \in B /\ e \in B \cup {brk} /\ p < e /\ Parts(p, c, e)
    BY <1>2, <1>7, <1>8, <1>9
  <2>2. Tiled(m, top, brk, B, z, F)
    BY <1>2
  <2>3. /\ Holds(g, (Outside(InUse(B, F, top), p, e) \cup {p, c}) \ {Tip(top, brk, c, e)})
        /\ Keeps(m, g.mem, Outside(InUse(B, F, top), p, e)) /\ ChunkSize(g.mem, p) = c - p
    BY ONLY <2>1, <2>2, <1>15, TwoRebuilt
  <2>. QED
    BY <1>2, <1>14, <2>3
<1>17. (Outside(U, p, e) \cup {p, c}) \ {top} = U \cup {c} /\ c \notin U
  <2>1. c # top /\ top \notin U /\ c \notin U
    BY <1>2, <1>11, TiledFacts DEF InUse
  <2>. QED
    BY <1>2, <1>11, <2>1
<1>18. ChunkSize(n, c) = e - c
  <2>1. e - c \in Int /\ (e - c) % 2 = 0
    BY <1>9 DEF IsSize
  <2>2. \E t : t = e - c
    OBVIOUS
  <2>3. PICK t : t = e - c
    BY <2>2
  <2>4. n[c + 1] - (n[c + 1] % 2) = t
    <3>1. t \in Int /\ t % 2 = 0 /\ 1 \in {0, 1} /\ n[c + 1] = t + 1
      BY <1>6, <2>1, <2>3
    <3>. QED
      BY ONLY <3>1, SizeOfTag
  <2>. QED
    BY <2>3, <2>4 DEF ChunkSize
<1>. QED
  BY <1>5, <1>11, <1>16, <1>17, <1>18 DEF m, PartedHeap

LEMMA WorstIs ==
  ASSUME NEW nb, IsSize(nb), NEW align \in Nat, align > 4 => align % 2 = 0, align > 2
  PROVE  /\ AtLeast(align) \in Nat /\ AtLeast(align) >= 4 /\ AtLeast(align) % 2 = 0
         /\ Worst(align, nb) = (nb + AtLeast(align)) + 6 /\ IsSize(Worst(align, nb))
<1>. DEFINE a == AtLeast(align)
<1>1. a \in Nat /\ a >= 4 /\ a % 2 = 0
  BY DEF AtLeast, MinSize
<1>2. nb \in Nat /\ nb >= 4 /\ nb % 2 = 0
  BY DEF IsSize
<1>3. Worst(align, nb) = Nb(4 * (nb + a + 4))
  BY DEF Worst, MinSize
<1>. HIDE DEF a
<1>4. PICK i \in Nat, j \in Nat : a = 2 * i /\ nb = 2 * j
  <2>1. a = 2 * (a \div 2) /\ a \div 2 \in Nat /\ nb = 2 * (nb \div 2) /\ nb \div 2 \in Nat
    BY <1>1, <1>2
  <2>. QED
    BY <2>1
<1>5. Nb(4 * (nb + a + 4)) = nb + a + 6
  <2>1. 4 * (nb + a + 4) = 8 * (i + j + 2)
    BY <1>4
  <2>2. ~(8 * (i + j + 2) < 12) /\ (8 * (i + j + 2) + 11) \div 8 = i + j + 3
    OBVIOUS
  <2>. QED
    BY <1>4, <2>1, <2>2 DEF Nb
<1>6. IsSize(nb + a + 6)
  BY <1>1, <1>2 DEF IsSize
<1>. QED
  BY <1>1, <1>3, <1>5, <1>6 DEF a

LEMMA AlignedIs ==
  ASSUME NEW p, IsPlace(p), NEW a \in Nat, a >= 4, a % 2 = 0, NEW q, q = Aligned(p, a)
  PROVE  q = p \/ (q \in Nat /\ q - p \in Nat /\ q - p >= 4 /\ (q - p) % 2 = 0 /\ q - p <= a + 2)
<1>. DEFINE x == p + 2 + a - 1  k == x \div a  o == x % a  up == x - o - 2
<1>1. p \in Nat /\ p % 2 = 0
  BY DEF IsPlace
<1>2. x \in Nat /\ x = p + a + 1
  BY <1>1
<1>3. q = IF (p + 2) % a = 0 THEN p ELSE IF up - p < 4 THEN up + a ELSE up
  BY DEF Aligned, MinSize
<1>. HIDE DEF x
<1>4. o \in 0 .. a - 1 /\ x = a * k + o /\ k \in Int
  BY <1>2
<1>. HIDE DEF k, o
<1>5. (x - o) % 2 = 0
  <2>1. PICK b \in Nat : a = 2 * b
    <3>1. a = 2 * (a \div 2) /\ a \div 2 \in Nat
      OBVIOUS
    <3>. QED
      BY <3>1
  <2>2. x - o = a * k
    <3>1. \A y \in Int : x = y + o => x - o = y
      BY <1>4
    <3>2. a * k \in Int
      BY <1>4
    <3>. QED
      BY <1>4, <3>1, <3>2
  <2>3. a * k = 2 * (b * k)
    BY <1>4, <2>1
  <2>4. b * k \in Int
    BY <1>4
  <2>5. \A j \in Int : (2 * j) % 2 = 0
    OBVIOUS
  <2>. QED
    BY <2>2, <2>3, <2>4, <2>5
<1>6. up \in Int /\ (up - p) % 2 = 0 /\ 0 <= up - p /\ up - p <= a - 1
  <2>1. PICK y \in Int : y = x - o /\ y % 2 = 0
    BY <1>2, <1>4, <1>5
  <2>2. y <= p + a + 1 /\ p + 2 <= y
    BY <1>1, <1>2, <1>4, <2>1
  <2>3. up = y - 2
    BY <2>1
  <2>. HIDE DEF up
  <2>. QED
    BY <1>1, <2>1, <2>2, <2>3
<1>. HIDE DEF up
<1>7. CASE up - p < 4
  <2>1. up - p = 0 \/ up - p = 2
    BY <1>1, <1>6, <1>7
  <2>2. up + a - p = a \/ up + a - p = a + 2
    BY <1>1, <1>6, <2>1
  <2>3. (a + 2) % 2 = 0
    OBVIOUS
  <2>4. q = p \/ q = up + a
    BY <1>3, <1>7
  <2>. QED
    BY <1>1, <1>6, <2>2, <2>3, <2>4
<1>8. CASE ~(up - p < 4)
  BY <1>1, <1>3, <1>6, <1>8
<1>. QED
  BY <1>7, <1>8

Fronted(f, h, U, p, q, size) ==
  /\ Holds(f, (U \ {p}) \cup {q}) /\ q \notin U \ {p} /\ Keeps(h.mem, f.mem, U \ {p})
  /\ ChunkSize(f.mem, q) = size - (q - p)

LEMMA FreeFrontHolds ==
  ASSUME NEW h, NEW U, Holds(h, U), NEW p \in U, NEW size, size = ChunkSize(h.mem, p),
         NEW q, q = p \/ Parts(p, q, p + size),
         NEW f, f = FreeFront(h, p, q)
  PROVE  Fronted(f, h, U, p, q, size)
<1>1. p \in Nat /\ size \in Nat /\ End \in Nat /\ p + size + 3 < End /\ h.mem \in Memory
  BY UsedChunk
<1>2. CASE q = p
  <2>1. f = h
    BY <1>2 DEF FreeFront
  <2>2. (U \ {p}) \cup {q} = U /\ size - (q - p) = size
    BY <1>1, <1>2
  <2>. QED
    BY <1>2, <2>1, <2>2, KeepsAll DEF Fronted
<1>3. CASE q # p
  <2>. DEFINE e == p + size  l == size - (q - p)
              m1 == SetHead(h.mem, q, l)  m2 == SetInuseAt(m1, q + l)  n == SetHeadSize(m2, p, q - p)
              g == [h EXCEPT !.mem = n]
  <2>1. f = fREe(g, p)
    BY <1>3 DEF FreeFront
  <2>2. Parts(p, q, e) /\ q \in Nat /\ q - p \in Nat /\ q - p >= 4 /\ e - q \in Nat /\ e - q >= 4
    BY <1>3 DEF Parts, IsSize
  <2>3. e \in Nat /\ p < q /\ q < e /\ q + l = e /\ l = e - q /\ e + 3 < End
    BY <1>1, <2>2
  <2>4. h.mem[e + 1] = ChunkSize(h.mem, e) + 1
    BY NextKnows
  <2>5. n = SetHeadSize(SetInuseAt(m1, e), p, q - p)
    BY <2>3
  <2>. HIDE DEF e, l, n, g
  <2>6. \A w \in Nat : w < End => w \in Words0
    BY <1>1 DEF Words0
  <2>7. p + 1 \in Words0 /\ q + 1 \in Words0 /\ e + 1 \in Words0 /\ p # q /\ q # e /\ p # e
    BY <1>1, <2>2, <2>3, <2>6
  <2>8. p + 1 # q + 1 /\ q + 1 # e + 1 /\ p + 1 # e + 1
    BY <1>1, <2>2, <2>3
  <2>9. p \in Int /\ q \in Int /\ e \in Int /\ l \in Int /\ q - p \in Int
    BY <1>1, <2>2, <2>3
  <2>10. But(h.mem, m1, {q + 1}) /\ m1[q + 1] = l + 1 /\ m1 \in Memory
    BY <1>1, <2>7, <2>9, HeadIsSet, ButIsMemory
  <2>. HIDE DEF m1
  <2>. DEFINE k == SetInuseAt(m1, e)
  <2>11. But(m1, k, {e + 1}) /\ k[e + 1] = ChunkSize(m1, e) + 1 /\ k \in Memory
    BY <2>7, <2>9, <2>10, InuseIsSet, ButIsMemory
  <2>12. n = SetHeadSize(k, p, q - p)
    BY <2>5
  <2>. HIDE DEF k
  <2>13. But(k, n, {p + 1}) /\ n[p + 1] = (q - p) + (k[p + 1] % 2) /\ n \in Memory
    BY <2>7, <2>9, <2>11, <2>12, HeadSizeIsSet, ButIsMemory
  <2>14. /\ \A w \in Words0 : w # q + 1 => m1[w] = h.mem[w]
         /\ \A w \in Words0 : w # e + 1 => k[w] = m1[w]
         /\ \A w \in Words0 : w # p + 1 => n[w] = k[w]
    BY <2>10, <2>11, <2>13 DEF But
  <2>15. k[e + 1] = h.mem[e + 1]
    <3>1. m1[e + 1] = h.mem[e + 1]
      BY <2>7, <2>8, <2>14
    <3>2. ChunkSize(m1, e) = ChunkSize(h.mem, e)
      BY <3>1 DEF ChunkSize
    <3>. QED
      BY <2>4, <2>11, <3>2
  <2>16. \A w \in Words0 : w # p + 1 /\ w # q + 1 => n[w] = h.mem[w]
    BY <2>14, <2>15
  <2>17. n[p + 1] = (q - p) + (h.mem[p + 1] % 2) /\ n[q + 1] = (e - q) + 1
    <3>1. k[p + 1] = h.mem[p + 1] /\ n[q + 1] = m1[q + 1]
      BY <2>7, <2>8, <2>14
    <3>. QED
      BY <2>3, <2>10, <2>13, <3>1
  <2>18. PartedTags(h.mem, n, p, q, e)
    BY <2>13, <2>16, <2>17 DEF PartedTags
  <2>19. /\ Holds(g, U \cup {q}) /\ q \notin U /\ Keeps(h.mem, n, U \ {p}) /\ g.mem = n
         /\ ChunkSize(n, q) = e - q
    <3>1. e = p + ChunkSize(h.mem, p) /\ g = [h EXCEPT !.mem = n]
      BY DEF e, g
    <3>2. e = p + ChunkSize(h.mem, p) /\ g = [h EXCEPT !.mem = n] /\ Parts(p, q, e)
      BY <2>2, <3>1
    <3>3. PartedHeap(g, n, h, U, p, q, e)
      BY ONLY Holds(h, U), p \in U, <3>2, <2>18, ChunkParted
    <3>. QED
      BY <3>3 DEF PartedHeap
  <2>20. Holds(f, (U \cup {q}) \ {p}) /\ Keeps(n, f.mem, (U \cup {q}) \ {p})
    <3>1. PICK W : W = U \cup {q}
      OBVIOUS
    <3>2. Holds(g, W) /\ p \in W
      BY <2>19, <3>1
    <3>3. Holds(f, W \ {p}) /\ Keeps(g.mem, f.mem, W \ {p})
      BY <2>1, <3>2, FreeHolds
    <3>. QED
      BY <2>19, <3>1, <3>3
  <2>21. (U \cup {q}) \ {p} = (U \ {p}) \cup {q}
    BY <1>3
  <2>22. Keeps(h.mem, f.mem, U \ {p})
    <3>1. Keeps(n, f.mem, U \ {p})
      BY <2>20 DEF Keeps
    <3>. QED
      BY <2>19, <3>1, KeepsOn
  <2>23. ChunkSize(f.mem, q) = size - (q - p)
    <3>1. KeptChunk(n, f.mem, q)
      BY <1>3, <2>20 DEF Keeps
    <3>. QED
      BY <2>3, <2>19, <3>1 DEF KeptChunk, l
  <2>. QED
    BY <2>19, <2>20, <2>21, <2>22, <2>23 DEF Fronted
<1>. QED
  BY <1>2, <1>3
\* Chunk q is at least nb words, and not so many that the rest could be a chunk.
Cut(f, h, W, q, nb) ==
  Holds(f, W) /\ Keeps(h.mem, f.mem, W \ {q}) /\ ChunkSize(f.mem, q) \in nb .. nb + 3

LEMMA FreeRestHolds ==
  ASSUME NEW h, NEW W, Holds(h, W), NEW q \in W, NEW nb, IsSize(nb), ChunkSize(h.mem, q) >= nb
  PROVE  Cut(FreeRest(h, q, nb), h, W, q, nb)
<1>. DEFINE size == ChunkSize(h.mem, q)  c == q + nb  e == q + size  m1 == SetHead(h.mem, c, size - nb)
            n == SetHeadSize(m1, q, nb)  g == [h EXCEPT !.mem = n]  f == FreeRest(h, q, nb)
<1>1. q \in Nat /\ size \in Nat /\ size % 2 = 0 /\ End \in Nat /\ q + size + 3 < End /\ h.mem \in Memory
  BY UsedChunk DEF IsSize
<1>2. nb \in Nat /\ nb >= 4 /\ nb % 2 = 0
  BY DEF IsSize
<1>3. f = IF size - nb < 4 THEN h ELSE fREe(g, c)
  BY DEF FreeRest, MinSize
<1>. HIDE DEF size, g, f
<1>4. CASE size - nb < 4
  <2>1. f = h
    BY <1>3, <1>4
  <2>2. size \in nb .. nb + 3
    BY <1>1, <1>2, <1>4 DEF size
  <2>. QED
    BY <2>1, <2>2, KeepsAll DEF f, size, Cut
<1>5. CASE ~(size - nb < 4)
  <2>1. f = fREe(g, c)
    BY <1>3, <1>5
  <2>2. size - nb >= 4 /\ size - nb \in Nat /\ c \in Nat /\ e \in Nat /\ c < e /\ q < c /\ e - c = size - nb /\ c - q = nb
    BY <1>1, <1>2, <1>5
  <2>3. (size - nb) % 2 = 0
    <3>1. \A x, y \in Nat : x % 2 = 0 /\ y % 2 = 0 => (x - y) % 2 = 0
      OBVIOUS
    <3>. QED
      BY <1>1, <1>2, <3>1
  <2>4. Parts(q, c, e)
    BY <2>2, <2>3 DEF Parts, IsSize
  <2>5. c \in Int /\ q \in Int /\ size - nb \in Int /\ nb \in Int /\ c + 1 \in Words0 /\ q + 1 \in Words0 /\ c + 1 # q + 1
    BY <1>1, <1>2, <2>2 DEF Words0
  <2>6. n = SetHeadSize(m1, q, nb)
    OBVIOUS
  <2>. HIDE DEF e, n, c
  <2>7. But(h.mem, m1, {c + 1}) /\ m1[c + 1] = (size - nb) + 1 /\ m1 \in Memory
    BY <1>1, <2>5, HeadIsSet, ButIsMemory
  <2>. HIDE DEF m1
  <2>8. But(m1, n, {q + 1}) /\ n[q + 1] = nb + (m1[q + 1] % 2) /\ n \in Memory
    BY <2>5, <2>6, <2>7, HeadSizeIsSet, ButIsMemory
  <2>9. m1[q + 1] = h.mem[q + 1] /\ n[c + 1] = m1[c + 1]
    BY <2>5, <2>7, <2>8 DEF But
  <2>10. \A w \in Words0 : w # q + 1 /\ w # c + 1 => n[w] = h.mem[w]
    BY <2>7, <2>8 DEF But
  <2>11. PartedTags(h.mem, n, q, c, e)
    BY <2>2, <2>7, <2>8, <2>9, <2>10 DEF PartedTags
  <2>12. PartedHeap(g, n, h, W, q, c, e)
    <3>1. e = q + ChunkSize(h.mem, q) /\ g = [h EXCEPT !.mem = n]
      BY DEF e, g, size
    <3>. QED
      BY ONLY Holds(h, W), q \in W, <2>4, <2>11, <3>1, ChunkParted
  <2>13. PICK V : V = W \cup {c}
    OBVIOUS
  <2>14. Holds(g, V) /\ c \in V /\ c \notin W /\ V \ {c} = W /\ Keeps(h.mem, g.mem, W \ {q}) /\ ChunkSize(g.mem, q) = nb
    BY <2>2, <2>12, <2>13 DEF PartedHeap
  <2>15. Holds(f, W) /\ Keeps(g.mem, f.mem, W)
    BY ONLY <2>1, <2>14, FreeHolds
  <2>16. ChunkSize(f.mem, q) = nb
    <3>1. KeptChunk(g.mem, f.mem, q)
      BY <2>15 DEF Keeps
    <3>. QED
      BY <2>14, <3>1 DEF KeptChunk
  <2>17. Keeps(h.mem, f.mem, W \ {q})
    <3>1. Keeps(g.mem, f.mem, W \ {q})
      BY <2>15 DEF Keeps
    <3>. QED
      BY <2>14, <3>1, KeepsOn
  <2>18. ChunkSize(f.mem, q) \in nb .. nb + 3
    BY <1>2, <2>16
  <2>. QED
    BY <2>15, <2>17, <2>18 DEF f, Cut
<1>. QED
  BY <1>4, <1>5

LEMMA AlignedHolds ==
  ASSUME NEW r, NEW m, NEW U, NEW nb, IsSize(nb), NEW a \in Nat, a >= 4, a % 2 = 0,
         NEW worst, worst = (nb + a) + 6, Got(r, m, U, worst)
  PROVE  Got(AlignIn(r, a, nb), m, U, nb)
<1>. DEFINE h == r[1]  p == r[2]  V == U \cup {p}  size == ChunkSize(h.mem, p)  q == Aligned(p, a)
            f == FreeFront(h, p, q)  g == FreeRest(f, q, nb)
<1>1. p \in Nat /\ p \notin U /\ Holds(h, V) /\ Keeps(m, h.mem, U) /\ size \in worst .. worst + 3
  BY DEF Got
<1>2. IsPlace(p) /\ size \in Nat /\ size % 2 = 0
  <2>1. p \in V
    OBVIOUS
  <2>2. IsPlace(p) /\ IsSize(size)
    BY <1>1, <2>1, UsedChunk
  <2>. QED
    BY <2>2 DEF IsSize
<1>3. nb \in Nat /\ nb >= 4 /\ worst \in Nat
  BY DEF IsSize
<1>4. size >= worst
  BY <1>1, <1>2, <1>3
<1>5. AlignIn(r, a, nb) = <<g, q>>
  BY <1>1 DEF AlignIn, NULL
<1>6. p \in V /\ V \ {p} = U
  BY <1>1
<1>. HIDE DEF V, q, size, f, g
<1>7. q = p \/ (q \in Nat /\ q - p \in Nat /\ q - p >= 4 /\ (q - p) % 2 = 0 /\ q - p <= a + 2)
  BY <1>2, AlignedIs DEF q
<1>8. q = p \/ Parts(p, q, p + size)
  <2>1. ASSUME q # p PROVE IsSize((p + size) - q) /\ IsSize(q - p) /\ q \in Nat
    <3>1. q \in Nat /\ q - p \in Nat /\ q - p >= 4 /\ (q - p) % 2 = 0 /\ q - p <= a + 2
      BY <1>7, <2>1
    <3>2. PICK d \in Nat : d = q - p
      BY <3>1
    <3>3. (p + size) - q = size - d /\ size - d \in Nat /\ size - d >= 4
      BY <1>1, <1>2, <1>3, <1>4, <3>1, <3>2
    <3>4. (size - d) % 2 = 0
      <4>1. \A x, y \in Nat : x % 2 = 0 /\ y % 2 = 0 => (x - y) % 2 = 0
        OBVIOUS
      <4>. QED
        BY <1>2, <3>1, <3>2, <4>1
    <3>. QED
      BY <3>1, <3>3, <3>4 DEF IsSize
  <2>. QED
    BY <2>1 DEF Parts
<1>9. PICK W : W = (V \ {p}) \cup {q}
  OBVIOUS
<1>10. Holds(f, W) /\ q \notin V \ {p} /\ Keeps(h.mem, f.mem, V \ {p}) /\ ChunkSize(f.mem, q) = size - (q - p)
  <2>1. size = ChunkSize(h.mem, p) /\ f = FreeFront(h, p, q)
    BY DEF size, f
  <2>. QED
    <3>1. Fronted(f, h, V, p, q, size)
      BY ONLY <1>1, <1>6, <1>8, <2>1, FreeFrontHolds
    <3>. QED
      BY <1>9, <3>1 DEF Fronted
<1>11. ChunkSize(f.mem, q) >= nb
  <2>1. q - p \in Int /\ q - p <= a + 2
    BY <1>1, <1>7
  <2>. QED
    BY <1>2, <1>3, <1>4, <1>10, <2>1
<1>12. Cut(g, f, W, q, nb)
  <2>1. q \in W
    BY <1>9
  <2>. QED
    BY <1>10, <1>11, <2>1, FreeRestHolds DEF g
<1>13. W = U \cup {q} /\ q \notin U /\ W \ {q} = U
  BY <1>6, <1>9, <1>10
<1>14. Keeps(m, g.mem, U)
  <2>1. Keeps(h.mem, f.mem, U) /\ Keeps(f.mem, g.mem, U)
    BY <1>6, <1>10, <1>12, <1>13 DEF Cut
  <2>2. Keeps(m, h.mem, U)
    BY <1>1
  <2>. QED
    BY <2>1, <2>2, KeepsOn
<1>15. q \in Nat
  BY <1>1, <1>7
<1>16. Got(<<g, q>>, m, U, nb)
  BY <1>12, <1>13, <1>14, <1>15 DEF Cut, Got
<1>. QED
  BY <1>5, <1>16

LEMMA MemalignHolds ==
  ASSUME NEW h, NEW U, Good(h, U), NEW nb, IsSize(nb), NEW align \in Nat, align > 4 => align % 2 = 0
  PROVE  Got(mEMALIGn(h, align, nb), h.mem, U, nb) \/ Refused(mEMALIGn(h, align, nb), h.mem, U)
<1>1. CASE align <= 2
  BY <1>1, AllocHolds DEF mEMALIGn
<1>2. CASE ~(align <= 2)
  <2>. DEFINE worst == Worst(align, nb)  a == AtLeast(align)  r == mALLOc(h, worst)
  <2>1. mEMALIGn(h, align, nb) = AlignIn(r, a, nb)
    BY <1>2 DEF mEMALIGn
  <2>2. a \in Nat /\ a >= 4 /\ a % 2 = 0 /\ worst = (nb + a) + 6 /\ IsSize(worst)
    BY <1>2, WorstIs
  <2>. HIDE DEF worst, a
  <2>3. Got(r, h.mem, U, worst) \/ Refused(r, h.mem, U)
    BY <2>2, AllocHolds
  <2>. HIDE DEF r
  <2>4. CASE Got(r, h.mem, U, worst)
    <3>1. Got(AlignIn(r, a, nb), h.mem, U, nb)
      BY <2>2, <2>4, AlignedHolds
    <3>. QED
      BY <2>1, <3>1
  <2>5. CASE Refused(r, h.mem, U)
    <3>1. AlignIn(r, a, nb) = r
      BY <2>5 DEF Refused, AlignIn
    <3>. QED
      BY <2>1, <2>5, <3>1
  <2>. QED
    BY <2>3, <2>4, <2>5
<1>. QED
  BY <1>1, <1>2

(***************************************************************************)
(* The program.                                                            *)
(***************************************************************************)
LEMMA Padded ==
  ASSUME NEW bytes \in Nat
  PROVE  IsSize(Nb(bytes)) /\ Words(bytes) \in Nat /\ Words(bytes) < Nb(bytes)
<1>1. CASE bytes < 12
  <2>1. Nb(bytes) = 4
    BY <1>1 DEF Nb, MinSize
  <2>2. (bytes + 3) \div 4 \in Nat /\ (bytes + 3) \div 4 < 4
    BY <1>1
  <2>. QED
    BY <2>1, <2>2 DEF IsSize, Words
<1>2. CASE ~(bytes < 12)
  <2>. DEFINE k == (bytes + 11) \div 8  w == (bytes + 3) \div 4
  <2>1. Nb(bytes) = k * 2 /\ Words(bytes) = w
    BY <1>2 DEF Nb, Words
  <2>2. k \in Nat /\ k >= 2 /\ 8 * k <= bytes + 11 /\ bytes + 11 < 8 * k + 8
    BY <1>2
  <2>3. w \in Nat /\ 4 * w <= bytes + 3
    OBVIOUS
  <2>. HIDE DEF k, w
  <2>4. w < k * 2
    BY <2>2, <2>3
  <2>5. k * 2 \in Nat /\ k * 2 >= 4 /\ (k * 2) % 2 = 0
    BY <2>2
  <2>. QED
    BY <2>1, <2>3, <2>4, <2>5 DEF IsSize
<1>. QED
  BY <1>1, <1>2

LEMMA WrittenInside ==
  ASSUME NEW m \in Memory, NEW p \in Nat, NEW bytes \in Nat, NEW kept \in Int, NEW cleared \in BOOLEAN,
         ChunkSize(m, p) \in Nat, ChunkSize(m, p) >= Nb(bytes)
  PROVE  But(m, Written(m, p, bytes, kept, cleared), p + 2 .. p + ChunkSize(m, p))
<1>. DEFINE n == Written(m, p, bytes, kept, cleared)  s == ChunkSize(m, p)  k == Words(bytes)
<1>1. k \in Nat /\ k < s /\ s \in Nat
  BY Padded DEF IsSize
<1>2. DOMAIN m = Words0 /\ \A w \in Words0 : m[w] \in Int /\ w \in Int
  <2>1. End \in Nat
    BY Pages
  <2>. QED
    BY <2>1 DEF Memory, Words0
<1>3. n = [w \in Words0 |->
            IF w - p - 1 < 1 \/ (w - p - 1 > k /\ w - p - 1 >= s) THEN m[w]
            ELSE IF w - p - 1 > k THEN Junk ELSE IF w - p - 1 <= kept THEN m[w]
            ELSE IF cleared THEN 0 ELSE -1 - (w - p - 1)]
  BY <1>2 DEF Written, Data
<1>. HIDE DEF n, s, k
<1>4. n \in Memory
  <2>1. \A w \in Words0 : n[w] \in Int
    <3>. SUFFICES ASSUME NEW w \in Words0 PROVE n[w] \in Int
      OBVIOUS
    <3>1. PICK x : x = w - p - 1 /\ x \in Int /\ -1 - x \in Int
      BY <1>2
    <3>2. n[w] \in {m[w], Junk, 0, -1 - x}
      BY <1>3, <3>1
    <3>. QED
      BY <1>2, <3>1, <3>2 DEF Junk
  <2>. QED
    BY <1>3, <2>1 DEF Memory
<1>5. \A w \in Words0 : w \in p + 2 .. p + s \/ n[w] = m[w]
  <2>. SUFFICES ASSUME NEW w \in Words0, w \notin p + 2 .. p + s PROVE n[w] = m[w]
    OBVIOUS
  <2>1. w < p + 2 \/ p + s < w
    BY <1>1, <1>2
  <2>2. w - p - 1 < 1 \/ (w - p - 1 > k /\ w - p - 1 >= s)
    BY <1>1, <1>2, <2>1
  <2>. QED
    BY <1>3, <2>2
<1>. QED
  BY <1>4, <1>5 DEF But, n, s
(* The heap has the program's blocks in use, each as large as was asked.   *)
Fitted(L, m) ==
  \A p \in DOMAIN L :
    /\ L[p] \in [bytes : Requests, cleared : BOOLEAN]
    /\ ChunkSize(m, p) \in Nb(L[p].bytes) .. Nb(L[p].bytes) + 3

InOrder(h, L) == Good(h, DOMAIN L) /\ Fitted(L, h.mem)

LEMMA FittedStay ==
  ASSUME NEW L, NEW m, NEW n, NEW U, Fitted(L, m), Keeps(m, n, U), NEW p \in U, p \in DOMAIN L
  PROVE  /\ L[p] \in [bytes : Requests, cleared : BOOLEAN]
         /\ ChunkSize(n, p) \in Nb(L[p].bytes) .. Nb(L[p].bytes) + 3
<1>1. ChunkSize(n, p) = ChunkSize(m, p)
  BY DEF Keeps, KeptChunk
<1>. QED
  BY <1>1 DEF Fitted

LEMMA GoodHolds == \A h, U, p : Good(h, U) /\ p \in U => Holds(h, U)
BY DEF Good

\* A block is given: what is written goes to the words of its chunk.
GotWritten(g, r, m, U, bytes, kept, cleared) ==
  /\ Holds(g, U \cup {r[2]}) /\ Keeps(m, g.mem, U)
  /\ g.mem = Written(r[1].mem, r[2], bytes, kept, cleared)
  /\ ChunkSize(g.mem, r[2]) = ChunkSize(r[1].mem, r[2]) /\ r[1].mem \in Memory

LEMMA WrittenHolds ==
  ASSUME NEW m, NEW U, NEW bytes \in Nat, NEW kept \in Int, NEW cleared \in BOOLEAN,
         NEW r, Got(r, m, U, Nb(bytes)),
         NEW g, g = [r[1] EXCEPT !.mem = Written(@, r[2], bytes, kept, cleared)]
  PROVE  GotWritten(g, r, m, U, bytes, kept, cleared)
<1>. DEFINE h == r[1]  p == r[2]  n == Written(h.mem, p, bytes, kept, cleared)
<1>1. PICK W : W = U \cup {p}
  OBVIOUS
<1>2. /\ p \in Nat /\ p \notin U /\ Holds(h, W) /\ Keeps(m, h.mem, U) /\ p \in W /\ W \ {p} = U
      /\ ChunkSize(h.mem, p) \in Nb(bytes) .. Nb(bytes) + 3
  BY <1>1 DEF Got
<1>3. h.mem \in Memory /\ ChunkSize(h.mem, p) \in Nat
  BY <1>2, UsedChunk
<1>4. ChunkSize(h.mem, p) >= Nb(bytes)
  BY <1>2, Padded DEF IsSize
<1>5. But(h.mem, n, p + 2 .. p + ChunkSize(h.mem, p))
  BY <1>2, <1>3, <1>4, WrittenInside
<1>6. g = [h EXCEPT !.mem = n]
  OBVIOUS
<1>7. Fields(h)
  BY <1>2 DEF Holds, Heap
<1>8. g.mem = n
  BY <1>6, <1>7 DEF Fields
<1>. HIDE DEF n
<1>9. Holds(g, W) /\ Keeps(h.mem, n, W \ {p}) /\ ChunkSize(n, p) = ChunkSize(h.mem, p)
  BY ONLY <1>2, <1>5, <1>6, Overwritten
<1>10. Keeps(m, n, U)
  BY <1>2, <1>9, KeepsOn
<1>. QED
  BY <1>1, <1>3, <1>8, <1>9, <1>10 DEF GotWritten, n

\* What Given makes of the heap and of the blocks
Fills(g, r, bytes, kept, cleared) == g = [r[1] EXCEPT !.mem = Written(@, r[2], bytes, kept, cleared)]

Owns(K, L, old, q, bytes, cleared) ==
  K = [p \in (DOMAIN L \ old) \cup {q} |-> IF p = q THEN Owned(bytes, cleared) ELSE L[p]]

LEMMA BlockGiven ==
  ASSUME NEW h, NEW L, InOrder(h, L), NEW old, NEW bytes \in Requests,
         NEW kept \in Int, NEW cleared \in BOOLEAN,
         NEW r, Got(r, h.mem, DOMAIN L \ old, Nb(bytes)),
         NEW g, Fills(g, r, bytes, kept, cleared),
         NEW K, Owns(K, L, old, r[2], bytes, cleared)
  PROVE  InOrder(g, K)
<1>. DEFINE U == DOMAIN L \ old  q == r[2]  W == U \cup {q}
<1>1. bytes \in Nat
  BY HeapConstants DEF HeapConstants
<1>2. GotWritten(g, r, h.mem, U, bytes, kept, cleared)
  BY <1>1, WrittenHolds DEF Fills
<1>3. q \notin U /\ ChunkSize(g.mem, q) \in Nb(bytes) .. Nb(bytes) + 3
  BY <1>2 DEF Got, GotWritten
<1>4. Holds(g, W) /\ Keeps(h.mem, g.mem, U)
  BY <1>2 DEF GotWritten
<1>5. DOMAIN K = W /\ K[q] = Owned(bytes, cleared) /\ \A p \in U : K[p] = L[p]
  BY <1>3 DEF Owns
<1>6. Owned(bytes, cleared) \in [bytes : Requests, cleared : BOOLEAN] /\ Owned(bytes, cleared).bytes = bytes
  BY DEF Owned
<1>7. \A p \in U : /\ K[p] \in [bytes : Requests, cleared : BOOLEAN]
                   /\ ChunkSize(g.mem, p) \in Nb(K[p].bytes) .. Nb(K[p].bytes) + 3
  <2>. SUFFICES ASSUME NEW p \in U
       PROVE  /\ K[p] \in [bytes : Requests, cleared : BOOLEAN]
              /\ ChunkSize(g.mem, p) \in Nb(K[p].bytes) .. Nb(K[p].bytes) + 3
    OBVIOUS
  <2>1. Fitted(L, h.mem) /\ p \in DOMAIN L /\ K[p] = L[p]
    BY <1>5 DEF InOrder
  <2>2. /\ L[p] \in [bytes : Requests, cleared : BOOLEAN]
        /\ ChunkSize(g.mem, p) \in Nb(L[p].bytes) .. Nb(L[p].bytes) + 3
    BY <1>4, <2>1, FittedStay
  <2>. QED
    BY <2>1, <2>2
<1>8. Fitted(K, g.mem)
  BY <1>3, <1>5, <1>6, <1>7 DEF Fitted
<1>. QED
  BY <1>4, <1>5, <1>8 DEF InOrder, Good

LEMMA BlockRefused ==
  ASSUME NEW h, NEW L, InOrder(h, L), NEW r, Refused(r, h.mem, DOMAIN L)
  PROVE  InOrder(r[1], L)
<1>1. Good(r[1], DOMAIN L) /\ Keeps(h.mem, r[1].mem, DOMAIN L) /\ Fitted(L, h.mem)
  BY DEF Refused, InOrder
<1>2. Fitted(L, r[1].mem)
  BY <1>1, FittedStay DEF Fitted
<1>. QED
  BY <1>1, <1>2 DEF InOrder

LEMMA BlockFreed ==
  ASSUME NEW h, NEW L, InOrder(h, L), NEW p \in DOMAIN L, NEW g, g = fREe(h, p),
         NEW K, K = [q \in DOMAIN L \ {p} |-> L[q]]
  PROVE  InOrder(g, K) /\ Keeps(h.mem, g.mem, DOMAIN K)
<1>1. PICK U : U = DOMAIN L
  OBVIOUS
<1>2. Holds(h, U) /\ p \in U
  BY <1>1, GoodHolds DEF InOrder
<1>3. Holds(g, U \ {p}) /\ Keeps(h.mem, g.mem, U \ {p})
  BY ONLY g = fREe(h, p), <1>2, FreeHolds
<1>4. DOMAIN K = U \ {p} /\ \A q \in DOMAIN K : K[q] = L[q] /\ q \in DOMAIN L
  BY <1>1
<1>5. Fitted(K, g.mem)
  <2>. SUFFICES ASSUME NEW q \in DOMAIN K
       PROVE  /\ K[q] \in [bytes : Requests, cleared : BOOLEAN]
              /\ ChunkSize(g.mem, q) \in Nb(K[q].bytes) .. Nb(K[q].bytes) + 3
    BY DEF Fitted
  <2>1. Fitted(L, h.mem) /\ q \in DOMAIN L /\ K[q] = L[q] /\ q \in U \ {p}
    BY <1>4 DEF InOrder
  <2>2. /\ L[q] \in [bytes : Requests, cleared : BOOLEAN]
        /\ ChunkSize(g.mem, q) \in Nb(L[q].bytes) .. Nb(L[q].bytes) + 3
    BY <1>3, <2>1, FittedStay
  <2>. QED
    BY <2>1, <2>2
<1>. QED
  BY <1>3, <1>4, <1>5 DEF InOrder, Good
GivenBy(g, K, f, r, nb, L, old, bytes, kept, cleared) ==
  IF r[2] = NULL THEN g = r[1] /\ f = nb /\ K = L
  ELSE Fills(g, r, bytes, kept, cleared) /\ Owns(K, L, old, r[2], bytes, cleared) /\ f = 0

Answered(r, m, V, U, nb) == Got(r, m, V, nb) \/ Refused(r, m, U)

LEMMA GivenHolds ==
  ASSUME NEW h, NEW L, InOrder(h, L), NEW old, NEW nb \in Nat, NEW bytes \in Requests,
         NEW kept \in Int, NEW cleared \in BOOLEAN, NEW r,
         Answered(r, h.mem, DOMAIN L \ old, DOMAIN L, Nb(bytes)),
         NEW g, NEW K, NEW f, GivenBy(g, K, f, r, nb, L, old, bytes, kept, cleared)
  PROVE  InOrder(g, K) /\ f \in Nat
<1>1. CASE Got(r, h.mem, DOMAIN L \ old, Nb(bytes))
  <2>1. r[2] # NULL
    BY <1>1 DEF Got, NULL
  <2>2. Fills(g, r, bytes, kept, cleared) /\ Owns(K, L, old, r[2], bytes, cleared) /\ f = 0
    BY <2>1 DEF GivenBy
  <2>3. InOrder(g, K)
    BY <1>1, <2>2, BlockGiven
  <2>. QED
    BY <2>2, <2>3
<1>2. CASE Refused(r, h.mem, DOMAIN L)
  <2>1. r[2] = NULL
    BY <1>2 DEF Refused
  <2>2. g = r[1] /\ f = nb /\ K = L
    BY <2>1 DEF GivenBy
  <2>. QED
    BY <1>2, <2>2, BlockRefused
<1>. QED
  BY <1>1, <1>2 DEF Answered

\* Given is GivenBy, of the variables.
LEMMA GivenIs ==
  \A r, nb, bytes, kept, cleared, old :
     Given(r, nb, bytes, kept, cleared, old) =>
     GivenBy(heap', live', failed', r, nb, live, old, bytes, kept, cleared)
BY DEF Given, GivenBy, Fills, Owns

\* What the allocator keeps and what the program holds belong together.
HeapInv == InOrder(heap, live) /\ failed \in Nat

LEMMA HeapInit == Init => HeapInv
<1>. SUFFICES ASSUME Init PROVE HeapInv
  OBVIOUS
<1>1. PICK z : z = [n \in Nat |-> 0]
  OBVIOUS
<1>2. PICK b : b = [i \in Bins |-> <<>>]
  OBVIOUS
<1>3. \A i \in Bins : b[i] = <<>> /\ b[i] \in Seq(Nat) /\ Len(b[i]) = 0
  BY <1>2
<1>4. Lists(b, {}, {}, z)
  BY <1>2, <1>3, OneIsABin DEF Lists
<1>5. heap = [mem |-> [w \in Words0 |-> 0], bins |-> b, blocks |-> {}, top |-> NULL, brk |-> 0]
  BY <1>2 DEF Init, Words0
<1>6. heap.bins = b /\ heap.blocks = {} /\ heap.top = NULL /\ heap.brk = 0 /\ heap.mem = [w \in Words0 |-> 0]
  BY <1>5
<1>7. Fields(heap)
  BY <1>5 DEF Fields
<1>8. heap.mem \in Memory /\ \A w \in Words0 : heap.mem[w] = 0
  BY <1>6 DEF Memory
<1>9. Blank(heap)
  BY <1>4, <1>6, <1>7, <1>8 DEF Blank
<1>10. DOMAIN live = {} /\ failed = 0
  BY DEF Init
<1>11. Fitted(live, heap.mem)
  BY <1>10 DEF Fitted
<1>. QED
  BY <1>9, <1>10, <1>11 DEF HeapInv, InOrder, Good

LEMMA HeapNext == HeapInv /\ [Next]_vars => HeapInv'
<1>. SUFFICES ASSUME HeapInv, [Next]_vars PROVE HeapInv'
  OBVIOUS
<1>1. InOrder(heap, live) /\ failed \in Nat /\ Good(heap, DOMAIN live)
  BY DEF HeapInv, InOrder
<1>2. \A bytes \in Requests : bytes \in Nat /\ IsSize(Nb(bytes)) /\ Nb(bytes) \in Nat /\ Words(bytes) \in Nat
  BY Padded, HeapConstants DEF HeapConstants, IsSize
<1>3. DOMAIN live \ {} = DOMAIN live
  OBVIOUS
<1>4. ASSUME NEW bytes \in Requests, Malloc(bytes) PROVE HeapInv'
  <2>1. PICK r : r = mALLOc(heap, Nb(bytes))
    OBVIOUS
  <2>2. Answered(r, heap.mem, DOMAIN live \ {}, DOMAIN live, Nb(bytes))
    BY <1>1, <1>2, <1>3, <2>1, AllocHolds DEF Answered
  <2>3. GivenBy(heap', live', failed', r, Nb(bytes), live, {}, bytes, 0, FALSE)
    BY <1>4, <2>1, GivenIs DEF Malloc
  <2>4. 0 \in Int /\ FALSE \in BOOLEAN /\ Nb(bytes) \in Nat /\ InOrder(heap, live)
    BY <1>1, <1>2
  <2>5. InOrder(heap', live') /\ failed' \in Nat
    BY ONLY bytes \in Requests, <2>2, <2>3, <2>4, GivenHolds
  <2>. QED
    BY <2>5 DEF HeapInv
<1>5. ASSUME NEW bytes \in Requests, Calloc(bytes) PROVE HeapInv'
  <2>1. PICK r : r = cALLOc(heap, Nb(bytes))
    OBVIOUS
  <2>2. Answered(r, heap.mem, DOMAIN live \ {}, DOMAIN live, Nb(bytes))
    BY <1>1, <1>2, <1>3, <2>1, CallocHolds DEF Answered
  <2>3. GivenBy(heap', live', failed', r, Nb(bytes), live, {}, bytes, Words(bytes), TRUE)
    BY <1>5, <2>1, GivenIs DEF Calloc
  <2>4. Words(bytes) \in Int
    BY <1>2
  <2>5. InOrder(heap', live') /\ failed' \in Nat
    BY <1>1, <1>2, <2>2, <2>3, <2>4, GivenHolds
  <2>. QED
    BY <2>5 DEF HeapInv
<1>6. ASSUME NEW bytes \in Requests, NEW align \in Alignments, Memalign(align, bytes) PROVE HeapInv'
  <2>1. PICK r : r = mEMALIGn(heap, align, Nb(bytes))
    OBVIOUS
  <2>2. align \in Nat /\ (align > 4 => align % 2 = 0)
    BY HeapConstants DEF HeapConstants
  <2>3. Answered(r, heap.mem, DOMAIN live \ {}, DOMAIN live, Nb(bytes))
    BY <1>1, <1>2, <1>3, <2>1, <2>2, MemalignHolds DEF Answered
  <2>4. Worst(align, Nb(bytes)) \in Nat
    <3>1. CASE align <= 2
      BY <1>2, <3>1 DEF Worst
    <3>2. CASE ~(align <= 2)
      <4>1. align > 2 /\ IsSize(Nb(bytes))
        BY <1>2, <2>2, <3>2
      <4>2. IsSize(Worst(align, Nb(bytes)))
        BY <2>2, <4>1, WorstIs
      <4>. QED
        BY <4>2 DEF IsSize
    <3>. QED
      BY <3>1, <3>2
  <2>5. GivenBy(heap', live', failed', r, Worst(align, Nb(bytes)), live, {}, bytes, 0, FALSE)
    BY <1>6, <2>1, GivenIs DEF Memalign
  <2>6. 0 \in Int /\ FALSE \in BOOLEAN /\ InOrder(heap, live)
    BY <1>1
  <2>7. InOrder(heap', live') /\ failed' \in Nat
    BY ONLY bytes \in Requests, <2>3, <2>4, <2>5, <2>6, GivenHolds
  <2>. QED
    BY <2>7 DEF HeapInv
<1>7. ASSUME NEW p \in DOMAIN live, NEW bytes \in Requests, Realloc(p, bytes) PROVE HeapInv'
  <2>. DEFINE both == IF live[p].bytes < bytes THEN live[p].bytes ELSE bytes
  <2>1. PICK r : r = rEALLOc(heap, p, Nb(bytes))
    OBVIOUS
  <2>2. Holds(heap, DOMAIN live)
    BY <1>1, GoodHolds
  <2>3. Moves(r, heap.mem, DOMAIN live, Nb(bytes), p) \/ Refused(r, heap.mem, DOMAIN live)
    BY <1>2, <2>1, <2>2, ReallocHolds
  <2>4. Answered(r, heap.mem, DOMAIN live \ {p}, DOMAIN live, Nb(bytes))
    BY <2>3 DEF Moves, Answered
  <2>5. live[p] \in [bytes : Requests, cleared : BOOLEAN]
    BY <1>1 DEF InOrder, Fitted
  <2>6. Words(both) \in Int /\ live[p].cleared \in BOOLEAN
    BY <1>2, <2>5
  <2>7. GivenBy(heap', live', failed', r, Nb(bytes), live, {p}, bytes, Words(both), live[p].cleared)
    BY <1>7, <2>1, GivenIs DEF Realloc
  <2>. HIDE DEF both
  <2>8. InOrder(heap', live') /\ failed' \in Nat
    <3>1. Nb(bytes) \in Nat /\ InOrder(heap, live)
      BY <1>1, <1>2
    <3>2. PICK old : old = {p}
      OBVIOUS
    <3>3. PICK kept \in Int, c \in BOOLEAN : kept = Words(both) /\ c = live[p].cleared
      BY <2>6
    <3>4. /\ Answered(r, heap.mem, DOMAIN live \ old, DOMAIN live, Nb(bytes))
          /\ GivenBy(heap', live', failed', r, Nb(bytes), live, old, bytes, kept, c)
      BY <2>4, <2>7, <3>2, <3>3
    <3>. QED
      BY ONLY bytes \in Requests, kept \in Int, c \in BOOLEAN, <3>1, <3>4, GivenHolds
  <2>. QED
    BY <2>8 DEF HeapInv
<1>8. ASSUME NEW p \in DOMAIN live, Free(p) PROVE HeapInv'
  <2>1. heap' = fREe(heap, p) /\ live' = [q \in DOMAIN live \ {p} |-> live[q]] /\ failed' = 0
    BY <1>8 DEF Free
  <2>2. InOrder(heap', live')
    BY <1>1, <2>1, BlockFreed
  <2>. QED
    BY <2>1, <2>2 DEF HeapInv
<1>9. CASE UNCHANGED vars
  BY <1>1, <1>9 DEF vars, HeapInv
<1>. QED
  BY <1>4, <1>5, <1>6, <1>7, <1>8, <1>9 DEF Next

(***************************************************************************)
(* The walk from chunk to chunk.                                           *)
(***************************************************************************)
Onward(h, f, a) ==
  IF a >= h.top \/ ChunkSize(h.mem, a) <= 0 THEN {}
  ELSE {a} \cup (IF a + ChunkSize(h.mem, a) > h.top THEN {} ELSE f[a + ChunkSize(h.mem, a)])

Walk(h) == CHOOSE f : f = [a \in 0 .. End |-> Onward(h, f, a)]

ChunksOf(h) == IF h.top = NULL THEN {} ELSE Walk(h)[0]

LEMMA ChunksAre == Chunks = ChunksOf(heap)
BY DEF Chunks, ChunksOf, Walk, Onward

\* A walk can be made from the end back to any word.
WalkFrom(h, f, j) == f = [a \in j .. End |-> Onward(h, f, a)]

LEMMA WalkExists ==
  ASSUME NEW h, h.top \in Nat, h.top < End, h.mem \in Memory
  PROVE  Walk(h) = [a \in 0 .. End |-> Onward(h, Walk(h), a)]
<1>. DEFINE S == {k \in 0 .. End : ~\E f : WalkFrom(h, f, End - k)}
<1>1. End \in Nat
  BY Pages
<1>2. \A a \in Nat : a < h.top => ChunkSize(h.mem, a) \in Int
  <2>. SUFFICES ASSUME NEW a \in Nat, a < h.top PROVE ChunkSize(h.mem, a) \in Int
    OBVIOUS
  <2>1. a + 1 \in Words0
    BY <1>1 DEF Words0
  <2>2. h.mem[a + 1] \in Int
    BY <2>1 DEF Memory
  <2>. QED
    BY <2>2 DEF ChunkSize
<1>3. S = {}
  <2>. SUFFICES ASSUME S # {} PROVE FALSE
    OBVIOUS
  <2>1. S \in SUBSET Nat
    OBVIOUS
  <2>2. PICK k \in S : \A l \in S : k <= l
    BY <2>1, Least
  <2>3. k \in 0 .. End /\ ~\E f : WalkFrom(h, f, End - k)
    BY <2>2
  <2>. HIDE DEF S
  <2>4. k # 0
    <3>. SUFFICES ASSUME k = 0 PROVE FALSE
      OBVIOUS
    <3>1. PICK f : f = [a \in End .. End |-> {}]
      OBVIOUS
    <3>2. \A a \in End .. End : f[a] = {} /\ a >= h.top
      BY <1>1, <3>1
    <3>3. \A a \in End .. End : f[a] = Onward(h, f, a)
      BY <3>2 DEF Onward
    <3>5. WalkFrom(h, f, End)
      BY <3>1, <3>3 DEF WalkFrom
    <3>4. End - k = End
      BY <1>1
    <3>. QED
      BY <2>3, <3>4, <3>5
  <2>5. PICK j : j = End - k /\ j \in Nat /\ j < End /\ End - (k - 1) = j + 1 /\ k - 1 \in 0 .. End
    BY <1>1, <2>3, <2>4
  <2>6. k - 1 \notin S
    BY <2>2, <2>3, <2>4
  <2>7. PICK f : WalkFrom(h, f, j + 1)
    BY <2>5, <2>6 DEF S
  <2>8. PICK g : g = [a \in j .. End |-> IF a = j THEN Onward(h, f, j) ELSE f[a]]
    OBVIOUS
  <2>9. \A a \in Nat : j < a /\ a <= End => g[a] = f[a]
    BY <1>1, <2>5, <2>8
  <2>10. \A a \in j .. End : Onward(h, g, a) = Onward(h, f, a)
    <3>. SUFFICES ASSUME NEW a \in j .. End PROVE Onward(h, g, a) = Onward(h, f, a)
      OBVIOUS
    <3>1. CASE a >= h.top \/ ChunkSize(h.mem, a) <= 0 \/ a + ChunkSize(h.mem, a) > h.top
      BY <3>1 DEF Onward
    <3>2. CASE ~(a >= h.top \/ ChunkSize(h.mem, a) <= 0 \/ a + ChunkSize(h.mem, a) > h.top)
      <4>1. a \in Nat /\ a >= j /\ a < h.top
        BY <1>1, <2>5, <3>2
      <4>2. PICK s \in Int : s = ChunkSize(h.mem, a)
        BY <1>2, <4>1
      <4>3. a + s \in Nat /\ j < a + s /\ a + s <= End
        BY <1>1, <2>5, <3>2, <4>1, <4>2
      <4>4. g[a + s] = f[a + s]
        BY <2>9, <4>3
      <4>. QED
        BY <3>2, <4>2, <4>4 DEF Onward
    <3>. QED
      BY <3>1, <3>2
  <2>11. \A a \in j .. End : g[a] = Onward(h, f, a)
    <3>. SUFFICES ASSUME NEW a \in j .. End PROVE g[a] = Onward(h, f, a)
      OBVIOUS
    <3>1. CASE a = j
      BY <2>8, <3>1
    <3>2. CASE a # j
      <4>1. a \in j + 1 .. End
        BY <1>1, <2>5, <3>2
      <4>2. g[a] = f[a]
        BY <2>8, <3>2
      <4>. QED
        BY <2>7, <4>1, <4>2 DEF WalkFrom
    <3>. QED
      BY <3>1, <3>2
  <2>12. WalkFrom(h, g, j)
    BY <2>8, <2>10, <2>11 DEF WalkFrom
  <2>. QED
    BY <2>3, <2>5, <2>12
<1>4. PICK f : WalkFrom(h, f, 0)
  <2>1. End \in 0 .. End /\ End - End = 0
    BY <1>1
  <2>2. \E f : WalkFrom(h, f, End - End)
    BY <1>3, <2>1
  <2>. QED
    BY <2>1, <2>2
<1>. QED
  BY <1>4 DEF WalkFrom, Walk
\* What the boundary tags lead to from the first word is what there is.
LEMMA WalkedChunks ==
  ASSUME NEW h, NEW B, NEW z, NEW F, Heap(h, B, z, F)
  PROVE  ChunksOf(h) = B \ {h.top}
<1>. DEFINE m == h.mem  top == h.top  brk == h.brk
<1>1. Tiled(m, top, brk, B, z, F)
  BY DEF Heap
<1>. HIDE DEF m, top, brk
<1>2. /\ brk \in Nat /\ brk <= End /\ End \in Nat /\ top \in B /\ top + z[top] = brk
      /\ \A q \in B : q \in Nat /\ z[q] \in Nat /\ z[q] >= 4 /\ q + 3 < brk
      /\ \A q, r \in B : q < r => q + z[q] <= r
      /\ \A q \in B : q # top => q + z[q] \in B
      /\ \A q \in B : ChunkSize(m, q) = z[q]
  <2>1. \A q \in B : q # top => q + z[q] \in B
    BY <1>1, TagsOfTiled
  <2>2. \A q \in B : ChunkSize(m, q) = z[q]
    BY <1>1, TagsOfTiled
  <2>3. top + z[top] = brk
    BY <1>1 DEF Tiled
  <2>4. \A q \in B : q \in Nat /\ z[q] \in Nat /\ z[q] >= 4 /\ q + 3 < brk
    BY <1>1, TiledFacts
  <2>5. brk \in Nat /\ brk <= End /\ End \in Nat /\ top \in B /\ \A q, r \in B : q < r => q + z[q] <= r
    BY <1>1, TiledFacts
  <2>. QED
    BY <2>1, <2>2, <2>3, <2>4, <2>5
<1>3. \A q \in B : q <= top
  <2>. SUFFICES ASSUME NEW q \in B, top < q PROVE FALSE
    BY <1>2
  <2>1. top + z[top] <= q
    BY <1>2
  <2>. QED
    BY <1>2, <2>1
<1>4. 0 \in B
  BY <1>1 DEF Tiled, Layout
<1>5. m \in Memory
  BY <1>1 DEF Tiled, Memory
<1>6. PICK f : f = Walk(h)
  OBVIOUS
<1>7. f = [a \in 0 .. End |-> Onward(h, f, a)]
  BY <1>2, <1>5, <1>6, WalkExists DEF top, m
<1>8. \A a \in B : f[a] = Onward(h, f, a)
  <2>1. \A a \in B : a \in 0 .. End
    BY <1>2
  <2>. QED
    BY <1>7, <2>1
<1>. DEFINE Rest(a) == {q \in B : a <= q /\ q # top}  T == {a \in B : f[a] # Rest(a)}
<1>9. T = {}
  <2>. SUFFICES ASSUME T # {} PROVE FALSE
    OBVIOUS
  <2>1. T \in SUBSET (0 .. brk)
    BY <1>2
  <2>2. PICK a \in T : \A b \in T : b <= a
    BY <1>2, <2>1, Greatest
  <2>3. a \in B /\ f[a] # Rest(a) /\ a \in Nat
    BY <1>2, <2>2
  <2>. HIDE DEF T
  <2>4. CASE a = top
    <3>1. f[a] = {}
      <4>1. f[a] = Onward(h, f, a)
        BY <1>8, <2>3
      <4>2. a >= h.top
        BY <2>3, <2>4 DEF top
      <4>. QED
        BY <4>1, <4>2 DEF Onward
    <3>2. Rest(a) = {}
      BY <1>2, <1>3, <2>4
    <3>. QED
      BY <2>3, <3>1, <3>2
  <2>5. CASE a # top
    <3>1. PICK b : b = a + z[a]
      OBVIOUS
    <3>2. b \in B /\ b \in Nat /\ a < b /\ b <= top /\ a < top
      BY <1>2, <1>3, <2>3, <2>5, <3>1
    <3>3. f[a] = {a} \cup f[b]
      <4>1. ChunkSize(m, a) = z[a] /\ ~(z[a] <= 0) /\ ~(a >= top) /\ ~(b > top)
        BY <1>2, <2>3, <3>2
      <4>2. f[a] = Onward(h, f, a)
        BY <1>8, <2>3
      <4>. QED
        BY <3>1, <4>1, <4>2 DEF Onward, m, top
    <3>4. f[b] = Rest(b)
      <4>1. b \notin T
        BY <2>2, <2>3, <3>2
      <4>. QED
        BY <3>2, <4>1 DEF T
    <3>5. \A q \in B : a <= q <=> q = a \/ b <= q
      BY <1>2, <2>3, <3>1, <3>2
    <3>6. {a} \cup Rest(b) = Rest(a)
      BY <2>3, <2>5, <3>5
    <3>. QED
      BY <2>3, <3>3, <3>4, <3>6
  <2>. QED
    BY <2>4, <2>5
<1>10. f[0] = Rest(0)
  BY <1>4, <1>9
<1>11. Rest(0) = B \ {top}
  BY <1>2
<1>12. top # NULL
  BY <1>2 DEF NULL
<1>. QED
  BY <1>6, <1>10, <1>11, <1>12 DEF ChunksOf, top
\* The free chunks of the heap, as the program sees them
Frees0(F, z) ==
  /\ FreeChunks = F /\ Lists(heap.bins, heap.blocks, F, z) /\ \A c \in F : Size(c) = z[c]

LEMMA HeapFrees ==
  ASSUME NEW B, NEW z, NEW F, Heap(heap, B, z, F), DOMAIN live = Used(heap, B, F)
  PROVE  Frees0(F, z) /\ Chunks = B \ {heap.top}
<1>1. Chunks = B \ {heap.top}
  BY WalkedChunks, ChunksAre
<1>2. Tiled(heap.mem, heap.top, heap.brk, B, z, F)
  BY DEF Heap
<1>3. F \subseteq B /\ heap.top \notin F
  BY <1>2, TiledFacts
<1>4. FreeChunks = F
  BY <1>1, <1>3 DEF FreeChunks, Used
<1>5. \A c \in F : Size(c) = z[c]
  BY <1>2, <1>3, TagsOfTiled DEF Size
<1>. QED
  BY <1>1, <1>4, <1>5 DEF Frees0, Heap

LEMMA ListedIs ==
  \A x : x \in Listed <=> \E i \in Bins : \E k \in 1 .. Len(heap.bins[i]) : x = <<i, k>>
BY DEF Listed

LEMMA FreesOnce ==
  ASSUME NEW F, NEW z, Frees0(F, z)
  PROVE  FreeOnce
<1>. DEFINE at(x) == heap.bins[x[1]][x[2]]
<1>1. FreeChunks = F /\ Lists(heap.bins, heap.blocks, F, z) /\ \A c \in F : Size(c) = z[c]
  BY DEF Frees0
<1>2. PICK b : b = heap.bins
  OBVIOUS
<1>3. PICK marks : marks = heap.blocks
  OBVIOUS
<1>4. /\ Len(b[1]) <= 1
      /\ \A i \in Bins : \A k \in 1 .. Len(b[i]) : b[i][k] \in F
      /\ \A i, j \in Bins : \A k \in 1 .. Len(b[i]), l \in 1 .. Len(b[j]) :
            b[i][k] = b[j][l] => i = j /\ k = l
      /\ \A c \in F : \E i \in Bins : \E k \in 1 .. Len(b[i]) : b[i][k] = c
      /\ \A i \in Bins \ {1} : \A k \in 1 .. Len(b[i]) :
            /\ BinIndex(z[b[i][k]]) = i /\ Block(i) \in marks
            /\ \A l \in 1 .. Len(b[i]) : k < l => z[b[i][l]] <= z[b[i][k]]
  BY <1>1, <1>2, <1>3 DEF Lists
<1>11. \A x \in Listed : x[1] \in Bins /\ x[2] \in 1 .. Len(b[x[1]]) /\ x = <<x[1], x[2]>>
  BY <1>2, ListedIs
<1>5. \A x \in Listed : at(x) \in F
  BY <1>2, <1>4, <1>11
<1>6. \A c \in F : \E x \in Listed : at(x) = c
  <2>. SUFFICES ASSUME NEW c \in F PROVE \E x \in Listed : at(x) = c
    OBVIOUS
  <2>1. PICK i \in Bins : \E k \in 1 .. Len(b[i]) : b[i][k] = c
    BY <1>4
  <2>2. PICK k \in 1 .. Len(b[i]) : b[i][k] = c
    BY <2>1
  <2>3. <<i, k>> \in Listed
    BY <1>2, ListedIs
  <2>. QED
    BY <1>2, <2>2, <2>3
<1>7. {at(x) : x \in Listed} = F
  BY <1>5, <1>6
<1>8. \A x, y \in Listed : at(x) = at(y) => x = y
  <2>. SUFFICES ASSUME NEW x \in Listed, NEW y \in Listed, at(x) = at(y) PROVE x = y
    OBVIOUS
  <2>1. PICK i, k : i \in Bins /\ k \in 1 .. Len(b[i]) /\ x = <<i, k>>
    BY <1>11
  <2>2. PICK j, l : j \in Bins /\ l \in 1 .. Len(b[j]) /\ y = <<j, l>>
    BY <1>11
  <2>3. b[i][k] = b[j][l]
    BY <1>2, <2>1, <2>2
  <2>4. i = j /\ k = l
    BY <1>4, <2>1, <2>2, <2>3
  <2>. QED
    BY <2>1, <2>2, <2>4
<1>9. ASSUME NEW x \in Listed, x[1] # 1
      PROVE  /\ x[1] = BinIndex(Size(at(x))) /\ Block(x[1]) \in heap.blocks
             /\ \A y \in Listed : x[1] = y[1] /\ x[2] < y[2] => Size(at(x)) >= Size(at(y))
  <2>1. PICK i, k : i \in Bins /\ k \in 1 .. Len(b[i]) /\ x = <<i, k>>
    BY <1>11
  <2>2. i # 1 /\ x[1] = i /\ x[2] = k /\ at(x) = b[i][k]
    BY <1>2, <1>9, <2>1
  <2>3. /\ BinIndex(z[b[i][k]]) = i /\ Block(i) \in marks
        /\ \A l \in 1 .. Len(b[i]) : k < l => z[b[i][l]] <= z[b[i][k]]
    BY <1>4, <2>1, <2>2
  <2>4. Size(b[i][k]) = z[b[i][k]]
    BY <1>1, <1>4, <2>1
  <2>5. ASSUME NEW y \in Listed, i = y[1], k < y[2] PROVE Size(at(x)) >= Size(at(y))
    <3>1. PICK j, l : j \in Bins /\ l \in 1 .. Len(b[j]) /\ y = <<j, l>>
      BY <1>11
    <3>2. i = j /\ k < l /\ at(y) = b[i][l] /\ l \in 1 .. Len(b[i])
      BY <1>2, <2>1, <2>5, <3>1
    <3>3. Size(b[i][l]) = z[b[i][l]] /\ z[b[i][l]] <= z[b[i][k]]
      BY <1>1, <1>4, <2>1, <2>3, <3>2
    <3>. QED
      BY <2>2, <2>4, <3>2, <3>3
  <2>. QED
    BY <1>3, <2>2, <2>3, <2>4, <2>5
<1>10. Len(heap.bins[LastRemainder]) <= 1
  BY <1>2, <1>4 DEF LastRemainder
<1>. QED
  BY <1>1, <1>7, <1>8, <1>9, <1>10 DEF FreeOnce, LastRemainder

LEMMA TagsInOrder ==
  ASSUME NEW B, NEW z, NEW F, Heap(heap, B, z, F), DOMAIN live = Used(heap, B, F), Fitted(live, heap.mem)
  PROVE  BoundaryTags
<1>. DEFINE m == heap.mem  top == heap.top  brk == heap.brk
<1>1. Chunks = B \ {top} /\ FreeChunks = F
  BY HeapFrees DEF Frees0
<1>2. Tiled(m, top, brk, B, z, F)
  BY DEF Heap
<1>3. DOMAIN live = B \ (F \cup {top})
  BY DEF Used
<1>4. \A p : Size(p) = ChunkSize(m, p)
  BY DEF Size
<1>. HIDE DEF m, top, brk
<1>5. /\ \A p \in B : ChunkSize(m, p) = z[p] /\ (PrevInuse(m, p) <=> p \notin Ends(F, z))
      /\ \A p \in B : p # top => (Inuse(m, p) <=> p \notin F)
      /\ \A p \in F : m[p + z[p]] = z[p]
  <2>1. \A p \in B : ChunkSize(m, p) = z[p] /\ (PrevInuse(m, p) <=> p \notin Ends(F, z))
    BY <1>2, TagsOfTiled
  <2>2. \A p \in B : p # top => (Inuse(m, p) <=> p \notin F)
    BY <1>2, TagsOfTiled
  <2>3. \A p \in B : p \in F => m[p + z[p]] = z[p]
    BY <1>2, TagsOfTiled
  <2>4. F \subseteq B
    BY <1>2, TiledFacts
  <2>. QED
    BY <2>1, <2>2, <2>3, <2>4
<1>6. /\ top \in B /\ top \notin F /\ top \notin Ends(F, z) /\ F \subseteq B
      /\ \A p \in B : p \in Nat /\ z[p] \in Nat /\ z[p] >= 4
  BY <1>2, TiledFacts
<1>7. /\ top + z[top] = brk /\ \A p \in F : p + z[p] \in B \ F
      /\ \A q \in B : q = 0 \/ \E p \in B : p + z[p] = q
  BY <1>2 DEF Tiled, Frees, Layout
<1>8. top = 0 \/ \E p \in B \ {top} : p + z[p] = top
  <2>. SUFFICES ASSUME top # 0 PROVE \E p \in B \ {top} : p + z[p] = top
    OBVIOUS
  <2>1. PICK p \in B : p + z[p] = top
    BY <1>6, <1>7
  <2>2. p # top
    BY <1>6, <2>1
  <2>. QED
    BY <2>1, <2>2
<1>9. Chunks = {} => top = 0
  BY <1>1, <1>8
<1>10. Chunks = {} \/ \E p \in Chunks : p + Size(p) = top
  <2>1. CASE top = 0
    <3>1. \A p \in B : p = top
      <4>. SUFFICES ASSUME NEW p \in B, p # top PROVE FALSE
        OBVIOUS
      <4>1. \A q, r \in B : q < r => q + z[q] <= r
        BY <1>2, TiledFacts
      <4>2. top + z[top] <= p
        BY <1>6, <2>1, <4>1
      <4>3. p + z[p] <= brk
        BY <1>2, TiledFacts
      <4>. QED
        BY <1>6, <1>7, <4>2, <4>3
    <3>. QED
      BY <1>1, <3>1
  <2>2. CASE \E p \in B \ {top} : p + z[p] = top
    BY <1>1, <1>4, <1>5, <2>2
  <2>. QED
    BY <1>8, <2>1, <2>2
<1>11. PrevInuse(m, top) /\ Size(top) >= MinSize /\ top + Size(top) = brk
  BY <1>4, <1>5, <1>6, <1>7 DEF MinSize
<1>12. DOMAIN live \subseteq Chunks
  BY <1>1, <1>3
<1>13. ASSUME NEW p \in DOMAIN live
       PROVE  Inuse(m, p) /\ Size(p) \in Nb(live[p].bytes) .. Nb(live[p].bytes) + MinSize - 1
  <2>1. live[p] \in [bytes : Requests, cleared : BOOLEAN] /\ ChunkSize(m, p) \in Nb(live[p].bytes) .. Nb(live[p].bytes) + 3
    BY DEF Fitted, m
  <2>2. Nb(live[p].bytes) \in Nat
    BY <2>1, HeapConstants, Padded DEF HeapConstants, IsSize
  <2>3. Nb(live[p].bytes) + MinSize - 1 = Nb(live[p].bytes) + 3
    BY <2>2 DEF MinSize
  <2>4. Inuse(m, p)
    BY <1>3, <1>5
  <2>. QED
    BY <1>4, <2>1, <2>3, <2>4
<1>14. ASSUME NEW p \in FreeChunks
       PROVE  ~Inuse(m, p) /\ PrevInuse(m, p) /\ m[p + Size(p)] = Size(p)
  <2>1. p \in F /\ p \in B /\ p # top
    BY <1>1, <1>6
  <2>2. p \notin Ends(F, z)
    BY <1>7, <2>1 DEF Ends
  <2>. QED
    BY <1>4, <1>5, <2>1, <2>2
<1>. QED
  BY <1>9, <1>10, <1>11, <1>12, <1>13, <1>14 DEF BoundaryTags, m, top, brk

LEMMA BlankBegins ==
  ASSUME Blank(heap), DOMAIN live = {}
  PROVE  BoundaryTags /\ \E z : Frees0({}, z)
<1>1. heap.top = NULL /\ \E z : Lists(heap.bins, heap.blocks, {}, z)
  BY DEF Blank
<1>2. Chunks = {}
  BY <1>1, ChunksAre DEF ChunksOf
<1>. QED
  BY <1>1, <1>2 DEF BoundaryTags, Frees0, FreeChunks

LEMMA HeapFreesAll ==
  ASSUME HeapInv
  PROVE  \E F, z : Frees0(F, z)
<1>1. Good(heap, DOMAIN live) /\ Fitted(live, heap.mem)
  BY DEF HeapInv, InOrder
<1>2. CASE Holds(heap, DOMAIN live)
  <2>1. PICK B, z, F : Heap(heap, B, z, F) /\ DOMAIN live = Used(heap, B, F)
    BY <1>2 DEF Holds
  <2>. QED
    BY <2>1, HeapFrees
<1>3. CASE Blank(heap) /\ DOMAIN live = {}
  BY <1>3, BlankBegins
<1>. QED
  BY <1>1, <1>2, <1>3 DEF Good

LEMMA HeapInvIntact == HeapInv => HeapIntact
<1>. SUFFICES ASSUME HeapInv PROVE HeapIntact
  OBVIOUS
<1>1. Good(heap, DOMAIN live) /\ Fitted(live, heap.mem)
  BY DEF HeapInv, InOrder
<1>2. BoundaryTags
  <2>1. CASE Holds(heap, DOMAIN live)
    <3>1. PICK B, z, F : Heap(heap, B, z, F) /\ DOMAIN live = Used(heap, B, F)
      BY <2>1 DEF Holds
    <3>. QED
      BY <1>1, <3>1, TagsInOrder
  <2>2. CASE Blank(heap) /\ DOMAIN live = {}
    BY <2>2, BlankBegins
  <2>. QED
    BY <1>1, <2>1, <2>2 DEF Good
<1>3. FreeOnce
  BY HeapFreesAll, FreesOnce
<1>. QED
  BY <1>2, <1>3 DEF HeapIntact

\* The boundary tags and the lists of free chunks are in order in every heap
\* the program can make by malloc, calloc, memalign, realloc and free.
THEOREM HeapIsIntact == Spec => []HeapIntact
<1>1. Init => HeapInv
  BY HeapInit
<1>2. HeapInv /\ [Next]_vars => HeapInv'
  BY HeapNext
<1>3. HeapInv => HeapIntact
  BY HeapInvIntact
<1>. QED
  BY <1>1, <1>2, <1>3, PTL DEF Spec

LEMMA HeapTyped ==
  ASSUME NEW h, NEW U, Good(h, U)
  PROVE  /\ h.mem \in [0 .. End - 1 -> Int] /\ h.bins \in [Bins -> Seq(0 .. End - 1)]
         /\ h.blocks \subseteq {Block(i) : i \in Bins} /\ h.top \in (0 .. End - 4) \cup {NULL}
         /\ h.brk \in Breaks /\ U \subseteq 0 .. End - 1
<1>. DEFINE Place == 0 .. End - 1
<1>1. PICK F, z : Lists(h.bins, h.blocks, F, z) /\ F \subseteq Place
  <2>1. CASE Holds(h, U)
    <3>1. PICK B, z, F : Heap(h, B, z, F)
      BY <2>1 DEF Holds
    <3>2. Tiled(h.mem, h.top, h.brk, B, z, F)
      BY <3>1 DEF Heap
    <3>3. F \subseteq B /\ \A q \in B : q \in Nat /\ q + 3 < h.brk /\ h.brk \in Nat /\ h.brk <= End /\ End \in Nat
      BY <3>2, TiledFacts
    <3>4. F \subseteq Place
      BY <3>3
    <3>. QED
      BY <3>1, <3>4 DEF Heap
  <2>2. CASE Blank(h)
    <3>1. PICK z : Lists(h.bins, h.blocks, {}, z)
      BY <2>2 DEF Blank
    <3>. QED
      BY <3>1
  <2>. QED
    BY <2>1, <2>2 DEF Good
<1>. HIDE DEF Place
<1>2. h.bins \in [Bins -> Seq(Place)] /\ h.blocks \subseteq {Block(i) : i \in Bins}
  <2>1. h.bins \in [Bins -> Seq(Nat)] /\ h.blocks \subseteq {Block(i) : i \in Bins}
    BY <1>1, BinsAreLists
  <2>2. \A i \in Bins : \A k \in 1 .. Len(h.bins[i]) : h.bins[i][k] \in Place
    BY <1>1 DEF Lists
  <2>3. \A s \in Seq(Nat) : (\A k \in 1 .. Len(s) : s[k] \in Place) => s \in Seq(Place)
    <3>. SUFFICES ASSUME NEW s \in Seq(Nat), \A k \in 1 .. Len(s) : s[k] \in Place PROVE s \in Seq(Place)
      OBVIOUS
    <3>1. s = [k \in 1 .. Len(s) |-> s[k]] /\ Len(s) \in Nat
      OBVIOUS
    <3>. QED
      BY <3>1, IsASeq
  <2>4. \A i \in Bins : h.bins[i] \in Seq(Place)
    BY <2>1, <2>2, <2>3
  <2>. QED
    BY <2>1, <2>4
<1>3. CASE Holds(h, U)
  <2>1. PICK B, y, G : Heap(h, B, y, G) /\ U = Used(h, B, G)
    BY <1>3 DEF Holds
  <2>2. Tiled(h.mem, h.top, h.brk, B, y, G)
    BY <2>1 DEF Heap
  <2>3. /\ h.top \in B /\ h.brk \in Nat /\ h.brk <= End /\ End \in Nat
        /\ \A q \in B : q \in Nat /\ q + 3 < h.brk
    BY <2>2, TiledFacts
  <2>4. h.mem \in [Words0 -> Int] /\ h.brk \in Breaks
    BY <2>2 DEF Tiled
  <2>5. h.top \in 0 .. End - 4
    BY <2>3
  <2>6. U \subseteq B
    BY <2>1 DEF Used
  <2>7. U \subseteq 0 .. End - 1
    BY <2>3, <2>6
  <2>. QED
    BY <1>2, <2>4, <2>5, <2>7 DEF Place, Words0
<1>4. CASE Blank(h) /\ U = {}
  <2>1. 0 \in Breaks
    <3>1. PageWords * 0 = 0 /\ 0 \in 0 .. HeapPages
      BY Pages
    <3>. QED
      BY <3>1 DEF Breaks
  <2>2. h.mem \in Memory /\ h.top = NULL /\ h.brk = 0
    BY <1>4 DEF Blank
  <2>. QED
    BY <1>2, <1>4, <2>1, <2>2 DEF Place, Memory, Words0
<1>. QED
  BY <1>3, <1>4 DEF Good

LEMMA HeapInvTyped == HeapInv => TypeOK
<1>. SUFFICES ASSUME HeapInv PROVE TypeOK
  OBVIOUS
<1>1. Good(heap, DOMAIN live) /\ Fitted(live, heap.mem) /\ failed \in Nat
  BY DEF HeapInv, InOrder
<1>2. /\ heap.mem \in [0 .. End - 1 -> Int] /\ heap.bins \in [Bins -> Seq(0 .. End - 1)]
      /\ heap.blocks \subseteq {Block(i) : i \in Bins} /\ heap.top \in (0 .. End - 4) \cup {NULL}
      /\ heap.brk \in Breaks /\ DOMAIN live \subseteq 0 .. End - 1
  BY <1>1, HeapTyped
<1>3. \A p \in DOMAIN live : live[p] \in [bytes : Requests, cleared : BOOLEAN]
  BY <1>1 DEF Fitted
<1>. QED
  BY <1>1, <1>2, <1>3 DEF TypeOK, Breaks, MinSize

\* The tags, the lists, the top and the break are always of their types.
THEOREM HeapTypeCorrect == Spec => []TypeOK
<1>1. Init => HeapInv
  BY HeapInit
<1>2. HeapInv /\ [Next]_vars => HeapInv'
  BY HeapNext
<1>3. HeapInv => TypeOK
  BY HeapInvTyped
<1>. QED
  BY <1>1, <1>2, <1>3, PTL DEF Spec

(***************************************************************************)
(* A request that is refused.                                              *)
(***************************************************************************)
\* Neither a chunk that is not in use nor the top nor fresh memory is enough.
Short(h, U, n) ==
  /\ \A c \in ChunksOf(h) \ U : ChunkSize(h.mem, c) < n
  /\ TopSize(h) < n + 4 /\ h.brk + n + 4 > End

\* If whole pages do not fit, the words do not.
LEMMA PagesBeyond ==
  ASSUME NEW brk \in Breaks, NEW w \in Nat, brk + Up(w) > End
  PROVE  brk + w > End
<1>. DEFINE P == PageWords
<1>1. PICK j \in Nat, k \in Nat : brk = P * j /\ Up(w) = P * k
  BY Pages
<1>2. P \in Nat /\ P > 0 /\ HeapPages \in Nat /\ End = P * HeapPages
  BY Pages
<1>3. Up(w) <= w + P - 1
  <2>1. PICK x \in Nat : x = w + P - 1
    BY <1>2
  <2>2. Up(w) = x - (x % P) /\ x % P >= 0 /\ x % P \in Int
    BY <1>2, <2>1 DEF Up
  <2>. QED
    BY <2>1, <2>2
<1>. HIDE DEF P
<1>4. brk + Up(w) = P * (j + k)
  <2>1. P * (j + k) = P * j + P * k
    BY <1>2
  <2>. QED
    BY <1>1, <2>1
<1>5. j + k > HeapPages
  <2>. SUFFICES ASSUME j + k <= HeapPages PROVE FALSE
    BY <1>2
  <2>1. PICK d \in Nat : HeapPages = (j + k) + d
    <3>1. HeapPages - (j + k) \in Nat
      BY <1>2
    <3>. QED
      BY <1>2, <3>1
  <2>2. P * HeapPages = P * (j + k) + P * d
    BY <1>2, <2>1
  <2>3. P * d \in Nat /\ P * (j + k) \in Nat
    BY <1>2
  <2>. QED
    BY <1>2, <1>4, <2>2, <2>3
<1>6. P * (j + k) >= End + P
  <2>1. PICK d \in Nat : j + k = (HeapPages + 1) + d
    <3>1. (j + k) - (HeapPages + 1) \in Nat
      BY <1>2, <1>5
    <3>. QED
      BY <1>2, <3>1
  <2>2. P * (j + k) = (P * HeapPages + P) + P * d
    BY <1>2, <2>1
  <2>3. P * d \in Nat /\ P * HeapPages \in Nat
    BY <1>2
  <2>. QED
    BY <1>2, <2>2, <2>3
<1>7. brk \in Nat /\ Up(w) \in Nat /\ End \in Nat
  <2>1. P * j \in Nat /\ P * k \in Nat /\ P * HeapPages \in Nat
    BY <1>2
  <2>. QED
    BY <1>1, <1>2, <2>1
<1>. QED
  BY <1>2, <1>3, <1>4, <1>6, <1>7

\* The top as it is, or up to the new break
LEMMA TopReaches ==
  ASSUME NEW h, NEW U, Good(h, U)
  PROVE  /\ TopSize(h) \in Nat /\ h.brk \in Nat /\ h.brk \in Breaks
         /\ h.top = NULL => h.brk = 0
         /\ h.top # NULL => h.top \in Nat /\ TopSize(h) = h.brk - h.top /\ h.top <= h.brk
<1>1. CASE Holds(h, U)
  <2>1. PICK B, z, F : Heap(h, B, z, F)
    BY <1>1 DEF Holds
  <2>2. Tiled(h.mem, h.top, h.brk, B, z, F)
    BY <2>1 DEF Heap
  <2>3. h.top \in B /\ h.top \in Nat /\ h.brk \in Nat /\ z[h.top] \in Nat
    BY <2>2, TiledFacts
  <2>4. h.top + z[h.top] = h.brk /\ h.brk \in Breaks
    BY <2>2 DEF Tiled
  <2>5. ChunkSize(h.mem, h.top) = z[h.top]
    BY <2>2, <2>3, TagsOfTiled
  <2>6. h.top # NULL
    BY <2>3 DEF NULL
  <2>7. TopSize(h) = z[h.top]
    BY <2>5, <2>6 DEF TopSize
  <2>. QED
    BY <2>3, <2>4, <2>6, <2>7
<1>2. CASE Blank(h)
  <2>1. h.top = NULL /\ h.brk = 0
    BY <1>2 DEF Blank
  <2>2. TopSize(h) = 0
    BY <2>1 DEF TopSize
  <2>3. 0 \in Breaks
    <3>1. PageWords * 0 = 0 /\ 0 \in 0 .. HeapPages
      BY Pages
    <3>. QED
      BY <3>1 DEF Breaks
  <2>. QED
    BY <2>1, <2>2, <2>3
<1>. QED
  BY <1>1, <1>2 DEF Good

LEMMA FromTopRefused ==
  ASSUME NEW h, NEW U, Good(h, U), NEW nb, IsSize(nb), FromTop(h, nb)[2] = NULL, Fields(h)
  PROVE  FromTop(h, nb)[1] = h /\ TopSize(h) < nb + 4 /\ h.brk + nb + 4 > End
<1>. DEFINE e == IF TopSize(h) < nb + 4 THEN ExtendTop(h, nb) ELSE h
            s == TopSize(e)
            wanted == nb + 4
            brk == IF h.top = NULL THEN Up(h.brk + wanted) ELSE h.brk + Up(wanted)
            base == IF h.top = NULL THEN h.brk ELSE h.top
            g == [h EXCEPT !.mem = SetHead(@, base, brk - base), !.top = base, !.brk = brk]
<1>1. \E n : FromTop(h, nb) = IF s < nb + 4 THEN <<e, NULL>> ELSE <<n, e.top>>
  BY DEF FromTop, MinSize
<1>2. nb \in Nat /\ nb >= 4 /\ wanted \in Nat
  BY DEF IsSize
<1>3. Good(e, U)
  BY <1>2, ExtendHolds
<1>4. ExtendTop(h, nb) = IF brk > End THEN h ELSE g
  BY DEF ExtendTop, MinSize
<1>5. /\ TopSize(h) \in Nat /\ h.brk \in Nat /\ h.brk \in Breaks
      /\ h.top = NULL => h.brk = 0
      /\ h.top # NULL => h.top \in Nat /\ TopSize(h) = h.brk - h.top /\ h.top <= h.brk
  BY TopReaches
<1>6. /\ s \in Nat
      /\ e.top # NULL => e.top \in Nat /\ s = e.brk - e.top /\ e.top <= e.brk
  BY <1>3, TopReaches
<1>7. s < nb + 4
  <2>. SUFFICES ASSUME ~(s < nb + 4) PROVE FALSE
    OBVIOUS
  <2>1. e.top = NULL
    <3>. HIDE DEF e, s
    <3>. QED
      BY <1>1
  <2>2. s = 0
    BY <2>1 DEF TopSize
  <2>. HIDE DEF s
  <2>. QED
    BY <1>2, <2>2
<1>8. FromTop(h, nb)[1] = e
  <2>. HIDE DEF e, s
  <2>. QED
    BY <1>1, <1>7
<1>9. TopSize(h) < nb + 4
  <2>. SUFFICES ASSUME ~(TopSize(h) < nb + 4) PROVE FALSE
    OBVIOUS
  <2>1. e = h
    OBVIOUS
  <2>. QED
    BY <1>7, <2>1
<1>10. brk \in Nat /\ base \in Nat /\ base # NULL /\ brk - base >= wanted
  <2>1. \A w \in Nat : Up(w) \in Nat /\ w <= Up(w)
    BY Pages
  <2>2. CASE h.top = NULL
    <3>1. h.brk + wanted = wanted
      BY <1>2, <1>5, <2>2
    <3>2. brk = Up(wanted) /\ base = 0
      BY <1>5, <2>2, <3>1
    <3>3. Up(wanted) \in Nat /\ wanted <= Up(wanted)
      BY <1>2, <2>1
    <3>. HIDE DEF brk, base, wanted
    <3>. QED
      BY <1>2, <3>2, <3>3 DEF NULL
  <2>3. CASE h.top # NULL
    <3>1. brk = h.brk + Up(wanted) /\ base = h.top
      BY <2>3
    <3>2. Up(wanted) \in Nat /\ wanted <= Up(wanted)
      BY <1>2, <2>1
    <3>. HIDE DEF brk, base, wanted
    <3>. QED
      BY <1>2, <1>5, <2>3, <3>1, <3>2
  <2>. QED
    BY <2>2, <2>3
<1>11. brk > End
  <2>. SUFFICES ASSUME ~(brk > End) PROVE FALSE
    OBVIOUS
  <2>1. e = g
    BY <1>4, <1>9
  <2>. HIDE DEF e, brk, base, s
  <2>2. e.top = base /\ e.brk = brk
    BY <2>1 DEF Fields
  <2>3. s = brk - base
    BY <1>6, <1>10, <2>2
  <2>. QED
    BY <1>2, <1>7, <1>10, <2>3
<1>12. e = h
  BY <1>4, <1>9, <1>11
<1>13. h.brk + wanted > End
  <2>1. CASE h.top = NULL
    <3>1. h.brk + wanted = wanted /\ 0 + Up(wanted) = Up(wanted)
      BY <1>2, <1>5, <2>1, Pages
    <3>2. h.brk + Up(wanted) > End
      BY <1>5, <1>11, <2>1, <3>1
    <3>. HIDE DEF wanted, brk
    <3>. QED
      BY <1>2, <1>5, <3>2, PagesBeyond
  <2>2. CASE h.top # NULL
    <3>1. h.brk + Up(wanted) > End
      BY <1>11, <2>2
    <3>. HIDE DEF wanted, brk
    <3>. QED
      BY <1>2, <1>5, <3>1, PagesBeyond
  <2>. QED
    BY <2>1, <2>2
<1>14. h.brk + nb + 4 > End
  BY <1>2, <1>5, <1>13
<1>. QED
  BY <1>8, <1>9, <1>12, <1>14
\* What mALLOc serves from the lists is known; the rest is up to the top.
LEMMA ServedOrShort ==
  ASSUME NEW h, NEW U, Good(h, U), NEW nb, IsSize(nb), NEW F, NEW z,
         \/ \E B : Heap(h, B, z, F) /\ U = Used(h, B, F)
         \/ Blank(h) /\ U = {} /\ F = {} /\ Lists(h.bins, h.blocks, {}, z)
  PROVE  /\ mALLOc(h, nb)[2] \in F => Served(mALLOc(h, nb)[2], h, F, z, nb) \/ \A c \in F : ~(z[c] >= nb)
         /\ mALLOc(h, nb)[2] \notin F => \A c \in F : ~(z[c] >= nb)
         /\ mALLOc(h, nb)[2] = NULL => Short(mALLOc(h, nb)[1], U, nb)
<1>. DEFINE r == mALLOc(h, nb)
<1>1. Fields(h) /\ Lists(h.bins, h.blocks, F, z) /\ Sized(h, F, z) /\ NULL \notin F
  <2>1. ASSUME NEW B, Heap(h, B, z, F) PROVE Fields(h) /\ Lists(h.bins, h.blocks, F, z) /\ Sized(h, F, z) /\ NULL \notin F
    <3>1. Fields(h) /\ Lists(h.bins, h.blocks, F, z) /\ Sized(h, F, z) /\ Tiled(h.mem, h.top, h.brk, B, z, F)
      BY <2>1, HeapSized
    <3>2. F \subseteq B /\ \A q \in B : q \in Nat
      BY <3>1, TiledFacts
    <3>. QED
      BY <3>1, <3>2 DEF NULL
  <2>2. ASSUME Blank(h), F = {}, Lists(h.bins, h.blocks, {}, z)
        PROVE Fields(h) /\ Lists(h.bins, h.blocks, F, z) /\ Sized(h, F, z) /\ NULL \notin F
    BY <2>2 DEF Blank, Sized
  <2>. QED
    BY <2>1, <2>2
<1>2. PICK g, p : /\ Served(p, h, F, z, nb)
                  /\ p = NULL => r = FromTop(g, nb) /\ Ready(g, h, F, z)
                  /\ p # NULL => r = Fit(g, p, nb)
  BY <1>1, AllocServes
<1>. HIDE DEF r
<1>3. CASE p # NULL
  <2>1. r[2] = p
    BY <1>2, <1>3 DEF Fit
  <2>2. p \in F
    BY <1>2, <1>3 DEF Served
  <2>. QED
    BY <1>2, <1>3, <2>1, <2>2 DEF r
<1>4. CASE p = NULL
  <2>1. \A c \in F : ~(z[c] >= nb)
    BY <1>1, <1>2, <1>4 DEF Served
  <2>2. ASSUME r[2] = NULL PROVE Short(r[1], U, nb)
    <3>1. r = FromTop(g, nb) /\ Ready(g, h, F, z) /\ Fields(g)
      BY <1>2, <1>4 DEF Ready
    <3>2. Good(g, U) /\ \A c \in ChunksOf(g) \ U : c \in F /\ ChunkSize(g.mem, c) = z[c]
      <4>1. ASSUME NEW B, Heap(h, B, z, F), U = Used(h, B, F)
            PROVE  Good(g, U) /\ \A c \in ChunksOf(g) \ U : c \in F /\ ChunkSize(g.mem, c) = z[c]
        <5>1. Heap(g, B, z, F) /\ Used(g, B, F) = U
          BY <3>1, <4>1, ReadyHolds
        <5>2. Good(g, U)
          BY <5>1 DEF Good, Holds
        <5>3. ChunksOf(g) = B \ {g.top}
          BY <5>1, WalkedChunks
        <5>4. \A c \in ChunksOf(g) \ U : c \in F
          BY <5>1, <5>3 DEF Used
        <5>5. Sized(g, F, z)
          BY <5>1, HeapSized
        <5>. QED
          BY <5>2, <5>4, <5>5 DEF Sized
      <4>2. ASSUME Blank(h), U = {}, F = {}
            PROVE  Good(g, U) /\ \A c \in ChunksOf(g) \ U : c \in F /\ ChunkSize(g.mem, c) = z[c]
        <5>1. Blank(g)
          BY <3>1, <4>2 DEF Blank, Ready
        <5>2. ChunksOf(g) = {}
          BY <5>1 DEF Blank, ChunksOf
        <5>. QED
          BY <4>2, <5>1, <5>2 DEF Good
      <4>. QED
        BY <4>1, <4>2
    <3>3. FromTop(g, nb)[2] = NULL
      BY <2>2, <3>1
    <3>4. FromTop(g, nb)[1] = g /\ TopSize(g) < nb + 4 /\ g.brk + nb + 4 > End
      BY <3>1, <3>2, <3>3, FromTopRefused
    <3>5. \A c \in ChunksOf(g) \ U : ChunkSize(g.mem, c) < nb
      <4>. SUFFICES ASSUME NEW c \in ChunksOf(g) \ U PROVE ChunkSize(g.mem, c) < nb
        OBVIOUS
      <4>1. c \in F /\ ChunkSize(g.mem, c) = z[c]
        BY <3>2
      <4>2. IsSize(z[c])
        BY <1>1, <4>1 DEF Sized
      <4>. QED
        BY <2>1, <4>1, <4>2 DEF IsSize
    <3>. QED
      BY <3>1, <3>4, <3>5 DEF Short
  <2>. QED
    BY <2>1, <2>2 DEF r
<1>. QED
  BY <1>3, <1>4

LEMMA GoodIs ==
  ASSUME NEW h, NEW U, Good(h, U)
  PROVE  \E F, z : \/ \E B : Heap(h, B, z, F) /\ U = Used(h, B, F)
                   \/ Blank(h) /\ U = {} /\ F = {} /\ Lists(h.bins, h.blocks, {}, z)
BY DEF Good, Holds, Blank

LEMMA AllocRefused ==
  ASSUME NEW h, NEW U, Good(h, U), NEW nb, IsSize(nb), mALLOc(h, nb)[2] = NULL
  PROVE  Short(mALLOc(h, nb)[1], U, nb)
<1>1. PICK F, z : \/ \E B : Heap(h, B, z, F) /\ U = Used(h, B, F)
                  \/ Blank(h) /\ U = {} /\ F = {} /\ Lists(h.bins, h.blocks, {}, z)
  BY GoodIs
<1>. QED
  BY <1>1, ServedOrShort

LEMMA CallocRefused ==
  ASSUME NEW h, NEW U, Good(h, U), NEW nb, IsSize(nb), Refused(cALLOc(h, nb), h.mem, U)
  PROVE  Short(cALLOc(h, nb)[1], U, nb)
<1>. DEFINE r == mALLOc(h, nb)
<1>1. \E n : cALLOc(h, nb) = IF r[2] = NULL THEN r ELSE <<n, r[2]>>
  BY DEF cALLOc, Clear
<1>. HIDE DEF r
<1>2. r[2] = NULL /\ cALLOc(h, nb) = r
  <2>1. cALLOc(h, nb)[2] = NULL
    BY DEF Refused
  <2>. QED
    BY <1>1, <2>1
<1>. QED
  BY <1>2, AllocRefused DEF r

LEMMA MemalignRefused ==
  ASSUME NEW h, NEW U, Good(h, U), NEW nb, IsSize(nb), NEW align \in Nat, align > 4 => align % 2 = 0,
         Refused(mEMALIGn(h, align, nb), h.mem, U)
  PROVE  Short(mEMALIGn(h, align, nb)[1], U, Worst(align, nb))
<1>1. mEMALIGn(h, align, nb)[2] = NULL
  BY DEF Refused
<1>2. CASE align <= 2
  <2>1. mEMALIGn(h, align, nb) = mALLOc(h, nb) /\ Worst(align, nb) = nb
    BY <1>2 DEF mEMALIGn, Worst
  <2>. QED
    BY <1>1, <2>1, AllocRefused
<1>3. CASE ~(align <= 2)
  <2>. DEFINE worst == Worst(align, nb)  a == AtLeast(align)  r == mALLOc(h, worst)
  <2>1. mEMALIGn(h, align, nb) = AlignIn(r, a, nb)
    BY <1>3 DEF mEMALIGn
  <2>2. a \in Nat /\ a >= 4 /\ a % 2 = 0 /\ worst = (nb + a) + 6 /\ IsSize(worst)
    BY <1>3, WorstIs
  <2>. HIDE DEF worst, a
  <2>3. Got(r, h.mem, U, worst) \/ Refused(r, h.mem, U)
    BY <2>2, AllocHolds
  <2>. HIDE DEF r
  <2>4. r[2] = NULL
    <3>. SUFFICES ASSUME Got(r, h.mem, U, worst) PROVE FALSE
      BY <2>3 DEF Refused
    <3>1. Got(AlignIn(r, a, nb), h.mem, U, nb)
      BY <2>2, AlignedHolds
    <3>2. AlignIn(r, a, nb)[2] \in Nat
      BY <3>1 DEF Got
    <3>. QED
      BY <1>1, <2>1, <3>2 DEF NULL
  <2>5. AlignIn(r, a, nb) = r
    BY <2>4 DEF AlignIn
  <2>6. Short(r[1], U, worst)
    BY <2>2, <2>4, AllocRefused DEF r
  <2>. QED
    BY <2>1, <2>5, <2>6 DEF worst
<1>. QED
  BY <1>2, <1>3
\* If the last request was refused, the heap is still too short for it.
BestInv == HeapInv /\ (failed # 0 => Short(heap, DOMAIN live, failed))

LEMMA GivenShort ==
  ASSUME NEW g, NEW K, NEW f, NEW r, NEW nb, NEW L, NEW old, NEW bytes, NEW kept, NEW cleared,
         GivenBy(g, K, f, r, nb, L, old, bytes, kept, cleared),
         r[2] = NULL => Short(r[1], DOMAIN L, nb), f # 0
  PROVE  Short(g, DOMAIN K, f)
BY DEF GivenBy

LEMMA NotGot ==
  ASSUME NEW r, NEW m, NEW V, NEW U, NEW nb, Answered(r, m, V, U, nb), r[2] = NULL
  PROVE  Refused(r, m, U)
BY DEF Answered, Got, NULL

LEMMA BestNext == BestInv /\ [Next]_vars => BestInv'
<1>. SUFFICES ASSUME BestInv, [Next]_vars PROVE BestInv'
  OBVIOUS
<1>1. InOrder(heap, live) /\ failed \in Nat /\ Good(heap, DOMAIN live) /\ HeapInv
  BY DEF BestInv, HeapInv, InOrder
<1>. DEFINE Goal == failed' # 0 => Short(heap', DOMAIN live', failed')
<1>2. \A bytes \in Requests : bytes \in Nat /\ IsSize(Nb(bytes))
  BY Padded, HeapConstants DEF HeapConstants
<1>3. DOMAIN live \ {} = DOMAIN live
  OBVIOUS
<1>4. ASSUME NEW bytes \in Requests, Malloc(bytes) PROVE Goal
  <2>1. PICK r : r = mALLOc(heap, Nb(bytes))
    OBVIOUS
  <2>2. r[2] = NULL => Short(r[1], DOMAIN live, Nb(bytes))
    BY <1>1, <1>2, <2>1, AllocRefused
  <2>3. GivenBy(heap', live', failed', r, Nb(bytes), live, {}, bytes, 0, FALSE)
    BY <1>4, <2>1, GivenIs DEF Malloc
  <2>. QED
    BY <2>2, <2>3, GivenShort
<1>5. ASSUME NEW bytes \in Requests, Calloc(bytes) PROVE Goal
  <2>1. PICK r : r = cALLOc(heap, Nb(bytes))
    OBVIOUS
  <2>2. Answered(r, heap.mem, DOMAIN live \ {}, DOMAIN live, Nb(bytes))
    BY <1>1, <1>2, <1>3, <2>1, CallocHolds DEF Answered
  <2>3. r[2] = NULL => Short(r[1], DOMAIN live, Nb(bytes))
    BY <1>1, <1>2, <2>1, <2>2, NotGot, CallocRefused
  <2>4. GivenBy(heap', live', failed', r, Nb(bytes), live, {}, bytes, Words(bytes), TRUE)
    BY <1>5, <2>1, GivenIs DEF Calloc
  <2>. QED
    BY <2>3, <2>4, GivenShort
<1>6. ASSUME NEW bytes \in Requests, NEW align \in Alignments, Memalign(align, bytes) PROVE Goal
  <2>1. PICK r : r = mEMALIGn(heap, align, Nb(bytes))
    OBVIOUS
  <2>2. align \in Nat /\ (align > 4 => align % 2 = 0)
    BY HeapConstants DEF HeapConstants
  <2>3. Answered(r, heap.mem, DOMAIN live \ {}, DOMAIN live, Nb(bytes))
    BY <1>1, <1>2, <1>3, <2>1, <2>2, MemalignHolds DEF Answered
  <2>4. r[2] = NULL => Short(r[1], DOMAIN live, Worst(align, Nb(bytes)))
    <3>. SUFFICES ASSUME r[2] = NULL PROVE Short(r[1], DOMAIN live, Worst(align, Nb(bytes)))
      OBVIOUS
    <3>1. Refused(r, heap.mem, DOMAIN live)
      BY <2>3, NotGot
    <3>. QED
      BY <1>1, <1>2, <2>1, <2>2, <3>1, MemalignRefused
  <2>5. GivenBy(heap', live', failed', r, Worst(align, Nb(bytes)), live, {}, bytes, 0, FALSE)
    BY <1>6, <2>1, GivenIs DEF Memalign
  <2>. QED
    BY <2>4, <2>5, GivenShort
<1>7. ASSUME NEW p \in DOMAIN live, NEW bytes \in Requests, Realloc(p, bytes) PROVE Goal
  <2>. DEFINE both == IF live[p].bytes < bytes THEN live[p].bytes ELSE bytes
  <2>1. PICK r : r = rEALLOc(heap, p, Nb(bytes))
    OBVIOUS
  <2>2. Holds(heap, DOMAIN live)
    BY <1>1, GoodHolds
  <2>3. \/ Moves(r, heap.mem, DOMAIN live, Nb(bytes), p)
        \/ Refused(r, heap.mem, DOMAIN live) /\ r = mALLOc(heap, Nb(bytes))
    BY <1>2, <2>1, <2>2, ReallocHolds
  <2>4. r[2] = NULL => Short(r[1], DOMAIN live, Nb(bytes))
    <3>. SUFFICES ASSUME r[2] = NULL PROVE Short(r[1], DOMAIN live, Nb(bytes))
      OBVIOUS
    <3>1. r = mALLOc(heap, Nb(bytes))
      BY <2>3 DEF Moves, Got, NULL
    <3>. QED
      BY <1>1, <1>2, <3>1, AllocRefused
  <2>5. GivenBy(heap', live', failed', r, Nb(bytes), live, {p}, bytes, Words(both), live[p].cleared)
    BY <1>7, <2>1, GivenIs DEF Realloc
  <2>. HIDE DEF both
  <2>. QED
    BY <2>4, <2>5, GivenShort
<1>8. ASSUME NEW p \in DOMAIN live, Free(p) PROVE Goal
  BY <1>8 DEF Free
<1>9. CASE UNCHANGED vars
  BY <1>9 DEF vars, BestInv, HeapInv
<1>10. HeapInv'
  BY <1>1, HeapNext
<1>. QED
  BY <1>4, <1>5, <1>6, <1>7, <1>8, <1>9, <1>10 DEF Next, BestInv

LEMMA BestInvFits == BestInv => BestFit
<1>. SUFFICES ASSUME BestInv PROVE BestFit
  OBVIOUS
<1>1. HeapInv /\ Good(heap, DOMAIN live)
  BY DEF BestInv, HeapInv, InOrder
<1>2. PICK F, z : \/ \E B : Heap(heap, B, z, F) /\ DOMAIN live = Used(heap, B, F)
                  \/ Blank(heap) /\ DOMAIN live = {} /\ F = {} /\ Lists(heap.bins, heap.blocks, {}, z)
  BY <1>1, GoodIs
<1>3. FreeChunks = F /\ \A c \in F : Size(c) = z[c] /\ z[c] \in Nat
  <2>1. ASSUME NEW B, Heap(heap, B, z, F), DOMAIN live = Used(heap, B, F)
        PROVE  FreeChunks = F /\ \A c \in F : Size(c) = z[c] /\ z[c] \in Nat
    <3>1. Frees0(F, z)
      BY <2>1, HeapFrees
    <3>2. Sized(heap, F, z)
      BY <2>1, HeapSized
    <3>. QED
      BY <3>1, <3>2 DEF Frees0, Sized, IsSize
  <2>2. ASSUME Blank(heap), F = {} PROVE FreeChunks = F /\ \A c \in F : Size(c) = z[c] /\ z[c] \in Nat
    BY <2>2, ChunksAre DEF ChunksOf, Blank, FreeChunks
  <2>. QED
    BY <1>2, <2>1, <2>2
<1>4. ASSUME NEW bytes \in Requests
      PROVE  LET nb == Nb(bytes)
                 p == mALLOc(heap, nb)[2]
                 fitting == {q \in FreeChunks : Size(q) >= nb}
             IN  /\ p \in FreeChunks \ Binned(heap, LastRemainder) =>
                       \A q \in fitting \ Binned(heap, LastRemainder) : Size(p) <= Size(q)
                 /\ p \notin FreeChunks => fitting = {}
  <2>1. PICK nb : nb = Nb(bytes)
    OBVIOUS
  <2>2. PICK p : p = mALLOc(heap, nb)[2]
    OBVIOUS
  <2>3. IsSize(nb)
    BY <2>1, Padded, HeapConstants DEF HeapConstants
  <2>4. /\ p \in F => Served(p, heap, F, z, nb) \/ \A c \in F : ~(z[c] >= nb)
        /\ p \notin F => \A c \in F : ~(z[c] >= nb)
    BY <1>1, <1>2, <2>2, <2>3, ServedOrShort
  <2>5. p \in F /\ p \notin Binned(heap, 1) => \A q \in F : q \notin Binned(heap, 1) /\ z[q] >= nb => z[p] <= z[q]
    BY <2>4 DEF Served
  <2>. QED
    BY <1>3, <2>1, <2>2, <2>4, <2>5 DEF LastRemainder
<1>5. failed # 0 =>
        /\ \A p \in FreeChunks : Size(p) < failed
        /\ TopSize(heap) < failed + MinSize
        /\ heap.brk + failed + MinSize > End
  BY ChunksAre DEF BestInv, Short, FreeChunks, Size, MinSize
<1>. QED
  BY <1>4, <1>5 DEF BestFit

\* Of the free chunks in the bins a request gets the smallest that will do, the
\* top only if there is none, and is refused only if the rest of the heap, to
\* its end, would not do either.
THEOREM SearchIsBestFit == Spec => []BestFit
<1>1. Init => BestInv
  BY HeapInit DEF Init, BestInv
<1>2. BestInv /\ [Next]_vars => BestInv'
  BY BestNext
<1>3. BestInv => BestFit
  BY BestInvFits
<1>. QED
  BY <1>1, <1>2, <1>3, PTL DEF Spec

(***************************************************************************)
(* The contents of the blocks.                                             *)
(***************************************************************************)
Entry(m, L, p) ==
  [words |-> [i \in 1 .. Words(L[p].bytes) |-> m[p + 1 + i]], cleared |-> L[p].cleared]

StoreOf(m, L) ==
  [a \in {p + 2 : p \in DOMAIN L} |->
     [words |-> [i \in 1 .. Words(L[a - 2].bytes) |-> m[a - 1 + i]], cleared |-> L[a - 2].cleared]]

IsStore(s, m, L) ==
  DOMAIN s = {p + 2 : p \in DOMAIN L} /\ \A p \in DOMAIN L : s[p + 2] = Entry(m, L, p)

LEMMA StoreIs ==
  ASSUME NEW m, NEW L, DOMAIN L \subseteq Nat, NEW s, s = StoreOf(m, L)
  PROVE  IsStore(s, m, L)
<1>1. DOMAIN s = {p + 2 : p \in DOMAIN L}
  BY DEF StoreOf
<1>2. ASSUME NEW p \in DOMAIN L PROVE s[p + 2] = Entry(m, L, p)
  <2>1. p \in Nat /\ (p + 2) - 2 = p /\ (p + 2) - 1 = p + 1
    OBVIOUS
  <2>2. PICK a : a = p + 2
    OBVIOUS
  <2>3. s[a] = [words |-> [i \in 1 .. Words(L[a - 2].bytes) |-> m[a - 1 + i]], cleared |-> L[a - 2].cleared]
    BY <2>2 DEF StoreOf
  <2>4. a - 2 = p /\ a - 1 = p + 1
    BY <2>1, <2>2
  <2>. QED
    BY <2>2, <2>3, <2>4 DEF Entry
<1>. QED
  BY <1>1, <1>2 DEF IsStore

\* A block and the chunk it is in
LEMMA BlockInChunk ==
  ASSUME NEW h, NEW L, InOrder(h, L), NEW p \in DOMAIN L, NEW W, W = Words(L[p].bytes)
  PROVE  /\ p \in Nat /\ p % 2 = 0 /\ W \in Nat /\ ChunkSize(h.mem, p) \in Nat /\ W < ChunkSize(h.mem, p)
         /\ End \in Nat /\ p + ChunkSize(h.mem, p) + 3 < End
         /\ \A q \in DOMAIN L : p < q => p + ChunkSize(h.mem, p) <= q
         /\ L[p].bytes \in Nat /\ W < Nb(L[p].bytes) /\ Nb(L[p].bytes) <= ChunkSize(h.mem, p)
         /\ L[p].bytes \in Requests /\ L[p].cleared \in BOOLEAN
<1>1. PICK U : U = DOMAIN L
  OBVIOUS
<1>2. Holds(h, U) /\ p \in U
  BY <1>1, GoodHolds DEF InOrder
<1>3. /\ IsPlace(p) /\ p \in Nat /\ ChunkSize(h.mem, p) \in Nat
      /\ End \in Nat /\ p + ChunkSize(h.mem, p) + 3 < End
  BY <1>2, UsedChunk
<1>4. /\ L[p] \in [bytes : Requests, cleared : BOOLEAN]
      /\ ChunkSize(h.mem, p) \in Nb(L[p].bytes) .. Nb(L[p].bytes) + 3
  BY DEF InOrder, Fitted
<1>5. L[p].bytes \in Nat /\ L[p].bytes \in Requests /\ L[p].cleared \in BOOLEAN
  BY <1>4, HeapConstants DEF HeapConstants
<1>6. Nb(L[p].bytes) \in Nat /\ W \in Nat /\ W < Nb(L[p].bytes)
  BY <1>5, Padded DEF IsSize
<1>7. \A q \in DOMAIN L : p < q => p + ChunkSize(h.mem, p) <= q
  <2>1. PICK B, z, F : Heap(h, B, z, F) /\ U = Used(h, B, F)
    BY <1>2 DEF Holds
  <2>2. Tiled(h.mem, h.top, h.brk, B, z, F) /\ U \subseteq B
    BY <2>1 DEF Heap, Used
  <2>3. ChunkSize(h.mem, p) = z[p]
    BY <1>2, <2>2, TagsOfTiled
  <2>4. \A q, r \in B : q < r => q + z[q] <= r
    BY <2>2, TiledFacts
  <2>. QED
    BY <1>1, <2>2, <2>3, <2>4
<1>8. W < ChunkSize(h.mem, p) /\ Nb(L[p].bytes) <= ChunkSize(h.mem, p)
  <2>1. PICK s \in Nat, n \in Nat : s = ChunkSize(h.mem, p) /\ n = Nb(L[p].bytes)
    BY <1>3, <1>6
  <2>. QED
    BY <1>4, <1>6, <2>1
<1>. QED
  BY <1>3, <1>5, <1>6, <1>7, <1>8 DEF IsPlace

\* The blocks are within the heap, aligned, and apart.
Separate(s) ==
  \A a \in DOMAIN s :
    /\ a % 2 = 0 /\ (a .. a + Len(s[a].words) - 1) \subseteq 0 .. End - 1
    /\ \A b \in DOMAIN s \ {a} :
         (a .. a + Len(s[a].words) - 1) \cap (b .. b + Len(s[b].words) - 1) = {} /\ a # b

LEMMA BlocksApart ==
  ASSUME NEW h, NEW L, InOrder(h, L), NEW s, IsStore(s, h.mem, L)
  PROVE  Separate(s)
<1>. DEFINE W(p) == Words(L[p].bytes)
<1>1. \A p \in DOMAIN L : /\ p \in Nat /\ p % 2 = 0 /\ W(p) \in Nat
                          /\ End \in Nat /\ p + 1 + W(p) < End
                          /\ \A q \in DOMAIN L : p < q => p + 1 + W(p) <= q
  <2>. SUFFICES ASSUME NEW p \in DOMAIN L
       PROVE  /\ p \in Nat /\ p % 2 = 0 /\ W(p) \in Nat
              /\ End \in Nat /\ p + 1 + W(p) < End
              /\ \A q \in DOMAIN L : p < q => p + 1 + W(p) <= q
    OBVIOUS
  <2>1. PICK w : w = W(p)
    OBVIOUS
  <2>2. /\ p \in Nat /\ p % 2 = 0 /\ w \in Nat /\ ChunkSize(h.mem, p) \in Nat /\ w < ChunkSize(h.mem, p)
        /\ End \in Nat /\ p + ChunkSize(h.mem, p) + 3 < End
        /\ \A q \in DOMAIN L : p < q => p + ChunkSize(h.mem, p) <= q
    BY <2>1, BlockInChunk
  <2>3. \A q \in DOMAIN L : q \in Nat
    BY BlockInChunk
  <2>. QED
    BY <2>1, <2>2, <2>3
<1>2. \A p \in DOMAIN L : Len(s[p + 2].words) = W(p)
  <2>. SUFFICES ASSUME NEW p \in DOMAIN L PROVE Len(s[p + 2].words) = W(p)
    OBVIOUS
  <2>0. s[p + 2] = Entry(h.mem, L, p)
    BY DEF IsStore
  <2>1. s[p + 2].words = [i \in 1 .. W(p) |-> h.mem[p + 1 + i]]
    BY <2>0 DEF Entry
  <2>2. W(p) \in Nat
    BY <1>1
  <2>. HIDE DEF W
  <2>. QED
    BY <2>1, <2>2
<1>. HIDE DEF W
<1>3. ASSUME NEW p \in DOMAIN L
      PROVE  (p + 2) % 2 = 0 /\ (p + 2 .. p + 2 + W(p) - 1) \subseteq 0 .. End - 1
  BY <1>1
<1>4. ASSUME NEW p \in DOMAIN L, NEW q \in DOMAIN L, p # q
      PROVE  (p + 2 .. p + 2 + W(p) - 1) \cap (q + 2 .. q + 2 + W(q) - 1) = {}
  <2>1. CASE p < q
    BY <1>1, <2>1
  <2>2. CASE q < p
    BY <1>1, <2>2
  <2>. QED
    BY <1>1, <1>4, <2>1, <2>2
<1>5. \A a \in DOMAIN s : \E p \in DOMAIN L : a = p + 2
  BY DEF IsStore
<1>. QED
  <2>. SUFFICES ASSUME NEW a \in DOMAIN s
       PROVE  /\ a % 2 = 0 /\ (a .. a + Len(s[a].words) - 1) \subseteq 0 .. End - 1
              /\ \A b \in DOMAIN s \ {a} :
                   (a .. a + Len(s[a].words) - 1) \cap (b .. b + Len(s[b].words) - 1) = {} /\ a # b
    BY DEF Separate
  <2>1. PICK p \in DOMAIN L : a = p + 2
    BY <1>5
  <2>2. a % 2 = 0 /\ (a .. a + Len(s[a].words) - 1) \subseteq 0 .. End - 1
    BY <1>2, <1>3, <2>1
  <2>3. ASSUME NEW b \in DOMAIN s, b # a
        PROVE (a .. a + Len(s[a].words) - 1) \cap (b .. b + Len(s[b].words) - 1) = {}
    <3>1. PICK q \in DOMAIN L : b = q + 2
      BY <1>5
    <3>2. p # q
      BY <2>1, <2>3, <3>1
    <3>. QED
      BY <1>2, <1>4, <2>1, <3>1, <3>2
  <2>. QED
    BY <2>2, <2>3
\* A block whose chunk is kept is kept.
LEMMA EntryKept ==
  ASSUME NEW h, NEW L, InOrder(h, L), NEW p \in DOMAIN L, NEW n, KeptChunk(h.mem, n, p),
         NEW K, K[p] = L[p]
  PROVE  Entry(n, K, p) = Entry(h.mem, L, p)
<1>1. PICK W : W = Words(L[p].bytes)
  OBVIOUS
<1>2. p \in Nat /\ W \in Nat /\ ChunkSize(h.mem, p) \in Nat /\ W < ChunkSize(h.mem, p)
  BY <1>1, BlockInChunk
<1>3. \A i \in 1 .. W : n[p + 1 + i] = h.mem[p + 1 + i]
  <2>1. \A i \in 1 .. W : p + 1 + i \in p + 2 .. p + ChunkSize(h.mem, p)
    BY <1>2
  <2>. QED
    BY <2>1 DEF KeptChunk
<1>4. [i \in 1 .. W |-> n[p + 1 + i]] = [i \in 1 .. W |-> h.mem[p + 1 + i]]
  BY <1>3
<1>. QED
  BY <1>1, <1>4 DEF Entry

\* The words of an entry
LEMMA EntryIs ==
  ASSUME NEW m, NEW L, NEW p, NEW W \in Nat, W = Words(L[p].bytes), NEW e, e = Entry(m, L, p)
  PROVE  /\ Len(e.words) = W /\ DOMAIN e.words = 1 .. W /\ e.cleared = L[p].cleared
         /\ \A i \in 1 .. W : e.words[i] = m[p + 1 + i]
<1>1. e.words = [i \in 1 .. W |-> m[p + 1 + i]] /\ e.cleared = L[p].cleared
  BY DEF Entry
<1>. QED
  BY <1>1

\* The words of a block that are to be kept are what the allocator gave.
LEMMA KeptAsGiven ==
  ASSUME NEW m \in Memory, NEW q \in Nat, NEW bytes \in Nat, NEW kept \in Int, NEW cleared \in BOOLEAN,
         NEW i \in 1 .. Words(bytes), i <= kept, q + 1 + i < End
  PROVE  Written(m, q, bytes, kept, cleared)[q + 1 + i] = m[q + 1 + i]
<1>1. PICK W \in Nat : W = Words(bytes)
  BY Padded
<1>2. PICK w : w = q + 1 + i
  OBVIOUS
<1>3. i \in Int /\ 1 <= i /\ i <= W /\ w - q - 1 = i
  BY <1>1, <1>2
<1>4. End \in Int
  BY HeapConstants DEF HeapConstants, End
<1>5. w \in DOMAIN m
  BY <1>2, <1>3, <1>4 DEF Memory, Words0
<1>6. Written(m, q, bytes, kept, cleared)[w] =
        IF i < 1 \/ (i > W /\ i >= ChunkSize(m, q)) THEN m[w]
        ELSE IF i > W THEN Junk
        ELSE IF i <= kept THEN m[w] ELSE IF cleared THEN 0 ELSE Data(i)
  BY <1>1, <1>3, <1>5 DEF Written
<1>. QED
  BY <1>2, <1>3, <1>6

\* The store after a block was given in place of those in old
Granted(s, t, L, old, q, r, bytes, kept, cleared) ==
  /\ q \in Nat /\ q + 2 \in 0 .. End - 1 /\ q \notin DOMAIN L \ old
  /\ DOMAIN t = {p + 2 : p \in (DOMAIN L \ old) \cup {q}}
  /\ \A p \in DOMAIN L \ old : t[p + 2] = s[p + 2]
  /\ Len(t[q + 2].words) = Words(bytes) /\ DOMAIN t[q + 2].words = 1 .. Words(bytes)
  /\ t[q + 2].cleared = cleared
  /\ \A i \in 1 .. Words(bytes) : i <= kept => t[q + 2].words[i] = r[1].mem[q + 1 + i]
  /\ Separate(t)

LEMMA BlockGranted ==
  ASSUME NEW h, NEW L, InOrder(h, L), NEW old, NEW bytes \in Requests,
         NEW kept \in Int, NEW cleared \in BOOLEAN,
         NEW r, Got(r, h.mem, DOMAIN L \ old, Nb(bytes)), NEW q, q = r[2],
         NEW g, Fills(g, r, bytes, kept, cleared),
         NEW K, Owns(K, L, old, q, bytes, cleared),
         NEW s, IsStore(s, h.mem, L), NEW t, IsStore(t, g.mem, K)
  PROVE  Granted(s, t, L, old, q, r, bytes, kept, cleared)
<1>1. bytes \in Nat
  BY HeapConstants DEF HeapConstants
<1>2. InOrder(g, K)
  BY BlockGiven
<1>3. PICK U : U = DOMAIN L \ old
  OBVIOUS
<1>4. GotWritten(g, r, h.mem, U, bytes, kept, cleared)
  BY <1>1, <1>3, WrittenHolds DEF Fills
<1>5. q \in Nat /\ q \notin U
  BY <1>3 DEF Got
<1>6. /\ DOMAIN K = U \cup {q} /\ K[q] = Owned(bytes, cleared)
      /\ \A p \in U : K[p] = L[p]
  BY <1>3, <1>5 DEF Owns
<1>7. PICK W \in Nat : W = Words(bytes)
  BY <1>1, Padded
<1>8. K[q].bytes = bytes /\ K[q].cleared = cleared /\ q \in DOMAIN K
  BY <1>6 DEF Owned
<1>9. /\ ChunkSize(g.mem, q) \in Nat /\ W < ChunkSize(g.mem, q) /\ End \in Nat
      /\ q + ChunkSize(g.mem, q) + 3 < End
  BY <1>2, <1>7, <1>8, BlockInChunk
<1>10. Separate(t)
  BY <1>2, BlocksApart
<1>11. ASSUME NEW p \in U PROVE t[p + 2] = s[p + 2]
  <2>1. p \in DOMAIN L /\ p \in DOMAIN K /\ K[p] = L[p]
    BY <1>3, <1>6
  <2>2. KeptChunk(h.mem, g.mem, p)
    BY <1>4 DEF GotWritten, Keeps
  <2>3. Entry(g.mem, K, p) = Entry(h.mem, L, p)
    BY <2>1, <2>2, EntryKept
  <2>. QED
    BY <2>1, <2>3 DEF IsStore
<1>12. PICK e : e = Entry(g.mem, K, q)
  OBVIOUS
<1>13. t[q + 2] = e /\ DOMAIN t = {p + 2 : p \in U \cup {q}}
  BY <1>6, <1>8, <1>12 DEF IsStore
<1>14. /\ Len(e.words) = W /\ DOMAIN e.words = 1 .. W /\ e.cleared = cleared
       /\ \A i \in 1 .. W : e.words[i] = g.mem[q + 1 + i]
  BY <1>7, <1>8, <1>12, EntryIs
<1>15. ASSUME NEW i \in 1 .. W, i <= kept PROVE e.words[i] = r[1].mem[q + 1 + i]
  <2>1. r[1].mem \in Memory /\ g.mem = Written(r[1].mem, q, bytes, kept, cleared)
    BY <1>4 DEF GotWritten
  <2>2. q + 1 + i < End
    BY <1>5, <1>9
  <2>3. g.mem[q + 1 + i] = r[1].mem[q + 1 + i]
    BY <1>1, <1>5, <1>7, <1>15, <2>1, <2>2, KeptAsGiven
  <2>. QED
    BY <1>14, <2>3
<1>16. q + 2 \in 0 .. End - 1
  BY <1>5, <1>9
<1>. QED
  BY <1>3, <1>5, <1>7, <1>10, <1>11, <1>13, <1>14, <1>15, <1>16 DEF Granted

\* The store after a request was refused
LEMMA StoreRefused ==
  ASSUME NEW h, NEW L, InOrder(h, L), NEW g, Keeps(h.mem, g.mem, DOMAIN L),
         NEW s, IsStore(s, h.mem, L), NEW t, IsStore(t, g.mem, L),
         s = [a \in DOMAIN s |-> s[a]], t = [a \in DOMAIN t |-> t[a]]
  PROVE  t = s
<1>1. DOMAIN s = {p + 2 : p \in DOMAIN L} /\ DOMAIN t = DOMAIN s
  BY DEF IsStore
<1>2. ASSUME NEW a \in DOMAIN s PROVE t[a] = s[a]
  <2>1. PICK p \in DOMAIN L : a = p + 2
    BY <1>1
  <2>2. KeptChunk(h.mem, g.mem, p)
    BY DEF Keeps
  <2>3. Entry(g.mem, L, p) = Entry(h.mem, L, p)
    BY <2>2, EntryKept
  <2>. QED
    BY <2>1, <2>3 DEF IsStore
<1>. QED
  BY <1>1, <1>2
\* Fresh memory is zero: of what is cut from the top, what was beyond the break.
LEMMA TopIsFresh ==
  ASSUME NEW h, NEW B, NEW z, NEW F, Heap(h, B, z, F), NEW nb, IsSize(nb),
         NEW r, r = FromTop(h, nb), r[2] # NULL
  PROVE  /\ r[2] = h.top
         /\ \A w \in Words0 : h.brk <= w /\ w <= h.top + nb => r[1].mem[w] = 0
<1>. DEFINE e == IF TopSize(h) < nb + 4 THEN ExtendTop(h, nb) ELSE h
            s == TopSize(e)
            m1 == SetHead(e.mem, e.top, nb)
            m2 == Set(m1, e.top + nb + 2, e.brk - 1, Junk)
            n == SetHead(m2, e.top + nb, s - nb)
<1>1. FromTop(h, nb) = IF s < nb + 4 THEN <<e, NULL>> ELSE <<[e EXCEPT !.mem = n, !.top = @ + nb], e.top>>
  BY DEF FromTop, MinSize
<1>2. Fields(h) /\ Tiled(h.mem, h.top, h.brk, B, z, F)
  BY DEF Heap
<1>3. /\ h.top \in Nat /\ h.brk \in Nat /\ h.brk <= End /\ End \in Nat /\ h.mem \in Memory
      /\ h.top + 4 <= h.brk /\ h.top # NULL
      /\ \A w \in Words0 : h.brk <= w => h.mem[w] = 0
  <2>1. /\ h.top \in Nat /\ h.brk \in Nat /\ h.brk <= End /\ End \in Nat
        /\ h.top + z[h.top] = h.brk /\ z[h.top] \in Nat /\ z[h.top] >= 4
    BY <1>2, TiledFacts DEF Tiled
  <2>2. h.mem \in Memory /\ \A w \in Words0 : h.brk <= w => h.mem[w] = 0
    BY <1>2 DEF Tiled, Memory
  <2>. QED
    BY <2>1, <2>2 DEF NULL
<1>4. nb \in Nat /\ nb >= 4
  BY DEF IsSize
<1>5. /\ Fields(e) /\ e.top = h.top /\ e.mem \in Memory
      /\ \A w \in Words0 : w # h.top + 1 => e.mem[w] = h.mem[w]
  <2>. DEFINE brk == h.brk + Up(nb + 4)
  <2>1. ExtendTop(h, nb) = IF brk > End THEN h
                           ELSE [h EXCEPT !.mem = SetHead(@, h.top, brk - h.top), !.top = h.top, !.brk = brk]
    BY <1>3 DEF ExtendTop, MinSize
  <2>2. CASE e = h
    BY <1>2, <1>3, <2>2
  <2>3. CASE e = [h EXCEPT !.mem = SetHead(@, h.top, brk - h.top), !.top = h.top, !.brk = brk]
    <3>1. Up(nb + 4) \in Nat
      BY <1>4, Pages
    <3>2. PICK d \in Int : d = brk - h.top
      BY <1>3, <3>1
    <3>3. h.top + 1 \in Words0 /\ h.top \in Int
      BY <1>3 DEF Words0
    <3>4. PICK k : k = SetHead(h.mem, h.top, d)
      OBVIOUS
    <3>5. But(h.mem, k, {h.top + 1}) /\ k \in Memory
      BY <1>3, <3>3, <3>4, HeadIsSet, ButIsMemory
    <3>6. Fields(e) /\ e.mem = k /\ e.top = h.top
      BY <1>2, <2>3, <3>2, <3>4 DEF Fields
    <3>. QED
      BY <3>5, <3>6 DEF But
  <2>. QED
    BY <2>1, <2>2, <2>3
<1>. HIDE DEF e
<1>6. ~(s < nb + 4)
  BY <1>1
<1>7. r[2] = h.top /\ r[1].mem = n
  <2>1. r = <<[e EXCEPT !.mem = n, !.top = @ + nb], e.top>>
    BY <1>1, <1>6
  <2>2. PICK k, t : k = n /\ t = e.top + nb
    OBVIOUS
  <2>3. r[2] = e.top /\ r[1] = [e EXCEPT !.mem = k, !.top = t]
    BY <2>1, <2>2
  <2>4. r[1].mem = k
    BY <1>5, <2>3 DEF Fields
  <2>. QED
    BY <1>5, <2>2, <2>3, <2>4
<1>8. ASSUME NEW w \in Words0, h.brk <= w, w <= h.top + nb PROVE n[w] = 0
  <2>1. w \in DOMAIN e.mem /\ w \in Int
    BY <1>3, <1>5 DEF Memory, Words0
  <2>2. w # h.top + 1 /\ w # (h.top + nb) + 1 /\ ~(h.top + nb + 2 <= w)
    BY <1>3, <1>4, <1>8, <2>1
  <2>3. m1[w] = e.mem[w] /\ DOMAIN m1 = DOMAIN e.mem
    BY <1>5, <2>1, <2>2 DEF SetHead
  <2>4. m2[w] = m1[w] /\ DOMAIN m2 = DOMAIN m1
    <3>1. w \notin h.top + nb + 2 .. e.brk - 1
      BY <2>2
    <3>. HIDE DEF m1
    <3>. QED
      BY <1>5, <2>1, <2>3, <3>1 DEF Set
  <2>5. n[w] = m2[w]
    <3>. HIDE DEF m2, s
    <3>. QED
      BY <1>5, <2>1, <2>2, <2>3, <2>4 DEF SetHead
  <2>6. e.mem[w] = 0
    BY <1>3, <1>5, <1>8, <2>2
  <2>. QED
    BY <2>3, <2>4, <2>5, <2>6
<1>. QED
  BY <1>7, <1>8

LEMMA AllocIsFresh ==
  ASSUME NEW h, NEW U, Good(h, U), NEW nb, IsSize(nb),
         NEW r, r = mALLOc(h, nb), r[2] = h.top, r[2] # NULL
  PROVE  \A w \in Words0 : h.brk <= w /\ w <= h.top + nb => r[1].mem[w] = 0
<1>1. ~Blank(h)
  BY DEF Blank
<1>2. PICK B, z, F : Heap(h, B, z, F)
  BY <1>1 DEF Good, Holds
<1>3. Fields(h) /\ Lists(h.bins, h.blocks, F, z) /\ Sized(h, F, z) /\ Tiled(h.mem, h.top, h.brk, B, z, F)
  BY <1>2, HeapSized
<1>4. PICK g, p : /\ Served(p, h, F, z, nb)
                  /\ p = NULL => r = FromTop(g, nb) /\ Ready(g, h, F, z)
                  /\ p # NULL => r = Fit(g, p, nb)
  BY <1>3, AllocServes
<1>5. p = NULL
  <2>1. SUFFICES ASSUME p # NULL PROVE FALSE
    OBVIOUS
  <2>2. r[2] = p
    BY <1>4, <2>1 DEF Fit
  <2>3. p \in F
    BY <1>4, <2>1 DEF Served
  <2>4. h.top \notin F
    BY <1>3, TiledFacts
  <2>. QED
    BY <2>2, <2>3, <2>4
<1>6. r = FromTop(g, nb) /\ Heap(g, B, z, F) /\ g.top = h.top /\ g.brk = h.brk
  BY <1>2, <1>4, <1>5, ReadyHolds DEF Ready
<1>7. \A w \in Words0 : g.brk <= w /\ w <= g.top + nb => r[1].mem[w] = 0
  BY <1>6, TopIsFresh
<1>. QED
  BY <1>6, <1>7

\* The words of a chunk that cALLOc returns are zero, as far as they were asked for.
LEMMA CallocClears ==
  ASSUME NEW h, NEW U, Good(h, U), NEW nb, IsSize(nb), NEW c, c = cALLOc(h, nb),
         Got(c, h.mem, U, nb)
  PROVE  \A w \in c[2] + 2 .. c[2] + nb : c[1].mem[w] = 0
<1>. DEFINE r == mALLOc(h, nb)  g == r[1]  p == r[2]  had == TopSize(h)
            size == ChunkSize(g.mem, p)
            k == IF p = h.top /\ size > had THEN had ELSE size
            n == Set(g.mem, p + 2, p + k, 0)
<1>1. c = IF p = NULL THEN r ELSE <<[g EXCEPT !.mem = n], p>>
  BY DEF cALLOc, Clear
<1>2. c[2] = p /\ p \in Nat /\ p # NULL
  <2>1. c[2] = p
    BY <1>1
  <2>. HIDE DEF p
  <2>. QED
    BY <2>1 DEF Got, NULL
<1>3. Got(r, h.mem, U, nb)
  <2>1. ~Refused(r, h.mem, U)
    BY <1>2 DEF Refused
  <2>. QED
    BY <2>1, AllocHolds
<1>4. /\ had \in Nat
      /\ h.top # NULL => h.top \in Nat /\ had = h.brk - h.top /\ h.brk \in Nat
  BY TopReaches
<1>5. \A w \in Words0 : p = h.top /\ h.brk <= w /\ w <= h.top + nb => g.mem[w] = 0
  BY <1>2, AllocIsFresh
<1>. HIDE DEF r, had
<1>6. PICK W : W = U \cup {p} /\ p \in W /\ Holds(g, W)
  BY <1>3 DEF Got
<1>7. /\ size \in Nat /\ g.mem \in Memory /\ End \in Nat /\ p + size + 3 < End /\ Fields(g)
      /\ size \in nb .. nb + 3
  <2>1. Fields(g)
    BY <1>6 DEF Holds, Heap
  <2>. QED
    BY <1>3, <1>6, <2>1, UsedChunk DEF Got
<1>8. nb \in Nat
  BY DEF IsSize
<1>9. c[1].mem = n
  <2>1. c[1] = [g EXCEPT !.mem = n]
    BY <1>1, <1>2
  <2>. HIDE DEF n, g
  <2>. QED
    BY <1>7, <2>1 DEF Fields
<1>. HIDE DEF g, p, size
<1>10. ASSUME NEW w \in p + 2 .. p + nb PROVE n[w] = 0
  <2>1. w \in Words0 /\ w \in Int /\ w <= p + size /\ p + 2 <= w /\ w <= p + nb /\ w \in DOMAIN g.mem
    BY <1>2, <1>7, <1>8, <1>10 DEF Words0, Memory
  <2>2. n[w] = IF w \in p + 2 .. p + k THEN 0 ELSE g.mem[w]
    BY <2>1 DEF Set
  <2>3. CASE p = h.top /\ size > had
    <3>1. k = had /\ h.brk = p + had /\ had \in Nat
      BY <1>2, <1>4, <2>3
    <3>2. CASE w <= p + had
      <4>1. w \in p + 2 .. p + k
        BY <1>2, <2>1, <3>1, <3>2
      <4>. QED
        BY <2>2, <4>1
    <3>3. CASE ~(w <= p + had)
      <4>1. h.brk <= w /\ w <= h.top + nb
        BY <1>2, <2>1, <2>3, <3>1, <3>3
      <4>2. g.mem[w] = 0
        BY <1>5, <2>1, <2>3, <4>1
      <4>. QED
        BY <2>2, <4>2
    <3>. QED
      BY <3>2, <3>3
  <2>4. CASE ~(p = h.top /\ size > had)
    <3>1. k = size
      BY <2>4
    <3>2. w \in p + 2 .. p + k
      BY <1>2, <1>7, <2>1, <3>1
    <3>. QED
      BY <2>2, <3>2
  <2>. QED
    BY <2>3, <2>4
<1>. QED
  BY <1>2, <1>9, <1>10

(***************************************************************************)
(* The steps of Allocator, of a store s and the one after it, t.           *)
(***************************************************************************)
OthersOf(s, t, a) == \A b \in DOMAIN s \ {a} : b \in DOMAIN t /\ t[b] = s[b]

GrantOf(s, t, a) ==
  /\ a \in 0 .. End - 1 /\ a \notin DOMAIN s /\ DOMAIN t = DOMAIN s \cup {a}
  /\ Len(t[a].words) \in {Words(b) : b \in Requests}
  /\ t[a].cleared => \A i \in DOMAIN t[a].words : t[a].words[i] = 0
  /\ OthersOf(s, t, a) /\ Separate(t)

ResizeOf(s, t, a, b) ==
  /\ a \in DOMAIN s /\ DOMAIN t = (DOMAIN s \ {a}) \cup {b}
  /\ Len(t[b].words) \in {Words(c) : c \in Requests}
  /\ t[b].cleared = s[a].cleared
  /\ \A i \in DOMAIN s[a].words \cap DOMAIN t[b].words : t[b].words[i] = s[a].words[i]
  /\ OthersOf(s, t, a) /\ Separate(t)

ReleaseOf(s, t, a) ==
  /\ a \in 0 .. End - 1 /\ a \in DOMAIN s /\ DOMAIN t = DOMAIN s \ {a} /\ OthersOf(s, t, a)

LEMMA StepsOfAllocator ==
  /\ \A a : GrantOf(Store, Store', a) => Abstract!Next
  /\ \A a, b : ResizeOf(Store, Store', a, b) => Abstract!Next
  /\ \A a : ReleaseOf(Store, Store', a) => Abstract!Next
<1>1. \A a : Abstract!Others(a) <=> OthersOf(Store, Store', a)
  BY DEF Abstract!Others, OthersOf
<1>2. Abstract!Apart' <=> Separate(Store')
  BY DEF Abstract!Apart, Abstract!Place, Separate
<1>3. ASSUME NEW a, GrantOf(Store, Store', a) PROVE Abstract!Next
  BY <1>1, <1>2, <1>3 DEF Abstract!Next, Abstract!Grant, GrantOf
<1>4. ASSUME NEW a, NEW b, ResizeOf(Store, Store', a, b) PROVE Abstract!Next
  <2>1. a \in DOMAIN Store /\ b \in DOMAIN Store'
    BY <1>4 DEF ResizeOf
  <2>2. Abstract!Resize(a, b)
    BY <1>1, <1>2, <1>4 DEF Abstract!Resize, ResizeOf
  <2>. QED
    BY <2>1, <2>2 DEF Abstract!Next
<1>5. ASSUME NEW a, ReleaseOf(Store, Store', a) PROVE Abstract!Next
  BY <1>1, <1>5 DEF Abstract!Next, Abstract!Release, ReleaseOf
<1>. QED
  BY <1>3, <1>4, <1>5
\* A block more: of zeros, if the allocator was to give zeros.
LEMMA GrantStep ==
  ASSUME NEW h, NEW L, InOrder(h, L), NEW bytes \in Requests, NEW kept \in Int, NEW cleared \in BOOLEAN,
         NEW s, IsStore(s, h.mem, L), NEW t, NEW q, NEW r, Granted(s, t, L, {}, q, r, bytes, kept, cleared),
         cleared => kept = Words(bytes) /\ \A w \in q + 2 .. q + Nb(bytes) : r[1].mem[w] = 0
  PROVE  GrantOf(s, t, q + 2)
<1>1. bytes \in Nat
  BY HeapConstants DEF HeapConstants
<1>2. PICK W \in Nat : W = Words(bytes) /\ W < Nb(bytes)
  BY <1>1, Padded
<1>3. PICK nb \in Nat : nb = Nb(bytes)
  BY <1>1, Padded DEF IsSize
<1>4. DOMAIN s = {p + 2 : p \in DOMAIN L} /\ \A p \in DOMAIN L : p \in Nat
  BY BlockInChunk DEF IsStore
<1>5. /\ q \in Nat /\ q + 2 \in 0 .. End - 1 /\ q \notin DOMAIN L
      /\ DOMAIN t = {p + 2 : p \in DOMAIN L \cup {q}}
      /\ \A p \in DOMAIN L : t[p + 2] = s[p + 2]
      /\ Len(t[q + 2].words) = W /\ DOMAIN t[q + 2].words = 1 .. W
      /\ t[q + 2].cleared = cleared
      /\ \A i \in 1 .. W : i <= kept => t[q + 2].words[i] = r[1].mem[q + 1 + i]
      /\ Separate(t)
  BY <1>2 DEF Granted
<1>6. q + 2 \notin DOMAIN s /\ DOMAIN t = DOMAIN s \cup {q + 2}
  BY <1>4, <1>5
<1>7. t[q + 2].cleared => \A i \in DOMAIN t[q + 2].words : t[q + 2].words[i] = 0
  <2>1. SUFFICES ASSUME cleared = TRUE, NEW i \in 1 .. W PROVE t[q + 2].words[i] = 0
    BY <1>5
  <2>2. kept = W /\ \A w \in q + 2 .. q + nb : r[1].mem[w] = 0
    BY <1>2, <1>3, <2>1
  <2>3. q + 1 + i \in q + 2 .. q + nb /\ i <= kept
    BY <1>2, <1>3, <1>5, <2>2
  <2>4. t[q + 2].words[i] = r[1].mem[q + 1 + i]
    BY <1>5, <2>3
  <2>. QED
    BY <2>2, <2>3, <2>4
<1>8. OthersOf(s, t, q + 2)
  <2>1. ASSUME NEW b \in DOMAIN s PROVE b \in DOMAIN t /\ t[b] = s[b]
    <3>1. PICK p \in DOMAIN L : b = p + 2
      BY <1>4
    <3>. QED
      BY <1>5, <1>6, <3>1
  <2>. QED
    BY <2>1 DEF OthersOf
<1>9. Len(t[q + 2].words) \in {Words(b) : b \in Requests}
  BY <1>2, <1>5
<1>. QED
  BY <1>5, <1>6, <1>7, <1>8, <1>9 DEF GrantOf

\* A block in place of another, with what it held
LEMMA ResizeStep ==
  ASSUME NEW h, NEW L, InOrder(h, L), NEW bytes \in Requests, NEW p \in DOMAIN L,
         NEW s, IsStore(s, h.mem, L), NEW t, NEW r, NEW q, q = r[2],
         NEW both, both = (IF L[p].bytes < bytes THEN L[p].bytes ELSE bytes),
         NEW cleared, cleared = L[p].cleared,
         Granted(s, t, L, {p}, q, r, bytes, Words(both), cleared),
         Moves(r, h.mem, DOMAIN L, Nb(bytes), p)
  PROVE  ResizeOf(s, t, p + 2, q + 2)
<1>1. bytes \in Nat
  BY HeapConstants DEF HeapConstants
<1>2. PICK W \in Nat : W = Words(bytes) /\ W < Nb(bytes)
  BY <1>1, Padded
<1>3. PICK V : V = Words(L[p].bytes)
  OBVIOUS
<1>4. /\ p \in Nat /\ V \in Nat /\ ChunkSize(h.mem, p) \in Nat /\ V < ChunkSize(h.mem, p)
      /\ L[p].bytes \in Nat
  BY <1>3, BlockInChunk
<1>5. \A i \in Nat : i <= V /\ i <= W => i <= Words(both)
  BY <1>1, <1>2, <1>3, <1>4 DEF Words
<1>6. /\ q \in Nat /\ q + 2 \in 0 .. End - 1
      /\ DOMAIN t = {x + 2 : x \in (DOMAIN L \ {p}) \cup {q}}
      /\ \A x \in DOMAIN L \ {p} : t[x + 2] = s[x + 2]
      /\ Len(t[q + 2].words) = W /\ DOMAIN t[q + 2].words = 1 .. W
      /\ t[q + 2].cleared = cleared
      /\ \A i \in 1 .. W : i <= Words(both) => t[q + 2].words[i] = r[1].mem[q + 1 + i]
      /\ Separate(t)
  BY <1>2 DEF Granted
<1>7. DOMAIN s = {x + 2 : x \in DOMAIN L} /\ \A x \in DOMAIN L : x \in Nat
  BY BlockInChunk DEF IsStore
<1>8. p + 2 \in DOMAIN s /\ DOMAIN t = (DOMAIN s \ {p + 2}) \cup {q + 2}
  BY <1>6, <1>7
<1>9. PICK e : e = Entry(h.mem, L, p)
  OBVIOUS
<1>10. s[p + 2] = e
  BY <1>9 DEF IsStore
<1>11. DOMAIN e.words = 1 .. V /\ e.cleared = cleared /\ \A i \in 1 .. V : e.words[i] = h.mem[p + 1 + i]
  BY <1>3, <1>4, <1>9, EntryIs
<1>12. ASSUME NEW i \in 1 .. V, i \in 1 .. W PROVE t[q + 2].words[i] = e.words[i]
  <2>1. t[q + 2].words[i] = r[1].mem[q + 1 + i]
    BY <1>5, <1>6, <1>12
  <2>2. Carried(h.mem, r[1].mem, p, q) /\ Nb(bytes) <= ChunkSize(r[1].mem, q) /\ ChunkSize(r[1].mem, q) \in Nat
        /\ Nb(bytes) \in Nat
    <3>1. Nb(bytes) \in Nat
      BY <1>1, Padded DEF IsSize
    <3>. QED
      BY <3>1 DEF Moves, Got
  <2>3. PICK j \in Nat : j = i - 1
    OBVIOUS
  <2>4. j + 2 <= ChunkSize(h.mem, p) /\ j + 2 <= ChunkSize(r[1].mem, q)
    BY <1>2, <1>4, <1>12, <2>2, <2>3
  <2>5. r[1].mem[q + 2 + j] = h.mem[p + 2 + j]
    BY <2>2, <2>4 DEF Carried
  <2>6. q + 2 + j = q + 1 + i /\ p + 2 + j = p + 1 + i
    <3>1. i \in Int /\ q \in Int /\ p \in Int
      BY <1>4, <1>6, <1>12
    <3>. QED
      BY ONLY <2>3, <3>1
  <2>. QED
    BY <1>11, <2>1, <2>5, <2>6
<1>13. OthersOf(s, t, p + 2)
  <2>1. ASSUME NEW b \in DOMAIN s \ {p + 2} PROVE b \in DOMAIN t /\ t[b] = s[b]
    <3>1. PICK x \in DOMAIN L : b = x + 2
      BY <1>7
    <3>2. x \in DOMAIN L \ {p}
      BY <2>1, <3>1
    <3>. QED
      BY <1>6, <1>8, <3>1, <3>2
  <2>. QED
    BY <2>1 DEF OthersOf
<1>14. Len(t[q + 2].words) \in {Words(b) : b \in Requests}
  BY <1>2, <1>6
<1>. QED
  BY <1>6, <1>8, <1>10, <1>11, <1>12, <1>13, <1>14 DEF ResizeOf

\* A block less
LEMMA ReleaseStep ==
  ASSUME NEW h, NEW L, InOrder(h, L), NEW p \in DOMAIN L, NEW g, Keeps(h.mem, g.mem, DOMAIN L \ {p}),
         NEW K, K = [x \in DOMAIN L \ {p} |-> L[x]],
         NEW s, IsStore(s, h.mem, L), NEW t, IsStore(t, g.mem, K)
  PROVE  ReleaseOf(s, t, p + 2)
<1>1. DOMAIN s = {x + 2 : x \in DOMAIN L} /\ \A x \in DOMAIN L : x \in Nat
  BY BlockInChunk DEF IsStore
<1>2. DOMAIN K = DOMAIN L \ {p} /\ \A x \in DOMAIN K : K[x] = L[x]
  OBVIOUS
<1>3. DOMAIN t = {x + 2 : x \in DOMAIN L \ {p}}
  BY <1>2 DEF IsStore
<1>4. p + 2 \in DOMAIN s /\ DOMAIN t = DOMAIN s \ {p + 2}
  BY <1>1, <1>3
<1>5. ASSUME NEW b \in DOMAIN s \ {p + 2} PROVE b \in DOMAIN t /\ t[b] = s[b]
  <2>1. PICK x \in DOMAIN L : b = x + 2
    BY <1>1
  <2>2. x \in DOMAIN K /\ K[x] = L[x]
    BY <1>2, <1>5, <2>1
  <2>3. KeptChunk(h.mem, g.mem, x)
    BY <1>2, <2>2 DEF Keeps
  <2>4. Entry(g.mem, K, x) = Entry(h.mem, L, x)
    BY <2>2, <2>3, EntryKept
  <2>. QED
    BY <1>4, <1>5, <2>1, <2>2, <2>4 DEF IsStore
<1>6. p + 2 \in 0 .. End - 1
  <2>1. PICK W : W = Words(L[p].bytes)
    OBVIOUS
  <2>2. p \in Nat /\ ChunkSize(h.mem, p) \in Nat /\ End \in Nat /\ p + ChunkSize(h.mem, p) + 3 < End
    BY <2>1, BlockInChunk
  <2>. QED
    BY <2>2
<1>. QED
  BY <1>4, <1>5, <1>6 DEF ReleaseOf, OthersOf

(***************************************************************************)
(* Every step of the heap is one of Allocator, or none.                    *)
(***************************************************************************)
LEMMA StoreInOrder ==
  ASSUME NEW h, NEW L, InOrder(h, L), NEW s, s = StoreOf(h.mem, L)
  PROVE  IsStore(s, h.mem, L) /\ s = [a \in DOMAIN s |-> s[a]]
<1>1. \A p \in DOMAIN L : p \in Nat
  BY BlockInChunk
<1>2. DOMAIN L \subseteq Nat
  BY <1>1
<1>3. IsStore(s, h.mem, L)
  BY ONLY <1>2, s = StoreOf(h.mem, L), StoreIs
<1>4. s = [a \in DOMAIN s |-> s[a]]
  BY DEF StoreOf
<1>. QED
  BY <1>3, <1>4

LEMMA StoreStays ==
  ASSUME NEW h, NEW L, InOrder(h, L), NEW U, U = DOMAIN L, NEW r, Refused(r, h.mem, U),
         NEW g, g = r[1], NEW s, s = StoreOf(h.mem, L), NEW t, t = StoreOf(g.mem, L)
  PROVE  t = s
<1>1. InOrder(g, L)
  BY BlockRefused
<1>2. Keeps(h.mem, g.mem, DOMAIN L)
  BY DEF Refused
<1>3. IsStore(s, h.mem, L) /\ s = [a \in DOMAIN s |-> s[a]]
  BY StoreInOrder
<1>4. IsStore(t, g.mem, L) /\ t = [a \in DOMAIN t |-> t[a]]
  BY <1>1, StoreInOrder
<1>. QED
  BY <1>2, <1>3, <1>4, StoreRefused

Zeros(r, nb) == \A w \in r[2] + 2 .. r[2] + nb : r[1].mem[w] = 0

LEMMA RequestMaps ==
  ASSUME NEW h, NEW L, InOrder(h, L), NEW nb \in Nat, NEW bytes \in Requests,
         NEW kept \in Int, NEW cleared \in BOOLEAN, NEW r, NEW old, old = {},
         Answered(r, h.mem, DOMAIN L \ old, DOMAIN L, Nb(bytes)),
         NEW g, NEW K, NEW f, GivenBy(g, K, f, r, nb, L, old, bytes, kept, cleared),
         cleared /\ r[2] # NULL => kept = Words(bytes) /\ Zeros(r, Nb(bytes)),
         NEW s, s = StoreOf(h.mem, L), NEW t, t = StoreOf(g.mem, K)
  PROVE  t = s \/ \E a : GrantOf(s, t, a)
<1>1. InOrder(g, K)
  BY GivenHolds
<1>2. IsStore(s, h.mem, L) /\ IsStore(t, g.mem, K)
  BY <1>1, StoreInOrder
<1>3. CASE Refused(r, h.mem, DOMAIN L)
  <2>1. g = r[1] /\ K = L
    BY <1>3 DEF Refused, GivenBy
  <2>2. t = s
    BY <1>3, <2>1, StoreStays
  <2>. QED
    BY <2>2
<1>4. CASE Got(r, h.mem, DOMAIN L \ old, Nb(bytes))
  <2>1. r[2] # NULL
    BY <1>4 DEF Got, NULL
  <2>2. PICK q : q = r[2]
    OBVIOUS
  <2>3. Fills(g, r, bytes, kept, cleared) /\ Owns(K, L, old, q, bytes, cleared)
    BY <2>1, <2>2 DEF GivenBy
  <2>4. Granted(s, t, L, old, q, r, bytes, kept, cleared)
    BY ONLY InOrder(h, L), bytes \in Requests, kept \in Int, cleared \in BOOLEAN,
            <1>2, <1>4, <2>2, <2>3, BlockGranted
  <2>5. Granted(s, t, L, {}, q, r, bytes, kept, cleared)
    BY <2>4
  <2>6. cleared => kept = Words(bytes) /\ \A w \in q + 2 .. q + Nb(bytes) : r[1].mem[w] = 0
    BY <2>1, <2>2 DEF Zeros
  <2>7. GrantOf(s, t, q + 2)
    BY ONLY InOrder(h, L), bytes \in Requests, kept \in Int, cleared \in BOOLEAN,
            <1>2, <2>5, <2>6, GrantStep
  <2>. QED
    BY <2>7
<1>. QED
  BY <1>3, <1>4 DEF Answered

\* What realloc asks for: the words that both blocks have are to be kept.
Asks(L, p, bytes, nb, kept, cleared) ==
  /\ nb = Nb(bytes) /\ cleared = L[p].cleared
  /\ kept = Words(IF L[p].bytes < bytes THEN L[p].bytes ELSE bytes)

MovesOrNot(r, m, U, nb, p) == Moves(r, m, U, nb, p) \/ Refused(r, m, U)

LEMMA ReallocMaps ==
  ASSUME NEW h, NEW L, InOrder(h, L), NEW bytes \in Requests, NEW p \in DOMAIN L, NEW old, old = {p},
         NEW cleared \in BOOLEAN, NEW kept \in Int, NEW nb \in Nat, Asks(L, p, bytes, nb, kept, cleared),
         NEW r, NEW U, U = DOMAIN L, MovesOrNot(r, h.mem, U, nb, p),
         NEW g, NEW K, NEW f, GivenBy(g, K, f, r, nb, L, old, bytes, kept, cleared),
         NEW s, s = StoreOf(h.mem, L), NEW t, t = StoreOf(g.mem, K)
  PROVE  t = s \/ \E a, b : ResizeOf(s, t, a, b)
<1>. PICK both : both = (IF L[p].bytes < bytes THEN L[p].bytes ELSE bytes)
  OBVIOUS
<1>0. /\ nb = Nb(bytes) /\ cleared = L[p].cleared /\ kept = Words(both)
      /\ Moves(r, h.mem, DOMAIN L, nb, p) \/ Refused(r, h.mem, DOMAIN L)
  BY DEF Asks, MovesOrNot
<1>1. Answered(r, h.mem, DOMAIN L \ old, DOMAIN L, Nb(bytes))
  BY <1>0 DEF Moves, Answered
<1>2. InOrder(g, K)
  BY ONLY InOrder(h, L), nb \in Nat, bytes \in Requests, kept \in Int, cleared \in BOOLEAN, <1>1,
          GivenBy(g, K, f, r, nb, L, old, bytes, kept, cleared), GivenHolds
<1>3. IsStore(s, h.mem, L) /\ IsStore(t, g.mem, K)
  BY <1>2, StoreInOrder
<1>4. CASE Refused(r, h.mem, DOMAIN L)
  <2>1. g = r[1] /\ K = L
    BY <1>4 DEF Refused, GivenBy
  <2>2. t = s
    BY <1>4, <2>1, StoreStays
  <2>. QED
    BY <2>2
<1>5. CASE Moves(r, h.mem, DOMAIN L, nb, p)
  <2>1. Got(r, h.mem, DOMAIN L \ old, Nb(bytes))
    BY <1>0, <1>5 DEF Moves
  <2>2. r[2] # NULL
    BY <2>1 DEF Got, NULL
  <2>3. PICK q : q = r[2]
    OBVIOUS
  <2>4. Fills(g, r, bytes, kept, cleared) /\ Owns(K, L, old, q, bytes, cleared)
    BY <2>2, <2>3 DEF GivenBy
  <2>5. Granted(s, t, L, old, q, r, bytes, kept, cleared)
    BY ONLY InOrder(h, L), bytes \in Requests, kept \in Int, cleared \in BOOLEAN,
            <1>3, <2>1, <2>3, <2>4, BlockGranted
  <2>6. Granted(s, t, L, {p}, q, r, bytes, Words(both), cleared) /\ Moves(r, h.mem, DOMAIN L, Nb(bytes), p)
    BY <1>0, <1>5, <2>5
  <2>7. ResizeOf(s, t, p + 2, q + 2)
    BY ONLY InOrder(h, L), bytes \in Requests, p \in DOMAIN L,
            both = (IF L[p].bytes < bytes THEN L[p].bytes ELSE bytes),
            <1>0, <1>3, <2>3, <2>6, ResizeStep
  <2>. QED
    BY <2>7
<1>. QED
  BY <1>0, <1>4, <1>5

LEMMA FreeMaps ==
  ASSUME NEW h, NEW L, InOrder(h, L), NEW p \in DOMAIN L, NEW g, g = fREe(h, p),
         NEW K, K = [x \in DOMAIN L \ {p} |-> L[x]],
         NEW s, s = StoreOf(h.mem, L), NEW t, t = StoreOf(g.mem, K)
  PROVE  ReleaseOf(s, t, p + 2)
<1>1. InOrder(g, K) /\ Keeps(h.mem, g.mem, DOMAIN K)
  BY BlockFreed
<1>2. Keeps(h.mem, g.mem, DOMAIN L \ {p})
  BY <1>1
<1>3. IsStore(s, h.mem, L) /\ IsStore(t, g.mem, K)
  BY <1>1, StoreInOrder
<1>. QED
  BY <1>2, <1>3, ReleaseStep

LEMMA StoreNext == HeapInv /\ [Next]_vars => [Abstract!Next]_Store
<1>. SUFFICES ASSUME HeapInv, [Next]_vars PROVE Abstract!Next \/ Store' = Store
  OBVIOUS
<1>1. InOrder(heap, live) /\ Good(heap, DOMAIN live)
  BY DEF HeapInv, InOrder
<1>2. \A bytes \in Requests : bytes \in Nat /\ IsSize(Nb(bytes)) /\ Nb(bytes) \in Nat /\ Words(bytes) \in Nat
  BY Padded, HeapConstants DEF HeapConstants, IsSize
<1>3. Store = StoreOf(heap.mem, live) /\ Store' = StoreOf(heap'.mem, live')
  BY DEF Store, StoreOf
<1>4. PICK s, t : s = Store /\ t = Store'
  OBVIOUS
<1>5. s = StoreOf(heap.mem, live) /\ t = StoreOf(heap'.mem, live')
  BY <1>3, <1>4
<1>6. /\ (\E a : GrantOf(s, t, a)) => Abstract!Next
      /\ (\E a, b : ResizeOf(s, t, a, b)) => Abstract!Next
      /\ (\E a : ReleaseOf(s, t, a)) => Abstract!Next
  BY <1>4, StepsOfAllocator
<1>. DEFINE Goal == t = s \/ \/ \E a : GrantOf(s, t, a)
                             \/ \E a, b : ResizeOf(s, t, a, b)
                             \/ \E a : ReleaseOf(s, t, a)
<1>7. PICK old : old = {}
  OBVIOUS
<1>8. DOMAIN live \ old = DOMAIN live
  BY <1>7
<1>9. ASSUME NEW bytes \in Requests, Malloc(bytes) PROVE Goal
  <2>1. PICK r : r = mALLOc(heap, Nb(bytes))
    OBVIOUS
  <2>2. Answered(r, heap.mem, DOMAIN live \ old, DOMAIN live, Nb(bytes))
    BY <1>1, <1>2, <1>8, <2>1, AllocHolds DEF Answered
  <2>3. PICK c \in BOOLEAN, kept \in Int : c = FALSE /\ kept = 0
    BY FALSE \in BOOLEAN, 0 \in Int
  <2>4. GivenBy(heap', live', failed', r, Nb(bytes), live, old, bytes, kept, c)
    BY <1>7, <1>9, <2>1, <2>3, GivenIs DEF Malloc
  <2>5. /\ c /\ r[2] # NULL => kept = Words(bytes) /\ Zeros(r, Nb(bytes))
        /\ Nb(bytes) \in Nat
    BY <1>2, <2>3
  <2>6. t = s \/ \E a : GrantOf(s, t, a)
    BY ONLY bytes \in Requests, kept \in Int, c \in BOOLEAN, <1>1, <1>5, <1>7, <2>2, <2>4, <2>5, RequestMaps, ZenonT(40)
  <2>. QED
    BY <2>6
<1>10. ASSUME NEW bytes \in Requests, Calloc(bytes) PROVE Goal
  <2>1. PICK r : r = cALLOc(heap, Nb(bytes))
    OBVIOUS
  <2>2. Answered(r, heap.mem, DOMAIN live \ old, DOMAIN live, Nb(bytes))
    BY <1>1, <1>2, <1>8, <2>1, CallocHolds DEF Answered
  <2>3. PICK c \in BOOLEAN, kept \in Int : c = TRUE /\ kept = Words(bytes)
    <3>1. Words(bytes) \in Int
      BY <1>2
    <3>. QED
      BY ONLY <3>1, TRUE \in BOOLEAN
  <2>4. GivenBy(heap', live', failed', r, Nb(bytes), live, old, bytes, kept, c)
    BY <1>7, <1>10, <2>1, <2>3, GivenIs DEF Calloc
  <2>5. ASSUME r[2] # NULL PROVE Zeros(r, Nb(bytes))
    <3>1. Got(r, heap.mem, DOMAIN live, Nb(bytes))
      BY <1>8, <2>2, <2>5 DEF Answered, Refused
    <3>2. \A w \in r[2] + 2 .. r[2] + Nb(bytes) : r[1].mem[w] = 0
      BY <1>1, <1>2, <2>1, <3>1, CallocClears
    <3>. QED
      BY <3>2 DEF Zeros
  <2>6. /\ c /\ r[2] # NULL => kept = Words(bytes) /\ Zeros(r, Nb(bytes))
        /\ Nb(bytes) \in Nat
    BY <1>2, <2>3, <2>5
  <2>7. t = s \/ \E a : GrantOf(s, t, a)
    BY ONLY bytes \in Requests, kept \in Int, c \in BOOLEAN, <1>1, <1>5, <1>7, <2>2, <2>4, <2>6, RequestMaps, ZenonT(40)
  <2>. QED
    BY <2>7
<1>11. ASSUME NEW bytes \in Requests, NEW align \in Alignments, Memalign(align, bytes) PROVE Goal
  <2>1. PICK r : r = mEMALIGn(heap, align, Nb(bytes))
    OBVIOUS
  <2>2. align \in Nat /\ (align > 4 => align % 2 = 0)
    BY HeapConstants DEF HeapConstants
  <2>3. Answered(r, heap.mem, DOMAIN live \ old, DOMAIN live, Nb(bytes))
    BY <1>1, <1>2, <1>8, <2>1, <2>2, MemalignHolds DEF Answered
  <2>4. PICK c \in BOOLEAN, kept \in Int : c = FALSE /\ kept = 0
    BY FALSE \in BOOLEAN, 0 \in Int
  <2>5. PICK nb \in Nat : nb = Worst(align, Nb(bytes))
    <3>1. CASE align <= 2
      BY <1>2, <3>1 DEF Worst
    <3>2. CASE ~(align <= 2)
      <4>1. align > 2 /\ IsSize(Nb(bytes))
        BY <1>2, <2>2, <3>2
      <4>2. IsSize(Worst(align, Nb(bytes)))
        BY <2>2, <4>1, WorstIs
      <4>. QED
        BY <4>2 DEF IsSize
    <3>. QED
      BY <3>1, <3>2
  <2>6. GivenBy(heap', live', failed', r, nb, live, old, bytes, kept, c)
    BY <1>7, <1>11, <2>1, <2>4, <2>5, GivenIs DEF Memalign
  <2>7. c /\ r[2] # NULL => kept = Words(bytes) /\ Zeros(r, Nb(bytes))
    BY <2>4
  <2>8. t = s \/ \E a : GrantOf(s, t, a)
    BY ONLY bytes \in Requests, kept \in Int, c \in BOOLEAN, nb \in Nat,
            <1>1, <1>5, <1>7, <2>3, <2>6, <2>7, RequestMaps
  <2>. QED
    BY <2>8
<1>12. ASSUME NEW p \in DOMAIN live, NEW bytes \in Requests, Realloc(p, bytes) PROVE Goal
  <2>1. PICK r : r = rEALLOc(heap, p, Nb(bytes))
    OBVIOUS
  <2>2. PICK both : both = (IF live[p].bytes < bytes THEN live[p].bytes ELSE bytes)
    OBVIOUS
  <2>3. live[p] \in [bytes : Requests, cleared : BOOLEAN]
    BY <1>1 DEF InOrder, Fitted
  <2>4. PICK kept \in Int, c \in BOOLEAN, nb \in Nat :
          kept = Words(both) /\ c = live[p].cleared /\ nb = Nb(bytes)
    <3>1. Words(both) \in Int /\ live[p].cleared \in BOOLEAN
      BY <1>2, <2>2, <2>3
    <3>2. Nb(bytes) \in Nat
      BY <1>2
    <3>. QED
      BY ONLY <3>1, <3>2
  <2>5. Holds(heap, DOMAIN live)
    BY <1>1, GoodHolds
  <2>6. Moves(r, heap.mem, DOMAIN live, nb, p) \/ Refused(r, heap.mem, DOMAIN live)
    BY <1>2, <2>1, <2>4, <2>5, ReallocHolds
  <2>7. PICK o : o = {p}
    OBVIOUS
  <2>8. GivenBy(heap', live', failed', r, nb, live, o, bytes, kept, c)
    BY <1>12, <2>1, <2>2, <2>4, <2>7, GivenIs DEF Realloc
  <2>9. PICK U : U = DOMAIN live
    OBVIOUS
  <2>10. Asks(live, p, bytes, nb, kept, c) /\ MovesOrNot(r, heap.mem, U, nb, p)
    BY <2>2, <2>4, <2>6, <2>9 DEF Asks, MovesOrNot
  <2>11. t = s \/ \E a, b : ResizeOf(s, t, a, b)
    BY ONLY bytes \in Requests, p \in DOMAIN live, kept \in Int, c \in BOOLEAN, nb \in Nat,
            <1>1, <1>5, <2>7, <2>8, <2>9, <2>10, ReallocMaps
  <2>. QED
    BY <2>11
<1>13. ASSUME NEW p \in DOMAIN live, Free(p) PROVE Goal
  <2>1. heap' = fREe(heap, p) /\ live' = [x \in DOMAIN live \ {p} |-> live[x]]
    BY <1>13 DEF Free
  <2>2. PICK g, K : g = heap' /\ K = live'
    OBVIOUS
  <2>3. ReleaseOf(s, t, p + 2)
    BY <1>1, <1>5, <2>1, <2>2, FreeMaps
  <2>. QED
    BY <2>3
<1>14. CASE UNCHANGED vars
  BY <1>4, <1>5, <1>14 DEF vars
<1>. QED
  BY <1>4, <1>6, <1>9, <1>10, <1>11, <1>12, <1>13, <1>14 DEF Next

LEMMA StoreBegins == Init => Abstract!Init
BY DEF Init, Abstract!Init, Store

\* To the program the heap is what Allocator says: blocks of its own, apart,
\* which only the program writes to; calloc's are zero, realloc's begin as the
\* block they replace, and a request that is refused changes none of them.
THEOREM HeapImplementsAllocator == Spec => ImplementsAllocator
<1>1. Spec => []HeapInv
  BY HeapInit, HeapNext, PTL DEF Spec
<1>. QED
  BY <1>1, StoreBegins, StoreNext, PTL DEF Spec, ImplementsAllocator, Abstract!Spec
=============================================================================
