-------------------------- MODULE BoardInitProofs --------------------------
(***************************************************************************)
(* What get_ram_size finds is the RAM there is, for every power of two up  *)
(* to 1 GiB; what U-Boot lays out in it stays apart, for every size from   *)
(* 256 MiB on and every image; and its steps run out.                      *)
(***************************************************************************)
EXTENDS BoardInit, SequenceTheorems, TLAPS

LEMMA Down8 ==
  ASSUME NEW a \in Int
  PROVE  Down(a, 8) \in Int /\ Down(a, 8) <= a /\ a - 8 < Down(a, 8)
BY DEF Down

LEMMA Down4K ==
  ASSUME NEW a \in Int
  PROVE  Down(a, 4 * Kib) \in Int /\ Down(a, 4 * Kib) <= a /\ a - 4 * Kib < Down(a, 4 * Kib)
BY DEF Down, Kib

LEMMA Down64K ==
  ASSUME NEW a \in Int
  PROVE  Down(a, 64 * Kib) \in Int /\ Down(a, 64 * Kib) <= a /\ a - 64 * Kib < Down(a, 64 * Kib)
BY DEF Down, Kib

(***************************************************************************)
(* The powers of two that get_ram_size probes, by their exponents.         *)
(***************************************************************************)
Pow(k) == 2^k

LEMMA PowValues ==
  /\ Pow(0) = 1 /\ Pow(1) = 2 /\ Pow(2) = 4
  /\ Pow(3) = 8 /\ Pow(4) = 16 /\ Pow(5) = 32
  /\ Pow(6) = 64 /\ Pow(7) = 128 /\ Pow(8) = 256
  /\ Pow(9) = 512 /\ Pow(10) = 1024 /\ Pow(11) = 2048
  /\ Pow(12) = 4096 /\ Pow(13) = 8192 /\ Pow(14) = 16384
  /\ Pow(15) = 32768 /\ Pow(16) = 65536 /\ Pow(17) = 131072
  /\ Pow(18) = 262144 /\ Pow(19) = 524288 /\ Pow(20) = 1048576
  /\ Pow(21) = 2097152 /\ Pow(22) = 4194304 /\ Pow(23) = 8388608
  /\ Pow(24) = 16777216 /\ Pow(25) = 33554432 /\ Pow(26) = 67108864
  /\ Pow(27) = 134217728 /\ Pow(28) = 268435456 /\ Pow(29) = 536870912
BY DEF Pow

LEMMA PowNat ==
  ASSUME NEW k \in 0 .. 29
  PROVE  Pow(k) \in Nat \ {0}
BY PowValues

LEMMA PowDouble ==
  ASSUME NEW k \in 0 .. 28
  PROVE  Pow(k + 1) = 2 * Pow(k) /\ Pow(k + 1) \div 2 = Pow(k)
BY PowValues

LEMMA PowOrder ==
  ASSUME NEW j \in 0 .. 29, NEW k \in 0 .. 29
  PROVE  /\ j < k => 2 * Pow(j) <= Pow(k)
         /\ Pow(j) < Pow(k) => j < k
         /\ Pow(j) = Pow(k) => j = k
BY PowValues

LEMMA PowersArePow ==
  ASSUME NEW w \in Powers
  PROVE  \E k \in 0 .. 29 : w = Pow(k)
BY DEF Powers, Pow

(***************************************************************************)
(* The probing.  With n words saved it stands at the n-th power of two     *)
(* below MaxWords; the words of the RAM that it has passed on the way down *)
(* and not yet put back on the way up hold what was written there.  The    *)
(* first word stands for all the aliases: it was saved first if there are  *)
(* any, and is put back last.                                              *)
(***************************************************************************)
Bits == CHOOSE k \in 0 .. 28 : MaxWords = Pow(k)
Saves == Len(save)

LEMMA MaxIsPow == Bits \in 0 .. 28 /\ MaxWords = Pow(Bits)
<1>1. PICK k \in 0 .. 29 : MaxWords = Pow(k)
  BY BoardAssumption, PowersArePow DEF BoardAssumption
<1>2. MaxWords <= Pow(28)
  BY BoardAssumption, PowValues DEF BoardAssumption, Kib, Mib
<1>3. k \in 0 .. 28
  BY <1>1, <1>2, PowOrder, PowNat
<1> QED BY <1>1, <1>3 DEF Bits

LEMMA MaxIsNat == MaxWords \in Nat \ {0}
BY MaxIsPow, PowNat

Words == Reached \ {0}

Probed(from) == \A w \in Words : memory[w] = IF w >= from THEN Not(w) ELSE before[w]

MemTypes ==
  /\ ram = 0 \/ \E k \in 0 .. Bits : ram = Pow(k)
  /\ before \in [Reached -> Int] /\ memory \in [Reached -> Int]
  /\ save \in Seq(Int) /\ Saves <= Bits
  /\ cnt \in 0 .. MaxWords
  /\ base \in Int
  /\ size \in 0 .. MaxWords

(* What is saved is what is to be put back.                                *)
Kept ==
  /\ \A i \in 1 .. Saves : Pow(Bits - i) < ram => save[i] = before[Pow(Bits - i)]
  /\ ram \notin {0, MaxWords} /\ Saves > 0 => save[1] = before[0]

GoingDown ==
  /\ cnt = IF Saves < Bits THEN Pow(Bits - 1 - Saves) ELSE 0
  /\ size = 0
  /\ Probed(Pow(Bits - Saves))
  /\ ram # 0 /\ (Saves = 0 \/ ram = MaxWords) => memory[0] = before[0]

GoingUp ==
  /\ ram # 0 /\ cnt = Pow(Bits - Saves) /\ cnt <= ram
  /\ size = 0
  /\ Probed(cnt)
  /\ memory[0] = 0

Restoring ==
  /\ ram \notin {0, MaxWords} /\ cnt = Pow(Bits - Saves) /\ ram < cnt
  /\ size = ram
  /\ \A w \in Words : memory[w] = before[w]
  /\ Saves = 0 => memory[0] = before[0]

NoRam ==
  /\ ram = 0 /\ size = 0
  /\ IF cnt = 0 THEN Saves = Bits ELSE cnt = Pow(Bits - Saves)

Found ==
  /\ size = ram
  /\ memory = IF ram = MaxWords THEN [before EXCEPT ![0] = 0] ELSE before

Probing ==
  /\ MemTypes /\ Kept
  /\ \/ step = "down" /\ GoingDown
     \/ step = "up" /\ GoingUp
     \/ step = "restore" /\ Restoring
     \/ step = "no_ram" /\ NoRam
     \/ step = "done" /\ Found

(* The words of the RAM.                                                   *)
LEMMA ReachedFacts ==
  ASSUME MemTypes
  PROVE  /\ ram \in Nat /\ ram <= MaxWords
         /\ ram # 0 => 0 \in Reached
         /\ ram = 0 => Reached = {}
         /\ \A w \in Words : w \in Powers /\ w \in Nat /\ 0 < w /\ w < ram
         /\ \A k \in 0 .. 29 : Pow(k) < ram => Pow(k) \in Words
<1>1. ram \in Nat /\ ram <= MaxWords
  <2>1. CASE ram = 0
    BY <2>1, MaxIsNat
  <2>2. ASSUME NEW k \in 0 .. Bits, ram = Pow(k)
        PROVE  ram \in Nat /\ ram <= MaxWords
    <3>1. k \in 0 .. 29 /\ Bits \in 0 .. 29 /\ MaxWords = Pow(Bits)
      BY MaxIsPow
    <3>2. k = Bits \/ k < Bits
      BY <3>1
    <3>3. Pow(k) \in Nat \ {0} /\ Pow(Bits) \in Nat \ {0}
      BY <3>1, PowNat
    <3>4. k < Bits => 2 * Pow(k) <= Pow(Bits)
      BY <3>1, PowOrder
    <3> QED BY <2>2, <3>1, <3>2, <3>3, <3>4
  <2> QED BY <2>1, <2>2 DEF MemTypes
<1>2. \A w \in Powers : w \in Nat /\ 0 < w
  BY PowersArePow, PowNat
<1>3. \A k \in 0 .. 29 : Pow(k) \in Powers
  BY DEF Pow, Powers
<1> QED BY <1>1, <1>2, <1>3, PowNat DEF Reached, Words

LEMMA PutFacts ==
  ASSUME MemTypes, NEW addr, addr = 0 \/ \E k \in 0 .. 29 : addr = Pow(k),
         NEW word \in Int, Put(addr, word)
  PROVE  /\ memory' \in [Reached -> Int]
         /\ ram # 0 => memory'[Cell(addr)] = word
         /\ \A w \in Reached : w # Cell(addr) => memory'[w] = memory[w]
         /\ addr \in Words <=> addr # 0 /\ addr < ram
<1>1. addr \in Nat
  BY PowNat
<1>2. addr \in Words <=> addr # 0 /\ addr < ram
  BY ReachedFacts DEF Words
<1>3. ram # 0 => Cell(addr) \in Reached
  BY <1>1, <1>2, ReachedFacts DEF Cell, Words
<1> QED BY <1>2, <1>3 DEF Put, MemTypes

LEMMA AtFacts ==
  ASSUME MemTypes, NEW addr, addr = 0 \/ \E k \in 0 .. 29 : addr = Pow(k)
  PROVE  At(addr) \in Int
<1>1. addr \in Nat
  BY PowNat
<1>2. ram # 0 => Cell(addr) \in Reached
  BY <1>1, ReachedFacts DEF Cell, Words
<1>3. Floating \in Int
  BY BoardAssumption DEF BoardAssumption
<1> QED BY <1>2, <1>3 DEF At, MemTypes

LEMMA FrontFacts ==
  ASSUME NEW s \in Seq(Int), Len(s) > 0
  PROVE  /\ Front(s) \in Seq(Int) /\ Len(Front(s)) = Len(s) - 1
         /\ \A i \in 1 .. Len(s) - 1 : Front(s)[i] = s[i]
<1> DEFINE n == Len(s) - 1
<1>1. n \in Nat /\ \A i \in 1 .. n : s[i] \in Int
  OBVIOUS
<1> HIDE DEF n
<1>2. /\ SubSeq(s, 1, n) \in Seq(Int)
      /\ Len(SubSeq(s, 1, n)) = IF 1 <= n THEN n - 1 + 1 ELSE 0
      /\ \A i \in 1 .. n - 1 + 1 : SubSeq(s, 1, n)[i] = s[1 + i - 1]
  BY <1>1, SubSeqProperties
<1>3. Len(SubSeq(s, 1, n)) = n /\ \A i \in 1 .. n : SubSeq(s, 1, n)[i] = s[i]
  <2>1. n - 1 + 1 = n /\ \A i \in 1 .. n : 1 + i - 1 = i
    BY <1>1
  <2> QED BY <1>1, <1>2, <2>1
<1>4. Front(s) = SubSeq(s, 1, n)
  BY DEF Front, n
<1> QED BY <1>2, <1>3, <1>4 DEF n

LEMMA OneLess ==
  ASSUME NEW b \in 0 .. 28, NEW n \in Nat, n <= b, n > 0, NEW m, m = n - 1
  PROVE  /\ b - n \in 0 .. 28 /\ b - m = (b - n) + 1
         /\ b - m \in 0 .. 29 /\ (b - m = b \/ b - m < b)
OBVIOUS

(* A word put back: the last one saved, at the address it was saved from.  *)
LEMMA PutBackFacts ==
  ASSUME MemTypes, Kept, Saves > 0, cnt = Pow(Bits - Saves), PutBack(cnt),
         ram' = ram, before' = before
  PROVE  /\ save' \in Seq(Int) /\ Saves' = Saves - 1 /\ Kept'
         /\ 2 * cnt = Pow(Bits - Saves') /\ 2 * cnt \in 0 .. MaxWords
         /\ memory' \in [Reached -> Int]
         /\ cnt < ram => memory'[cnt] = before[cnt]
         /\ cnt < ram => \A w \in Reached : w # cnt => memory'[w] = memory[w]
         /\ cnt >= ram => \A w \in Words : memory'[w] = memory[w]
         /\ cnt >= ram /\ Saves = 1 /\ ram \notin {0, MaxWords} => memory'[0] = before[0]
<1>1. save \in Seq(Int) /\ Saves \in Nat /\ Saves <= Bits /\ Bits \in 0 .. 28
  BY MaxIsPow DEF MemTypes, Saves
<1>2. Last(save) = save[Saves] /\ Last(save) \in Int
  BY <1>1 DEF Last, Saves
<1>3. save' = Front(save) /\ Put(cnt, Last(save))
  BY DEF PutBack
<1>4. save' \in Seq(Int) /\ Saves' = Saves - 1 /\ \A i \in 1 .. Saves - 1 : save'[i] = save[i]
  BY <1>1, <1>3, FrontFacts DEF Saves
<1>5. Bits' = Bits
  BY DEF Bits, Pow
<1>6. Kept'
  BY <1>1, <1>4, <1>5 DEF Kept, Pow
<1>7. /\ Bits - Saves \in 0 .. 28 /\ Bits - Saves' = (Bits - Saves) + 1
      /\ Bits - Saves' \in 0 .. 29 /\ (Bits - Saves' = Bits \/ Bits - Saves' < Bits)
  BY <1>1, <1>4, OneLess
<1>8. 2 * cnt = Pow(Bits - Saves')
  BY <1>7, PowDouble
<1>9. 2 * cnt \in 0 .. MaxWords
  <2>1. Bits - Saves' \in 0 .. 29 /\ Bits \in 0 .. 29 /\ (Bits - Saves' = Bits \/ Bits - Saves' < Bits)
    BY <1>1, <1>7
  <2>2. Pow(Bits - Saves') \in Nat /\ Pow(Bits) \in Nat
    BY <2>1, PowNat
  <2>3. Bits - Saves' < Bits => 2 * Pow(Bits - Saves') <= Pow(Bits)
    BY <2>1, PowOrder
  <2> QED BY <1>8, <2>1, <2>2, <2>3, MaxIsPow
<1>10. /\ memory' \in [Reached -> Int]
       /\ ram # 0 => memory'[Cell(cnt)] = save[Saves]
       /\ \A w \in Reached : w # Cell(cnt) => memory'[w] = memory[w]
       /\ cnt \in Nat /\ cnt > 0 /\ ram \in Nat
  BY <1>2, <1>3, <1>7, PutFacts, PowNat, ReachedFacts
<1>11. cnt < ram => save[Saves] = before[cnt] /\ Cell(cnt) = cnt /\ ram # 0
  BY <1>1, <1>10 DEF Kept, Cell
<1>12. cnt >= ram => Cell(cnt) = 0
  BY <1>10 DEF Cell
<1>13. Saves = 1 /\ ram \notin {0, MaxWords} => save[Saves] = before[0]
  BY DEF Kept
<1> QED BY <1>4, <1>6, <1>8, <1>9, <1>10, <1>11, <1>12, <1>13 DEF Words

(***************************************************************************)
(* Each step of get_ram_size.                                              *)
(***************************************************************************)
LEMMA SameRam ==
  ASSUME ram' = ram, before' = before
  PROVE  Reached' = Reached /\ Words' = Words /\ Bits' = Bits
BY DEF Reached, Words, Bits, Pow

LEMMA ProbeDownStep ==
  ASSUME Probing, ProbeDown
  PROVE  Probing'
<1>1. MemTypes /\ Kept /\ GoingDown /\ step = "down" /\ cnt > 0
  BY DEF Probing, ProbeDown
<1>2. save' = Append(save, At(cnt)) /\ Put(cnt, Not(cnt)) /\ cnt' = cnt \div 2
  BY DEF ProbeDown
<1>3. step' = step /\ ram' = ram /\ before' = before /\ base' = base /\ size' = size
  BY DEF ProbeDown
<1>4. save \in Seq(Int) /\ Saves \in Nat /\ Bits \in 0 .. 28 /\ Saves < Bits
  BY <1>1, MaxIsPow DEF MemTypes, GoingDown, Saves
<1> DEFINE k == Bits - 1 - Saves
<1>5. k \in 0 .. 27 /\ cnt = Pow(k) /\ Bits - Saves = k + 1
  BY <1>1, <1>4 DEF GoingDown
<1>6. cnt \in Nat \ {0} /\ At(cnt) \in Int
  BY <1>1, <1>5, PowNat, AtFacts
<1>7. save' \in Seq(Int) /\ Saves' = Saves + 1 /\ save'[Saves + 1] = At(cnt)
      /\ \A i \in 1 .. Saves : save'[i] = save[i]
  BY <1>2, <1>4, <1>6 DEF Saves
<1>8. /\ memory' \in [Reached -> Int]
      /\ ram # 0 => memory'[Cell(cnt)] = Not(cnt)
      /\ \A w \in Reached : w # Cell(cnt) => memory'[w] = memory[w]
      /\ cnt \in Words <=> cnt # 0 /\ cnt < ram
  <2>1. Not(cnt) \in Int
    BY <1>6 DEF Not
  <2>2. \E j \in 0 .. 29 : cnt = Pow(j)
    BY <1>5
  <2> QED BY <1>1, <1>2, <2>1, <2>2, PutFacts
<1>9. /\ Reached' = Reached /\ Words' = Words /\ Bits' = Bits
  BY <1>3, SameRam
<1>10. cnt' = IF Saves' < Bits THEN Pow(Bits - 1 - Saves') ELSE 0
  <2>1. CASE k = 0
    BY <1>2, <1>4, <1>5, <1>7, <2>1, PowValues
  <2>2. CASE k > 0
    <3>1. k - 1 \in 0 .. 28 /\ k = (k - 1) + 1 /\ Bits - 1 - Saves' = k - 1 /\ Saves' < Bits
      BY <1>4, <1>5, <1>7, <2>2
    <3>2. Pow(k) \div 2 = Pow(k - 1)
      BY <3>1, PowDouble
    <3> QED BY <1>2, <1>5, <3>1, <3>2
  <2> QED BY <1>5, <2>1, <2>2
<1>11. cnt' \in 0 .. MaxWords
  BY <1>1, <1>2, <1>6, MaxIsNat DEF MemTypes
<1>12. MemTypes'
  BY <1>1, <1>3, <1>4, <1>7, <1>8, <1>9, <1>11 DEF MemTypes, Pow
<1>13. ram \in Nat /\ (ram # 0 => 0 \in Reached)
  BY <1>1, ReachedFacts
<1>14. Kept'
  <2>1. ASSUME NEW i \in 1 .. Saves + 1, Pow(Bits - i) < ram
        PROVE  save'[i] = before[Pow(Bits - i)]
    <3>1. CASE i \in 1 .. Saves
      BY <1>1, <1>7, <2>1, <3>1 DEF Kept
    <3>2. CASE i = Saves + 1
      <4>1. Bits - i = k
        BY <1>4, <1>5, <3>2
      <4>2. cnt < ram /\ ram # 0 /\ Cell(cnt) = cnt /\ cnt \in Words
        BY <1>5, <1>6, <1>8, <1>13, <2>1, <4>1 DEF Cell
      <4>3. memory[cnt] = before[cnt]
        <5>1. cnt < Pow(Bits - Saves)
          BY <1>5, <1>6, PowDouble
        <5> QED BY <1>1, <1>6, <4>2, <5>1, PowNat, <1>5 DEF GoingDown, Probed
      <4> QED BY <1>5, <1>7, <3>2, <4>1, <4>2, <4>3 DEF At
    <3> QED BY <1>4, <3>1, <3>2
  <2>2. ASSUME ram \notin {0, MaxWords}
        PROVE  save'[1] = before[0]
    <3>1. CASE Saves = 0
      <4>1. PICK j \in 0 .. Bits : ram = Pow(j)
        BY <1>1, <2>2 DEF MemTypes
      <4>2. j < Bits /\ k = Bits - 1
        BY <1>4, <1>5, <2>2, <3>1, <4>1, MaxIsPow
      <4>3. ram <= cnt
        <5>1. j = k \/ j < k
          BY <4>1, <4>2, <1>4
        <5>2. j \in 0 .. 29 /\ k \in 0 .. 29
          BY <1>5, <1>4
        <5> HIDE DEF k
        <5>3. Pow(j) \in Nat /\ Pow(k) \in Nat /\ (j < k => 2 * Pow(j) <= Pow(k))
          BY <5>2, PowOrder, PowNat
        <5> QED BY <1>5, <4>1, <5>1, <5>3
      <4>4. At(cnt) = memory[0]
        BY <1>6, <1>13, <2>2, <4>3 DEF At, Cell
      <4>5. memory[0] = before[0]
        BY <1>1, <2>2, <3>1 DEF GoingDown
      <4> QED BY <1>7, <3>1, <4>4, <4>5
    <3>2. CASE Saves > 0
      BY <1>1, <1>4, <1>7, <2>2, <3>2 DEF Kept
    <3> QED BY <1>4, <3>1, <3>2
  <2> QED BY <1>3, <1>7, <1>9, <2>1, <2>2 DEF Kept, Pow
<1>15. Probed(Pow(Bits - Saves))'
  <2>1. Bits - Saves' = k
    BY <1>4, <1>5, <1>7
  <2>2. Pow(k + 1) = 2 * cnt
    BY <1>5, PowDouble
  <2>3. ASSUME NEW w \in Words
        PROVE  memory'[w] = IF w >= cnt THEN Not(w) ELSE before[w]
    <3>1. w \in Nat /\ 0 < w /\ w < ram /\ w \in Powers /\ w \in Reached
      BY <1>1, ReachedFacts DEF Words
    <3>2. CASE w = cnt
      BY <1>8, <3>1, <3>2 DEF Cell
    <3>3. CASE w # cnt
      <4>1. w # Cell(cnt)
        BY <3>1, <3>3 DEF Cell
      <4>2. memory[w] = IF w >= Pow(k + 1) THEN Not(w) ELSE before[w]
        BY <1>1, <1>5 DEF GoingDown, Probed
      <4>3. w >= Pow(k + 1) <=> w >= cnt
        <5>1. PICK j \in 0 .. 29 : w = Pow(j)
          BY <3>1, PowersArePow
        <5>2. j = k \/ j < k \/ k < j
          BY <1>5
        <5>3. (j < k => 2 * w <= cnt) /\ (k < j => 2 * cnt <= w)
          BY <1>5, <5>1, PowOrder
        <5> QED BY <1>5, <1>6, <2>2, <3>1, <3>3, <5>1, <5>2, <5>3
      <4> QED BY <1>8, <3>1, <4>1, <4>2, <4>3
    <3> QED BY <3>2, <3>3
  <2> QED BY <1>3, <1>5, <1>9, <2>1, <2>3 DEF Probed, Pow
<1>16. ram' # 0 /\ (Saves' = 0 \/ ram' = MaxWords) => memory'[0] = before'[0]
  <2>1. ASSUME ram = MaxWords
        PROVE  memory'[0] = before[0]
    <3>1. cnt < ram
      <4>1. k < Bits /\ k \in 0 .. 29 /\ Bits \in 0 .. 29
        BY <1>4, <1>5
      <4>2. 2 * cnt <= MaxWords
        BY <1>5, <4>1, PowOrder, MaxIsPow
      <4> QED BY <1>6, <2>1, <4>2, MaxIsNat
    <3>2. memory[0] = before[0] /\ 0 \in Reached
      BY <1>1, <1>13, <2>1, MaxIsNat DEF GoingDown
    <3> QED BY <1>6, <1>8, <3>1, <3>2 DEF Cell
  <2> QED BY <1>3, <1>4, <1>7, <2>1
<1>17. GoingDown'
  BY <1>1, <1>3, <1>9, <1>10, <1>15, <1>16 DEF GoingDown
<1> QED BY <1>1, <1>3, <1>12, <1>14, <1>17 DEF Probing

(* Where the base is written all the words have been saved.                *)
LEMMA BaseLast ==
  ASSUME MemTypes, GoingDown, cnt = 0
  PROVE  Saves = Bits
<1>1. Saves \in Nat /\ Saves <= Bits /\ Bits \in 0 .. 28
  BY MaxIsPow DEF MemTypes, Saves
<1>2. ASSUME Saves < Bits PROVE FALSE
  <2>1. Bits - 1 - Saves \in 0 .. 29
    BY <1>1, <1>2
  <2> QED BY <1>2, <2>1, PowNat DEF GoingDown
<1> QED BY <1>1, <1>2

LEMMA ProbeBaseStep ==
  ASSUME Probing, ProbeBase
  PROVE  Probing'
<1>1. MemTypes /\ Kept /\ GoingDown /\ step = "down" /\ cnt = 0
  BY DEF Probing, ProbeBase
<1>2. /\ ram' = ram /\ before' = before /\ save' = save /\ size' = size
      /\ base' = At(0) /\ Put(0, 0)
      /\ IF At(0)' # 0 THEN step' = "no_ram" /\ cnt' = 0 ELSE step' = "up" /\ cnt' = 1
  BY DEF ProbeBase
<1>3. Reached' = Reached /\ Words' = Words /\ Bits' = Bits /\ Saves' = Saves
  BY <1>2, SameRam DEF Saves
<1>4. Saves = Bits /\ Bits \in 0 .. 28
  BY <1>1, BaseLast, MaxIsPow
<1>5. /\ memory' \in [Reached -> Int]
      /\ ram # 0 => memory'[0] = 0
      /\ \A w \in Words : memory'[w] = memory[w]
  <2>1. Cell(0) = 0
    BY DEF Cell
  <2> QED BY <1>1, <1>2, <2>1, PutFacts DEF Words
<1>6. At(0) \in Int
  BY <1>1, AtFacts
<1>7. cnt' \in 0 .. MaxWords
  BY <1>2, MaxIsNat
<1>8. MemTypes'
  BY <1>1, <1>2, <1>3, <1>5, <1>6, <1>7 DEF MemTypes, Pow
<1>9. Kept'
  BY <1>1, <1>2, <1>3 DEF Kept, Pow
<1>10. Probed(1) /\ Pow(Bits - Saves) = 1
  BY <1>1, <1>4, PowValues DEF GoingDown
<1>11. CASE ram = 0
  <2>1. At(0)' = Floating /\ Floating # 0
    BY <1>2, <1>11, BoardAssumption DEF At, BoardAssumption
  <2>2. NoRam'
    BY <1>1, <1>2, <1>3, <1>4, <1>11, <2>1 DEF NoRam, GoingDown
  <2> QED BY <1>2, <1>8, <1>9, <2>1, <2>2 DEF Probing
<1>12. CASE ram # 0
  <2>1. At(0)' = 0
    BY <1>2, <1>5, <1>12 DEF At, Cell
  <2>2. Probed(1)'
    BY <1>2, <1>3, <1>5, <1>10 DEF Probed
  <2>3. ram \in Nat \ {0}
    BY <1>1, <1>12, ReachedFacts
  <2>4. step' = "up" /\ cnt' = 1
    BY <1>2, <2>1
  <2>5. GoingUp'
    BY <1>1, <1>2, <1>3, <1>5, <1>10, <1>12, <2>2, <2>3, <2>4 DEF GoingUp, GoingDown, Pow, Probed
  <2> QED BY <1>8, <1>9, <2>4, <2>5 DEF Probing
<1> QED BY <1>11, <1>12

(* A word is still to be put back as long as the range is not at its end.  *)
LEMMA SomeSaved ==
  ASSUME MemTypes, cnt = Pow(Bits - Saves)
  PROVE  /\ Saves \in Nat /\ Bits - Saves \in 0 .. 28
         /\ cnt \in Nat \ {0}
         /\ cnt < MaxWords <=> Saves > 0
         /\ cnt <= MaxWords
<1>1. Saves \in Nat /\ Saves <= Bits /\ Bits \in 0 .. 28 /\ MaxWords = Pow(Bits)
  BY MaxIsPow DEF MemTypes, Saves
<1>2. Bits - Saves \in 0 .. 28 /\ Bits - Saves \in 0 .. 29 /\ Bits \in 0 .. 29
  BY <1>1
<1>3. cnt \in Nat \ {0} /\ MaxWords \in Nat \ {0}
  BY <1>2, MaxIsNat, PowNat
<1>4. CASE Saves = 0
  BY <1>1, <1>2, <1>3, <1>4
<1>5. CASE Saves > 0
  <2>1. Bits - Saves < Bits
    BY <1>1, <1>5
  <2>2. 2 * cnt <= MaxWords
    BY <1>1, <1>2, <2>1, PowOrder
  <2> QED BY <1>1, <1>2, <1>3, <1>5, <2>2
<1> QED BY <1>1, <1>4, <1>5

LEMMA GiveUpStep ==
  ASSUME Probing, GiveUp
  PROVE  Probing'
<1>1. MemTypes /\ Kept /\ NoRam /\ step = "no_ram" /\ ram = 0
  BY DEF Probing, GiveUp, NoRam
<1>2. ram' = ram /\ before' = before /\ base' = base /\ size' = size
  BY DEF GiveUp
<1>3. Reached' = Reached /\ Bits' = Bits
  BY <1>2, SameRam
<1>4. Reached = {} /\ MaxWords \in Nat \ {0}
  BY <1>1, ReachedFacts, MaxIsNat
<1>5. CASE cnt = 0 /\ Put(0, base) /\ cnt' = 1 /\ step' = step /\ save' = save
  <2>1. Saves' = Saves /\ Saves = Bits /\ Pow(Bits - Saves) = 1
    <3>1. Saves' = Saves
      BY <1>5 DEF Saves
    <3>2. Saves = Bits /\ Bits - Bits = 0
      BY <1>1, <1>5, MaxIsPow DEF NoRam
    <3> QED BY <3>1, <3>2, PowValues
  <2>2. memory' = memory
    BY <1>1, <1>5 DEF Put
  <2>3. MemTypes'
    BY <1>1, <1>2, <1>3, <1>4, <1>5, <2>1, <2>2 DEF MemTypes, Pow
  <2>4. Kept'
    BY <1>1, <1>2, <1>3, <1>5, <2>1 DEF Kept, Pow
  <2>5. NoRam'
    BY <1>1, <1>2, <1>3, <1>5, <2>1 DEF NoRam, Pow
  <2> QED BY <1>1, <1>5, <2>3, <2>4, <2>5 DEF Probing
<1>6. CASE cnt \in 1..(MaxWords - 1) /\ PutBack(cnt) /\ cnt' = 2 * cnt /\ step' = step
  <2>1. cnt = Pow(Bits - Saves) /\ cnt < MaxWords
    BY <1>1, <1>4, <1>6 DEF NoRam
  <2>2. /\ save' \in Seq(Int) /\ Saves' = Saves - 1 /\ Kept'
        /\ 2 * cnt = Pow(Bits - Saves') /\ 2 * cnt \in 0 .. MaxWords
        /\ memory' \in [Reached -> Int] /\ Saves \in Nat
    BY <1>1, <1>2, <1>6, <2>1, PutBackFacts, SomeSaved
  <2>3. MemTypes'
    <3>1. Saves' <= Bits
      BY <1>1, <2>2, MaxIsPow DEF MemTypes
    <3> QED BY <1>1, <1>2, <1>3, <1>6, <2>2, <3>1 DEF MemTypes, Pow
  <2>4. NoRam'
    BY <1>1, <1>2, <1>3, <1>6, <2>1, <2>2, SomeSaved DEF NoRam, Pow
  <2> QED BY <1>1, <1>6, <2>2, <2>3, <2>4 DEF Probing
<1>7. CASE cnt >= MaxWords /\ step' = "done" /\ memory' = memory /\ save' = save /\ cnt' = cnt
  <2>1. memory = before
    BY <1>1, <1>4 DEF MemTypes
  <2>2. Saves' = Saves
    BY <1>7 DEF Saves
  <2>3. MemTypes' /\ Kept'
    BY <1>1, <1>2, <1>3, <1>7, <2>2 DEF MemTypes, Kept, Pow
  <2>4. Found'
    BY <1>1, <1>2, <1>4, <1>7, <2>1 DEF Found, NoRam
  <2> QED BY <1>7, <2>3, <2>4 DEF Probing
<1> QED BY <1>5, <1>6, <1>7 DEF GiveUp

LEMMA ProbeUpStep ==
  ASSUME Probing, ProbeUp
  PROVE  Probing'
<1>1. MemTypes /\ Kept /\ GoingUp /\ step = "up" /\ cnt < MaxWords
  BY DEF Probing, ProbeUp
<1>2. /\ ram' = ram /\ before' = before /\ base' = base /\ cnt' = 2 * cnt /\ PutBack(cnt)
      /\ IF At(cnt) = Not(cnt) THEN step' = step /\ size' = size
                               ELSE step' = "restore" /\ size' = cnt
  BY DEF ProbeUp
<1>3. Reached' = Reached /\ Words' = Words /\ Bits' = Bits
  BY <1>2, SameRam
<1>4. /\ ram # 0 /\ cnt = Pow(Bits - Saves) /\ cnt <= ram /\ size = 0
      /\ Probed(cnt) /\ memory[0] = 0
  BY <1>1 DEF GoingUp
<1>5. /\ Saves \in Nat /\ Saves > 0 /\ Bits - Saves \in 0 .. 28 /\ cnt \in Nat \ {0}
      /\ ram \in Nat /\ MaxWords \in Nat
  BY <1>1, <1>4, SomeSaved, ReachedFacts, MaxIsNat
<1>6. /\ save' \in Seq(Int) /\ Saves' = Saves - 1 /\ Kept'
      /\ cnt' = Pow(Bits - Saves') /\ cnt' \in 0 .. MaxWords
      /\ memory' \in [Reached -> Int]
      /\ cnt < ram => memory'[cnt] = before[cnt]
      /\ cnt < ram => \A w \in Reached : w # cnt => memory'[w] = memory[w]
      /\ cnt >= ram => \A w \in Words : memory'[w] = memory[w]
      /\ cnt >= ram /\ Saves = 1 /\ ram \notin {0, MaxWords} => memory'[0] = before[0]
  BY <1>1, <1>2, <1>4, <1>5, PutBackFacts
<1>7. Saves' <= Bits
  BY <1>1, <1>5, <1>6, MaxIsPow DEF MemTypes
<1>8. \A w \in Words : w \in Nat /\ w < ram /\ w \in Powers /\ w \in Reached /\ 0 < w
  BY <1>1, ReachedFacts DEF Words
<1>9. CASE cnt < ram
  <2>1. cnt \in Words /\ 0 \in Reached /\ Cell(cnt) = cnt
    BY <1>1, <1>4, <1>5, <1>9, ReachedFacts DEF Cell
  <2>2. At(cnt) = Not(cnt)
    <3>1. memory[cnt] = IF cnt >= cnt THEN Not(cnt) ELSE before[cnt]
      BY <1>4, <2>1 DEF Probed
    <3> QED BY <1>4, <1>5, <2>1, <3>1 DEF At
  <2>3. step' = "up" /\ size' = 0
    BY <1>1, <1>2, <1>4, <2>2
  <2>4. MemTypes'
    BY <1>1, <1>2, <1>3, <1>6, <1>7, <2>3, <1>5 DEF MemTypes, Pow
  <2>5. cnt' <= ram
    <3>1. PICK j \in 0 .. Bits : ram = Pow(j)
      BY <1>1, <1>4 DEF MemTypes
    <3>2. j \in 0 .. 29 /\ Bits - Saves \in 0 .. 29
      BY <1>5, MaxIsPow
    <3>3. Bits - Saves < j
      BY <1>4, <1>9, <3>1, <3>2, PowOrder
    <3> QED BY <1>2, <1>4, <3>1, <3>2, <3>3, PowOrder
  <2>6. ASSUME NEW w \in Words
        PROVE  memory'[w] = IF w >= cnt' THEN Not(w) ELSE before[w]
    <3>1. PICK j \in 0 .. 29 : w = Pow(j)
      BY <1>8, PowersArePow
    <3>2. memory[w] = IF w >= cnt THEN Not(w) ELSE before[w]
      BY <1>4 DEF Probed
    <3>3. w >= cnt' <=> w >= cnt /\ w # cnt
      <4>1. Bits - Saves < j => 2 * cnt <= w
        BY <1>4, <1>5, <3>1, PowOrder
      <4>2. w > cnt => Bits - Saves < j
        BY <1>4, <1>5, <3>1, PowOrder
      <4> QED BY <1>2, <1>5, <1>8, <4>1, <4>2
    <3>4. CASE w = cnt
      BY <1>6, <1>9, <3>3, <3>4
    <3>5. CASE w # cnt
      BY <1>6, <1>8, <1>9, <3>2, <3>3, <3>5
    <3> QED BY <3>4, <3>5
  <2>7. memory'[0] = 0
    BY <1>4, <1>5, <1>6, <1>9, <2>1
  <2>8. GoingUp'
    BY <1>2, <1>3, <1>4, <1>6, <2>3, <2>5, <2>6, <2>7 DEF GoingUp, Probed, Pow
  <2> QED BY <1>6, <2>3, <2>4, <2>8 DEF Probing
<1>10. CASE cnt = ram
  <2>1. At(cnt) = 0 /\ Not(cnt) # 0
    BY <1>4, <1>5, <1>10 DEF At, Cell, Not
  <2>2. step' = "restore" /\ size' = ram /\ ram \notin {0, MaxWords}
    BY <1>1, <1>2, <1>4, <1>5, <1>10, <2>1
  <2>3. MemTypes'
    BY <1>1, <1>2, <1>3, <1>5, <1>6, <1>7, <1>10, <2>2 DEF MemTypes, Pow
  <2>4. ram < cnt'
    BY <1>2, <1>5, <1>10
  <2>5. \A w \in Words : memory'[w] = before[w]
    BY <1>4, <1>5, <1>6, <1>8, <1>10 DEF Probed
  <2>6. Saves' = 0 => memory'[0] = before[0]
    BY <1>5, <1>6, <1>10, <2>2
  <2>7. Restoring'
    BY <1>2, <1>3, <1>6, <2>2, <2>4, <2>5, <2>6 DEF Restoring, Pow
  <2> QED BY <1>6, <2>2, <2>3, <2>7 DEF Probing
<1> QED BY <1>4, <1>5, <1>9, <1>10

LEMMA AllThereStep ==
  ASSUME Probing, AllThere
  PROVE  Probing'
<1>1. MemTypes /\ Kept /\ GoingUp /\ step = "up" /\ cnt >= MaxWords
  BY DEF Probing, AllThere
<1>2. /\ step' = "done" /\ size' = MaxWords
      /\ UNCHANGED <<ram, before, memory, cnt, save, base>>
  BY DEF AllThere
<1>3. Reached' = Reached /\ Bits' = Bits /\ Saves' = Saves
  BY <1>2, SameRam DEF Saves
<1>4. ram = MaxWords /\ cnt = MaxWords /\ MaxWords \in Nat
  BY <1>1, MaxIsNat, ReachedFacts DEF GoingUp, MemTypes
<1>5. MemTypes' /\ Kept'
  BY <1>1, <1>2, <1>3, <1>4 DEF MemTypes, Kept, Pow
<1>6. memory = [before EXCEPT ![0] = 0]
  <2>1. \A w \in Words : w \in Nat /\ w < cnt
    BY <1>1, <1>4, ReachedFacts
  <2>2. \A w \in Words : memory[w] = before[w]
    BY <1>1, <1>4, <2>1 DEF GoingUp, Probed
  <2>3. memory[0] = 0
    BY <1>1 DEF GoingUp
  <2> QED BY <1>1, <2>2, <2>3 DEF MemTypes, Words
<1>7. Found'
  BY <1>2, <1>4, <1>6 DEF Found
<1> QED BY <1>2, <1>5, <1>7 DEF Probing

LEMMA RestoreStep ==
  ASSUME Probing, Restore
  PROVE  Probing'
<1>1. MemTypes /\ Kept /\ Restoring /\ step = "restore"
  BY DEF Probing, Restore
<1>2. ram' = ram /\ before' = before /\ base' = base /\ size' = size
  BY DEF Restore
<1>3. Reached' = Reached /\ Words' = Words /\ Bits' = Bits
  BY <1>2, SameRam
<1>4. /\ ram \notin {0, MaxWords} /\ cnt = Pow(Bits - Saves) /\ ram < cnt
      /\ size = ram /\ \A w \in Words : memory[w] = before[w]
      /\ Saves = 0 => memory[0] = before[0]
  BY <1>1 DEF Restoring
<1>5. /\ Saves \in Nat /\ cnt \in Nat \ {0} /\ (cnt < MaxWords <=> Saves > 0)
      /\ ram \in Nat /\ MaxWords \in Nat
  BY <1>1, <1>4, SomeSaved, ReachedFacts, MaxIsNat
<1>6. CASE cnt < MaxWords /\ PutBack(cnt) /\ cnt' = 2 * cnt /\ step' = step
  <2>1. /\ save' \in Seq(Int) /\ Saves' = Saves - 1 /\ Kept'
        /\ cnt' = Pow(Bits - Saves') /\ cnt' \in 0 .. MaxWords
        /\ memory' \in [Reached -> Int]
        /\ \A w \in Words : memory'[w] = memory[w]
        /\ Saves = 1 => memory'[0] = before[0]
    BY <1>1, <1>2, <1>4, <1>5, <1>6, PutBackFacts
  <2>2. Saves' <= Bits
    BY <1>1, <1>5, <2>1, MaxIsPow DEF MemTypes
  <2>3. MemTypes'
    BY <1>1, <1>2, <1>3, <1>6, <2>1, <2>2 DEF MemTypes, Pow
  <2>4. ram < cnt'
    BY <1>4, <1>5, <1>6
  <2>5. Saves' = 0 => memory'[0] = before[0]
    BY <1>5, <2>1
  <2>6. Restoring'
    BY <1>2, <1>3, <1>4, <2>1, <2>4, <2>5 DEF Restoring, Pow
  <2> QED BY <1>1, <1>6, <2>1, <2>3, <2>6 DEF Probing
<1>7. CASE cnt >= MaxWords /\ step' = "done" /\ UNCHANGED <<memory, cnt, save>>
  <2>1. Saves = 0 /\ Saves' = Saves
    BY <1>5, <1>7 DEF Saves
  <2>2. MemTypes' /\ Kept'
    BY <1>1, <1>2, <1>3, <1>7, <2>1 DEF MemTypes, Kept, Pow
  <2>3. memory = before
    <3>1. \A w \in Reached : memory[w] = before[w]
      BY <1>4, <2>1 DEF Words
    <3> QED BY <1>1, <3>1 DEF MemTypes
  <2>4. Found'
    BY <1>2, <1>4, <1>7, <2>3 DEF Found
  <2> QED BY <1>7, <2>2, <2>4 DEF Probing
<1> QED BY <1>6, <1>7 DEF Restore

LEMMA ProbingStep ==
  ASSUME Probing, GetRamSize
  PROVE  Probing'
BY ProbeDownStep, ProbeBaseStep, GiveUpStep, ProbeUpStep, AllThereStep, RestoreStep DEF GetRamSize

(* A call that begins, the first one and the one U-Boot makes.             *)
LEMMA FirstCount ==
  MaxWords \div 2 = (IF 0 < Bits THEN Pow(Bits - 1 - 0) ELSE 0) /\ MaxWords \div 2 \in 0 .. MaxWords
<1>1. CASE Bits = 0
  BY <1>1, MaxIsPow, PowValues
<1>2. CASE Bits > 0
  <2>1. Bits - 1 \in 0 .. 28 /\ Bits = (Bits - 1) + 1
    BY <1>2, MaxIsPow
  <2>2. MaxWords = 2 * Pow(Bits - 1) /\ MaxWords \div 2 = Pow(Bits - 1)
    BY <2>1, MaxIsPow, PowDouble
  <2> QED BY <1>2, <2>1, <2>2, MaxIsNat, MaxIsPow
<1> QED BY <1>1, <1>2, MaxIsPow

LEMMA CallAgainStep ==
  ASSUME Probing, CallAgain
  PROVE  Probing'
<1>1. MemTypes
  BY DEF Probing
<1>2. /\ ram' = ram /\ memory' = memory /\ before' = memory /\ base' = base
      /\ step' = "down" /\ cnt' = MaxWords \div 2 /\ save' = <<>> /\ size' = 0
  BY DEF CallAgain
<1>3. Reached' = Reached /\ Words' = Words /\ Bits' = Bits
  BY <1>2 DEF Reached, Words, Bits, Pow
<1>4. Saves' = 0 /\ Bits \in 0 .. 28 /\ MaxWords = Pow(Bits)
  BY <1>2, MaxIsPow DEF Saves
<1>5. MemTypes'
  BY <1>1, <1>2, <1>3, <1>4, FirstCount, MaxIsNat DEF MemTypes, Pow
<1>6. Kept'
  BY <1>4 DEF Kept
<1>7. Probed(Pow(Bits - Saves))'
  <2>1. \A w \in Words : w \in Nat /\ w < MaxWords
    BY <1>1, ReachedFacts, MaxIsNat DEF MemTypes
  <2>2. Pow(Bits - Saves)' = MaxWords
    BY <1>3, <1>4 DEF Pow
  <2> QED BY <1>2, <1>3, <2>1, <2>2, MaxIsNat DEF Probed
<1>8. GoingDown'
  BY <1>2, <1>3, <1>4, <1>7, FirstCount DEF GoingDown, Pow
<1> QED BY <1>2, <1>5, <1>6, <1>8 DEF Probing

LEMMA ProbingKept ==
  ASSUME Probing, UNCHANGED memVars
  PROVE  Probing'
BY DEF memVars, Probing, MemTypes, Kept, GoingDown, GoingUp, Restoring, NoRam, Found, Probed,
       Saves, Words, Reached, Bits, Pow

LEMMA ProbingInit ==
  ASSUME MemInit({0} \cup {w \in Powers : w <= MaxWords})
  PROVE  Probing
<1>1. /\ ram \in {0} \cup {w \in Powers : w <= MaxWords}
      /\ before = memory
      /\ step = "down" /\ cnt = MaxWords \div 2 /\ save = <<>> /\ base = 0 /\ size = 0
  BY DEF MemInit
<1>2. Saves = 0 /\ Bits \in 0 .. 28 /\ MaxWords = Pow(Bits) /\ MaxWords \in Nat \ {0}
  BY <1>1, MaxIsPow, MaxIsNat DEF Saves
<1>3. ram = 0 \/ \E k \in 0 .. Bits : ram = Pow(k)
  <2>1. CASE ram # 0
    <3>1. PICK k \in 0 .. 29 : ram = Pow(k)
      BY <1>1, <2>1, PowersArePow
    <3>2. Pow(k) <= Pow(Bits)
      BY <1>1, <1>2, <2>1, <3>1
    <3>3. k \in 0 .. Bits
      <4>1. Bits \in 0 .. 29 /\ (Bits < k => 2 * Pow(Bits) <= Pow(k))
        BY <1>2, PowOrder
      <4> QED BY <1>2, <3>2, <4>1, PowNat
    <3> QED BY <3>1, <3>3
  <2> QED BY <2>1
<1>4. memory \in [Reached -> Int]
  <2>1. PICK fill \in Fills : memory = [w \in Reached |-> fill[w]]
    BY DEF MemInit
  <2>2. Reached \subseteq Addresses
    BY DEF Reached, Addresses
  <2>3. \A w \in Addresses : fill[w] \in Int
    BY BoardAssumption DEF BoardAssumption
  <2> QED BY <2>1, <2>2, <2>3
<1>5. MemTypes
  BY <1>1, <1>2, <1>3, <1>4, FirstCount DEF MemTypes
<1>6. Kept
  BY <1>2 DEF Kept
<1>7. GoingDown
  <2>1. \A w \in Words : w \in Nat /\ w < MaxWords
    BY <1>5, <1>2, ReachedFacts
  <2>2. Probed(Pow(Bits - Saves))
    BY <1>1, <1>2, <2>1 DEF Probed
  <2> QED BY <1>1, <1>2, <2>2, FirstCount DEF GoingDown
<1> QED BY <1>1, <1>5, <1>6, <1>7 DEF Probing

(***************************************************************************)
(* The inductive invariant: the probing is as above; once the RAM is laid  *)
(* out the addresses are in order; what a stage has stored to is where     *)
(* that stage should store.                                                *)
(***************************************************************************)
(* Each part of the layout against the next one below.                     *)
Laid ==
  /\ gd.tlb_addr + TlbSize <= gd.ram_size
  /\ gd.ram_size - TlbSize - 64 * Kib < gd.tlb_addr
  /\ gd.relocaddr + image.copy + image.bss <= gd.tlb_addr
  /\ gd.tlb_addr - image.copy - image.bss - 8 * Kib < gd.relocaddr
  /\ gd.bd = gd.relocaddr - MallocLen - BdSize
  /\ gd.id = gd.bd - GdSize /\ gd.irq_sp = gd.id
  /\ gd.start_addr_sp <= gd.id - 12
  /\ gd.id - 20 < gd.start_addr_sp
  /\ gd.reloc_off = gd.relocaddr - TextBase

Stored ==
  \/ stores = {}
  \/ pc = "relocate_code" /\ stores = {Region("bd", gd.bd, BdSize), Region("gd", gd.id, GdSize)}
  \/ pc = "fixloop" /\ stores = {Region("copy", gd.relocaddr, image.copy + (image.copy % 8))}
  \/ pc = "clear_bss" /\ stores = {Region("fixup", WordAfterImage + gd.reloc_off - SdramBase, 4)}
  \/ pc = "enable_caches" /\ stores = {Bss}
  \/ pc = "mem_malloc_init" /\ stores = {Region("tlb", gd.tlb_addr, TlbSize), Region("bd", gd.bd, BdSize)}
  \/ pc = "interrupt_init" /\ stores = {Region("heap", gd.relocaddr - MallocLen, MallocLen)}
  \/ pc = "main_loop" /\ stores = {Region("program", TextBase, image.copy)}

Stages == LaidOut \cup {"dramc_init", "lost", "dram_init", "reserve"}

BoardInv ==
  /\ Probing
  /\ pc \in Stages
  /\ image \in Images
  /\ gd \in [DOMAIN NoGd -> Int]
  /\ gd.ram_size \in 0..(4 * MaxWords)
  /\ pc \in LaidOut => Laid
  /\ pc \in Running => IRQ_STACK_START_IN = gd.id + 8
  /\ Stored

(* What the addresses of the layout are, whatever the size of the RAM.     *)
LEMMA LayoutInOrder ==
  ASSUME NEW top \in Int, NEW monlen \in Int,
         NEW tlb, tlb = TlbAddr(top),
         NEW reloc, reloc = Down(Down(tlb, 4 * Kib) - monlen, 4 * Kib),
         NEW sp, NEW irq, irq = BdAddr(reloc) - GdSize, sp = StackTop(irq)
  PROVE  /\ tlb \in Int /\ reloc \in Int /\ sp \in Int
         /\ tlb + TlbSize <= top /\ top - TlbSize - 64 * Kib < tlb
         /\ reloc + monlen <= tlb /\ tlb - monlen - 8 * Kib < reloc
         /\ sp <= irq - 12 /\ irq - 20 < sp
<1>1. tlb \in Int /\ tlb + TlbSize <= top /\ top - TlbSize - 64 * Kib < tlb
  BY Down64K DEF TlbAddr, TlbSize, Kib
<1>2. /\ Down(tlb, 4 * Kib) \in Int
      /\ Down(tlb, 4 * Kib) <= tlb /\ tlb - 4 * Kib < Down(tlb, 4 * Kib)
  BY <1>1, Down4K
<1>3. /\ reloc \in Int
      /\ reloc + monlen <= tlb /\ tlb - monlen - 8 * Kib < reloc
  BY <1>1, <1>2, Down4K DEF Kib
<1>4. irq \in Int
  BY <1>3 DEF BdAddr, MallocLen, BdSize, GdSize, Kib, Mib
<1>5. sp \in Int /\ sp <= irq - 12 /\ irq - 20 < sp
  BY <1>4, Down8 DEF StackTop
<1> QED BY <1>1, <1>3, <1>5

LEMMA BoardInvInit == Init => BoardInv
<1> SUFFICES ASSUME Init PROVE BoardInv
  OBVIOUS
<1>1. Probing
  BY ProbingInit DEF Init
<1>2. gd \in [DOMAIN NoGd -> Int] /\ gd.ram_size \in 0..(4 * MaxWords)
  BY MaxIsNat DEF Init, NoGd
<1> QED BY <1>1, <1>2
  DEF Init, BoardInv, Stages, Stored, LaidOut, BssUp, CachesUp, HeapUp, Running

LEMMA BoardInvStep == BoardInv /\ [Next]_vars => BoardInv'
<1> SUFFICES ASSUME BoardInv, [Next]_vars PROVE BoardInv'
  OBVIOUS
<1> USE BoardAssumption DEF BoardInv
<1> DEFINE SameLayout == image' = image /\ gd' = gd
<1>1. ASSUME SameLayout, Laid PROVE Laid'
  BY <1>1 DEF Laid
<1>2. CASE DramcInit
  <2>1. Probing'
    BY <1>2, ProbingStep, CallAgainStep, ProbingKept DEF DramcInit
  <2>2. SameLayout /\ pc' \in {"dramc_init", "dram_init", "lost"} /\ stores' = stores
    BY <1>2 DEF DramcInit
  <2>3. stores = {}
    BY <1>2 DEF DramcInit, Stored
  <2> QED BY <2>1, <2>2, <2>3 DEF Stages, Stored, LaidOut, BssUp, CachesUp, HeapUp, Running
<1>3. CASE DramInit
  <2>1. Probing'
    BY <1>3, ProbingStep, ProbingKept DEF DramInit
  <2>2. image' = image /\ pc' \in {"dram_init", "reserve"} /\ stores' = {}
    BY <1>3 DEF DramInit, Stored
  <2>3. gd' \in [DOMAIN NoGd -> Int] /\ gd'.ram_size \in 0..(4 * MaxWords)
    BY <1>3, MaxIsNat, SMTT(30) DEF DramInit, Probing, MemTypes, NoGd
  <2> QED BY <2>1, <2>2, <2>3 DEF Stages, Stored, LaidOut, BssUp, CachesUp, HeapUp, Running
<1>4. CASE Reserve
  <2> DEFINE tlb   == TlbAddr(gd.ram_size)
             reloc == RelocAddr(tlb)
             bd    == BdAddr(reloc)
             id    == bd - GdSize
  <2>1. MonLen \in Int /\ image.copy \in Int /\ image.bss \in Int
    BY DEF BoardAssumption, MonLen
  <2>2. /\ tlb \in Int /\ reloc \in Int /\ StackTop(id) \in Int
        /\ tlb + TlbSize <= gd.ram_size /\ gd.ram_size - TlbSize - 64 * Kib < tlb
        /\ reloc + MonLen <= tlb /\ tlb - MonLen - 8 * Kib < reloc
        /\ StackTop(id) <= id - 12 /\ id - 20 < StackTop(id)
    <3>1. gd.ram_size \in Int
      BY MaxIsNat
    <3> HIDE DEF tlb, bd, id
    <3>2. tlb = TlbAddr(gd.ram_size) /\ reloc = Down(Down(tlb, 4 * Kib) - MonLen, 4 * Kib)
      BY DEF tlb, RelocAddr
    <3>3. id = BdAddr(reloc) - GdSize
      BY DEF id, bd
    <3> QED BY <2>1, <3>1, <3>2, <3>3, LayoutInOrder, ZenonT(40)
  <2>3. /\ gd' = [gd EXCEPT !.tlb_addr = tlb, !.relocaddr = reloc, !.bd = bd, !.id = id,
                            !.irq_sp = id, !.start_addr_sp = StackTop(id), !.reloc_off = reloc - TextBase]
        /\ stores' = {Region("bd", bd, BdSize), Region("gd", id, GdSize)}
        /\ pc' = "relocate_code" /\ image' = image /\ UNCHANGED memVars
    BY <1>4 DEF Reserve
  <2>4. bd \in Int /\ id \in Int /\ reloc - TextBase \in Int
    BY <2>2 DEF BdAddr, MallocLen, BdSize, GdSize, TextBase, Kib, Mib
  <2>5. /\ gd' \in [DOMAIN NoGd -> Int]
        /\ gd'.ram_size = gd.ram_size /\ gd'.tlb_addr = tlb /\ gd'.relocaddr = reloc
        /\ gd'.bd = bd /\ gd'.id = id /\ gd'.irq_sp = id /\ gd'.start_addr_sp = StackTop(id)
        /\ gd'.reloc_off = reloc - TextBase
    <3> HIDE DEF tlb, reloc, bd, id
    <3> QED BY <2>2, <2>3, <2>4 DEF NoGd
  <2>6. Laid'
    <3>1. bd = reloc - MallocLen - BdSize /\ id = bd - GdSize 
      BY DEF BdAddr
    <3> HIDE DEF tlb, reloc, bd, id
    <3> QED BY <2>1, <2>2, <2>3, <2>5, <3>1 DEF Laid, MonLen
  <2>7. Stored'
    <3> HIDE DEF tlb, reloc, bd, id
    <3> QED BY <2>3, <2>5 DEF Stored
  <2>8. Probing'
    BY <2>3, ProbingKept
  <2> QED BY <2>3, <2>5, <2>6, <2>7, <2>8 DEF Stages, LaidOut, BssUp, CachesUp, HeapUp, Running
<1>5. CASE Copy \/ FixUp \/ ClearBss \/ EnableCaches \/ MemMallocInit \/ InterruptInit
  <2>1. SameLayout /\ UNCHANGED memVars /\ pc \in LaidOut /\ pc' \in Stages
    BY <1>5 DEF Copy, FixUp, ClearBss, EnableCaches, MemMallocInit, InterruptInit,
                Stages, LaidOut, BssUp, CachesUp, HeapUp, Running
  <2>2. Stored'
    <3>1. CASE Copy BY <3>1 DEF Copy, Stored
    <3>2. CASE FixUp BY <3>2 DEF FixUp, Stored
    <3>3. CASE ClearBss BY <3>3 DEF ClearBss, Stored, Bss, Region
    <3>4. CASE EnableCaches BY <3>4 DEF EnableCaches, Stored
    <3>5. CASE MemMallocInit BY <3>5 DEF MemMallocInit, Stored
    <3>6. CASE InterruptInit BY <3>6 DEF InterruptInit, Stored
    <3> QED BY <1>5, <3>1, <3>2, <3>3, <3>4, <3>5, <3>6
  <2>3. pc' \in Running => IRQ_STACK_START_IN' = gd'.id + 8
    <3>1. pc' \in Running => InterruptInit
      BY <1>5 DEF Copy, FixUp, ClearBss, EnableCaches, MemMallocInit, InterruptInit, Running
    <3>2. InterruptInit => IRQ_STACK_START_IN' = gd.irq_sp + 8
      BY DEF InterruptInit
    <3>3. gd.irq_sp = gd.id /\ gd' = gd
      BY <2>1 DEF Laid
    <3> QED BY <3>1, <3>2, <3>3
  <2> QED BY <2>1, <2>2, <2>3, <1>1, ProbingKept
<1>6. CASE UNCHANGED vars
  <2>1. /\ SameLayout /\ pc' = pc /\ stores' = stores /\ Probing'
        /\ IRQ_STACK_START_IN' = IRQ_STACK_START_IN
    BY <1>6, ProbingKept DEF vars, boardVars
  <2>2. Stored'
    BY <2>1 DEF Stored, Bss
  <2>3. pc' \in LaidOut => Laid'
    BY <2>1, <1>1
  <2> QED BY <2>1, <2>2, <2>3
<1> QED BY <1>2, <1>3, <1>4, <1>5, <1>6 DEF Next, Boot, Stays

(***************************************************************************)
(* Every region has its place in the order of addresses.                   *)
(***************************************************************************)
Placed(r) ==
  \/ r.name = "program" /\ r.lo = TextBase /\ r.hi = TextBase + image.copy
  \/ r.name = "bss" /\ r.lo = TextBase + image.copy /\ r.hi = TextBase + image.copy + image.bss
  \/ r.name = "common" /\ r.lo = TextBase + image.copy + image.bss /\ r.hi <= 161 * Mib
  \/ r.name = "fixup" /\ r.hi <= 0
  \/ r.name = "stack" /\ 161 * Mib <= r.lo /\ r.hi <= gd.id
  \/ r.name = "gd" /\ r.lo = gd.id /\ r.hi = gd.bd
  \/ r.name = "abort" /\ r.lo = gd.id + 8 /\ r.hi = gd.id + 16
  \/ r.name = "bd" /\ r.lo = gd.bd /\ r.hi = gd.relocaddr - MallocLen
  \/ r.name = "heap" /\ r.lo = gd.relocaddr - MallocLen /\ r.hi = gd.relocaddr
  \/ r.name = "copy" /\ r.lo = gd.relocaddr
  \/ r.name = "tlb" /\ r.lo = gd.tlb_addr

LEMMA AllPlaced ==
  ASSUME BoardInv, pc \in LaidOut, gd.ram_size >= 256 * Mib, NEW r \in InUse \cup stores
  PROVE  Placed(r) /\ r.lo \in Int /\ r.hi \in Int
<1>1. /\ image.copy \in Nat /\ image.bss \in Nat /\ image.common \in Nat
      /\ image.copy + image.bss + image.common <= Mib
      /\ StackDepth \in Nat /\ StackDepth <= 256 * Kib /\ MaxWords \in Nat /\ MaxWords <= 256 * Mib
  BY BoardAssumption, MaxIsNat DEF BoardAssumption, BoardInv
<1>2. /\ gd.tlb_addr \in Int /\ gd.relocaddr \in Int /\ gd.bd \in Int /\ gd.id \in Int
      /\ gd.start_addr_sp \in Int /\ gd.reloc_off \in Int /\ gd.ram_size \in Int
      /\ gd.ram_size <= 1024 * Mib
  BY <1>1 DEF BoardInv, NoGd, Kib, Mib
<1>3. Laid
  BY DEF BoardInv
<1>4. CASE r \in {Program, Bss, Common}
  BY <1>1, <1>4 DEF Program, Bss, Common, MonLen, Region, Placed, TextBase, Kib, Mib
<1>5. CASE r = AbortStack /\ pc \in Running
  BY <1>2, <1>5 DEF BoardInv, AbortStack, Region, Placed
<1>6. CASE r \in {Region("bd", gd.bd, BdSize), Region("gd", gd.id, GdSize)}
  BY <1>2, <1>3, <1>6 DEF Region, Placed, Laid, BdSize, GdSize, MallocLen, Kib, Mib
<1>7. CASE r = Stack
  BY <1>1, <1>2, <1>3, <1>7 DEF Stack, Region, Placed, Laid, BdSize, GdSize, TlbSize, MallocLen, Kib, Mib
<1>8. CASE r \in {Region("tlb", gd.tlb_addr, TlbSize), Region("heap", gd.relocaddr - MallocLen, MallocLen)}
  BY <1>2, <1>8 DEF Region, Placed, TlbSize, MallocLen, Kib, Mib
<1>9. CASE r = Region("copy", gd.relocaddr, image.copy + (image.copy % 8))
  BY <1>1, <1>2, <1>9 DEF Region, Placed
<1>10. CASE r = Region("fixup", WordAfterImage + gd.reloc_off - SdramBase, 4)
  BY <1>1, <1>2, <1>3, <1>10 DEF Region, Placed, WordAfterImage, Laid, SdramBase, TextBase, TlbSize, Kib, Mib
<1>11. pc \notin {"dram_init", "reserve"}
  BY DEF LaidOut, BssUp, CachesUp, HeapUp, Running
<1>12. r \in InUse => \/ r \in {Program, Bss, Common} \/ r = Stack
                      \/ r = AbortStack /\ pc \in Running
                      \/ r \in {Region("bd", gd.bd, BdSize), Region("gd", gd.id, GdSize)}
                      \/ r \in {Region("tlb", gd.tlb_addr, TlbSize), Region("heap", gd.relocaddr - MallocLen, MallocLen)}
  BY <1>11 DEF InUse, From
<1>13. r \in stores => \/ r \in {Program, Bss}
                       \/ r \in {Region("bd", gd.bd, BdSize), Region("gd", gd.id, GdSize)}
                       \/ r \in {Region("tlb", gd.tlb_addr, TlbSize), Region("heap", gd.relocaddr - MallocLen, MallocLen)}
                       \/ r = Region("copy", gd.relocaddr, image.copy + (image.copy % 8))
                       \/ r = Region("fixup", WordAfterImage + gd.reloc_off - SdramBase, 4)
  BY DEF BoardInv, Stored, Program
<1> QED BY <1>4, <1>6, <1>7, <1>8, <1>9, <1>10, <1>12, <1>13, <1>5

LEMMA PlacedApart ==
  ASSUME BoardInv, pc \in LaidOut, gd.ram_size >= 256 * Mib,
         NEW r, Placed(r), r.lo \in Int, r.hi \in Int,
         NEW s, Placed(s), s.lo \in Int, s.hi \in Int, s.name # "copy", s.name # "fixup",
         r.name # s.name, r.name = "copy" => s.name # "tlb",
         r.name = "abort" => s.name # "gd", r.name = "gd" => s.name # "abort"
  PROVE  Apart(r, s)
<1>1. /\ image.copy \in Nat /\ image.bss \in Nat /\ image.common \in Nat
      /\ image.copy + image.bss + image.common <= Mib
  BY BoardAssumption DEF BoardAssumption, BoardInv
<1>2. /\ gd.tlb_addr \in Int /\ gd.relocaddr \in Int /\ gd.bd \in Int /\ gd.id \in Int
      /\ gd.ram_size \in Int /\ gd.start_addr_sp \in Int /\ Laid
  BY MaxIsNat DEF BoardInv, NoGd
<1>3. /\ gd.id + 16 <= gd.bd /\ gd.bd <= gd.relocaddr - MallocLen /\ gd.relocaddr <= gd.tlb_addr
      /\ 161 * Mib <= gd.id
  BY <1>1, <1>2 DEF Laid, BdSize, GdSize, TlbSize, MallocLen, Kib, Mib
<1>4. CASE s.name = "program"
  BY <1>1, <1>2, <1>3, <1>4 DEF Placed, Apart, TextBase, MallocLen, Kib, Mib
<1>5. CASE s.name = "bss"
  BY <1>1, <1>2, <1>3, <1>5 DEF Placed, Apart, TextBase, MallocLen, Kib, Mib
<1>6. CASE s.name = "common"
  BY <1>1, <1>2, <1>3, <1>6 DEF Placed, Apart, TextBase, MallocLen, Kib, Mib
<1>7. CASE s.name = "stack"
  BY <1>1, <1>2, <1>3, <1>7 DEF Placed, Apart, TextBase, MallocLen, Kib, Mib
<1>8. CASE s.name = "gd"
  BY <1>1, <1>2, <1>3, <1>8 DEF Placed, Apart, TextBase, MallocLen, Kib, Mib
<1>9. CASE s.name = "bd"
  BY <1>1, <1>2, <1>3, <1>9 DEF Placed, Apart, TextBase, MallocLen, Kib, Mib
<1>10. CASE s.name = "heap"
  BY <1>1, <1>2, <1>3, <1>10 DEF Placed, Apart, TextBase, MallocLen, Kib, Mib
<1>11. CASE s.name = "tlb"
  BY <1>1, <1>2, <1>3, <1>11 DEF Placed, Apart, TextBase, MallocLen, Kib, Mib
<1>12. CASE s.name = "abort"
  BY <1>1, <1>2, <1>3, <1>12 DEF Placed, Apart, TextBase, MallocLen, Kib, Mib
<1> QED BY <1>4, <1>5, <1>6, <1>7, <1>8, <1>9, <1>10, <1>11, <1>12 DEF Placed

(* What U-Boot lays out in 256 MiB of RAM or more stays apart, and so do   *)
(* its stores: the invariant gives RegionsApart.                           *)
LEMMA BoardInvApart == BoardInv => RegionsApart
<1> SUFFICES ASSUME BoardInv, gd.ram_size >= 256 * Mib
             PROVE  /\ \A r \in InUse \cup stores, s \in InUse :
                         r.name = s.name \/ Overlapping(r, s) \/ Apart(r, s)
                    /\ pc \in Running => gd.id + 8 <= AbortStack.lo /\ AbortStack.hi <= gd.id + 16
                    /\ pc \in LaidOut => 0 <= gd.start_addr_sp - StackDepth /\ gd.tlb_addr + TlbSize <= gd.ram_size
  BY DEF RegionsApart
<1>0. /\ image.copy \in Nat /\ image.bss \in Nat /\ image.common \in Nat
      /\ image.copy + image.bss + image.common <= Mib
      /\ StackDepth \in Nat /\ StackDepth <= 256 * Kib
  BY BoardAssumption DEF BoardAssumption, BoardInv
<1>1. CASE pc \in LaidOut
  <2>1. ASSUME NEW r \in InUse \cup stores, NEW s \in InUse, r.name # s.name, ~Overlapping(r, s)
        PROVE  Apart(r, s)
    <3>1. /\ Placed(r) /\ r.lo \in Int /\ r.hi \in Int
          /\ Placed(s) /\ s.lo \in Int /\ s.hi \in Int
      BY <1>1, AllPlaced
    <3>2. s.name \notin {"copy", "fixup"}
      BY DEF InUse, From, Program, Common, Sram, Stack, AbortStack, Bss, Region
    <3>3. r.name = "copy" => s.name # "tlb"
      <4>1. r.name = "copy" => pc = "fixloop"
        BY DEF BoardInv, Stored, InUse, From, Program, Common, Sram, Stack, AbortStack, Bss, Region
      <4>2. pc = "fixloop" => s.name # "tlb"
        BY DEF InUse, From, Program, Common, Sram, Stack, Bss, Region, CachesUp, HeapUp, Running
      <4> QED BY <4>1, <4>2
    <3>4. /\ r.name = "abort" => s.name # "gd"
          /\ r.name = "gd" => s.name # "abort"
      BY <2>1 DEF Overlapping
    <3> QED BY <1>1, <2>1, <3>1, <3>2, <3>3, <3>4, PlacedApart
  <2>2. 0 <= gd.start_addr_sp - StackDepth /\ gd.tlb_addr + TlbSize <= gd.ram_size
    BY <1>0, <1>1 DEF BoardInv, Laid, NoGd, BdSize, GdSize, TlbSize, MallocLen, Kib, Mib
  <2>3. pc \in Running => gd.id + 8 <= AbortStack.lo /\ AbortStack.hi <= gd.id + 16
    BY DEF BoardInv, NoGd, AbortStack, Region
  <2> QED BY <2>1, <2>2, <2>3
<1>2. CASE pc \notin LaidOut
  <2>1. stores = {}
    BY <1>2 DEF BoardInv, Stored, LaidOut, BssUp, CachesUp, HeapUp, Running
  <2>2. InUse \subseteq {Program, Common, Sram}
    BY <1>2 DEF InUse, From, LaidOut, BssUp, CachesUp, HeapUp, Running
  <2>3. Apart(Program, Common) /\ Apart(Common, Program)
    BY <1>0 DEF Program, Common, MonLen, Region, Apart, TextBase, Kib, Mib
  <2>4. /\ Apart(Program, Sram) /\ Apart(Sram, Program)
        /\ Apart(Common, Sram) /\ Apart(Sram, Common)
    BY <1>0 DEF Program, Common, MonLen, Sram, Region, Apart, TextBase, SdramBase, Kib, Mib
  <2>5. pc \notin Running
    BY <1>2 DEF LaidOut, BssUp, CachesUp, HeapUp
  <2> QED BY <1>2, <2>1, <2>2, <2>3, <2>4, <2>5
<1> QED BY <1>1, <1>2

(* What has been found when get_ram_size returns; and the words it probes  *)
(* lie below the program or above it.                                      *)
LEMMA BoardInvFound == BoardInv => SizeFound
<1> SUFFICES ASSUME BoardInv PROVE SizeFound
  OBVIOUS
<1>1. step = "done" => Found
  BY DEF BoardInv, Probing
<1>2. ASSUME NEW w \in Reached, NEW r \in {Program, Bss, Common}
      PROVE  Apart(Region("probe", 4 * w, 4), r)
  <2>1. /\ image.copy \in Nat /\ image.bss \in Nat /\ image.common \in Nat
        /\ image.copy + image.bss + image.common <= Mib
    BY BoardAssumption DEF BoardAssumption, BoardInv
  <2>2. r.lo \in Int /\ r.hi \in Int /\ TextBase <= r.lo /\ r.hi <= TextBase + Mib
    BY <2>1 DEF Program, Bss, Common, MonLen, Region, TextBase, Kib, Mib
  <2>3. w = 0 \/ \E k \in 0 .. 29 : w = Pow(k)
    BY PowersArePow DEF Reached
  <2>4. w \in Nat /\ (w <= Pow(25) \/ w >= Pow(26))
    BY <2>3, PowValues
  <2> QED BY <2>2, <2>4, PowValues DEF Apart, Region, TextBase, Kib, Mib
<1> QED BY <1>1, <1>2 DEF SizeFound, Found

LEMMA BoardInvTypes == BoardInv => TypeOK
<1> SUFFICES ASSUME BoardInv PROVE TypeOK
  OBVIOUS
<1>1. MemTypes /\ pc \in Stages /\ image \in Images
  BY DEF BoardInv, Probing
<1>2. step \in {"down", "no_ram", "up", "restore", "done"}
  BY DEF BoardInv, Probing
<1>3. Len(save) \in 0 .. 31
  <2>1. Saves \in Nat /\ Saves <= Bits
    BY <1>1 DEF MemTypes, Saves
  <2>2. Saves \in 0 .. 31
    BY <2>1, MaxIsPow
  <2> QED BY <2>2 DEF Saves
<1> QED BY <1>1, <1>2, <1>3
  DEF TypeOK, MemTypes, Stages, LaidOut, BssUp, CachesUp, HeapUp, Running

LEMMA Invariant == Spec => []BoardInv
BY BoardInvInit, BoardInvStep, PTL DEF Spec

(* The stage and the counters of the probing stay in their ranges.         *)
THEOREM TypeCorrect == Spec => []TypeOK
BY Invariant, BoardInvTypes, PTL

(* get_ram_size finds the RAM there is, whatever power of two that is and  *)
(* whatever it holds (Fills is any set of contents), and puts back what it *)
(* has overwritten.                                                        *)
THEOREM SizeFoundHolds == Spec => []SizeFound
BY Invariant, BoardInvFound, PTL

(* The whole start-up keeps the regions in use apart, whatever the image   *)
(* and the size of the RAM, but for the abort stack, which lies in the     *)
(* global data and there on two words alone.                               *)
THEOREM RegionsStayApart == Spec => []RegionsApart
BY Invariant, BoardInvApart, PTL

(***************************************************************************)
(* The start-up runs out: the steps that are left, at most.  A call of     *)
(* get_ram_size halves cnt to 0, writes the first word and doubles cnt to  *)
(* the end of the range; what is saved counts the way back.                *)
(***************************************************************************)
CallSteps == 2 * Bits + 3

ProbesLeft ==
  CASE step = "down"   -> CallSteps - Saves
    [] step = "no_ram" -> Saves + (IF cnt = 0 THEN 2 ELSE 1)
    [] step = "done"   -> 0
    [] OTHER           -> Saves + 1

StagesLeft ==
  CASE pc = "dramc_init"      -> 9 + CallSteps
    [] pc = "dram_init"       -> 8
    [] pc = "reserve"         -> 7
    [] pc = "relocate_code"   -> 6
    [] pc = "fixloop"         -> 5
    [] pc = "clear_bss"       -> 4
    [] pc = "enable_caches"   -> 3
    [] pc = "mem_malloc_init" -> 2
    [] pc = "interrupt_init"  -> 1
    [] OTHER                  -> 0

Measured == pc \in {"dramc_init", "dram_init"}

StepsLeft == StagesLeft + (IF Measured THEN ProbesLeft ELSE 0)

(* No more steps are left than two calls of get_ram_size and the stages    *)
(* take, and none exactly where the start-up is over.                      *)
StepsCounted ==
  /\ StepsLeft \in 0 .. (9 + 2 * CallSteps)
  /\ StepsLeft = 0 <=> pc \in {"main_loop", "lost"}

(* Every step of the start-up lowers the number of them that are left.     *)
StartRunsOut == [][Boot => StepsLeft' < StepsLeft]_vars

LEMMA ProbesCounted ==
  ASSUME Probing
  PROVE  /\ Bits \in Nat /\ Saves \in Nat /\ Saves <= Bits
         /\ ProbesLeft \in 0 .. CallSteps
<1>1. Bits \in Nat /\ Saves \in Nat /\ Saves <= Bits
  BY MaxIsPow DEF Probing, MemTypes, Saves
<1>2. step \in {"down", "no_ram", "up", "restore", "done"}
  BY DEF Probing
<1> QED BY <1>1, <1>2 DEF ProbesLeft, CallSteps

ProbesInRange == ProbesLeft \in 0 .. CallSteps

LEMMA ProbesNow == Probing => ProbesInRange
BY ProbesCounted DEF ProbesInRange

LEMMA ProbesThen == Probing' => ProbesInRange'
BY ProbesNow, PTL

LEMMA PoppedOne ==
  ASSUME MemTypes, Saves > 0, PutBack(cnt)
  PROVE  Saves' = Saves - 1
<1>1. save \in Seq(Int) /\ save' = Front(save)
  BY DEF MemTypes, PutBack
<1> QED BY <1>1, FrontFacts DEF Saves

LEMMA ProbeLowers ==
  ASSUME Probing, GetRamSize
  PROVE  ProbesLeft' < ProbesLeft
<1> DEFINE s == Saves
           b == Bits
<1>1. MemTypes /\ s \in Nat /\ b \in Nat /\ s <= b
  BY ProbesCounted DEF Probing
<1>2. ram' = ram /\ before' = before
  BY DEF GetRamSize, ProbeDown, ProbeBase, GiveUp, ProbeUp, AllThere, Restore
<1>3. Bits' = b
  BY <1>2, SameRam
<1>4. CASE ProbeDown
  <2>1. save \in Seq(Int) /\ save' = Append(save, At(cnt)) /\ step = "down" /\ step' = "down"
    BY <1>1, <1>4 DEF MemTypes, ProbeDown
  <2>2. Saves' = s + 1
    BY <2>1 DEF Saves
  <2>3. ProbesLeft = CallSteps - s /\ ProbesLeft' = CallSteps' - (s + 1) /\ CallSteps' = CallSteps
    BY <1>3, <2>1, <2>2 DEF ProbesLeft, CallSteps
  <2>4. CallSteps \in Int
    BY <1>1 DEF CallSteps
  <2> HIDE DEF s
  <2> QED BY <1>1, <2>3, <2>4
<1>5. CASE ProbeBase
  <2>1. /\ step = "down" /\ save' = save
        /\ \/ step' = "no_ram" /\ cnt' = 0
           \/ step' = "up"
    BY <1>5 DEF ProbeBase
  <2>2. s = b /\ Saves' = s
    BY <1>1, <1>5, <2>1, BaseLast DEF ProbeBase, Probing, Saves
  <2>3. ProbesLeft = 2 * b + 3 - s
    BY <1>1, <2>1 DEF ProbesLeft, CallSteps
  <2>4. step' = "no_ram" /\ cnt' = 0 => ProbesLeft' = s + 2
    BY <2>2 DEF ProbesLeft
  <2>5. step' = "up" => ProbesLeft' = s + 1
    BY <2>2 DEF ProbesLeft
  <2> HIDE DEF s, b
  <2> QED BY <1>1, <2>1, <2>2, <2>3, <2>4, <2>5
<1>6. CASE GiveUp
  <2>1. step = "no_ram" /\ NoRam /\ ram = 0
    BY <1>6 DEF GiveUp, Probing, NoRam
  <2>2. CASE cnt = 0 /\ cnt' = 1 /\ step' = step /\ save' = save
    <3>1. ProbesLeft = s + 2 /\ ProbesLeft' = s + 1
      BY <2>1, <2>2 DEF ProbesLeft, Saves
    <3> QED BY <1>1, <3>1
  <2>3. CASE cnt \in 1..(MaxWords - 1) /\ PutBack(cnt) /\ cnt' = 2 * cnt /\ step' = step
    <3>1. cnt = Pow(Bits - Saves) /\ cnt < MaxWords /\ cnt > 0 /\ cnt' # 0
      BY <2>1, <2>3, MaxIsNat DEF NoRam
    <3>2. s > 0 /\ Saves' = s - 1
      BY <1>1, <2>3, <3>1, SomeSaved, PoppedOne
    <3>3. ProbesLeft = s + 1 /\ ProbesLeft' = (s - 1) + 1
      BY <2>1, <2>3, <3>1, <3>2 DEF ProbesLeft
    <3> HIDE DEF s
    <3> QED BY <1>1, <3>3
  <2>4. CASE cnt >= MaxWords /\ step' = "done"
    <3>1. cnt # 0 /\ ProbesLeft = s + 1 /\ ProbesLeft' = 0
      BY <2>1, <2>4, MaxIsNat DEF ProbesLeft
    <3> QED BY <1>1, <3>1
  <2> QED BY <1>6, <2>2, <2>3, <2>4 DEF GiveUp
<1>7. CASE ProbeUp \/ (Restore /\ cnt < MaxWords)
  <2>1. /\ step \in {"up", "restore"} /\ step' \in {"up", "restore"}
        /\ cnt = Pow(Bits - Saves) /\ cnt < MaxWords /\ PutBack(cnt)
    BY <1>7, MaxIsNat DEF ProbeUp, Restore, Probing, GoingUp, Restoring, MemTypes
  <2>2. s > 0 /\ Saves' = s - 1
    BY <1>1, <2>1, SomeSaved, PoppedOne
  <2>3. ProbesLeft = s + 1 /\ ProbesLeft' = (s - 1) + 1
    BY <2>1, <2>2 DEF ProbesLeft
  <2> HIDE DEF s
  <2> QED BY <1>1, <2>3
<1>8. CASE AllThere \/ (Restore /\ ~(cnt < MaxWords))
  <2>1. step \in {"up", "restore"} /\ step' = "done"
    BY <1>8 DEF AllThere, Restore
  <2>2. ProbesLeft = s + 1 /\ ProbesLeft' = 0
    BY <2>1 DEF ProbesLeft
  <2> HIDE DEF s
  <2> QED BY <1>1, <2>2
<1> QED BY <1>4, <1>5, <1>6, <1>7, <1>8 DEF GetRamSize

LEMMA StepsCountedNow == BoardInv => StepsCounted
<1> SUFFICES ASSUME BoardInv PROVE StepsCounted
  OBVIOUS
<1>1. /\ Bits \in Nat /\ ProbesLeft \in 0 .. CallSteps
      /\ pc \in Stages
  BY ProbesCounted DEF BoardInv
<1>2. PICK n \in Nat, c \in Nat : n = ProbesLeft /\ c = CallSteps /\ c = 2 * Bits + 3 /\ n <= c
  BY <1>1 DEF CallSteps
<1>3. /\ StagesLeft = (IF pc = "dramc_init" THEN 9 + c ELSE StagesLeft)
      /\ pc = "dram_init" => StagesLeft = 8
      /\ ~Measured => StagesLeft \in 0 .. 7 /\ (StagesLeft = 0 <=> pc \in {"main_loop", "lost"})
  BY <1>1, <1>2 DEF StagesLeft, Measured, Stages, LaidOut, BssUp, CachesUp, HeapUp, Running
<1>4. StepsLeft = StagesLeft + (IF Measured THEN n ELSE 0)
  BY <1>2 DEF StepsLeft
<1>5. CASE pc = "dramc_init"
  <2>1. StepsLeft = 9 + c + n
    BY <1>3, <1>4, <1>5 DEF Measured
  <2> QED BY <1>2, <1>5, <2>1 DEF StepsCounted
<1>6. CASE pc = "dram_init"
  <2>1. StepsLeft = 8 + n
    BY <1>3, <1>4, <1>6 DEF Measured
  <2> QED BY <1>2, <1>6, <2>1 DEF StepsCounted
<1>7. CASE ~Measured
  <2>1. PICK t \in 0 .. 7 : t = StagesLeft /\ (t = 0 <=> pc \in {"main_loop", "lost"})
    BY <1>3, <1>7
  <2>2. StepsLeft = t
    BY <1>4, <1>7, <2>1
  <2> QED BY <1>2, <2>1, <2>2 DEF StepsCounted
<1> QED BY <1>5, <1>6, <1>7 DEF Measured

LEMMA StageLowers ==
  ASSUME BoardInv, Boot
  PROVE  StepsLeft' < StepsLeft
<1>1. Probing /\ Bits \in Nat /\ ProbesLeft \in 0 .. CallSteps
  BY ProbesCounted DEF BoardInv
<1>2. PICK n \in Nat, c \in Nat : n = ProbesLeft /\ c = CallSteps /\ n <= c
  BY <1>1 DEF CallSteps
<1>3. Bits' = Bits /\ CallSteps' = c
  BY <1>2 DEF Bits, Pow, CallSteps
<1>4. CASE GetRamSize /\ pc' = pc /\ Measured
  <2>1. Probing' /\ ProbesLeft' < ProbesLeft
    BY <1>1, <1>4, ProbingStep, ProbeLowers
  <2>2. PICK t \in Nat : t = StagesLeft
    BY <1>2, <1>4 DEF StagesLeft, Measured
  <2>3. StagesLeft' = t
    BY <1>2, <1>3, <1>4, <2>2 DEF StagesLeft, Measured
  <2>4. PICK m \in Int : m = ProbesLeft'
    <3>1. ProbesLeft' \in 0 .. CallSteps'
      BY <2>1, ProbesThen DEF ProbesInRange
    <3> QED BY <1>3, <3>1
  <2>5. StepsLeft = t + n /\ StepsLeft' = t + m /\ m < n
    BY <1>2, <1>4, <2>1, <2>2, <2>3, <2>4 DEF StepsLeft, Measured
  <2> QED BY <2>5
<1>5. CASE DramcInit /\ pc' # pc
  <2>1. /\ pc = "dramc_init"
        /\ \/ pc' = "lost"
           \/ pc' = "dram_init" /\ CallAgain
    BY <1>5 DEF DramcInit
  <2>2. StepsLeft = 9 + c + n
    BY <1>2, <2>1 DEF StepsLeft, StagesLeft, Measured
  <2>3. CASE pc' = "lost"
    <3>1. StepsLeft' = 0
      BY <2>3 DEF StepsLeft, StagesLeft, Measured
    <3> QED BY <2>2, <3>1
  <2>4. CASE pc' = "dram_init" /\ CallAgain
    <3>1. step' = "down" /\ Saves' = 0
      BY <2>4 DEF CallAgain, Saves
    <3>2. StepsLeft' = 8 + (c - 0)
      BY <1>3, <2>4, <3>1 DEF StepsLeft, StagesLeft, Measured, ProbesLeft
    <3> QED BY <2>2, <3>2
  <2> QED BY <2>1, <2>3, <2>4
<1>6. CASE DramInit /\ pc' # pc
  <2>1. pc = "dram_init" /\ pc' = "reserve"
    BY <1>6 DEF DramInit
  <2>2. StepsLeft = 8 + n /\ StepsLeft' = 7 + 0
    BY <1>2, <2>1 DEF StepsLeft, StagesLeft, Measured
  <2> QED BY <2>2
<1>7. CASE \/ Reserve \/ Copy \/ FixUp \/ ClearBss
          \/ EnableCaches \/ MemMallocInit \/ InterruptInit
  BY <1>7 DEF Reserve, Copy, FixUp, ClearBss, EnableCaches, MemMallocInit, InterruptInit,
              StepsLeft, StagesLeft, Measured
<1>8. DramcInit => (GetRamSize /\ pc' = pc /\ Measured) \/ pc' # pc
  BY DEF DramcInit, Measured
<1>9. DramInit => (GetRamSize /\ pc' = pc /\ Measured) \/ pc' # pc
  BY DEF DramInit, Measured
<1> QED BY <1>4, <1>5, <1>6, <1>7, <1>8, <1>9 DEF Boot

(* The start-up runs out, whatever the RAM and the image: with a range of  *)
(* 2^Bits words it is over after at most 4 * Bits + 15 steps, and until    *)
(* then every step brings the end nearer.                                  *)
THEOREM StartRunsOutHolds == Spec => []StepsCounted /\ StartRunsOut
<1> DEFINE Step == Boot => StepsLeft' < StepsLeft
<1>1. BoardInv /\ [Next]_vars => [Step]_vars
  BY StageLowers DEF Next, Stays
<1>2. StartRunsOut <=> [][Step]_vars
  BY DEF StartRunsOut
<1> HIDE DEF Step
<1> QED BY <1>1, <1>2, Invariant, StepsCountedNow, PTL DEF Spec
=============================================================================
