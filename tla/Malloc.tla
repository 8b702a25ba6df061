------------------------------- MODULE Malloc -------------------------------
(***************************************************************************)
(* The heap of U-Boot, Doug Lea's allocator (src/pcduino_uboot/dlmalloc.c).*)
(* Addresses and sizes are in words of 4 bytes, the least unit the         *)
(* boundary tags use; a chunk at word a keeps the size of the chunk before *)
(* it in word a, if that one is free, its own size and the bit PREV_INUSE  *)
(* in word a + 1, and the user's data from word a + 2 on, to the prev_size *)
(* of the next chunk.  All of this is in one memory here, so that a tag    *)
(* written over data, or data over a tag, is seen.  The circular lists of  *)
(* the bins are sequences, first(b) first.                                 *)
(***************************************************************************)
EXTENDS Integers, Sequences, FiniteSets, SequencesExt

CONSTANTS
    PageWords,      \* malloc_getpagesize
    HeapPages,      \* TOTAL_MALLOC_LEN in pages, what mem_malloc_init is given
    TrimThreshold,  \* DEFAULT_TRIM_THRESHOLD
    SmallLimit,     \* MAX_SMALLBIN_SIZE
    LargeWidth,     \* the sizes one bin of larger chunks takes
    LastBin,        \* the last bin, of what's left
    Requests,       \* the sizes in bytes the program asks for
    Alignments,     \* the alignments it asks memalign for
    MaxLive         \* bound: the blocks the program holds at a time

ASSUME HeapConstants ==
    /\ PageWords \in Nat \ {0} /\ HeapPages \in Nat \ {0}
    /\ PageWords % 2 = 0 /\ SmallLimit % 2 = 0
    /\ TrimThreshold > PageWords
    /\ SmallLimit \in Nat /\ SmallLimit >= 8
    /\ LargeWidth \in Nat \ {0} /\ LastBin \in Nat /\ LastBin > SmallLimit \div 2
    /\ Requests \subseteq Nat
    /\ \A align \in Alignments : align \in Nat /\ (align > 4 => align % 2 = 0)

VARIABLES
    heap,   \* what the allocator keeps: the fields of Init
    live,   \* the blocks the program holds: address |-> [bytes, cleared]
    failed  \* the padded size of the last request, if it was refused, or 0

vars == <<heap, live, failed>>

End == PageWords * HeapPages
MinSize == 4
BinBlockWidth == 4
Bins == 1 .. LastBin + BinBlockWidth - 1 - (LastBin % BinBlockWidth)
LastRemainder == 1
NULL == -1          \* no chunk; also the top there is before the first request
Junk == -100        \* what is not to be relied upon
Data(i) == -1 - i   \* what the program writes to word i of a block

Nb(bytes) == IF bytes < 12 THEN MinSize ELSE ((bytes + 11) \div 8) * 2
Words(bytes) == (bytes + 3) \div 4

------------------------------------------------------------------------------
(* Boundary tags *)

ChunkSize(m, p) == m[p + 1] - (m[p + 1] % 2)
PrevInuse(m, p) == m[p + 1] % 2 = 1
Inuse(m, p) == PrevInuse(m, p + ChunkSize(m, p))
SetHead(m, p, s) == [m EXCEPT ![p + 1] = s + 1]
SetHeadSize(m, p, s) == [m EXCEPT ![p + 1] = s + (@ % 2)]
SetFoot(m, p, s) == [m EXCEPT ![p + s] = s]
SetInuseAt(m, p) == [m EXCEPT ![p + 1] = @ - (@ % 2) + 1]
ClearInuseAt(m, p) == [m EXCEPT ![p + 1] = @ - (@ % 2)]
Set(m, from, to, v) == [w \in DOMAIN m |-> IF w \in from .. to THEN v ELSE m[w]]
CopyShort(m, dest, src, n) ==       \* a word too few
    [w \in DOMAIN m |-> IF w \in dest .. dest + n - 2 THEN m[src + (w - dest)] ELSE m[w]]
Copy(m, dest, src, n) ==
    [w \in DOMAIN m |-> IF w \in dest .. dest + n - 1 THEN m[src + (w - dest)] ELSE m[w]]

TopSize(h) == IF h.top = NULL THEN 0 ELSE ChunkSize(h.mem, h.top)

------------------------------------------------------------------------------
(* Bins *)

Binned(h, i) == Range(h.bins[i])
BinIndex(size) ==
    LET wide == SmallLimit \div 2 + (size - SmallLimit) \div LargeWidth IN
    IF size < SmallLimit THEN size \div 2 ELSE IF wide < LastBin THEN wide ELSE LastBin
Block(i) == i \div BinBlockWidth

Unlink(h, p) == [h EXCEPT !.bins = [i \in Bins |-> RemoveFirst(@[i], p)]]
LinkRemainder(h, p) == [h EXCEPT !.bins[LastRemainder] = <<p>>]

\* Chunk p of size s goes in its bin, the larger ones first, ahead of its equals.
FrontLink(h, p, s) ==
    LET i == BinIndex(s)
        notLarger == SelectInSeq(h.bins[i], LAMBDA c : s >= ChunkSize(h.mem, c))
        at == IF s < SmallLimit THEN 1
              ELSE IF notLarger = 0 THEN Len(h.bins[i]) + 1 ELSE notLarger
    IN  [h EXCEPT !.bins[i] = InsertAt(@, at, p),
                  !.blocks = IF s < SmallLimit \/ h.bins[i] = <<>> THEN @ \cup {Block(i)} ELSE @]

------------------------------------------------------------------------------
(* The operations: each takes the heap and gives the heap after it; the    *)
(* ones that return a chunk give <<heap, chunk>>.                          *)

\* malloc_extend_top: pages from sbrk, added to the top
Up(words) == (words + PageWords - 1) - ((words + PageWords - 1) % PageWords)
ExtendTop(h, nb) ==
    LET wanted == nb + MinSize
        brk == IF h.top = NULL THEN Up(h.brk + wanted) ELSE h.brk + Up(wanted)
        base == IF h.top = NULL THEN h.brk ELSE h.top
    IN  IF brk > End THEN h
        ELSE [h EXCEPT !.mem = SetHead(@, base, brk - base), !.top = base, !.brk = brk]

TrimWords(h) ==                     \* not whole pages
    LET brk == h.top + MinSize
    IN  IF h.brk - brk < PageWords THEN h
        ELSE [h EXCEPT !.mem = SetHead(Set(@, brk, h.brk - 1, 0), h.top, brk - h.top),
                       !.brk = brk]
\* malloc_trim(0): whole pages of the top go back, cleared
Trim(h) ==
    LET extra == ((TopSize(h) - MinSize + PageWords - 1) \div PageWords - 1) * PageWords
        brk == h.brk - extra
    IN  IF extra < PageWords THEN h
        ELSE [h EXCEPT !.mem = SetHead(Set(@, brk, h.brk - 1, 0), h.top, brk - h.top),
                       !.brk = brk]

\* The front of chunk p of size s is taken for nb words, the rest is the
\* last remainder.
Split(h, p, s, nb) ==
    LET m == SetHead(SetHead(h.mem, p, nb), p + nb, s - nb)
    IN  LinkRemainder([Unlink(h, p) EXCEPT !.mem = SetFoot(m, p + nb, s - nb)], p + nb)

\* Chunk p of size s is taken whole.
Take(h, p, s) == [Unlink(h, p) EXCEPT !.mem = SetInuseAt(@, p + s)]

FirstIn(h, i, nb) ==                \* searched from the larger end
    LET k == SelectInSeq(h.bins[i], LAMBDA c : ChunkSize(h.mem, c) >= nb)
    IN  IF k = 0 THEN NULL ELSE h.bins[i][k]
\* The last chunk of bin i that is large enough, the smallest of them; or none
SmallestIn(h, i, nb) ==
    LET k == SelectLastInSeq(h.bins[i], LAMBDA c : ChunkSize(h.mem, c) >= nb)
    IN  IF k = 0 THEN NULL ELSE h.bins[i][k]

SmallRequest(nb) == nb < SmallLimit - 2

\* Step 1: a chunk that fits so well that no remainder could be a chunk
ExactFit(h, nb) ==
    IF SmallRequest(nb)
    THEN LET i == IF h.bins[nb \div 2] # <<>> THEN nb \div 2 ELSE nb \div 2 + 1
         IN  IF h.bins[i] = <<>> THEN NULL ELSE Last(h.bins[i])
    ELSE LET c == SmallestIn(h, BinIndex(nb), nb)
         IN  IF c # NULL /\ ChunkSize(h.mem, c) < nb + MinSize THEN c ELSE NULL

\* Where the scan of step 3 starts: a bin already searched in vain is left out.
ScanFrom(h, nb) ==
    IF SmallRequest(nb) THEN nb \div 2 + 2
    ELSE IF SmallestIn(h, BinIndex(nb), nb) # NULL THEN BinIndex(nb) ELSE BinIndex(nb) + 1

\* Step 2, a last remainder that does not fit goes in its bin.
BinRemainder(h) ==
    LET p == Last(h.bins[LastRemainder])
    IN  IF h.bins[LastRemainder] = <<>> THEN h
        ELSE FrontLink(Unlink(h, p), p, ChunkSize(h.mem, p))

\* Step 3: the marked blocks are scanned from bin i on, for the first bin with
\* a chunk large enough; the marks of the blocks passed are cleared, that of
\* the first one only if its bins before i are empty.
Scanned(h, i) == {j \in Bins : j >= i /\ Block(j) \in h.blocks}
Fitting(h, i, nb) == {j \in Scanned(h, i) : SmallestIn(h, j, nb) # NULL}
Passed(h, i, nb) ==
    {b \in h.blocks : /\ b >= Block(i)
                      /\ \A j \in Fitting(h, i, nb) : b < Block(j)
                      /\ \A j \in Bins : Block(j) = b /\ j < i => h.bins[j] = <<>>}
Scan(h, i, nb) ==
    LET cleared == [h EXCEPT !.blocks = @ \ Passed(h, i, nb)]
    IN  IF Fitting(h, i, nb) = {} THEN <<cleared, NULL>>
        ELSE <<cleared, SmallestIn(h, Min(Fitting(h, i, nb)), nb)>>

\* Steps 4 and 6: the front of the top, extended if need be; a top remains.
FromTop(h, nb) ==
    LET e == IF TopSize(h) < nb + MinSize THEN ExtendTop(h, nb) ELSE h
        s == TopSize(e)
        m == SetHead(Set(SetHead(e.mem, e.top, nb), e.top + nb + 2, e.brk - 1, Junk), e.top + nb, s - nb)
    IN  IF s < nb + MinSize THEN <<e, NULL>>
        ELSE <<[e EXCEPT !.mem = m, !.top = @ + nb], e.top>>

\* mALLOc, of a size already padded
Fit(h, p, nb) ==
    LET s == ChunkSize(h.mem, p)
    IN  IF s >= nb + MinSize THEN <<Split(h, p, s, nb), p>> ELSE <<Take(h, p, s), p>>
mALLOc(h, nb) ==
    LET lr == h.bins[LastRemainder]
        b == BinRemainder(h)
        scan == Scan(b, ScanFrom(h, nb), nb)
    IN  IF ExactFit(h, nb) # NULL THEN Fit(h, ExactFit(h, nb), nb)
        ELSE IF lr # <<>> /\ ChunkSize(h.mem, lr[1]) >= nb THEN Fit(h, lr[1], nb)
        ELSE IF scan[2] # NULL THEN Fit(scan[1], scan[2], nb)
        ELSE FromTop(scan[1], nb)

\* fREe: with the free chunks around it the chunk becomes part of the top, or
\* the last remainder if one of them is, or a chunk of its bin.
fREe(h, p) ==
    LET size == ChunkSize(h.mem, p)
        next == p + size
        nextSize == ChunkSize(h.mem, next)
        back == ~PrevInuse(h.mem, p)
        start == IF back THEN p - h.mem[p] ELSE p
        forward == next # h.top /\ ~Inuse(h.mem, next)
        end == IF forward \/ next = h.top THEN next + nextSize ELSE next
        s == end - start
        m == SetHead(Set(ClearInuseAt(h.mem, next), start + 2, end - 1, Junk), start, s)
        isRemainder(c) == c \in Binned(h, LastRemainder)
        apart == Unlink(IF back THEN Unlink(h, start) ELSE h, IF forward THEN next ELSE p)
    IN  IF next = h.top
        THEN LET t == [apart EXCEPT !.mem = m, !.top = start]
             IN  IF s >= TrimThreshold THEN Trim(t) ELSE t
        ELSE LET f == [apart EXCEPT !.mem = SetFoot(m, start, s)]
             IN  IF (back /\ isRemainder(start)) \/ (forward /\ isRemainder(next))
                 THEN LinkRemainder(f, start)
                 ELSE FrontLink(f, start, s)

LopNotInUse(h, p, s, nb) ==         \* the next chunk not told of a whole one
    LET m == SetInuseAt(SetHead(SetHeadSize(h.mem, p, nb), p + nb, s - nb), p + s)
    IN  IF s - nb >= MinSize
        THEN <<fREe([h EXCEPT !.mem = m], p + nb), p>>
        ELSE <<[h EXCEPT !.mem = SetHeadSize(@, p, s)], p>>
\* The end of rEALLOc: chunk p, now of s words, keeps nb; the rest is freed.
Lop(h, p, s, nb) ==
    LET m == SetInuseAt(SetHead(SetHeadSize(h.mem, p, nb), p + nb, s - nb), p + s)
    IN  IF s - nb >= MinSize
        THEN <<fREe([h EXCEPT !.mem = m], p + nb), p>>
        ELSE <<[h EXCEPT !.mem = SetInuseAt(SetHeadSize(@, p, s), p + s)], p>>

\* The front of s free words from p to the end of the top becomes a chunk.
IntoTop(h, p, s, nb) ==
    <<[h EXCEPT !.mem = SetHeadSize(SetHead(@, p + nb, s - nb), p, nb), !.top = p + nb], p>>

\* rEALLOc of a chunk to a padded size: forward into what follows, backward,
\* both, and at last elsewhere
rEALLOc(h, p, nb) ==
    LET size == ChunkSize(h.mem, p)
        next == p + size
        isTop == next = h.top
        follows == IF isTop \/ ~Inuse(h.mem, next) THEN ChunkSize(h.mem, next) ELSE 0
        precedes == IF PrevInuse(h.mem, p) THEN 0 ELSE h.mem[p]
        prev == p - precedes
        spare == IF isTop THEN MinSize ELSE 0
        moved == [Unlink(h, prev) EXCEPT !.mem = Copy(@, prev + 2, p + 2, size - 1)]
        new == mALLOc(h, nb)
        q == new[2]
        copied == [new[1] EXCEPT !.mem = Copy(@, q + 2, p + 2, size - 1)]
    IN  CASE size >= nb -> Lop(h, p, size, nb)
          [] size < nb /\ follows > 0 /\ size + follows >= nb + spare ->
                IF isTop THEN IntoTop(h, p, size + follows, nb)
                ELSE Lop(Unlink(h, next), p, size + follows, nb)
          [] /\ size < nb /\ size + follows < nb + spare
             /\ precedes > 0 /\ follows > 0 /\ precedes + size + follows >= nb + spare ->
                IF isTop THEN IntoTop(moved, prev, precedes + size + follows, nb)
                ELSE Lop(Unlink(moved, next), prev, precedes + size + follows, nb)
          [] OTHER ->
                IF precedes > 0 /\ precedes + size >= nb THEN Lop(moved, prev, precedes + size, nb)
                ELSE IF q = NULL THEN new
                ELSE IF q = next THEN Lop(new[1], p, size + ChunkSize(new[1].mem, q), nb)
                ELSE <<fREe(copied, p), q>>

\* mEMALIGn: a chunk large enough to hold an aligned one with a chunk before it,
\* of which the front and the rest are freed
AtLeast(align) == IF align < MinSize THEN MinSize ELSE align
Worst(align, nb) == IF align <= 2 THEN nb ELSE Nb(4 * (nb + AtLeast(align) + MinSize))
Aligned(p, a) ==
    LET up == (p + 2 + a - 1) - ((p + 2 + a - 1) % a) - 2
    IN  IF (p + 2) % a = 0 THEN p ELSE IF up - p < MinSize THEN up + a ELSE up
FreeFront(h, p, q) ==
    LET size == ChunkSize(h.mem, p) - (q - p)
        lead == SetHeadSize(SetInuseAt(SetHead(h.mem, q, size), q + size), p, q - p)
    IN  IF q = p THEN h ELSE fREe([h EXCEPT !.mem = lead], p)
FreeRest(h, q, nb) ==
    LET size == ChunkSize(h.mem, q)
        rest == SetHeadSize(SetHead(h.mem, q + nb, size - nb), q, nb)
    IN  IF size - nb < MinSize THEN h ELSE fREe([h EXCEPT !.mem = rest], q + nb)
AlignIn(r, a, nb) ==
    LET q == Aligned(r[2], a)
    IN  IF r[2] = NULL THEN r ELSE <<FreeRest(FreeFront(r[1], r[2], q), q, nb), q>>
mEMALIGn(h, align, nb) ==
    IF align <= 2 THEN mALLOc(h, nb)
    ELSE AlignIn(mALLOc(h, Worst(align, nb)), AtLeast(align), nb)

\* cALLOc: all of the chunk is cleared, or what was not just had from sbrk.
Clear(r, top, had) ==
    LET size == ChunkSize(r[1].mem, r[2])
        n == IF r[2] = top /\ size > had THEN had ELSE size
    IN  IF r[2] = NULL THEN r
        ELSE <<[r[1] EXCEPT !.mem = Set(@, r[2] + 2, r[2] + n, 0)], r[2]>>
cALLOc(h, nb) == Clear(mALLOc(h, nb), h.top, TopSize(h))

------------------------------------------------------------------------------
(* The program: it writes the words it asked for as soon as it has them,   *)
(* but leaves a cleared block as it is.                                    *)

\* Words 1 .. kept of block p are what the allocator gave, the others written.
Written(m, p, bytes, kept, cleared) ==
    [w \in DOMAIN m |->
        LET i == w - p - 1 IN
        IF i < 1 \/ (i > Words(bytes) /\ i >= ChunkSize(m, p)) THEN m[w]
        ELSE IF i > Words(bytes) THEN Junk
        ELSE IF i <= kept THEN m[w]
        ELSE IF cleared THEN 0 ELSE Data(i)]

Owned(bytes, cleared) == [bytes |-> bytes, cleared |-> cleared]

\* The program gets chunk p in place of the blocks in old, or is refused.
Given(r, nb, bytes, kept, cleared, old) ==
    IF r[2] = NULL
    THEN /\ heap' = r[1]
         /\ failed' = nb
         /\ UNCHANGED live
    ELSE /\ heap' = [r[1] EXCEPT !.mem = Written(@, r[2], bytes, kept, cleared)]
         /\ live' = [p \in (DOMAIN live \ old) \cup {r[2]} |->
                        IF p = r[2] THEN Owned(bytes, cleared) ELSE live[p]]
         /\ failed' = 0

Malloc(bytes) ==
    /\ Cardinality(DOMAIN live) < MaxLive
    /\ Given(mALLOc(heap, Nb(bytes)), Nb(bytes), bytes, 0, FALSE, {})

Calloc(bytes) ==
    /\ Cardinality(DOMAIN live) < MaxLive
    /\ Given(cALLOc(heap, Nb(bytes)), Nb(bytes), bytes, Words(bytes), TRUE, {})

Memalign(align, bytes) ==
    /\ Cardinality(DOMAIN live) < MaxLive
    /\ Given(mEMALIGn(heap, align, Nb(bytes)), Worst(align, Nb(bytes)), bytes, 0, FALSE, {})

Realloc(p, bytes) ==
    /\ p \in DOMAIN live
    /\ LET old == live[p]
           both == IF old.bytes < bytes THEN old.bytes ELSE bytes
       IN  Given(rEALLOc(heap, p, Nb(bytes)), Nb(bytes), bytes, Words(both), old.cleared, {p})

Free(p) ==
    /\ p \in DOMAIN live
    /\ heap' = fREe(heap, p)
    /\ live' = [q \in DOMAIN live \ {p} |-> live[q]]
    /\ failed' = 0

Init ==
    /\ heap = [mem |-> [w \in 0 .. End - 1 |-> 0], bins |-> [i \in Bins |-> <<>>],
               blocks |-> {}, top |-> NULL, brk |-> 0]
    /\ live = [p \in {} |-> 0]
    /\ failed = 0

Next ==
    \/ \E bytes \in Requests : Malloc(bytes) \/ Calloc(bytes)
    \/ \E bytes \in Requests, align \in Alignments : Memalign(align, bytes)
    \/ \E p \in DOMAIN live, bytes \in Requests : Realloc(p, bytes)
    \/ \E p \in DOMAIN live : Free(p)

Spec == Init /\ [][Next]_vars

------------------------------------------------------------------------------
(* Correctness *)

\* The chunks below the top, as the boundary tags say they follow each other
Chunks ==
    LET from[a \in 0 .. End] ==
            IF a >= heap.top \/ ChunkSize(heap.mem, a) <= 0 THEN {}
            ELSE {a} \cup (IF a + ChunkSize(heap.mem, a) > heap.top THEN {}
                           ELSE from[a + ChunkSize(heap.mem, a)])
    IN  IF heap.top = NULL THEN {} ELSE from[0]
FreeChunks == Chunks \ DOMAIN live
Size(p) == ChunkSize(heap.mem, p)

\* Types of the variables.
TypeOK ==
    /\ heap.mem \in [0 .. End - 1 -> Int]
    /\ heap.bins \in [Bins -> Seq(0 .. End - 1)]
    /\ heap.blocks \subseteq {Block(i) : i \in Bins}
    /\ heap.top \in 0 .. End - MinSize \cup {NULL}
    /\ heap.brk \in {PageWords * n : n \in 0 .. HeapPages}
    /\ DOMAIN live \subseteq 0 .. End - 1
    /\ \A p \in DOMAIN live : live[p] \in [bytes : Requests, cleared : BOOLEAN]
    /\ failed \in Nat

\* What the checks of do_check_free_chunk, do_check_inuse_chunk and
\* do_check_malloced_chunk assert of single chunks (dlmalloc.c:537-615), of all
\* of the heap at once: the chunks follow each other up to the top without a
\* gap, the top up to the break; a chunk is known to be in use exactly if the
\* program holds it; no two free chunks touch, nor does one touch the top; a
\* free chunk's size is also at its end; and no block is smaller than asked
\* for, or so large that the rest could be a chunk.
BoundaryTags ==
    heap.top # NULL =>
        /\ Chunks = {} \/ \E p \in Chunks : p + Size(p) = heap.top
        /\ Chunks = {} => heap.top = 0
        /\ PrevInuse(heap.mem, heap.top)
        /\ Size(heap.top) >= MinSize /\ heap.top + Size(heap.top) = heap.brk
        /\ DOMAIN live \subseteq Chunks
        /\ \A p \in DOMAIN live :
            /\ Inuse(heap.mem, p)
            /\ Size(p) \in Nb(live[p].bytes) .. Nb(live[p].bytes) + MinSize - 1
        /\ \A p \in FreeChunks :
            /\ ~Inuse(heap.mem, p) /\ PrevInuse(heap.mem, p)
            /\ heap.mem[p + Size(p)] = Size(p)

\* Every free chunk is in one list, once: that of the last remainder, or the bin
\* of its size, where larger ones come first, and which its block's bit marks
\* as worth a look ("ahead of others of same size", dlmalloc.c:641).  Nothing
\* but free chunks is in a list.
Listed == UNION {{i} \X (1 .. Len(heap.bins[i])) : i \in Bins}
FreeOnce ==
    LET at(x) == heap.bins[x[1]][x[2]] IN
    /\ {at(x) : x \in Listed} = FreeChunks
    /\ \A x, y \in Listed : at(x) = at(y) => x = y
    /\ Len(heap.bins[LastRemainder]) <= 1
    /\ \A x \in Listed : x[1] # LastRemainder =>
        /\ x[1] = BinIndex(Size(at(x)))
        /\ Block(x[1]) \in heap.blocks
        /\ \A y \in Listed : x[1] = y[1] /\ x[2] < y[2] => Size(at(x)) >= Size(at(y))

\* The heap as a whole is what its parts say.
HeapIntact == BoundaryTags /\ FreeOnce

\* "This search is strictly by best-fit; i.e., the smallest [...] chunk that
\* fits is selected" (dlmalloc.c:839), and the top only if none fits: so of
\* every request that could come next, the last remainder left aside.  And one
\* is refused only if no free chunk would do, nor the top, and the pages it
\* would take to serve it from fresh memory are beyond the heap's end.
BestFit ==
    /\ \A bytes \in Requests :
        LET nb == Nb(bytes)
            p == mALLOc(heap, nb)[2]
            fitting == {q \in FreeChunks : Size(q) >= nb}
        IN  /\ p \in FreeChunks \ Binned(heap, LastRemainder) =>
                  \A q \in fitting \ Binned(heap, LastRemainder) : Size(p) <= Size(q)
            /\ p \notin FreeChunks => fitting = {}
    /\ failed # 0 =>
        /\ \A p \in FreeChunks : Size(p) < failed
        /\ TopSize(heap) < failed + MinSize
        /\ heap.brk + failed + MinSize > End

\* The blocks the program holds, to be read as those of Allocator
Store ==
    [a \in {p + 2 : p \in DOMAIN live} |->
        [words |-> [i \in 1 .. Words(live[a - 2].bytes) |-> heap.mem[a - 1 + i]],
         cleared |-> live[a - 2].cleared]]
Abstract == INSTANCE Allocator WITH store <- Store, Space <- End, Lengths <- {Words(b) : b \in Requests}

\* For the program the heap is a set of blocks at even addresses, each its
\* own, whose contents only the program changes: calloc's are zero, realloc's
\* begin as they were, and a refused request changes nothing (dlmalloc.c:873,
\* 1243, 1543).
ImplementsAllocator == Abstract!Spec
=============================================================================
