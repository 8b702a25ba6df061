---------------------------- MODULE CommandProofs ----------------------------
(***************************************************************************)
(* Proofs about the command line of U-Boot.  About Shell, which reads and  *)
(* runs the commands: for every text of bootcmd and of the environment,    *)
(* every command table and everything that is typed.  About Bootm, the     *)
(* command that ends U-Boot: for a memory of any size, any images, and any *)
(* place they are read to that ParamsAssumption admits.                    *)
(***************************************************************************)
EXTENDS Shell, Bootm, SequenceTheorems, TLAPS

-----------------------------------------------------------------------------
(* Shell.                                                                  *)

ReaderFields  == {"left", "again", "dest", "nonnull", "ctx", "stack", "bad", "complained", "rcode"}
ContextFields == {"list", "child", "w", "old_flag"}

IsSeq(s) == Len(s) \in Nat /\ s = [i \in 1 .. Len(s) |-> s[i]]

(* Sequences of anything.                                                  *)
LEMMA SeqIsSeq == \A S : \A s \in Seq(S) : IsSeq(s)
<1>. SUFFICES ASSUME NEW S, NEW s \in Seq(S) PROVE IsSeq(s)
  OBVIOUS
<1>1. Len(s) \in Nat /\ s \in [1 .. Len(s) -> S]
  BY LenProperties
<1>. QED
  BY <1>1 DEF IsSeq

LEMMA Appended ==
  ASSUME NEW s, IsSeq(s), NEW e
  PROVE  /\ IsSeq(Append(s, e)) /\ Len(Append(s, e)) = Len(s) + 1
         /\ \A i \in 1 .. Len(s) : Append(s, e)[i] = s[i]
         /\ Append(s, e)[Len(s) + 1] = e
<1>. DEFINE S == {s[i] : i \in 1 .. Len(s)} \cup {e}
<1>1. s \in Seq(S) /\ e \in S
  BY SeqDef DEF IsSeq
<1>. HIDE DEF S
<1>. QED
  <2>1. /\ Append(s, e) \in Seq(S)
        /\ Len(Append(s, e)) = Len(s) + 1
        /\ \A i \in 1 .. Len(s) : Append(s, e)[i] = s[i]
        /\ Append(s, e)[Len(s) + 1] = e
    BY <1>1, AppendProperties
  <2>2. IsSeq(Append(s, e))
    BY <2>1, SeqIsSeq
  <2>. QED
    BY <2>1, <2>2

LEMMA AllButLast ==
  ASSUME NEW s, IsSeq(s), Len(s) > 0
  PROVE  LET t == SubSeq(s, 1, Len(s) - 1)
         IN  /\ IsSeq(t) /\ Len(t) = Len(s) - 1
             /\ \A i \in 1 .. Len(s) - 1 : t[i] = s[i]
<1>. DEFINE S == {s[i] : i \in 1 .. Len(s)}  n == Len(s) - 1
<1>1. s \in Seq(S)
  BY SeqDef DEF IsSeq
<1>. HIDE DEF S
<1>2. Len(s) \in Nat /\ n \in 0 .. Len(s) /\ n \in Nat
  BY DEF IsSeq
<1>. HIDE DEF n
<1>3. /\ SubSeq(s, 1, n) \in Seq(S)
      /\ Len(SubSeq(s, 1, n)) = n
      /\ \A i \in 1 .. n : SubSeq(s, 1, n)[i] = s[i]
  BY <1>1, <1>2, SubSeqProperties
<1>. QED
  BY <1>3, SeqIsSeq DEF n

Replaces(t, s, i, e) == t = [s EXCEPT ![i] = e]

LEMMA Replaced ==
  ASSUME NEW s, IsSeq(s), NEW i \in 1 .. Len(s), NEW e, NEW t, Replaces(t, s, i, e)
  PROVE  /\ IsSeq(t) /\ Len(t) = Len(s) /\ t[i] = e
         /\ \A j \in 1 .. Len(s) : j # i => t[j] = s[j]
<1>. DEFINE S == {s[j] : j \in 1 .. Len(s)} \cup {e}
            n == Len(s)
<1>1. /\ n \in Nat /\ t \in [1 .. n -> S] /\ t[i] = e
      /\ \A j \in 1 .. n : j # i => t[j] = s[j]
  BY DEF IsSeq, Replaces
<1>. HIDE DEF S, n
<1>2. t \in Seq(S)
  BY <1>1, SeqDef
<1>3. DOMAIN t = 1 .. Len(t) /\ Len(t) \in Nat /\ DOMAIN t = 1 .. n
  BY <1>1, <1>2, LenProperties
<1>4. Len(t) = n
  BY <1>1, <1>3
<1>. QED
  BY <1>1, <1>2, <1>4, SeqIsSeq DEF n

(***************************************************************************)
(* The lists that are read and run, as far as they are looked into: a pipe *)
(* holds one program at most, whose group is a list again.  A list is in   *)
(* order if some set that it belongs to holds the groups of all its lists. *)
(***************************************************************************)
PipeFields  == {"progs", "followup", "r_mode"}
ChildFields == {"argv", "group", "sp"}

PipeIn(p, S) ==
  /\ DOMAIN p = PipeFields
  /\ p.progs # <<>> => /\ DOMAIN p.progs = {1}
                       /\ DOMAIN p.progs[1] = ChildFields
                       /\ p.progs[1].group \in S

Closed(S) == \A l \in S : IsSeq(l) /\ \A i \in 1 .. Len(l) : PipeIn(l[i], S)

ListOK(l) == \E S : l \in S /\ Closed(S)

ChildOK(c) == DOMAIN c = ChildFields /\ ListOK(c.group)

PipeOK(p) ==
  /\ DOMAIN p = PipeFields
  /\ p.progs # <<>> => DOMAIN p.progs = {1} /\ ChildOK(p.progs[1])

LEMMA ListIsSeq == \A l : ListOK(l) => IsSeq(l)
BY DEF ListOK, Closed

LEMMA ListHasPipes ==
  ASSUME NEW l, ListOK(l), NEW i \in 1 .. Len(l)
  PROVE  PipeOK(l[i])
<1>1. PICK S : l \in S /\ Closed(S)
  BY DEF ListOK
<1>2. PipeIn(l[i], S)
  BY <1>1 DEF Closed
<1>. QED
  BY <1>1, <1>2 DEF PipeIn, PipeOK, ChildOK, ListOK

LEMMA ListOfPipes ==
  ASSUME NEW l, IsSeq(l), \A i \in 1 .. Len(l) : PipeOK(l[i])
  PROVE  ListOK(l)
<1>. DEFINE Within(g) == CHOOSE S : g \in S /\ Closed(S)
            Full == {i \in 1 .. Len(l) : l[i].progs # <<>>}
            Group(i) == l[i].progs[1].group
            T == {l} \cup UNION {Within(Group(i)) : i \in Full}
<1>1. ASSUME NEW i \in Full
      PROVE  /\ Group(i) \in Within(Group(i)) /\ Closed(Within(Group(i)))
             /\ Within(Group(i)) \subseteq T
  <2>1. ListOK(Group(i))
    BY DEF PipeOK, ChildOK
  <2>2. \E S : Group(i) \in S /\ Closed(S)
    BY <2>1 DEF ListOK
  <2>. HIDE DEF Group
  <2>3. Group(i) \in Within(Group(i)) /\ Closed(Within(Group(i)))
    BY <2>2
  <2>. QED
    BY <2>3
<1>2. ASSUME NEW i \in 1 .. Len(l) PROVE PipeIn(l[i], T)
  <2>1. CASE i \in Full
    BY <1>1, <2>1 DEF PipeOK, ChildOK, PipeIn
  <2>2. CASE i \notin Full
    BY <2>2 DEF PipeOK, PipeIn
  <2>. QED
    BY <2>1, <2>2
<1>3. ASSUME NEW i \in Full, NEW m \in Within(Group(i))
      PROVE  IsSeq(m) /\ \A k \in 1 .. Len(m) : PipeIn(m[k], T)
  <2>. DEFINE S == Within(Group(i))
  <2>1. Closed(S) /\ S \subseteq T /\ m \in S
    BY <1>1
  <2>. HIDE DEF S, T
  <2>2. IsSeq(m) /\ \A k \in 1 .. Len(m) : PipeIn(m[k], S)
    BY <2>1 DEF Closed
  <2>. QED
    BY <2>1, <2>2 DEF PipeIn
<1>4. ASSUME NEW m \in T
      PROVE  IsSeq(m) /\ \A k \in 1 .. Len(m) : PipeIn(m[k], T)
  <2>1. CASE m = l
    BY <1>2, <2>1
  <2>2. CASE \E i \in Full : m \in Within(Group(i))
    BY <1>3, <2>2
  <2>. QED
    BY <2>1, <2>2
<1>5. l \in T /\ Closed(T)
  <2>1. l \in T
    OBVIOUS
  <2>. HIDE DEF T
  <2>. QED
    BY <1>4, <2>1 DEF Closed
<1>. QED
  BY <1>5 DEF ListOK

LEMMA NoPipes == ListOK(<<>>)
<1>1. IsSeq(<<>>) /\ Len(<<>>) = 0
  BY DEF IsSeq
<1>. QED
  BY <1>1, ListOfPipes

LEMMA OnePipeMore ==
  ASSUME NEW l, ListOK(l), NEW c, ChildOK(c), NEW type, NEW mode
  PROVE  ListOK(Append(l, Pipe(c, type, mode)))
<1>. DEFINE p == Pipe(c, type, mode)  m == Append(l, p)
<1>1. PipeOK(p)
  BY DEF PipeOK, Pipe, PipeFields
<1>. HIDE DEF p
<1>2. /\ IsSeq(l) /\ IsSeq(m) /\ Len(m) = Len(l) + 1
      /\ \A i \in 1 .. Len(l) : m[i] = l[i]
      /\ m[Len(l) + 1] = p
  BY ListIsSeq, Appended
<1>3. ASSUME NEW i \in 1 .. Len(m) PROVE PipeOK(m[i])
  <2>1. CASE i = Len(l) + 1
    BY <1>1, <1>2, <2>1
  <2>2. CASE i \in 1 .. Len(l)
    BY <1>2, <2>2, ListHasPipes
  <2>. QED
    BY <1>2, <2>1, <2>2 DEF IsSeq
<1>. HIDE DEF m
<1>. QED
  BY <1>2, <1>3, ListOfPipes DEF m, p

LEMMA NullIsOK == ChildOK(NullChild) /\ IsNull(NullChild)
BY NoPipes DEF NullChild, ChildOK, ChildFields, IsNull

(* The contexts put aside: only the outermost one waits for no word.       *)
Nested(r) ==
  /\ r.ctx.old_flag = {} <=> Len(r.stack) = 0
  /\ \A i \in 1 .. Len(r.stack) : r.stack[i].old_flag = {} <=> i = 1

ContextOK(c) == DOMAIN c = ContextFields /\ ChildOK(c.child) /\ ListOK(c.list)

ReaderOK(r) ==
  /\ DOMAIN r = ReaderFields
  /\ ContextOK(r.ctx)
  /\ IsSeq(r.stack)
  /\ \A i \in 1 .. Len(r.stack) : ContextOK(r.stack[i])
  /\ Nested(r)

(* What most steps of the reader leave alone.                              *)
Same(r, q) ==
  /\ DOMAIN q = DOMAIN r
  /\ q.stack = r.stack
  /\ ContextOK(q.ctx)
  /\ q.ctx.old_flag = r.ctx.old_flag

LEMMA SameIsOK == \A r, q : ReaderOK(r) /\ Same(r, q) => ReaderOK(q)
BY DEF ReaderOK, Same, Nested

LEMMA SameTwice == \A r, q, s : Same(r, q) /\ Same(q, s) => Same(r, s)
BY DEF Same

-----------------------------------------------------------------------------
(* The reader, operator by operator.                                       *)

LEMMA FollowIsNotEmpty ==
  /\ \A w \in Openers : w \in DOMAIN Follow /\ Follow[w] # {}
  /\ \A w \in DOMAIN Follow : w \notin Closers => Follow[w] # {}
BY DEF Follow, Openers, Closers

LEMMA ComplainIsSame == \A r : ReaderOK(r) => Same(r, Complain(r))
BY DEF ReaderOK, Same, Complain, ReaderFields

LEMMA ResetIsSame == \A r : ReaderOK(r) => Same(r, Reset(r))
BY DEF ReaderOK, Same, Reset, ReaderFields

LEMMA ReturnIsSame == \A r, c : ReaderOK(r) => Same(r, Return(r, c))
BY DEF ReaderOK, Same, Return, ReaderFields

LEMMA DonePipeIsOK ==
  ASSUME NEW c, ContextOK(c), NEW type
  PROVE  ContextOK(DonePipe(c, type)) /\ DonePipe(c, type).old_flag = c.old_flag
<1>. DEFINE p == Pipe(c.child, type, c.w)  d == DonePipe(c, type)
<1>1. ListOK(Append(c.list, p))
  BY OnePipeMore DEF ContextOK
<1>. HIDE DEF p
<1>2. d = [c EXCEPT !.list = Append(@, p), !.child = NullChild]
  BY DEF DonePipe, p
<1>3. /\ DOMAIN d = ContextFields /\ d.list = Append(c.list, p)
      /\ d.child = NullChild /\ d.old_flag = c.old_flag
  BY <1>2 DEF ContextOK, ContextFields
<1>. QED
  BY <1>1, <1>3, NullIsOK DEF ContextOK

LEMMA DonePipeIsSame ==
  \A r, type : ReaderOK(r) => Same(r, [r EXCEPT !.ctx = DonePipe(@, type)])
BY DonePipeIsOK DEF ReaderOK, Same, ReaderFields

LEMMA OpenIsOK ==
  ASSUME NEW r, ReaderOK(r), NEW w \in Openers
  PROVE  ReaderOK(Open(r, w))
<1>. DEFINE c == [NewContext EXCEPT !.w = w, !.old_flag = Follow[w]]
            q == Open(r, w)
<1>1. ContextOK(c) /\ c.old_flag # {}
  BY FollowIsNotEmpty, NullIsOK, NoPipes DEF NewContext, ContextFields, ContextOK
<1>2. /\ DOMAIN q = ReaderFields /\ q.ctx = c
      /\ q.stack = Append(r.stack, r.ctx)
  BY DEF Open, ReaderOK, ReaderFields
<1>3. /\ IsSeq(q.stack) /\ Len(q.stack) = Len(r.stack) + 1
      /\ \A i \in 1 .. Len(r.stack) : q.stack[i] = r.stack[i]
      /\ q.stack[Len(r.stack) + 1] = r.ctx
  BY <1>2, Appended DEF ReaderOK
<1>4. Len(r.stack) \in Nat
  BY DEF ReaderOK, IsSeq
<1>5. ASSUME NEW i \in 1 .. Len(q.stack)
      PROVE  ContextOK(q.stack[i]) /\ (q.stack[i].old_flag = {} <=> i = 1)
  <2>1. CASE i \in 1 .. Len(r.stack)
    BY <1>3, <2>1 DEF ReaderOK, Nested
  <2>2. CASE i = Len(r.stack) + 1
    BY <1>3, <1>4, <2>2 DEF ReaderOK, Nested
  <2>. QED
    BY <1>3, <1>4, <2>1, <2>2
<1>. HIDE DEF c, q
<1>. QED
  BY <1>1, <1>2, <1>3, <1>4, <1>5 DEF ReaderOK, Nested, q

LEMMA CloseIsOK ==
  ASSUME NEW r, ReaderOK(r), Len(r.stack) > 0, NEW w
  PROVE  ReaderOK(Close(r, w))
<1>. DEFINE outer == r.stack[Len(r.stack)]
            q == Close(r, w)
<1>1. Len(r.stack) \in Nat /\ Len(r.stack) \in 1 .. Len(r.stack)
  BY DEF ReaderOK, IsSeq
<1>2. ContextOK(outer) /\ (outer.old_flag = {} <=> Len(r.stack) = 1)
  BY <1>1 DEF ReaderOK, Nested
<1>3. /\ DOMAIN q = ReaderFields
      /\ q.stack = SubSeq(r.stack, 1, Len(r.stack) - 1)
      /\ ContextOK(q.ctx) /\ q.ctx.old_flag = outer.old_flag
  <2>. DEFINE inner == [r.ctx EXCEPT !.w = w]
              group == ListHead(DonePipe(inner, "seq"))
              ctx   == [outer EXCEPT !.child.group = group]
  <2>1. ContextOK(inner)
    BY DEF ReaderOK, ContextOK, ContextFields
  <2>. HIDE DEF inner
  <2>2. ListOK(group)
    BY <2>1, DonePipeIsOK, OnePipeMore, NullIsOK DEF ListHead, ContextOK
  <2>. HIDE DEF group
  <2>3. ContextOK(ctx) /\ ctx.old_flag = outer.old_flag
    BY <1>2, <2>2 DEF ContextOK, ContextFields, ChildOK, ChildFields
  <2>. HIDE DEF ctx
  <2>4. q = [r EXCEPT !.ctx = ctx, !.stack = SubSeq(@, 1, Len(@) - 1)]
    BY DEF Close, inner, group, ctx
  <2>. HIDE DEF q
  <2>. QED
    BY <2>3, <2>4 DEF ReaderOK, ReaderFields
<1>4. /\ IsSeq(q.stack) /\ Len(q.stack) = Len(r.stack) - 1
      /\ \A i \in 1 .. Len(r.stack) - 1 : q.stack[i] = r.stack[i]
  BY <1>3, AllButLast DEF ReaderOK
<1>. HIDE DEF outer, q
<1>5. ASSUME NEW i \in 1 .. Len(q.stack)
      PROVE  ContextOK(q.stack[i]) /\ (q.stack[i].old_flag = {} <=> i = 1)
  BY <1>1, <1>4 DEF ReaderOK, Nested
<1>6. q.ctx.old_flag = {} <=> Len(q.stack) = 0
  <2>1. q.ctx.old_flag = {} <=> Len(r.stack) = 1
    BY <1>2, <1>3
  <2>2. Len(r.stack) = 1 <=> Len(q.stack) = 0
    BY <1>1, <1>4
  <2>. QED
    BY <2>1, <2>2
<1>. QED
  BY <1>3, <1>4, <1>5, <1>6 DEF ReaderOK, Nested, q

LEMMA ReservedWordIsOK ==
  ASSUME NEW r, ReaderOK(r), NEW w \in DOMAIN Follow
  PROVE  ReaderOK(ReservedWord(r, w))
<1>. DEFINE after == IF Misplaced(r, w)   THEN Complain([r EXCEPT !.ctx.w = "sntx"])
                     ELSE IF w \in Openers THEN Open(r, w)
                     ELSE IF w \in Closers THEN Close(r, w)
                     ELSE [r EXCEPT !.ctx.w = w, !.ctx.old_flag = Follow[w]]
            q == [after EXCEPT !.bad = (after.ctx.w = "sntx")]
<1>1. ReaderOK(after)
  <2>1. CASE Misplaced(r, w)
    <3>1. Same(r, [r EXCEPT !.ctx.w = "sntx"])
      BY DEF ReaderOK, Same, ReaderFields, ContextFields, ContextOK
    <3>2. ReaderOK(Complain([r EXCEPT !.ctx.w = "sntx"]))
      BY <3>1, ComplainIsSame, SameIsOK
    <3>3. after = Complain([r EXCEPT !.ctx.w = "sntx"])
      BY <2>1
    <3>. QED
      BY <3>2, <3>3
  <2>2. CASE ~Misplaced(r, w) /\ w \in Openers
    BY <2>2, OpenIsOK
  <2>3. CASE ~Misplaced(r, w) /\ w \notin Openers
    <3>1. r.ctx.old_flag # {}
      BY <2>3 DEF Misplaced
    <3>2. Len(r.stack) > 0
      BY <3>1 DEF ReaderOK, Nested, IsSeq
    <3>3. CASE w \in Closers
      <4>1. after = Close(r, w)
        BY <2>3, <3>3
      <4>. QED
        BY <3>2, <4>1, CloseIsOK
    <3>4. CASE w \notin Closers
      <4>1. after = [r EXCEPT !.ctx.w = w, !.ctx.old_flag = Follow[w]]
        BY <2>3, <3>4
      <4>2. Follow[w] # {}
        BY <3>4, FollowIsNotEmpty
      <4>. HIDE DEF after
      <4>3. /\ DOMAIN after = ReaderFields /\ ContextOK(after.ctx)
            /\ after.stack = r.stack /\ after.ctx.old_flag = Follow[w]
        <5>. DEFINE f == Follow[w]
        <5>. HIDE DEF f
        <5>1. after = [r EXCEPT !.ctx.w = w, !.ctx.old_flag = f]
          BY <4>1 DEF f
        <5>2. /\ DOMAIN after = ReaderFields /\ ContextOK(after.ctx)
              /\ after.stack = r.stack /\ after.ctx.old_flag = f
          BY <5>1 DEF ReaderOK, ReaderFields, ContextFields, ContextOK
        <5>. QED
          BY <5>2 DEF f
      <4>. QED
        BY <3>2, <4>2, <4>3 DEF ReaderOK, Nested
    <3>. QED
      BY <3>3, <3>4
  <2>. QED
    BY <2>1, <2>2, <2>3
<1>. HIDE DEF after
<1>2. Same(after, q)
  BY <1>1 DEF ReaderOK, Same, ReaderFields
<1>3. ReservedWord(r, w) = Reset(q)
  BY DEF ReservedWord, after
<1>. HIDE DEF q
<1>. QED
  BY <1>1, <1>2, <1>3, SameIsOK, ResetIsSame

LEMMA AddArgumentIsSame ==
  ASSUME NEW r, ReaderOK(r)
  PROVE  Same(r, AddArgument(r))
<1>. DEFINE q == [r EXCEPT !.ctx.child.argv = Append(@, r.dest), !.bad = FALSE]
<1>1. Same(r, q)
  BY DEF ReaderOK, Same, ReaderFields, ContextFields, ContextOK, ChildOK, ChildFields
<1>. HIDE DEF q
<1>2. ReaderOK(q) /\ Same(r, Reset(q))
  BY <1>1, SameIsOK, ResetIsSame, SameTwice
<1>3. ReaderOK(Reset(q))
  BY <1>2, SameIsOK
<1>4. Same(r, [Reset(q) EXCEPT !.ctx = DonePipe(@, "seq")])
  BY <1>2, <1>3, DonePipeIsSame, SameTwice
<1>. QED
  BY <1>2, <1>4 DEF AddArgument, q

LEMMA DoneWordIsOK ==
  ASSUME NEW r, ReaderOK(r)
  PROVE  ReaderOK(DoneWord(r))
<1>1. ReaderOK([r EXCEPT !.bad = FALSE])
  <2>1. Same(r, [r EXCEPT !.bad = FALSE])
    BY DEF ReaderOK, Same, ReaderFields
  <2>. QED
    BY <2>1, SameIsOK
<1>2. ReaderOK(Complain(r))
  BY ComplainIsSame, SameIsOK
<1>3. ReaderOK(AddArgument(r))
  BY AddArgumentIsSame, SameIsOK
<1>4. ASSUME IsReserved(r) PROVE ReaderOK(ReservedWord(r, r.dest[1][2]))
  <2>1. PICK w \in DOMAIN Follow : r.dest = <<Word(w)>>
    BY <1>4 DEF IsReserved
  <2>2. r.dest[1][2] = w
    BY <2>1 DEF Word
  <2>. QED
    BY <2>2, ReservedWordIsOK
<1>. QED
  BY <1>1, <1>2, <1>3, <1>4 DEF DoneWord

LEMMA SeparatorIsOK ==
  ASSUME NEW r, ReaderOK(r), NEW type
  PROVE  ReaderOK(Separator(r, type))
BY DoneWordIsOK, DonePipeIsSame, SameIsOK DEF Separator

LEMMA BlankIsOK ==
  ASSUME NEW r, ReaderOK(r)
  PROVE  ReaderOK(Blank(r))
BY DoneWordIsOK, ReturnIsSame, SameIsOK DEF Blank

LEMMA NewlineIsOK ==
  ASSUME NEW r, ReaderOK(r)
  PROVE  ReaderOK(Newline(r))
<1>. DEFINE d == Blank(r)  p == [d EXCEPT !.ctx = DonePipe(@, "seq")]
<1>1. ReaderOK(d)
  BY BlankIsOK
<1>. HIDE DEF d
<1>2. ReaderOK(p)
  BY <1>1, DonePipeIsSame, SameIsOK
<1>. HIDE DEF p
<1>3. ReaderOK(Return(p, "0"))
  BY <1>2, ReturnIsSame, SameIsOK
<1>. QED
  BY <1>1, <1>2, <1>3 DEF Newline, d, p

LEMMA ReadOpIsOK ==
  ASSUME NEW r, ReaderOK(r), NEW o
  PROVE  ReaderOK(ReadOp(r, o))
<1>1. ReaderOK(Return(Complain(DoneWord(r)), "1"))
  BY DoneWordIsOK, ComplainIsSame, ReturnIsSame, SameIsOK
<1>. QED
  BY <1>1, BlankIsOK, NewlineIsOK, SeparatorIsOK DEF ReadOp

LEMMA ReadIsOK ==
  ASSUME NEW r, ReaderOK(r)
  PROVE  ReaderOK(Read(r))
<1>1. ASSUME NEW q, ReaderOK(q), NEW t
      PROVE  ReaderOK(ReadToken(q, t))
  <2>1. CASE Kind(t) = "op"
    BY <1>1, <2>1, ReadOpIsOK DEF ReadToken
  <2>2. CASE Kind(t) = "quoted"
    <3>1. Same(q, [q EXCEPT !.dest = @ \o t[2], !.nonnull = TRUE])
      BY <1>1 DEF ReaderOK, Same, ReaderFields
    <3>2. ReadToken(q, t) = [q EXCEPT !.dest = @ \o t[2], !.nonnull = TRUE]
      BY <2>2 DEF ReadToken
    <3>. QED
      BY <1>1, <3>1, <3>2, SameIsOK
  <2>3. CASE Kind(t) = "dollar"
    <3>1. Same(q, [q EXCEPT !.dest = Append(@, Ref(t[2])), !.ctx.child.sp = @ + 1])
      BY <1>1 DEF ReaderOK, Same, ReaderFields, ContextFields, ContextOK, ChildOK, ChildFields
    <3>2. ReadToken(q, t) = [q EXCEPT !.dest = Append(@, Ref(t[2])), !.ctx.child.sp = @ + 1]
      BY <2>3 DEF ReadToken
    <3>. QED
      BY <1>1, <3>1, <3>2, SameIsOK
  <2>4. CASE Kind(t) \notin {"op", "quoted", "dollar"}
    <3>1. Same(q, [q EXCEPT !.dest = Append(@, t)])
      BY <1>1 DEF ReaderOK, Same, ReaderFields
    <3>2. ReadToken(q, t) = [q EXCEPT !.dest = Append(@, t)]
      BY <2>4 DEF ReadToken
    <3>. QED
      BY <1>1, <3>1, <3>2, SameIsOK
  <2>. QED
    BY <2>1, <2>2, <2>3, <2>4
<1>2. ReaderOK(Return(r, "eof"))
  BY ReturnIsSame, SameIsOK
<1>3. ReaderOK([r EXCEPT !.left = Tail(@)])
  <2>1. Same(r, [r EXCEPT !.left = Tail(@)])
    BY DEF ReaderOK, Same, ReaderFields
  <2>. QED
    BY <2>1, SameIsOK
<1>. QED
  BY <1>1, <1>2, <1>3 DEF Read

LEMMA ReaderIsOK ==
  /\ ContextOK(NewContext)
  /\ \A text, again : ReaderOK(Reader(text, again))
<1>1. ContextOK(NewContext) /\ NewContext.old_flag = {}
  BY NullIsOK, NoPipes DEF NewContext, ContextOK, ContextFields
<1>2. IsSeq(<<>>) /\ Len(<<>>) = 0
  BY DEF IsSeq
<1>. QED
  BY <1>1, <1>2 DEF Reader, ReaderOK, ReaderFields, Nested

-----------------------------------------------------------------------------
(* A reader at work is well nested.                                        *)
ReaderInv == Reading => ReaderOK(reader)

(* What a step of the shell does to the reader.                            *)
LEMMA ReaderSteps ==
  ASSUME ShellNext
  PROVE  \/ UNCHANGED reader
         \/ reader' = Idle
         \/ Reading /\ reader' = Read(reader)
         \/ \E text, again : reader' = Reader(text, again)
<1>1. CASE Countdown
  BY <1>1 DEF Countdown, EnterMainLoop, KeyPressed, CountDown, NoBoot, StartShell
<1>2. CASE Parse
  BY <1>2 DEF Parse, ReadOn, RunLine, RefuseLine
<1>3. CASE Lists
  BY <1>3 DEF Lists, CheckFor, EndOfList, SkipPipe, PassOver, IfIsOver, ForIsOver, ForPass
<1>4. CASE Pipes
  BY <1>4 DEF Pipes, RunGroup, RunAssignments, ReadAgain, ForPassAgain, OutOfMemory, RefuseCommand
<1>5. CASE Command
  BY <1>5 DEF Command, RunCommand
<1>6. CASE LoopHead \/ TypeKey
  BY <1>6 DEF LoopHead, TypeKey
<1>. QED
  BY <1>1, <1>2, <1>3, <1>4, <1>5, <1>6 DEF ShellNext, Program

LEMMA ReaderInvHolds == ShellSpec => []ReaderInv
<1>1. ShellInit => ReaderInv
  BY DEF ShellInit, ReaderInv, Reading
<1>2. ReaderInv /\ [ShellNext]_shellVars => ReaderInv'
  <2>. SUFFICES ASSUME ReaderInv, [ShellNext]_shellVars PROVE ReaderInv'
    OBVIOUS
  <2>1. CASE ShellNext
    BY <2>1, ReaderSteps, ReadIsOK, ReaderIsOK DEF ReaderInv, Reading
  <2>2. CASE UNCHANGED shellVars
    BY <2>2 DEF shellVars, ReaderInv, Reading
  <2>. QED
    BY <2>1, <2>2
<1>. QED
  BY <1>1, <1>2, PTL DEF ShellSpec

(* Whatever is read, nested and at fault as it may be: old_flag is zero    *)
(* just when no construct is open, so that no list runs unless all its     *)
(* constructs are closed.                                                  *)
THEOREM OpenIsKnownHolds == ShellSpec => []OpenIsKnown
<1>1. ReaderInv => OpenIsKnown
  <2>1. ASSUME IsSeq(reader.stack)
        PROVE  Len(reader.stack) = 0 <=> reader.stack = <<>>
    BY <2>1 DEF IsSeq
  <2>. QED
    BY <2>1 DEF ReaderInv, OpenIsKnown, ReaderOK, Nested
<1>. QED
  BY <1>1, ReaderInvHolds, PTL

-----------------------------------------------------------------------------
(***************************************************************************)
(* The calls of run_list_real.  One that waits stands at a pipe with a     *)
(* program; where a loop began is known while it may be repeated, and the  *)
(* call goes back there, to the head of a loop.                            *)
(***************************************************************************)
FrameFields ==
  {"list", "kind", "at", "phase", "rpipe", "flag_rep", "flag_skip", "flag_restore",
   "if_code", "next_if_code", "skip", "rcode", "listed", "values"}

FrameOK(f) ==
  /\ DOMAIN f = FrameFields
  /\ ListOK(f.list)
  /\ f.at \in 1 .. Len(f.list) + 1
  /\ f.rpipe \in 0 .. f.at
  /\ f.rpipe # 0 => f.rpipe <= Len(f.list) /\ f.list[f.rpipe].r_mode \in Loops
  /\ f.flag_rep \/ f.flag_restore => f.rpipe # 0
  /\ f.if_code \in {0, 1} /\ f.next_if_code \in {0, 1} /\ f.rcode \in {0, 1}

AtPipeOK(f) ==
  /\ FrameOK(f)
  /\ f.at <= Len(f.list)
  /\ In(f).r_mode \in Loops => f.rpipe # 0

WaitingOK(f) == AtPipeOK(f) /\ In(f).progs # <<>>

ReadyOK(f) ==
  /\ FrameOK(f)
  /\ f.flag_restore => f.at = f.rpipe /\ f.phase = "head"
  /\ f.phase = "pipe" => f.rpipe # 0

LEMMA FrameIsReady == \A list, kind : ListOK(list) => ReadyOK(Frame(list, kind))
<1>. SUFFICES ASSUME NEW list, NEW kind, ListOK(list) PROVE ReadyOK(Frame(list, kind))
  OBVIOUS
<1>1. Len(list) \in Nat
  BY ListIsSeq DEF IsSeq
<1>. QED
  BY <1>1 DEF Frame, FrameOK, FrameFields, ReadyOK

LEMMA OntoIsReady ==
  ASSUME NEW f, AtPipeOK(f)
  PROVE  ReadyOK(Onto(f))
<1>. DEFINE a == IF f.flag_restore THEN f.rpipe ELSE f.at + 1  g == Onto(f)
<1>1. Len(f.list) \in Nat
  BY ListIsSeq DEF AtPipeOK, FrameOK, IsSeq
<1>2. /\ a \in 1 .. Len(f.list) + 1 /\ f.rpipe \in 0 .. a
      /\ f.flag_restore => a = f.rpipe
  BY <1>1 DEF AtPipeOK, FrameOK
<1>. HIDE DEF a
<1>3. g = [f EXCEPT !.at = a, !.phase = "head"]
  BY DEF Onto, a
<1>4. /\ DOMAIN g = FrameFields /\ g.list = f.list /\ g.at = a /\ g.phase = "head"
      /\ g.rpipe = f.rpipe /\ g.flag_rep = f.flag_rep /\ g.flag_restore = f.flag_restore
      /\ g.if_code = f.if_code /\ g.next_if_code = f.next_if_code /\ g.rcode = f.rcode
  BY <1>3 DEF AtPipeOK, FrameOK, FrameFields
<1>. HIDE DEF g
<1>. QED
  BY <1>2, <1>4 DEF AtPipeOK, FrameOK, ReadyOK, g

LEMMA CompletedIsReady ==
  ASSUME NEW f, AtPipeOK(f), NEW code \in {0, 1}
  PROVE  ReadyOK(Completed(f, code))
<1>. DEFINE mode == In(f).r_mode
            type == In(f).followup
            next == IF mode \in {"if", "elif"} THEN code ELSE f.next_if_code
            rep  == CASE mode = "while" -> code = 0
                      [] mode = "until" -> code # 0
                      [] OTHER          -> f.flag_rep
            skip == IF (code = 0 /\ type = "or") \/ (code # 0 /\ type = "and") THEN mode ELSE f.skip
            g    == [f EXCEPT !.rcode = code, !.next_if_code = next, !.flag_rep = rep, !.skip = skip]
<1>1. next \in {0, 1} /\ (rep => f.rpipe # 0)
  BY DEF AtPipeOK, FrameOK, Loops
<1>. HIDE DEF next, rep, skip
<1>2. /\ DOMAIN g = FrameFields /\ g.list = f.list /\ g.at = f.at /\ g.phase = f.phase
      /\ g.rpipe = f.rpipe /\ g.flag_rep = rep /\ g.flag_restore = f.flag_restore
      /\ g.if_code = f.if_code /\ g.next_if_code = next /\ g.rcode = code
  BY DEF AtPipeOK, FrameOK, FrameFields
<1>3. Completed(f, code) = Onto(g)
  BY DEF Completed, next, rep, skip
<1>. HIDE DEF g
<1>4. AtPipeOK(g)
  BY <1>1, <1>2 DEF AtPipeOK, FrameOK, In
<1>. QED
  BY <1>3, <1>4, OntoIsReady

LEMMA EnteredIsAtPipe ==
  ASSUME NEW f, ReadyOK(f), f.at <= Len(f.list),
         f.phase = "pipe" \/ (f.phase = "head" /\ In(f).r_mode \notin Loops)
  PROVE  /\ AtPipeOK(f) /\ AtPipeOK(Entered(f))
         /\ Entered(f).at = f.at /\ Entered(f).list = f.list
<1>. DEFINE mode == In(f).r_mode
            code == IF mode \in {"then", "else"} THEN f.next_if_code ELSE f.if_code
            back == f.flag_restore \/ (mode = "done" /\ f.flag_rep)
            pipe == IF mode = "done" /\ ~f.flag_rep THEN 0 ELSE f.rpipe
            g    == Entered(f)
<1>1. ~f.flag_restore
  BY DEF ReadyOK, FrameOK, In
<1>2. AtPipeOK(f)
  BY DEF ReadyOK, AtPipeOK
<1>3. /\ code \in {0, 1} /\ pipe \in {0, f.rpipe}
      /\ f.flag_rep \/ back => pipe # 0
      /\ mode \in Loops => pipe = f.rpipe
  BY <1>1 DEF ReadyOK, FrameOK, Loops
<1>. HIDE DEF code, back, pipe
<1>4. g = [f EXCEPT !.flag_skip = TRUE, !.skip = "xxxx", !.if_code = code,
                    !.flag_restore = back, !.rpipe = pipe]
  BY DEF Entered, code, back, pipe
<1>5. /\ DOMAIN g = FrameFields /\ g.list = f.list /\ g.at = f.at
      /\ g.rpipe = pipe /\ g.flag_rep = f.flag_rep /\ g.flag_restore = back
      /\ g.if_code = code /\ g.next_if_code = f.next_if_code /\ g.rcode = f.rcode
  BY <1>4 DEF ReadyOK, FrameOK, FrameFields
<1>. HIDE DEF g
<1>6. AtPipeOK(g)
  BY <1>2, <1>3, <1>5 DEF AtPipeOK, FrameOK, In
<1>. QED
  BY <1>2, <1>5, <1>6 DEF g

(* A program of a pipe is replaced by another.                             *)
LEMMA ChildReplaced ==
  ASSUME NEW f, WaitingOK(f), NEW c, ChildOK(c), NEW g,
         g = [f EXCEPT !.list[f.at].progs[1] = c]
  PROVE  WaitingOK(g)
<1>. DEFINE l == f.list  a == f.at
            p == [l[a] EXCEPT !.progs[1] = c]
            m == [l EXCEPT ![a] = p]
<1>1. IsSeq(l) /\ Len(l) \in Nat /\ a \in 1 .. Len(l)
  <2>1. IsSeq(l) /\ a \in 1 .. Len(l) + 1 /\ a <= Len(l)
    BY ListIsSeq DEF WaitingOK, AtPipeOK, FrameOK
  <2>2. Len(l) \in Nat
    BY <2>1 DEF IsSeq
  <2>. QED
    BY <2>1, <2>2
<1>2. PipeOK(l[a]) /\ l[a].progs # <<>>
  BY <1>1, ListHasPipes DEF WaitingOK, AtPipeOK, FrameOK, In
<1>3. /\ PipeOK(p) /\ p.r_mode = l[a].r_mode /\ DOMAIN p.progs = {1}
  BY <1>2 DEF PipeOK, PipeFields
<1>4. p.progs # <<>>
  BY <1>3
<1>. HIDE DEF p
<1>5. /\ IsSeq(m) /\ Len(m) = Len(l)
      /\ m[a] = p /\ \A i \in 1 .. Len(l) : i # a => m[i] = l[i]
  <2>1. Replaces(m, l, a, p)
    BY DEF Replaces
  <2>. HIDE DEF l, a, m
  <2>. QED
    BY <1>1, <2>1, Replaced
<1>. HIDE DEF m
<1>6. ASSUME NEW i \in 1 .. Len(m) PROVE PipeOK(m[i]) /\ m[i].r_mode = l[i].r_mode
  <2>1. CASE i = a
    BY <1>3, <1>5, <2>1
  <2>2. CASE i # a
    BY <1>5, <2>2, ListHasPipes DEF WaitingOK, AtPipeOK, FrameOK
  <2>. QED
    BY <2>1, <2>2
<1>7. ListOK(m)
  BY <1>5, <1>6, ListOfPipes
<1>8. g = [f EXCEPT !.list = m]
  BY DEF m, p
<1>9. /\ DOMAIN g = FrameFields /\ g.list = m /\ g.at = f.at
      /\ g.rpipe = f.rpipe /\ g.flag_rep = f.flag_rep /\ g.flag_restore = f.flag_restore
      /\ g.if_code = f.if_code /\ g.next_if_code = f.next_if_code /\ g.rcode = f.rcode
  BY <1>8 DEF WaitingOK, AtPipeOK, FrameOK, FrameFields
<1>10. FrameOK(g)
  <2>1. g.rpipe # 0 => g.rpipe <= Len(m) /\ m[g.rpipe].r_mode \in Loops
    BY <1>1, <1>5, <1>6, <1>9 DEF WaitingOK, AtPipeOK, FrameOK
  <2>. QED
    BY <1>5, <1>7, <1>9, <2>1 DEF WaitingOK, AtPipeOK, FrameOK
<1>11. In(g) = p /\ In(f) = l[a]
  BY <1>5, <1>9 DEF In
<1>. QED
  BY <1>1, <1>3, <1>4, <1>5, <1>9, <1>10, <1>11 DEF WaitingOK, AtPipeOK

-----------------------------------------------------------------------------
(***************************************************************************)
(* The calls of run_list_real, the innermost of which is at rest unless it *)
(* waits for a line that is read.                                          *)
(***************************************************************************)
FramesInv ==
  /\ IsSeq(frames)
  /\ \A i \in 1 .. Len(frames) - 1 : WaitingOK(frames[i])
  /\ Len(frames) > 0 => IF Reading THEN WaitingOK(Top) ELSE ReadyOK(Top)
  /\ pc \in {"start", "countdown"} => Len(frames) = 0 /\ ~Reading

MainInv ==
  /\ pc \in {"start", "countdown", "shell", "forever", "hung"}
  /\ bootdelay \in Int
  /\ polls \in 1 .. PollsPerSecond
  /\ key \in Keys \cup {"none"}
  /\ had_ctrlc \in BOOLEAN
  /\ last_return_code \in {0, 1}

ShellInv == MainInv /\ ReaderInv /\ FramesInv

(* The stack of calls: the innermost replaced, one more, one less.         *)
LEMMA EmptyFrames == ASSUME IsSeq(frames) PROVE Len(frames) = 0 <=> frames = <<>>
BY DEF IsSeq

LEMMA CallersOfTop ==
  ASSUME IsSeq(frames), Len(frames) > 0
  PROVE  /\ IsSeq(Callers) /\ Len(Callers) = Len(frames) - 1
         /\ \A i \in 1 .. Len(Callers) : Callers[i] = frames[i]
BY AllButLast DEF Callers

LEMMA GoesOn ==
  ASSUME FramesInv, Len(frames) > 0, NEW f, frames' = Append(Callers, f)
  PROVE  /\ IsSeq(frames') /\ Len(frames') = Len(frames) /\ Top' = f
         /\ \A i \in 1 .. Len(frames') - 1 : WaitingOK(frames'[i])
<1>. DEFINE s == Callers  t == Append(s, f)
<1>1. /\ IsSeq(s) /\ Len(s) = Len(frames) - 1 /\ Len(frames) \in Nat
      /\ \A i \in 1 .. Len(s) : s[i] = frames[i]
  BY CallersOfTop DEF FramesInv, IsSeq
<1>. HIDE DEF s
<1>2. /\ IsSeq(t) /\ Len(t) = Len(s) + 1
      /\ \A i \in 1 .. Len(s) : t[i] = s[i]
      /\ t[Len(s) + 1] = f
  BY <1>1, Appended
<1>3. frames' = t
  BY DEF s
<1>. HIDE DEF t
<1>4. Len(t) = Len(frames) /\ t[Len(t)] = f
  BY <1>1, <1>2
<1>5. ASSUME NEW i \in 1 .. Len(t) - 1 PROVE WaitingOK(t[i])
  BY <1>1, <1>2 DEF FramesInv
<1>. QED
  BY <1>2, <1>3, <1>4, <1>5 DEF Top

LEMMA Calls ==
  ASSUME NEW s, IsSeq(s), \A i \in 1 .. Len(s) : WaitingOK(s[i]),
         NEW f, frames' = Append(s, f)
  PROVE  /\ IsSeq(frames') /\ Len(frames') = Len(s) + 1 /\ Top' = f
         /\ \A i \in 1 .. Len(frames') - 1 : WaitingOK(frames'[i])
<1>. DEFINE t == Append(s, f)
<1>1. /\ IsSeq(t) /\ Len(t) = Len(s) + 1 /\ Len(s) \in Nat
      /\ \A i \in 1 .. Len(s) : t[i] = s[i]
      /\ t[Len(s) + 1] = f
  BY Appended DEF IsSeq
<1>. HIDE DEF t
<1>2. frames' = t
  BY DEF t
<1>3. ASSUME NEW i \in 1 .. Len(t) - 1 PROVE WaitingOK(t[i])
  BY <1>1
<1>4. t[Len(t)] = f
  BY <1>1
<1>. QED
  BY <1>1, <1>2, <1>3, <1>4 DEF Top

LEMMA RestsOn ==
  ASSUME FramesInv, Running, NEW f, ReadyOK(f), Goes(f), UNCHANGED <<reader, pc>>
  PROVE  FramesInv'
<1>1. Len(frames) > 0 /\ ~Reading'
  BY EmptyFrames DEF Running, Reading, FramesInv, IsSeq
<1>2. /\ IsSeq(frames') /\ Len(frames') = Len(frames) /\ Top' = f
      /\ \A i \in 1 .. Len(frames') - 1 : WaitingOK(frames'[i])
  BY <1>1, GoesOn DEF Goes
<1>3. pc' \notin {"start", "countdown"}
  BY <1>1 DEF FramesInv
<1>. QED
  BY <1>1, <1>2, <1>3 DEF FramesInv

(* A call at rest and its pipe.                                            *)
LEMMA TopAtPipe ==
  ASSUME FramesInv, AtPipe
  PROVE  /\ Running /\ Len(frames) > 0 /\ ReadyOK(Top)
         /\ AtPipeOK(Top) /\ AtPipeOK(Entered(Top))
         /\ Entered(Top).at = Top.at /\ Entered(Top).list = Top.list
<1>1. Running /\ Len(frames) > 0 /\ ReadyOK(Top)
  BY EmptyFrames DEF AtPipe, Running, FramesInv, IsSeq
<1>2. Top.at <= Len(Top.list) /\ (Top.phase = "pipe" \/ (Top.phase = "head" /\ In(Top).r_mode \notin Loops))
  BY DEF AtPipe
<1>. HIDE DEF Top
<1>. QED
  BY <1>1, <1>2, EnteredIsAtPipe

LEMMA ReturnsBack ==
  ASSUME FramesInv, last_return_code \in {0, 1}, Running, NEW code \in {0, 1},
         Returns(code), UNCHANGED reader
  PROVE  FramesInv' /\ last_return_code' \in {0, 1} /\ (pc' = pc \/ pc' = "forever")
<1>1. /\ Len(frames) > 0 /\ ~Reading' /\ ReadyOK(Top)
      /\ pc \notin {"start", "countdown"}
  BY EmptyFrames DEF Running, Reading, FramesInv, IsSeq
<1>2. /\ IsSeq(Callers) /\ Len(Callers) = Len(frames) - 1
      /\ \A i \in 1 .. Len(Callers) : Callers[i] = frames[i]
      /\ Len(Callers) \in Nat
  BY <1>1, CallersOfTop DEF FramesInv, IsSeq
<1>3. CASE Callers = <<>>
  <2>1. frames' = <<>> /\ pc' = "forever" /\ UNCHANGED last_return_code
    BY <1>3 DEF Returns
  <2>2. IsSeq(<<>>) /\ Len(<<>>) = 0
    BY DEF IsSeq
  <2>3. IsSeq(frames') /\ Len(frames') = 0
    BY <2>1, <2>2
  <2>. QED
    BY <1>1, <2>1, <2>3 DEF FramesInv
<1>4. CASE Callers # <<>>
  <2>. DEFINE s      == Callers
              n      == Len(s)
              caller == s[n]
              answer == IF Top.kind = "group" THEN code ELSE last_return_code
              f      == Completed(Kept(caller), answer)
  <2>1. /\ frames' = [s EXCEPT ![n] = f]
        /\ last_return_code' = answer /\ UNCHANGED pc /\ answer \in {0, 1}
    BY <1>4 DEF Returns
  <2>2. n \in 1 .. n /\ n \in Nat
    BY <1>2, <1>4 DEF IsSeq
  <2>3. \A i \in 1 .. n : WaitingOK(s[i])
    BY <1>2 DEF FramesInv
  <2>4. WaitingOK(caller)
    BY <2>2, <2>3
  <2>. HIDE DEF s, n, caller, answer
  <2>5. WaitingOK(Kept(caller))
    <3>1. CASE Top.kind = "group"
      <4>. DEFINE c == [caller.list[caller.at].progs[1] EXCEPT !.group = Top.list]
                  k == Kept(caller)
      <4>1. IsSeq(caller.list) /\ caller.at \in 1 .. Len(caller.list)
        <5>1. IsSeq(caller.list) /\ caller.at \in 1 .. Len(caller.list) + 1 /\ caller.at <= Len(caller.list)
          BY <2>4, ListIsSeq DEF WaitingOK, AtPipeOK, FrameOK
        <5>2. Len(caller.list) \in Nat
          BY <5>1 DEF IsSeq
        <5>. QED
          BY <5>1, <5>2
      <4>2. PipeOK(caller.list[caller.at]) /\ caller.list[caller.at].progs # <<>>
        BY <2>4, <4>1, ListHasPipes DEF WaitingOK, AtPipeOK, FrameOK, In
      <4>3. ListOK(Top.list)
        BY <1>1 DEF ReadyOK, FrameOK
      <4>. HIDE DEF Top
      <4>4. ChildOK(c)
        BY <4>2, <4>3 DEF PipeOK, ChildOK, ChildFields
      <4>5. k = [caller EXCEPT !.list[caller.at].progs[1] = c]
        BY <3>1 DEF Kept
      <4>. HIDE DEF c, k
      <4>6. WaitingOK(k)
        BY <2>4, <4>4, <4>5, ChildReplaced
      <4>. QED
        BY <4>6 DEF k
    <3>2. CASE Top.kind # "group"
      BY <2>4, <3>2 DEF Kept
    <3>. QED
      BY <3>1, <3>2
  <2>6. ReadyOK(f)
    BY <2>1, <2>5, CompletedIsReady DEF WaitingOK
  <2>. HIDE DEF f
  <2>7. /\ IsSeq(frames') /\ Len(frames') = n /\ frames'[n] = f
        /\ \A i \in 1 .. n : i # n => frames'[i] = s[i]
    <3>1. IsSeq(s) /\ Len(s) = n
      BY <1>2 DEF s, n
    <3>2. n \in 1 .. Len(s)
      BY <2>2, <3>1
    <3>. DEFINE t == frames'
    <3>3. Replaces(t, s, n, f)
      BY <2>1 DEF Replaces
    <3>. HIDE DEF t
    <3>4. /\ IsSeq(t) /\ Len(t) = Len(s) /\ t[n] = f
          /\ \A i \in 1 .. Len(s) : i # n => t[i] = s[i]
      BY <3>1, <3>2, <3>3, Replaced
    <3>. QED
      BY <3>1, <3>4 DEF t
  <2>8. Top' = f
    BY <2>7 DEF Top
  <2>9. \A i \in 1 .. Len(frames') - 1 : WaitingOK(frames'[i])
    BY <2>2, <2>3, <2>7
  <2>10. ReadyOK(Top')
    BY <2>6, <2>8
  <2>. QED
    BY <1>1, <2>1, <2>7, <2>9, <2>10 DEF FramesInv
<1>. QED
  BY <1>3, <1>4

-----------------------------------------------------------------------------
(* Main loop, reader and lists, step by step.                              *)

LEMMA ReaderIsNotIdle == \A r : ReaderOK(r) => r # Idle
BY DEF ReaderOK, ReaderFields, Idle

LEMMA FramesStay ==
  ASSUME FramesInv, UNCHANGED frames, Len(frames) = 0 \/ (Reading' <=> Reading),
         pc' \in {"start", "countdown"} => pc \in {"start", "countdown"} /\ UNCHANGED reader
  PROVE  FramesInv'
<1>1. CASE Len(frames) = 0
  BY <1>1 DEF FramesInv, Reading
<1>2. CASE Len(frames) # 0 /\ (Reading' <=> Reading)
  <2>1. Top' = Top
    BY DEF Top
  <2>. QED
    BY <1>2, <2>1 DEF FramesInv
<1>. QED
  BY <1>1, <1>2

LEMMA CountdownKeeps ==
  ASSUME MainInv, FramesInv, Countdown
  PROVE  MainInv' /\ FramesInv'
<1>1. /\ Len(frames) = 0 /\ UNCHANGED frames
      /\ pc' \in {"start", "countdown"} => UNCHANGED reader
      /\ pc \in {"start", "countdown"}
      /\ pc' \in {"countdown", "shell", "forever"}
      /\ bootdelay' \in Int
      /\ polls' \in 1 .. PollsPerSecond
      /\ key' \in {key, "none"}
      /\ UNCHANGED had_ctrlc /\ UNCHANGED last_return_code
  <2>1. CASE EnterMainLoop
    <3>1. PollsPerSecond \in 1 .. PollsPerSecond
      BY ShellAssumption DEF ShellAssumption
    <3>2. \/ pc' = "forever" /\ UNCHANGED reader
          \/ pc' = "countdown" /\ UNCHANGED reader
          \/ pc' = "shell"
      BY <2>1 DEF EnterMainLoop, NoBoot, StartShell
    <3>3. /\ pc = "start" /\ polls' = PollsPerSecond
          /\ UNCHANGED <<bootdelay, key, had_ctrlc, last_return_code, frames>>
      BY <2>1 DEF EnterMainLoop, keyboard
    <3>. QED
      BY <3>1, <3>2, <3>3 DEF FramesInv, MainInv
  <2>2. CASE KeyPressed
    BY <2>2 DEF KeyPressed, NoBoot, FramesInv, MainInv, variables
  <2>3. CASE CountDown
    <3>1. polls' \in 1 .. PollsPerSecond /\ bootdelay' \in Int
      BY <2>3, ShellAssumption DEF CountDown, ShellAssumption, MainInv
    <3>2. (pc' = pc /\ UNCHANGED reader) \/ pc' = "shell"
      BY <2>3 DEF CountDown, StartShell
    <3>3. /\ pc = "countdown"
          /\ UNCHANGED <<key, had_ctrlc, last_return_code, frames>>
      BY <2>3 DEF CountDown, variables, keyboard
    <3>. QED
      BY <3>1, <3>2, <3>3 DEF FramesInv, MainInv
  <2>. QED
    BY <2>1, <2>2, <2>3 DEF Countdown
<1>2. FramesInv'
  BY <1>1, FramesStay
<1>. QED
  BY <1>1, <1>2 DEF MainInv

LEMMA ReadOnKeeps ==
  ASSUME MainInv, ReaderInv, FramesInv, ReadOn
  PROVE  MainInv' /\ FramesInv'
<1>1. Reading /\ Reading'
  BY ReadIsOK, ReaderIsNotIdle DEF ReadOn, ReaderInv, Reading
<1>2. UNCHANGED <<frames, pc, bootdelay, polls, key, had_ctrlc, last_return_code>>
  BY DEF ReadOn, main, keyboard, variables
<1>. QED
  BY <1>1, <1>2, FramesStay DEF MainInv, FramesInv

LEMMA RunLineKeeps ==
  ASSUME MainInv, ReaderInv, FramesInv, RunLine
  PROVE  MainInv' /\ FramesInv'
<1>. DEFINE f == Frame(ListRead(reader), "line")
<1>1. ReaderOK(Separator(reader, "seq"))
  BY SeparatorIsOK DEF RunLine, ReaderInv
<1>2. ListOK(ListRead(reader))
  BY <1>1, OnePipeMore, NullIsOK DEF ListRead, ListHead, ReaderOK, ContextOK
<1>3. ReadyOK(f)
  BY <1>2, FrameIsReady
<1>4. \A i \in 1 .. Len(frames) : WaitingOK(frames[i])
  BY DEF RunLine, FramesInv, Top, IsSeq
<1>5. /\ frames' = Append(frames, f) /\ ~Reading'
      /\ UNCHANGED <<pc, bootdelay, polls, key, had_ctrlc, last_return_code>>
      /\ pc \notin {"start", "countdown"}
  BY DEF RunLine, Reading, FramesInv, main, keyboard, variables
<1>. HIDE DEF f
<1>6. /\ IsSeq(frames') /\ Top' = f
      /\ \A i \in 1 .. Len(frames') - 1 : WaitingOK(frames'[i])
  BY <1>4, <1>5, Calls DEF FramesInv
<1>7. ReadyOK(Top')
  BY <1>3, <1>6
<1>. QED
  BY <1>5, <1>6, <1>7 DEF MainInv, FramesInv

LEMMA RefuseLineKeeps ==
  ASSUME MainInv, FramesInv, RefuseLine
  PROVE  MainInv' /\ FramesInv'
<1>1. /\ Reading /\ ~Reading' /\ pc \notin {"start", "countdown"}
      /\ UNCHANGED <<bootdelay, polls, key, had_ctrlc>>
  BY DEF RefuseLine, Reading, FramesInv, keyboard
<1>2. CASE frames = <<>>
  <2>1. Len(frames) = 0 /\ UNCHANGED frames /\ pc' = "forever" /\ UNCHANGED last_return_code
    BY <1>2, EmptyFrames DEF RefuseLine, FramesInv
  <2>. QED
    BY <1>1, <2>1, FramesStay DEF MainInv
<1>3. CASE frames # <<>>
  <2>. DEFINE f == Completed(Top, last_return_code)
  <2>1. Len(frames) > 0 /\ WaitingOK(Top)
    BY <1>1, <1>3, EmptyFrames DEF FramesInv, IsSeq
  <2>2. ReadyOK(f)
    BY <2>1, CompletedIsReady DEF WaitingOK, MainInv
  <2>3. frames' = Append(Callers, f) /\ UNCHANGED pc /\ UNCHANGED last_return_code
    BY <1>3 DEF RefuseLine, Completes, Goes
  <2>. HIDE DEF f
  <2>4. /\ IsSeq(frames') /\ Top' = f
        /\ \A i \in 1 .. Len(frames') - 1 : WaitingOK(frames'[i])
    BY <2>1, <2>3, GoesOn
  <2>5. ReadyOK(Top')
    BY <2>2, <2>4
  <2>. QED
    BY <1>1, <2>3, <2>4, <2>5 DEF FramesInv, MainInv
<1>. QED
  BY <1>2, <1>3

(* The innermost call goes on, or returns.                                 *)
LEMMA RestsOnKeeps ==
  ASSUME MainInv, FramesInv, Running, NEW f, ReadyOK(f), Goes(f), UNCHANGED <<main, keyboard, reader>>,
         last_return_code' \in {0, 1}
  PROVE  MainInv' /\ FramesInv'
BY RestsOn DEF MainInv, main, keyboard

LEMMA ReturnsKeeps ==
  ASSUME MainInv, FramesInv, Running, NEW code \in {0, 1}, Returns(code),
         UNCHANGED <<bootdelay, polls, reader>>,
         key' \in {key, "none"}, had_ctrlc' \in BOOLEAN
  PROVE  MainInv' /\ FramesInv'
<1>1. FramesInv' /\ last_return_code' \in {0, 1} /\ (pc' = pc \/ pc' = "forever")
  BY ReturnsBack DEF MainInv
<1>. QED
  BY <1>1 DEF MainInv

LEMMA CheckForKeeps ==
  ASSUME MainInv, FramesInv, CheckFor
  PROVE  MainInv' /\ FramesInv'
<1>1. Running /\ Len(frames) > 0 /\ ReadyOK(Top) /\ Top.phase = "check"
  BY EmptyFrames DEF CheckFor, Running, FramesInv, IsSeq
<1>2. UNCHANGED <<bootdelay, polls, line, keyboard, reader>>
  BY DEF CheckFor
<1>3. CASE ForAtFault(Top.list)
  BY <1>1, <1>2, <1>3, ReturnsKeeps DEF CheckFor, keyboard, MainInv
<1>4. CASE ~ForAtFault(Top.list)
  <2>. DEFINE t == Top  f == [t EXCEPT !.phase = "head"]
  <2>1. Goes(f) /\ UNCHANGED <<main, last_return_code>>
    BY <1>2, <1>4 DEF CheckFor, main
  <2>2. ReadyOK(t)
    BY <1>1
  <2>. HIDE DEF t
  <2>3. ReadyOK(f)
    BY <2>2 DEF ReadyOK, FrameOK, FrameFields
  <2>. HIDE DEF f
  <2>. QED
    BY <1>1, <1>2, <2>1, <2>3, RestsOnKeeps DEF MainInv
<1>. QED
  BY <1>3, <1>4

LEMMA EndOfListKeeps ==
  ASSUME MainInv, FramesInv, EndOfList
  PROVE  MainInv' /\ FramesInv'
<1>1. Running /\ Top.rcode \in {0, 1} /\ Returns(Top.rcode)
  BY EmptyFrames DEF EndOfList, Running, FramesInv, IsSeq, ReadyOK, FrameOK
<1>. QED
  BY <1>1, ReturnsKeeps DEF EndOfList, keyboard, MainInv

LEMMA IfIsOverKeeps ==
  ASSUME MainInv, FramesInv, IfIsOver
  PROVE  MainInv' /\ FramesInv'
<1>1. Running /\ Top.rcode \in {0, 1} /\ Returns(Top.rcode)
  BY EmptyFrames DEF IfIsOver, AtPipe, Running, FramesInv, IsSeq, ReadyOK, FrameOK
<1>. QED
  BY <1>1, ReturnsKeeps DEF IfIsOver, keyboard, MainInv

LEMMA SkipPipeKeeps ==
  ASSUME MainInv, FramesInv, SkipPipe
  PROVE  MainInv' /\ FramesInv'
<1>. DEFINE t == Top
            e == In(Top).followup # "seq"
            f == [t EXCEPT !.flag_skip = e]
<1>1. Running /\ AtPipeOK(t)
  BY TopAtPipe DEF SkipPipe
<1>2. Goes(Onto(f)) /\ UNCHANGED <<main, keyboard, reader, last_return_code>>
  BY DEF SkipPipe, variables
<1>. HIDE DEF t, e
<1>3. AtPipeOK(f)
  BY <1>1 DEF AtPipeOK, FrameOK, FrameFields, In
<1>. HIDE DEF f
<1>4. ReadyOK(Onto(f))
  BY <1>3, OntoIsReady
<1>. QED
  BY <1>1, <1>2, <1>4, RestsOnKeeps DEF MainInv

LEMMA PassOverKeeps ==
  ASSUME MainInv, FramesInv, PassOver
  PROVE  MainInv' /\ FramesInv'
<1>. DEFINE f == Entered(Top)
<1>1. Running /\ AtPipeOK(f)
  BY TopAtPipe DEF PassOver
<1>2. Goes(Onto(f)) /\ UNCHANGED <<main, keyboard, reader, last_return_code>>
  BY DEF PassOver, variables
<1>. HIDE DEF f
<1>3. ReadyOK(Onto(f))
  BY <1>1, OntoIsReady
<1>. QED
  BY <1>1, <1>2, <1>3, RestsOnKeeps DEF MainInv

LEMMA ForIsOverKeeps ==
  ASSUME MainInv, FramesInv, ForIsOver
  PROVE  MainInv' /\ FramesInv'
<1>. DEFINE e == Entered(Top)
            f == [e EXCEPT !.listed = FALSE, !.flag_rep = FALSE]
<1>1. Running /\ AtPipeOK(e)
  BY TopAtPipe DEF ForIsOver, AtFor
<1>2. Goes(Onto(f)) /\ UNCHANGED <<main, keyboard, reader, last_return_code>>
  BY DEF ForIsOver, variables
<1>. HIDE DEF e
<1>3. AtPipeOK(f)
  BY <1>1 DEF AtPipeOK, FrameOK, FrameFields, In
<1>. HIDE DEF f
<1>4. ReadyOK(Onto(f))
  BY <1>3, OntoIsReady
<1>. QED
  BY <1>1, <1>2, <1>4, RestsOnKeeps DEF MainInv

LEMMA PassingIsAtPipe ==
  ASSUME FramesInv, AtFor
  PROVE  Running /\ Len(frames) > 0 /\ AtPipeOK(Passing) /\ WaitingOK(Passing)
<1>. DEFINE e == Entered(Top)
            v == Tail(ForValues(Top))
            f == [e EXCEPT !.listed = TRUE, !.flag_rep = TRUE, !.values = v]
<1>1. /\ Running /\ Len(frames) > 0 /\ AtPipeOK(e)
      /\ In(e).r_mode = "for" /\ In(e).progs # <<>>
  BY TopAtPipe DEF AtFor, In
<1>2. Passing = f
  BY DEF Passing
<1>. HIDE DEF e, v
<1>3. e.rpipe # 0
  BY <1>1 DEF AtPipeOK, Loops
<1>4. AtPipeOK(f) /\ In(f) = In(e)
  BY <1>1, <1>3 DEF AtPipeOK, FrameOK, FrameFields, In
<1>. HIDE DEF f
<1>. QED
  BY <1>1, <1>2, <1>4 DEF WaitingOK

LEMMA ForPassKeeps ==
  ASSUME MainInv, FramesInv, ForPass
  PROVE  MainInv' /\ FramesInv'
<1>1. Running /\ AtPipeOK(Passing)
  BY PassingIsAtPipe DEF ForPass
<1>2. Goes(Completed(Passing, 0)) /\ last_return_code' = 0 /\ UNCHANGED <<main, keyboard, reader>>
  BY DEF ForPass, Completes
<1>3. ReadyOK(Completed(Passing, 0))
  BY <1>1, CompletedIsReady
<1>. QED
  BY <1>1, <1>2, <1>3, RestsOnKeeps

LEMMA LoopHeadKeeps ==
  ASSUME MainInv, FramesInv, LoopHead
  PROVE  MainInv' /\ FramesInv'
<1>1. /\ Running /\ Len(frames) > 0 /\ ReadyOK(Top)
      /\ Top.at <= Len(Top.list) /\ In(Top).r_mode \in Loops
  BY EmptyFrames DEF LoopHead, LookForCtrlC, Running, FramesInv, IsSeq
<1>2. /\ key' = "none" /\ had_ctrlc' \in BOOLEAN
      /\ UNCHANGED <<bootdelay, polls, line, reader>>
  BY DEF LoopHead, LookForCtrlC
<1>3. CASE LeaveLoop
  BY <1>1, <1>2, <1>3, ReturnsKeeps DEF LeaveLoop
<1>4. CASE EnterLoop
  <2>. DEFINE t == Top
              b == t.flag_rep /\ t.rpipe # 0
              r == IF t.rpipe = 0 THEN t.at ELSE t.rpipe
              f == [t EXCEPT !.phase = "pipe", !.flag_restore = FALSE, !.flag_rep = b, !.rpipe = r]
  <2>1. Goes(f) /\ UNCHANGED <<pc, last_return_code>>
    BY <1>4 DEF EnterLoop
  <2>2. ReadyOK(t) /\ t.at <= Len(t.list) /\ In(t).r_mode \in Loops
    BY <1>1
  <2>. HIDE DEF t
  <2>3. /\ r # 0 /\ r \in 0 .. t.at /\ r <= Len(t.list)
        /\ t.list[r].r_mode \in Loops
    BY <2>2 DEF ReadyOK, FrameOK, In
  <2>. HIDE DEF b, r
  <2>4. ReadyOK(f)
    BY <2>2, <2>3 DEF ReadyOK, FrameOK, FrameFields
  <2>. HIDE DEF f
  <2>5. FramesInv'
    BY <1>1, <1>2, <2>1, <2>4, RestsOn
  <2>. QED
    BY <1>2, <2>1, <2>5 DEF MainInv
<1>. QED
  BY <1>3, <1>4 DEF LoopHead

-----------------------------------------------------------------------------
(* run_pipe_real: the pipe holds a program.                                *)

LEMMA ToRunWaits ==
  ASSUME FramesInv, ToRun
  PROVE  /\ Running /\ Len(frames) > 0
         /\ WaitingOK(Entered(Top)) /\ In(Entered(Top)) = In(Top)
         /\ Entered(Top).at = Top.at
         /\ ChildOK(Child)
<1>1. /\ Running /\ Len(frames) > 0 /\ ReadyOK(Top) /\ AtPipeOK(Top) /\ AtPipeOK(Entered(Top))
      /\ Entered(Top).at = Top.at /\ Entered(Top).list = Top.list
  BY TopAtPipe DEF ToRun
<1>2. In(Entered(Top)) = In(Top)
  BY <1>1 DEF In
<1>3. ASSUME In(Top).r_mode = "elif" PROVE Entered(Top).if_code = Top.if_code
  BY <1>1, <1>3 DEF Entered, AtPipeOK, FrameOK, FrameFields
<1>4. In(Top).progs # <<>>
  BY <1>2, <1>3 DEF ToRun, PassedOver
<1>5. PipeOK(In(Top))
  <2>. DEFINE t == Top
  <2>1. AtPipeOK(t)
    BY <1>1
  <2>. HIDE DEF t
  <2>2. t.at \in 1 .. Len(t.list) /\ ListOK(t.list)
    <3>1. Len(t.list) \in Nat
      BY <2>1, ListIsSeq DEF AtPipeOK, FrameOK, IsSeq
    <3>. QED
      BY <2>1, <3>1 DEF AtPipeOK, FrameOK
  <2>3. PipeOK(In(t))
    BY <2>2, ListHasPipes DEF In
  <2>. QED
    BY <2>3 DEF t
<1>6. ChildOK(Child)
  BY <1>4, <1>5 DEF PipeOK, Child
<1>. QED
  BY <1>1, <1>2, <1>4, <1>6 DEF WaitingOK

LEMMA CallingWaits ==
  ASSUME FramesInv, ToRun
  PROVE  WaitingOK(Calling)
<1>. DEFINE e == Entered(Top)
            n == Child.sp - Expansions
            c == [Child EXCEPT !.sp = n]
<1>1. WaitingOK(e) /\ In(e) = In(Top) /\ e.at = Top.at /\ ChildOK(Child)
  BY ToRunWaits
<1>2. ChildOK(c)
  <2>. HIDE DEF n
  <2>. QED
    BY <1>1 DEF ChildOK, ChildFields
<1>3. e.list[e.at].progs[1] = Child
  BY <1>1 DEF In, Child
<1>. HIDE DEF e
<1>4. Calling = [e EXCEPT !.list[e.at].progs[1] = c]
  BY <1>1, <1>3 DEF Calling, e
<1>. HIDE DEF c
<1>. QED
  BY <1>1, <1>2, <1>4, ChildReplaced

LEMMA RunGroupKeeps ==
  ASSUME MainInv, FramesInv, RunGroup
  PROVE  MainInv' /\ FramesInv'
<1>. DEFINE e == Entered(Top)
            f == Frame(Child.group, "group")
            s == Append(Callers, e)
<1>1. Running /\ Len(frames) > 0 /\ WaitingOK(e) /\ ChildOK(Child)
  BY ToRunWaits DEF RunGroup
<1>2. ReadyOK(f)
  BY <1>1, FrameIsReady DEF ChildOK
<1>3. /\ frames' = Append(s, f) /\ ~Reading' /\ pc \notin {"start", "countdown"}
      /\ UNCHANGED <<pc, bootdelay, polls, key, had_ctrlc, last_return_code>>
  BY <1>1 DEF RunGroup, main, keyboard, variables, Running, Reading, FramesInv
<1>. HIDE DEF e, f
<1>4. IsSeq(s) /\ \A i \in 1 .. Len(s) : WaitingOK(s[i])
  <2>. DEFINE c == Callers
  <2>1. /\ IsSeq(c) /\ Len(c) = Len(frames) - 1 /\ Len(c) \in Nat
        /\ \A i \in 1 .. Len(c) : c[i] = frames[i]
    BY <1>1, CallersOfTop DEF FramesInv, IsSeq
  <2>. HIDE DEF c
  <2>2. /\ IsSeq(s) /\ Len(s) = Len(c) + 1
        /\ \A i \in 1 .. Len(c) : s[i] = c[i]
        /\ s[Len(c) + 1] = e
    BY <2>1, Appended DEF c
  <2>. HIDE DEF s
  <2>3. ASSUME NEW i \in 1 .. Len(s) PROVE WaitingOK(s[i])
    BY <1>1, <2>1, <2>2 DEF FramesInv
  <2>. QED
    BY <2>2, <2>3
<1>. HIDE DEF s
<1>5. /\ IsSeq(frames') /\ Top' = f
      /\ \A i \in 1 .. Len(frames') - 1 : WaitingOK(frames'[i])
  BY <1>3, <1>4, Calls
<1>6. ReadyOK(Top')
  BY <1>2, <1>5
<1>. QED
  BY <1>3, <1>5, <1>6 DEF MainInv, FramesInv

(* A command has been run, or refused.                                     *)
LEMMA CompletesKeeps ==
  ASSUME MainInv, FramesInv, Running, NEW f, WaitingOK(f), NEW code \in {0, 1},
         Completes(f, code), UNCHANGED <<main, keyboard, reader>>
  PROVE  MainInv' /\ FramesInv'
<1>1. ReadyOK(Completed(f, code))
  BY CompletedIsReady DEF WaitingOK
<1>. QED
  BY <1>1, RestsOnKeeps DEF Completes

LEMMA CommandsKeep ==
  ASSUME MainInv, FramesInv, RunAssignments \/ RefuseCommand \/ Command
  PROVE  MainInv' /\ FramesInv'
<1>1. CASE RunAssignments
  <2>. DEFINE f == Entered(Top)
  <2>1. Running /\ WaitingOK(f)
    BY <1>1, ToRunWaits DEF RunAssignments, HasArgv
  <2>2. Completes(f, 0) /\ UNCHANGED <<main, keyboard, reader>>
    BY <1>1 DEF RunAssignments
  <2>. HIDE DEF f
  <2>. QED
    BY <2>1, <2>2, CompletesKeeps
<1>2. CASE RefuseCommand
  <2>1. Running /\ WaitingOK(Calling)
    BY <1>2, ToRunWaits, CallingWaits DEF RefuseCommand, AtCall, HasArgv
  <2>2. Completes(Calling, 1) /\ UNCHANGED <<main, keyboard, reader>>
    BY <1>2 DEF RefuseCommand
  <2>. QED
    BY <2>1, <2>2, CompletesKeeps
<1>3. CASE Command
  <2>1. PICK code \in {0, 1}, i \in DOMAIN CommandTable :
               AtCall /\ RunCommand(CommandTable[i], Tail(Child.argv), code)
    BY <1>3 DEF Command
  <2>2. Running /\ WaitingOK(Calling)
    BY <2>1, ToRunWaits, CallingWaits DEF AtCall, HasArgv
  <2>3. Completes(Calling, code) /\ UNCHANGED <<main, keyboard, reader>>
    BY <2>1 DEF RunCommand
  <2>. QED
    BY <2>2, <2>3, CompletesKeeps
<1>. QED
  BY <1>1, <1>2, <1>3

(* A text is read for a call that waits meanwhile.                         *)
LEMMA WaitsForText ==
  ASSUME MainInv, FramesInv, Len(frames) > 0, NEW f, WaitingOK(f), frames' = Append(Callers, f),
         Reading', UNCHANGED <<pc, bootdelay, polls, key, had_ctrlc, last_return_code>>
  PROVE  MainInv' /\ FramesInv'
<1>1. /\ IsSeq(frames') /\ Top' = f
      /\ \A i \in 1 .. Len(frames') - 1 : WaitingOK(frames'[i])
  BY GoesOn
<1>2. WaitingOK(Top')
  BY <1>1
<1>3. pc' \notin {"start", "countdown"}
  BY DEF FramesInv
<1>. QED
  BY <1>1, <1>2, <1>3 DEF MainInv, FramesInv

LEMMA ReadAgainKeeps ==
  ASSUME MainInv, FramesInv, ReadAgain
  PROVE  MainInv' /\ FramesInv'
<1>1. Running /\ Len(frames) > 0 /\ WaitingOK(Calling)
  BY ToRunWaits, CallingWaits DEF ReadAgain, ReadsAgain, HasArgv
<1>2. /\ frames' = Append(Callers, Calling)
      /\ UNCHANGED <<pc, bootdelay, polls, key, had_ctrlc, last_return_code>>
  BY DEF ReadAgain, main, keyboard
<1>3. Reading'
  BY ReaderIsOK, ReaderIsNotIdle DEF ReadAgain, Reading
<1>. QED
  BY <1>1, <1>2, <1>3, WaitsForText

LEMMA ForPassAgainKeeps ==
  ASSUME MainInv, FramesInv, ForPassAgain
  PROVE  MainInv' /\ FramesInv'
<1>1. Len(frames) > 0 /\ WaitingOK(Passing)
  BY PassingIsAtPipe DEF ForPassAgain, ForReadsAgain
<1>2. /\ frames' = Append(Callers, Passing)
      /\ UNCHANGED <<pc, bootdelay, polls, key, had_ctrlc, last_return_code>>
  BY DEF ForPassAgain, main, keyboard, variables
<1>3. Reading'
  BY ReaderIsOK, ReaderIsNotIdle DEF ForPassAgain, Reading
<1>. QED
  BY <1>1, <1>2, <1>3, WaitsForText

(* The calls stay as they are, and nothing runs any more.                  *)
LEMMA OutOfMemoryKeeps ==
  ASSUME MainInv, FramesInv, OutOfMemory
  PROVE  MainInv' /\ FramesInv'
<1>1. pc' = "hung" /\ UNCHANGED <<bootdelay, polls, key, had_ctrlc, last_return_code, reader, frames>>
  BY DEF OutOfMemory, keyboard, variables
<1>. QED
  BY <1>1 DEF MainInv, FramesInv, Reading, Top

LEMMA ShellInvNext ==
  ASSUME MainInv, ReaderInv, FramesInv, [ShellNext]_shellVars
  PROVE  MainInv' /\ FramesInv'
<1>1. CASE Countdown
  BY <1>1, CountdownKeeps
<1>2. CASE Parse
  BY <1>2, ReadOnKeeps, RunLineKeeps, RefuseLineKeeps DEF Parse
<1>3. CASE Lists
  BY <1>3, CheckForKeeps, EndOfListKeeps, SkipPipeKeeps, PassOverKeeps, IfIsOverKeeps,
     ForIsOverKeeps, ForPassKeeps DEF Lists
<1>4. CASE Pipes \/ Command
  BY <1>4, RunGroupKeeps, ReadAgainKeeps, ForPassAgainKeeps, OutOfMemoryKeeps, CommandsKeep DEF Pipes
<1>5. CASE LoopHead
  BY <1>5, LoopHeadKeeps
<1>6. CASE TypeKey
  BY <1>6, FramesStay DEF TypeKey, main, variables, MainInv, Reading
<1>7. CASE UNCHANGED shellVars
  BY <1>7, FramesStay DEF shellVars, main, keyboard, variables, MainInv, Reading
<1>. QED
  BY <1>1, <1>2, <1>3, <1>4, <1>5, <1>6, <1>7 DEF ShellNext, Program

LEMMA ShellInvHolds == ShellSpec => [](MainInv /\ FramesInv)
<1>1. ShellInit => MainInv /\ FramesInv
  <2>1. ASSUME frames = <<>> PROVE IsSeq(frames) /\ Len(frames) = 0
    BY <2>1 DEF IsSeq
  <2>2. PollsPerSecond \in 1 .. PollsPerSecond
    BY ShellAssumption DEF ShellAssumption
  <2>3. ASSUME ShellInit PROVE MainInv
    BY <2>2, <2>3 DEF ShellInit, MainInv
  <2>4. ASSUME ShellInit PROVE FramesInv
    BY <2>1, <2>4 DEF ShellInit, FramesInv, Reading
  <2>. QED
    BY <2>3, <2>4
<1>2. MainInv /\ FramesInv /\ ReaderInv /\ [ShellNext]_shellVars => (MainInv /\ FramesInv)'
  BY ShellInvNext
<1>. QED
  BY <1>1, <1>2, ReaderInvHolds, PTL DEF ShellSpec

LEMMA FramesAreOK ==
  ASSUME FramesInv, NEW i \in DOMAIN frames
  PROVE  FrameOK(frames[i]) /\ (i < Len(frames) => WaitingOK(frames[i]))
<1>1. i \in 1 .. Len(frames) /\ Len(frames) \in Nat
  BY DEF FramesInv, IsSeq
<1>2. CASE i = Len(frames)
  BY <1>1, <1>2 DEF FramesInv, Top, WaitingOK, AtPipeOK, ReadyOK
<1>3. CASE i # Len(frames)
  BY <1>1, <1>3 DEF FramesInv, WaitingOK, AtPipeOK
<1>. QED
  BY <1>2, <1>3

(* Whatever is typed and whatever bootcmd and the commands hold: a call of *)
(* run_list_real stands within its list or just behind it, rpipe is a pipe *)
(* it has come past, and the codes it keeps are zero or one.               *)
THEOREM ShellTypeCorrect == ShellSpec => []ShellTypeOK
<1>1. MainInv /\ FramesInv => ShellTypeOK
  BY FramesAreOK DEF MainInv, FrameOK, ShellTypeOK
<1>. QED
  BY <1>1, ShellInvHolds, PTL

(* A list is repeated from nowhere but the head of a loop of its own, and  *)
(* only while the call knows where that is: neither flag_rep nor           *)
(* flag_restore is ever set with rpipe NULL, so pi = rpipe never leaves    *)
(* the list.  A call that waits for another one waits at a program.        *)
RepeatsALoop ==
  \A i \in DOMAIN frames :
    LET f == frames[i]
    IN  /\ f.flag_rep \/ f.flag_restore =>
             f.rpipe \in 1 .. Len(f.list) /\ f.list[f.rpipe].r_mode \in Loops
        /\ i < Len(frames) => f.at <= Len(f.list) /\ In(f).progs # <<>>

THEOREM LoopsAreKnown == ShellSpec => []RepeatsALoop
<1>1. MainInv /\ FramesInv => RepeatsALoop
  <2>. SUFFICES ASSUME FramesInv, NEW i \in DOMAIN frames
       PROVE  LET f == frames[i]
              IN  /\ f.flag_rep \/ f.flag_restore =>
                       f.rpipe \in 1 .. Len(f.list) /\ f.list[f.rpipe].r_mode \in Loops
                  /\ i < Len(frames) => f.at <= Len(f.list) /\ In(f).progs # <<>>
    BY DEF RepeatsALoop
  <2>. DEFINE f == frames[i]
  <2>1. FrameOK(f) /\ (i < Len(frames) => WaitingOK(f))
    BY FramesAreOK
  <2>. HIDE DEF f
  <2>2. Len(f.list) \in Nat
    BY <2>1, ListIsSeq DEF FrameOK, IsSeq
  <2>. QED
    BY <2>1, <2>2 DEF FrameOK, WaitingOK, AtPipeOK, f
<1>. QED
  BY <1>1, ShellInvHolds, PTL

-----------------------------------------------------------------------------
(* Bootm.                                                                  *)
(*                                                                         *)
(* The properties speak of the moment the kernel starts, the invariant of  *)
(* the way there.  What holds the way together is that everything is said  *)
(* of what the CPU sees, which the caches do not change by themselves, and *)
(* which is what is in RAM once the data cache is off.                     *)

(* Where the code stands from each of its results on.                      *)
AtKernel   == {"jump", "kernel"}
AtInval    == AtKernel \cup {"dcache_inval"}
AtOff      == AtInval \cup {"dcache_off"}
AtFlushed  == AtOff \cup {"dcache_flush"}
AtIcache   == AtFlushed \cup {"icache_inval"}
AtPrepared == AtIcache \cup {"icache_disable"}
AtLoaded   == AtPrepared \cup {"flush", "prep"}
AtChecked  == AtLoaded \cup {"load_os"}

Contents == ram \in [Addr -> MemoryWord] /\ cached \in [Addr -> MemoryWord]

(* images.os is that of a kernel for this machine.                         *)
OsFits ==
  func \in AtChecked =>
    /\ os.img \in DOMAIN Images /\ os.start = LoadAddr + 1
    /\ Images[os.img].arch /\ Images[os.img].type \in {"kernel", "noload"}
    /\ Size > 0
    /\ os.load = IF Images[os.img].type = "noload" THEN LoadAddr + 1 ELSE Images[os.img].load
    /\ os.ep = EntryPoint(os.img)
    /\ func \in AtLoaded => Images[os.img].comp = "none"

(* The kernel as the CPU sees it, where it was read and where it runs.     *)
SeesKernel ==
  /\ func = "load_os" => \A o \in 1 .. Size : Seen(LoadAddr + o) = [img |-> os.img, off |-> o]
  /\ func \in AtLoaded => \A o \in 1 .. Size : Seen(Place + o - 1) = [img |-> os.img, off |-> o]
  /\ func \in AtPrepared => Seen(Params) = Tags

(* What is on, what is dirty, and what is empty.                           *)
Caches ==
  /\ dcache <=> func \notin AtInval
  /\ func \in AtIcache => ~icache
  /\ func \in AtFlushed => ~ilines
  /\ func \in AtOff => Dirty = {}
  /\ func \in AtKernel => \A a \in Addr : cached[a] = NoLine

BootmInv == TypeOK /\ Contents /\ OsFits /\ SeesKernel /\ Caches

(***************************************************************************)
(* Memory.                                                                 *)
(***************************************************************************)
LEMMA WordsAreWords == Junk \in MemoryWord /\ Tags \in MemoryWord /\ NoLine \in MemoryWord
  BY DEF Junk, Tags, NoLine, MemoryWord

(* A write shows at once, unless it writes what stands for no line.        *)
LEMMA WriteShows ==
  ASSUME NEW new, Contents, Write(new), dcache, UNCHANGED dcache,
         \A b \in DOMAIN new : new[b] # NoLine,
         NEW a \in Addr
  PROVE  Seen(a)' = IF a \in DOMAIN new THEN new[a] ELSE Seen(a)
  BY DEF Contents, Write, Over, Seen

LEMMA WriteType ==
  ASSUME NEW new, Contents, Write(new), \A b \in DOMAIN new : new[b] \in MemoryWord
  PROVE  Contents'
  BY DEF Contents, Write, Over

LEMMA CleanKeeps ==
  ASSUME NEW at, Contents, CleanInval(at), dcache, UNCHANGED dcache
  PROVE  /\ Contents'
         /\ \A a \in Addr : Seen(a)' = Seen(a)
  BY WordsAreWords DEF Contents, CleanInval, Seen

(* The caches by themselves.                                               *)
Quiet == WriteBack \/ Drop \/ Fetch \/ FetchInstructions

LEMMA QuietKeeps ==
  ASSUME Contents, Quiet
  PROVE  /\ Contents' /\ UNCHANGED <<func, dcache, icache, os>>
         /\ \A a \in Addr : Seen(a)' = Seen(a)
         /\ Dirty' \subseteq Dirty
<1>1. CASE WriteBack
  <2>1. PICK a \in Dirty : ram' = [ram EXCEPT ![a] = cached[a]]
    BY <1>1 DEF WriteBack
  <2> QED  BY <1>1, <2>1 DEF WriteBack, Contents, Seen, Dirty
<1>2. CASE Drop
  <2>1. PICK a \in Addr \ Dirty : cached[a] # NoLine /\ cached' = [cached EXCEPT ![a] = NoLine]
    BY <1>2 DEF Drop
  <2> QED  BY <1>2, <2>1, WordsAreWords DEF Drop, Contents, Seen, Dirty
<1>3. CASE Fetch
  <2>1. PICK a \in Addr : cached[a] = NoLine /\ cached' = [cached EXCEPT ![a] = ram[a]]
    BY <1>3 DEF Fetch
  <2> QED  BY <1>3, <2>1 DEF Fetch, Contents, Seen, Dirty
<1>4. CASE FetchInstructions
  BY <1>4 DEF FetchInstructions, Contents, Seen, Dirty
<1> QED  BY <1>1, <1>2, <1>3, <1>4 DEF Quiet

(***************************************************************************)
(* Where the kernel lies: inside the memory and clear of the parameters.   *)
(***************************************************************************)
LEMMA PlaceFits ==
  ASSUME OsFits, func \in AtChecked
  PROVE  /\ LoadAddr \in Addr /\ Params \in Addr /\ Words \in Nat
         /\ Size \in Nat /\ os.load \in Addr /\ Place \in Nat
         /\ \A o \in 1 .. Size : /\ LoadAddr + o \in Addr
                                 /\ os.load + o - 1 \in Addr
                                 /\ Place + o - 1 \in Addr /\ Place + o - 1 # Params
<1>1. PICK h : h = Images[os.img]  OBVIOUS
<1>2. /\ Params \in Int /\ LoadAddr \in Int /\ Words \in Nat /\ Params >= 0 /\ Params < LoadAddr
      /\ h.load \in Int /\ h.size \in Nat
      /\ Params < h.load /\ h.load + h.size <= Words /\ LoadAddr + h.size < Words
  BY <1>1, BootmAssumption, ParamsAssumption DEF OsFits, Addr
<1>3. Size = h.size /\ os.load \in {LoadAddr + 1, h.load} /\ os.start = LoadAddr + 1 /\ Size > 0
  BY <1>1 DEF OsFits, Size
<1>4. Place \in {LoadAddr + 1, h.load}
  BY <1>3 DEF Place, InPlace
<1> HIDE DEF Size, Place
<1> QED  BY <1>2, <1>3, <1>4, BootmAssumption DEF Addr

(* An image's entry point is in its data, wherever that has gone.          *)
LEMMA EntryFits ==
  ASSUME NEW i \in DOMAIN Images, Images[i].size > 0
  PROVE  LET h     == Images[i]
             place == IF h.type = "noload" THEN LoadAddr + 1 ELSE RunsAt(h)
         IN  EntryPoint(i) \in place .. place + h.size - 1 /\ EntryPoint(i) \in Addr
<1>1. PICK h : h = Images[i]  OBVIOUS
<1>2. /\ LoadAddr \in Nat /\ Words \in Nat /\ Params \in Nat
      /\ h.load \in Nat /\ h.ep \in Nat /\ h.size \in Nat /\ h.size > 0
      /\ Params < h.load /\ h.load + h.size <= Words /\ LoadAddr + h.size < Words
  BY <1>1, BootmAssumption, ParamsAssumption DEF Addr
<1>3. RunsAt(h) \in {LoadAddr + 1, h.load}
  BY DEF RunsAt
<1>4. CASE h.type = "noload"
  <2>1. h.ep \in 0 .. h.size - 1
    BY <1>1, <1>2, <1>4, EntryAssumption
  <2> QED  BY <1>1, <1>2, <1>4, <2>1 DEF EntryPoint, Addr
<1>5. CASE h.type # "noload"
  <2>1. h.ep \in RunsAt(h) .. RunsAt(h) + h.size - 1
    BY <1>1, <1>2, <1>5, EntryAssumption
  <2>2. EntryPoint(i) = h.ep
    BY <1>1, <1>5 DEF EntryPoint
  <2> HIDE DEF RunsAt
  <2>3. h.ep \in Addr
    BY <1>2, <1>3, <2>1 DEF Addr
  <2> QED  BY <1>1, <1>5, <2>1, <2>2, <2>3
<1> QED  BY <1>4, <1>5

LEMMA EntersKernel ==
  ASSUME OsFits, func \in AtChecked
  PROVE  os.ep \in Place .. Place + Size - 1
<1>1. PICK h : h = Images[os.img]  OBVIOUS
<1>2. /\ os.img \in DOMAIN Images /\ os.start = LoadAddr + 1 /\ os.ep = EntryPoint(os.img)
      /\ Size = h.size /\ h.size > 0
      /\ os.load = IF h.type = "noload" THEN LoadAddr + 1 ELSE h.load
  BY <1>1 DEF OsFits, Size
<1>3. Place = IF h.type = "noload" THEN LoadAddr + 1 ELSE RunsAt(h)
  BY <1>2 DEF Place, InPlace, RunsAt
<1> HIDE DEF Size, Place, RunsAt
<1> QED  BY <1>1, <1>2, <1>3, EntryFits

(* Tags and the words of a kernel do not stand for no line.                *)
LEMMA NotNoLine ==
  /\ Tags # NoLine
  /\ \A i \in DOMAIN Images, o \in Nat : [img |-> i, off |-> o] # NoLine
  BY BootmAssumption DEF Tags, NoLine

(***************************************************************************)
(* The steps.                                                              *)
(***************************************************************************)
LEMMA InitInv == Init => BootmInv
<1> SUFFICES ASSUME Init PROVE BootmInv  OBVIOUS
<1>1. 0 \in Addr
  BY BootmAssumption DEF Addr
<1> QED  BY <1>1, WordsAreWords
    DEF Init, BootmInv, TypeOK, Contents, OsFits, SeesKernel, Caches, CachesOn, NoOs,
        AtKernel, AtInval, AtOff, AtFlushed, AtIcache, AtPrepared, AtLoaded, AtChecked

(* The CPU reads an image in, and looks at it.                             *)
LEMMA GetImageStep == BootmInv /\ GetImage => BootmInv'
<1> SUFFICES ASSUME BootmInv, GetImage PROVE BootmInv'  OBVIOUS
<1>1. PICK card \in DOMAIN Images \cup {NoImage}, got \in SUBSET (LoadAddr .. LoadAddr + ReadSize - 1) :
        Write([a \in got |-> OnCard(card, a - LoadAddr)])
  BY DEF GetImage
<1>2. \A a \in got : OnCard(card, a - LoadAddr) \in MemoryWord
  <2> SUFFICES ASSUME NEW a \in got PROVE OnCard(card, a - LoadAddr) \in MemoryWord  OBVIOUS
  <2>1. a - LoadAddr \in Nat
    BY BootmAssumption DEF Addr
  <2> QED  BY <2>1, WordsAreWords DEF OnCard, MemoryWord
<1>3. Contents'
  BY <1>1, <1>2, WriteType DEF BootmInv
<1>4. TypeOK'
  BY <1>3 DEF Contents, TypeOK, BootmInv, GetImage
<1>5. func = "bootm" /\ func' = "get_kernel" /\ UNCHANGED dcache
  BY DEF GetImage
<1> QED  BY <1>3, <1>4, <1>5 DEF BootmInv, OsFits, SeesKernel, Caches,
        AtKernel, AtInval, AtOff, AtFlushed, AtIcache, AtPrepared, AtLoaded, AtChecked

LEMMA GetKernelStep == BootmInv /\ GetKernel => BootmInv'
<1> SUFFICES ASSUME BootmInv, GetKernel PROVE BootmInv'  OBVIOUS
<1> DEFINE i == Seen(LoadAddr).img
<1>1. LoadAddr \in Addr /\ LoadAddr \in Nat
  BY BootmAssumption DEF Addr
<1>2. /\ UNCHANGED <<ram, cached, dcache, icache, ilines>> /\ func = "get_kernel"
      /\ \A a : Seen(a)' = Seen(a)
  BY DEF GetKernel, machine, Seen
<1>3. Contents'
  BY <1>2 DEF BootmInv, Contents
<1>4. CASE Kernel(i)
  <2>1. i \in DOMAIN Images
    BY <1>1, <1>4 DEF BootmInv, Contents, Seen, Kernel, MemoryWord
  <2>2. /\ func' = "load_os" /\ os'.img = i /\ os'.start = LoadAddr + 1
        /\ os'.ep = EntryPoint(i)
        /\ os'.load = IF Images[i].type = "noload" THEN LoadAddr + 1 ELSE Images[i].load
    BY <1>4 DEF GetKernel
  <2>3. /\ Images[i].size \in Nat /\ Images[i].size > 0 /\ LoadAddr + Images[i].size < Words
        /\ Words \in Nat /\ Images[i].load \in Addr
    BY <1>4, <2>1, BootmAssumption, ParamsAssumption DEF Kernel
  <2>4. LoadAddr + 1 \in Addr
    BY <1>1, <2>3 DEF Addr
  <2>5. TypeOK'
    <3>1. EntryPoint(i) \in Addr
      BY <2>1, <2>3, EntryFits
    <3> QED  BY <1>2, <1>3, <2>1, <2>2, <2>3, <2>4, <3>1 DEF TypeOK, BootmInv, Contents
  <2>6. OsFits'
    BY <1>4, <2>1, <2>2, <2>3 DEF OsFits, EntryPoint, Size, Kernel, AtChecked, AtLoaded, AtPrepared, AtIcache,
        AtFlushed, AtOff, AtInval, AtKernel
  <2>7. SeesKernel'
    BY <1>2, <1>4, <2>2 DEF SeesKernel, Size, Kernel, DataCrc, AtLoaded, AtPrepared, AtIcache,
        AtFlushed, AtOff, AtInval, AtKernel
  <2>8. Caches'
    BY <1>2, <2>2 DEF BootmInv, Caches, AtIcache, AtFlushed, AtOff, AtInval, AtKernel
  <2> QED  BY <1>3, <2>5, <2>6, <2>7, <2>8 DEF BootmInv
<1>5. CASE ~Kernel(i)
  <2>1. func' = "spinning" /\ os' = os
    BY <1>5 DEF GetKernel
  <2> QED  BY <1>2, <1>3, <2>1 DEF BootmInv, TypeOK, Contents, OsFits, SeesKernel, Caches,
        AtKernel, AtInval, AtOff, AtFlushed, AtIcache, AtPrepared, AtLoaded, AtChecked
<1> QED  BY <1>4, <1>5

(* The move; where the source overlaps the place the data is spoilt in the *)
(* one, but not in the other.                                              *)
LEMMA LoadOsStep == BootmInv /\ LoadOs => BootmInv'
<1> SUFFICES ASSUME BootmInv, LoadOs PROVE BootmInv'  OBVIOUS
<1>1. /\ func = "load_os" /\ func \in AtChecked /\ dcache /\ UNCHANGED <<dcache, icache, ilines, os>>
      /\ Size' = Size /\ Place' = Place
  BY DEF BootmInv, Caches, LoadOs, AtChecked, AtInval, AtKernel, Size, InPlace, Place
<1>2. /\ Size \in Nat /\ os.load \in Addr /\ LoadAddr \in Int /\ os.load \in Int /\ Place \in Nat
      /\ \A o \in 1 .. Size : /\ LoadAddr + o \in Addr /\ os.load + o - 1 \in Addr
                              /\ Place + o - 1 \in Addr
      /\ os.start = LoadAddr + 1 /\ os.img \in DOMAIN Images
  BY <1>1, PlaceFits DEF BootmInv, OsFits, Addr
<1>3. \A o \in 1 .. Size : Seen(LoadAddr + o) = [img |-> os.img, off |-> o]
  BY <1>1 DEF BootmInv, SeesKernel
<1>4. ASSUME Contents', func' \in {"flush", "spinning"},
             func' = "flush" => /\ Images[os.img].comp = "none"
                              /\ \A o \in 1 .. Size : Seen(Place + o - 1)' = [img |-> os.img, off |-> o]
      PROVE  BootmInv'
  <2>1. TypeOK'
    BY <1>1, <1>4 DEF BootmInv, TypeOK, Contents
  <2>2. OsFits'
    BY <1>1, <1>4 DEF BootmInv, OsFits, Size, AtChecked, AtLoaded, AtPrepared, AtIcache, AtFlushed,
        AtOff, AtInval, AtKernel
  <2>3. SeesKernel'
    <3>1. func' # "load_os" /\ func' \notin AtPrepared
      BY <1>4 DEF AtPrepared, AtIcache, AtFlushed, AtOff, AtInval, AtKernel
    <3>2. func' \in AtLoaded => func' = "flush"
      BY <1>4 DEF AtLoaded, AtPrepared, AtIcache, AtFlushed, AtOff, AtInval, AtKernel
    <3> QED  BY <1>1, <1>4, <3>1, <3>2 DEF SeesKernel
  <2>4. Caches'
    BY <1>1, <1>4 DEF Caches, AtIcache, AtFlushed, AtOff, AtInval, AtKernel
  <2> QED  BY <1>4, <2>1, <2>2, <2>3, <2>4 DEF BootmInv
<1>5. CASE Images[os.img].comp # "none"
  BY <1>4, <1>5 DEF LoadOs, BootmInv, Contents
<1>6. CASE Images[os.img].comp = "none" /\ InPlace
  <2>1. func' = "flush" /\ UNCHANGED <<ram, cached, dcache>>
    BY <1>1, <1>6 DEF LoadOs
  <2>2. Place = LoadAddr + 1 /\ \A a : Seen(a)' = Seen(a)
    BY <1>2, <1>6, <2>1 DEF Place, Seen
  <2>3. \A o \in 1 .. Size : Seen(Place + o - 1)' = [img |-> os.img, off |-> o]
    <3> SUFFICES ASSUME NEW o \in 1 .. Size
                 PROVE  Seen(Place + o - 1)' = [img |-> os.img, off |-> o]
      OBVIOUS
    <3>1. Place' + o - 1 = LoadAddr + o
      BY <1>1, <1>2, <2>2
    <3>2. Seen(LoadAddr + o)' = [img |-> os.img, off |-> o]
      BY <1>3, <2>2
    <3> QED  BY <3>1, <3>2 DEF Seen
  <2>4. Contents'
    BY <2>1 DEF BootmInv, Contents
  <2> QED  BY <1>4, <1>6, <2>1, <2>3, <2>4
<1>7. CASE Images[os.img].comp = "none" /\ ~InPlace
  <2> DEFINE new == [a \in os.load .. os.load + Size - 1 |-> Seen(a - os.load + os.start)]
  <2>1. func' = "flush" /\ Write(new)
    BY <1>7 DEF LoadOs, Move
  <2>2. \A a \in DOMAIN new : \E o \in 1 .. Size : /\ a = os.load + o - 1
                                                   /\ a - os.load + os.start = LoadAddr + o
    <3> SUFFICES ASSUME NEW a \in os.load .. os.load + Size - 1
                 PROVE  \E o \in 1 .. Size : a = os.load + o - 1 /\ a - os.load + os.start = LoadAddr + o
      OBVIOUS
    <3>1. a - os.load + 1 \in 1 .. Size
      BY <1>2
    <3>2. /\ a = os.load + (a - os.load + 1) - 1
          /\ a - os.load + os.start = LoadAddr + (a - os.load + 1)
      BY <1>2
    <3> QED  BY <3>1, <3>2
  <2>3. \A o \in 1 .. Size : /\ os.load + o - 1 \in DOMAIN new
                             /\ new[os.load + o - 1] = [img |-> os.img, off |-> o]
    <3> SUFFICES ASSUME NEW o \in 1 .. Size
                 PROVE  /\ os.load + o - 1 \in os.load .. os.load + Size - 1
                        /\ new[os.load + o - 1] = [img |-> os.img, off |-> o]
      OBVIOUS
    <3>1. os.load + o - 1 \in os.load .. os.load + Size - 1
      BY <1>2
    <3>2. (os.load + o - 1) - os.load + os.start = LoadAddr + o
      BY <1>2
    <3> QED  BY <1>3, <3>1, <3>2
  <2> HIDE DEF new
  <2>4. \A a \in DOMAIN new : new[a] \in MemoryWord /\ new[a] # NoLine
    <3> SUFFICES ASSUME NEW a \in DOMAIN new PROVE new[a] \in MemoryWord /\ new[a] # NoLine  OBVIOUS
    <3>1. PICK o \in 1 .. Size : a = os.load + o - 1
      BY <2>2
    <3>2. new[a] = [img |-> os.img, off |-> o] /\ o \in Nat
      BY <1>2, <2>3, <3>1
    <3> QED  BY <1>2, <3>2, NotNoLine DEF MemoryWord
  <2>5. Contents'
    BY <2>1, <2>4, WriteType DEF BootmInv
  <2>6. Place = os.load
    BY <1>7 DEF Place
  <2>7. \A o \in 1 .. Size : Seen(Place + o - 1)' = [img |-> os.img, off |-> o]
    <3> SUFFICES ASSUME NEW o \in 1 .. Size
                 PROVE  Seen(Place + o - 1)' = [img |-> os.img, off |-> o]
      OBVIOUS
    <3> DEFINE a == os.load + o - 1
    <3>1. a \in Addr /\ a \in DOMAIN new /\ new[a] = [img |-> os.img, off |-> o] /\ a' = a
      BY <1>1, <1>2, <2>3
    <3>2. Place' + o - 1 = a
      BY <1>1, <2>6
    <3> HIDE DEF a
    <3>3. Seen(a)' = new[a]
      BY <1>1, <2>1, <2>4, <3>1, WriteShows DEF BootmInv
    <3> QED  BY <3>1, <3>2, <3>3 DEF Seen
  <2> QED  BY <1>4, <1>7, <2>1, <2>5, <2>7
<1> QED  BY <1>5, <1>6, <1>7

(* What is flushed was seen before, and is seen after.                     *)
LEMMA FlushLoadedStep == BootmInv /\ FlushLoaded => BootmInv'
<1> SUFFICES ASSUME BootmInv, FlushLoaded PROVE BootmInv'  OBVIOUS
<1>1. /\ func = "flush" /\ func \in AtChecked /\ func \in AtLoaded /\ dcache
      /\ UNCHANGED <<dcache, icache, ilines, os>> /\ Size' = Size /\ Place' = Place
  BY DEF BootmInv, Caches, FlushLoaded, AtChecked, AtLoaded, AtPrepared, AtIcache, AtFlushed, AtOff,
      AtInval, AtKernel, Size, InPlace, Place
<1>2. PICK at : CleanInval(at)
  BY DEF FlushLoaded
<1>3. Contents' /\ \A a \in Addr : Seen(a)' = Seen(a)
  BY <1>1, <1>2, CleanKeeps DEF BootmInv
<1>4. func' \in {"spinning", "prep"}
  BY DEF FlushLoaded
<1>5. TypeOK'
  BY <1>1, <1>3, <1>4 DEF BootmInv, TypeOK, Contents
<1>6. OsFits'
  BY <1>1, <1>4 DEF BootmInv, OsFits, Size, AtChecked, AtLoaded, AtPrepared, AtIcache, AtFlushed,
      AtOff, AtInval, AtKernel
<1>7. \A o \in 1 .. Size : Seen(Place + o - 1)' = [img |-> os.img, off |-> o]
  <2> SUFFICES ASSUME NEW o \in 1 .. Size
               PROVE  Seen(Place + o - 1)' = [img |-> os.img, off |-> o]
    OBVIOUS
  <2>1. Place + o - 1 \in Addr
    BY <1>1, PlaceFits DEF BootmInv
  <2>2. Seen(Place + o - 1) = [img |-> os.img, off |-> o]
    BY <1>1 DEF BootmInv, SeesKernel
  <2> QED  BY <1>1, <1>3, <2>1, <2>2 DEF Seen
<1>8. SeesKernel'
  BY <1>1, <1>4, <1>7 DEF SeesKernel, AtPrepared, AtIcache, AtFlushed, AtOff, AtInval, AtKernel
<1>9. Caches'
  BY <1>1, <1>4 DEF Caches, AtIcache, AtFlushed, AtOff, AtInval, AtKernel
<1> QED  BY <1>3, <1>5, <1>6, <1>8, <1>9 DEF BootmInv

(* The parameters are clear of the kernel.                                 *)
LEMMA PrepLinuxStep == BootmInv /\ PrepLinux => BootmInv'
<1> SUFFICES ASSUME BootmInv, PrepLinux PROVE BootmInv'  OBVIOUS
<1> DEFINE new == [a \in {Params} |-> Tags]
<1>1. /\ func = "prep" /\ func' = "icache_disable" /\ func \in AtChecked /\ func \in AtLoaded /\ dcache
      /\ UNCHANGED <<dcache, icache, ilines, os>> /\ Size' = Size /\ Place' = Place
      /\ Write(new)
  BY DEF BootmInv, Caches, PrepLinux, AtChecked, AtLoaded, AtPrepared, AtIcache, AtFlushed, AtOff,
      AtInval, AtKernel, Size, InPlace, Place
<1>2. /\ DOMAIN new = {Params} /\ new[Params] = Tags
      /\ \A b \in DOMAIN new : new[b] \in MemoryWord /\ new[b] # NoLine
  BY WordsAreWords, NotNoLine
<1> HIDE DEF new
<1>3. Contents'
  BY <1>1, <1>2, WriteType DEF BootmInv
<1>4. \A a \in Addr : Seen(a)' = IF a = Params THEN Tags ELSE Seen(a)
  BY <1>1, <1>2, WriteShows DEF BootmInv
<1>5. TypeOK'
  BY <1>1, <1>3 DEF BootmInv, TypeOK, Contents
<1>6. OsFits'
  BY <1>1 DEF BootmInv, OsFits, Size, AtChecked, AtLoaded, AtPrepared
<1>7. \A o \in 1 .. Size : Seen(Place + o - 1)' = [img |-> os.img, off |-> o]
  <2> SUFFICES ASSUME NEW o \in 1 .. Size
               PROVE  Seen(Place + o - 1)' = [img |-> os.img, off |-> o]
    OBVIOUS
  <2>1. Place + o - 1 \in Addr /\ Place + o - 1 # Params
    BY <1>1, PlaceFits DEF BootmInv
  <2>2. Seen(Place + o - 1) = [img |-> os.img, off |-> o]
    BY <1>1 DEF BootmInv, SeesKernel
  <2> QED  BY <1>1, <1>4, <2>1, <2>2 DEF Seen
<1>8. Seen(Params)' = Tags
  BY <1>4, BootmAssumption
<1>9. SeesKernel'
  BY <1>1, <1>7, <1>8 DEF SeesKernel
<1>10. Caches'
  BY <1>1 DEF Caches, AtIcache, AtFlushed, AtOff, AtInval, AtKernel
<1> QED  BY <1>3, <1>5, <1>6, <1>9, <1>10 DEF BootmInv

(***************************************************************************)
(* From there on nothing changes what is seen but the step that turns the  *)
(* data cache off, and then nothing is dirty.                              *)
(***************************************************************************)
LEMMA SeenKept ==
  ASSUME BootmInv, func \in AtPrepared, func' \in AtPrepared, Contents', UNCHANGED os,
         dcache' \in BOOLEAN, icache' \in BOOLEAN, ilines' \in BOOLEAN,
         \A a \in Addr : Seen(a)' = Seen(a)
  PROVE  TypeOK' /\ OsFits' /\ SeesKernel'
<1>1. func \in AtChecked /\ func \in AtLoaded /\ func' \in AtLoaded /\ func' # "load_os"
  BY DEF AtChecked, AtLoaded, AtPrepared, AtIcache, AtFlushed, AtOff, AtInval, AtKernel
<1>2. Size' = Size /\ Place' = Place
  BY DEF Size, Place, InPlace
<1>3. OsFits'
  BY <1>1, <1>2 DEF BootmInv, OsFits
<1>4. \A o \in 1 .. Size : Seen(Place + o - 1)' = [img |-> os.img, off |-> o]
  <2> SUFFICES ASSUME NEW o \in 1 .. Size
               PROVE  Seen(Place + o - 1)' = [img |-> os.img, off |-> o]
    OBVIOUS
  <2>1. Place + o - 1 \in Addr
    BY <1>1, PlaceFits DEF BootmInv
  <2>2. Seen(Place + o - 1) = [img |-> os.img, off |-> o]
    BY <1>1 DEF BootmInv, SeesKernel
  <2> QED  BY <1>2, <2>1, <2>2 DEF Seen
<1>5. Seen(Params)' = Tags
  BY BootmAssumption DEF BootmInv, SeesKernel
<1>6. SeesKernel'
  BY <1>1, <1>2, <1>4, <1>5 DEF SeesKernel
<1>7. TypeOK'
  BY <1>1 DEF BootmInv, TypeOK, Contents, AtPrepared, AtIcache, AtFlushed, AtOff, AtInval, AtKernel
<1> QED  BY <1>3, <1>6, <1>7

LEMMA CleanUpStep ==
  BootmInv /\ (IcacheDisable \/ InvalidateIcache \/ FlushDcache \/ DcacheOff \/ InvalidateDcache \/ Jump)
    => BootmInv'
<1> SUFFICES ASSUME BootmInv,
                    IcacheDisable \/ InvalidateIcache \/ FlushDcache \/ DcacheOff \/ InvalidateDcache \/ Jump
             PROVE  BootmInv'
  OBVIOUS
<1>1. /\ func \in AtPrepared /\ func' \in AtPrepared /\ UNCHANGED os
      /\ dcache' \in BOOLEAN /\ icache' \in BOOLEAN /\ ilines' \in BOOLEAN
  BY DEF BootmInv, TypeOK, IcacheDisable, InvalidateIcache, FlushDcache, DcacheOff, InvalidateDcache, Jump,
      machine, AtPrepared, AtIcache, AtFlushed, AtOff, AtInval, AtKernel
<1>2. ASSUME Contents', \A a \in Addr : Seen(a)' = Seen(a), Caches'
      PROVE  BootmInv'
  BY <1>1, <1>2, SeenKept DEF BootmInv
<1>3. CASE IcacheDisable
  <2>1. Contents' /\ \A a \in Addr : Seen(a)' = Seen(a)
    BY <1>3 DEF IcacheDisable, BootmInv, Contents, Seen
  <2>2. Caches'
    BY <1>3 DEF IcacheDisable, BootmInv, Caches, AtIcache, AtFlushed, AtOff, AtInval, AtKernel
  <2> QED  BY <1>2, <2>1, <2>2
<1>4. CASE InvalidateIcache
  <2>1. Contents' /\ \A a \in Addr : Seen(a)' = Seen(a)
    BY <1>4 DEF InvalidateIcache, BootmInv, Contents, Seen
  <2>2. Caches'
    BY <1>4 DEF InvalidateIcache, BootmInv, Caches, AtIcache, AtFlushed, AtOff, AtInval, AtKernel
  <2> QED  BY <1>2, <2>1, <2>2
<1>5. CASE FlushDcache
  <2>1. dcache /\ UNCHANGED dcache /\ CleanInval(Addr)
    BY <1>5 DEF FlushDcache, BootmInv, Caches, AtInval, AtKernel
  <2>2. Contents' /\ \A a \in Addr : Seen(a)' = Seen(a)
    BY <2>1, CleanKeeps DEF BootmInv
  <2>3. Dirty' = {}
    BY <2>1 DEF Dirty, CleanInval
  <2>4. Caches'
    BY <1>5, <2>3 DEF FlushDcache, BootmInv, Caches, AtIcache, AtFlushed, AtOff, AtInval, AtKernel
  <2> QED  BY <1>2, <2>2, <2>4
<1>6. CASE DcacheOff
  <2>1. Dirty = {} /\ dcache /\ ~dcache' /\ UNCHANGED <<ram, cached>>
    BY <1>6 DEF DcacheOff, BootmInv, Caches, AtOff, AtInval, AtKernel
  <2>2. Contents' /\ \A a \in Addr : Seen(a)' = Seen(a)
    BY <2>1 DEF Dirty, Seen, BootmInv, Contents
  <2>3. Dirty' = {}
    BY <2>1 DEF Dirty
  <2>4. Caches'
    BY <1>6, <2>3 DEF DcacheOff, BootmInv, Caches, AtIcache, AtFlushed, AtOff, AtInval, AtKernel
  <2> QED  BY <1>2, <2>2, <2>4
<1>7. CASE InvalidateDcache
  <2>1. ~dcache /\ UNCHANGED <<ram, dcache>> /\ cached' = [a \in Addr |-> NoLine]
    BY <1>7 DEF InvalidateDcache, BootmInv, Caches, AtInval, AtKernel
  <2>2. Contents' /\ \A a \in Addr : Seen(a)' = Seen(a)
    BY <2>1, WordsAreWords DEF Seen, BootmInv, Contents
  <2>3. Dirty' = {} /\ \A a \in Addr : cached'[a] = NoLine
    BY <2>1 DEF Dirty
  <2>4. Caches'
    BY <1>7, <2>3 DEF InvalidateDcache, BootmInv, Caches, AtIcache, AtFlushed, AtOff, AtInval, AtKernel
  <2> QED  BY <1>2, <2>2, <2>4
<1>8. CASE Jump
  <2>1. UNCHANGED <<ram, cached, dcache, icache, ilines>> /\ func = "jump" /\ func' = "kernel"
    BY <1>8 DEF Jump, machine
  <2>2. Contents' /\ \A a \in Addr : Seen(a)' = Seen(a)
    BY <2>1 DEF Seen, BootmInv, Contents
  <2>3. Dirty' = Dirty
    BY <2>1 DEF Dirty
  <2>4. Caches'
    BY <2>1, <2>3 DEF BootmInv, Caches, AtIcache, AtFlushed, AtOff, AtInval, AtKernel
  <2> QED  BY <1>2, <2>2, <2>4
<1> QED  BY <1>3, <1>4, <1>5, <1>6, <1>7, <1>8

(* The caches, by themselves.                                              *)
LEMMA QuietStep == BootmInv /\ Quiet => BootmInv'
<1> SUFFICES ASSUME BootmInv, Quiet PROVE BootmInv'  OBVIOUS
<1>1. /\ Contents' /\ UNCHANGED <<func, dcache, icache, os>>
      /\ \A a \in Addr : Seen(a)' = Seen(a)
      /\ Dirty' \subseteq Dirty
  BY QuietKeeps DEF BootmInv
<1>2. dcache \/ icache
  BY DEF Quiet, WriteBack, Drop, Fetch, FetchInstructions
<1>3. ilines' \in BOOLEAN /\ (func \in AtFlushed => ~ilines')
  <2>1. ilines \in BOOLEAN /\ (func \in AtFlushed => ~ilines /\ ~icache)
    BY DEF BootmInv, TypeOK, Caches, AtIcache
  <2>2. UNCHANGED ilines \/ (icache /\ ilines' = TRUE)
    BY DEF Quiet, WriteBack, Drop, Fetch, FetchInstructions
  <2>3. CASE UNCHANGED ilines
    BY <2>1, <2>3
  <2>4. CASE icache /\ ilines' = TRUE
    BY <2>1, <2>4
  <2> QED  BY <2>2, <2>3, <2>4
<1>4. func \notin AtInval
  BY <1>2 DEF BootmInv, Caches, AtIcache, AtFlushed, AtOff
<1>5. Caches'
  BY <1>1, <1>3, <1>4 DEF BootmInv, Caches, AtInval
<1>6. CASE func \in AtPrepared
  BY <1>1, <1>3, <1>5, <1>6, SeenKept DEF BootmInv, TypeOK
<1>7. CASE func \notin AtPrepared
  <2>1. TypeOK'
    BY <1>1, <1>3 DEF BootmInv, TypeOK, Contents
  <2>2. OsFits' /\ Size' = Size /\ Place' = Place
    BY <1>1 DEF BootmInv, OsFits, Size, Place, InPlace
  <2>3. ASSUME func \in AtChecked, NEW o \in 1 .. Size
        PROVE  /\ Seen(LoadAddr + o)' = Seen(LoadAddr + o)
               /\ Seen(Place + o - 1)' = Seen(Place + o - 1)
    <3>1. LoadAddr + o \in Addr /\ Place + o - 1 \in Addr
      BY <2>3, PlaceFits DEF BootmInv
    <3> QED  BY <1>1, <2>2, <3>1 DEF Seen
  <2>4. SeesKernel'
    BY <1>1, <1>7, <2>2, <2>3 DEF BootmInv, SeesKernel, AtChecked
  <2> QED  BY <1>1, <1>5, <2>1, <2>2, <2>4 DEF BootmInv
<1> QED  BY <1>6, <1>7

(* A reset, whatever was going on.                                         *)
LEMMA ResetStep == BootmInv /\ BoardReset => BootmInv'
<1> SUFFICES ASSUME BootmInv, BoardReset PROVE BootmInv'  OBVIOUS
<1>1. 0 \in Addr
  BY BootmAssumption DEF Addr
<1> QED  BY <1>1, WordsAreWords
    DEF BoardReset, BootmInv, TypeOK, Contents, OsFits, SeesKernel, Caches, NoOs,
        AtKernel, AtInval, AtOff, AtFlushed, AtIcache, AtPrepared, AtLoaded, AtChecked

LEMMA StutterStep == BootmInv /\ UNCHANGED vars => BootmInv'
  BY DEF BootmInv, TypeOK, Contents, OsFits, SeesKernel, Caches, Seen, Dirty, Size, Place, InPlace, vars

LEMMA StepInv == BootmInv /\ [Next]_vars => BootmInv'
  BY GetImageStep, GetKernelStep, LoadOsStep, FlushLoadedStep, PrepLinuxStep, CleanUpStep, QuietStep,
     ResetStep, StutterStep DEF Next, Quiet

LEMMA Invariant == Spec => []BootmInv
  BY InitInv, StepInv, PTL DEF Spec

(***************************************************************************)
(* The properties.                                                         *)
(***************************************************************************)
(* The types, whatever is read and whenever the board is reset.            *)
THEOREM BootmTypeCorrect == Spec => []TypeOK
<1>1. BootmInv => TypeOK
  BY DEF BootmInv
<1> QED  BY <1>1, Invariant, PTL

(* The kernel is whole when it starts, and starts within itself: the       *)
(* caches are off then, so that what the CPU was to see is what is in RAM. *)
THEOREM KernelIntactHolds == Spec => []KernelIntact
<1>1. BootmInv => KernelIntact
  <2> SUFFICES ASSUME BootmInv, func = "kernel"
               PROVE  /\ \A o \in 1 .. Size : ram[Place + o - 1] = [img |-> os.img, off |-> o]
                      /\ Images[os.img].arch /\ Images[os.img].type # "other"
                      /\ Images[os.img].comp = "none"
                      /\ os.ep \in Place .. Place + Size - 1
                      /\ ram[Params] = Tags
    BY DEF KernelIntact
  <2>1. func \in AtChecked /\ func \in AtLoaded /\ func \in AtPrepared /\ ~dcache
    BY DEF BootmInv, Caches, AtChecked, AtLoaded, AtPrepared, AtIcache, AtFlushed, AtOff, AtInval, AtKernel
  <2>2. os.ep \in Place .. Place + Size - 1
    BY <2>1, EntersKernel DEF BootmInv
  <2> QED  BY <2>1, <2>2 DEF BootmInv, OsFits, SeesKernel, Seen
<1> QED  BY <1>1, Invariant, PTL

(* The caches are off and empty when the kernel starts.                    *)
THEOREM CleanHandoverHolds == Spec => []CleanHandover
<1>1. BootmInv => CleanHandover
  BY DEF BootmInv, Caches, CleanHandover, AtIcache, AtFlushed, AtOff, AtInval, AtKernel
<1> QED  BY <1>1, Invariant, PTL

(* The last invalidation of the data cache finds no dirty line.            *)
THEOREM NothingDiscardedHolds == Spec => NothingDiscarded
<1>1. BootmInv /\ [Next]_vars => [InvalidateDcache => Dirty = {}]_vars
  BY DEF BootmInv, Caches, InvalidateDcache, AtOff, AtInval
<1> QED  BY <1>1, Invariant, PTL DEF Spec, NothingDiscarded
=============================================================================
