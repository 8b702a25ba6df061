---------------------------- MODULE ShellSyntax ----------------------------
(***************************************************************************)
(* How the shell reads a line (hush.c: parse_stream, done_word,            *)
(* reserved_word, done_pipe, parse_stream_outer): the tokens of a line go  *)
(* one by one into a list of pipes; a reserved word that opens a construct *)
(* puts the context aside, the one that closes it makes the list read      *)
(* meanwhile the group of the command under way.                           *)
(*                                                                         *)
(* A token is a pair.  A "word" or an "assign" (a name and the = after     *)
(* it) stands for characters that flow through; "dollar" is $name as it is *)
(* typed, "ref" the same name once handle_dollar has marked it; "quoted"   *)
(* holds the tokens between two quotes; an "op" is a separator.  A word of *)
(* the line is a sequence of tokens, a text is too.                        *)
(***************************************************************************)
EXTENDS Naturals, Sequences

CONSTANTS
  CommandTable,   \* the names in the command table, in its order
  Spell(_),       \* the letters of a name
  MaxArgs,        \* the words a command takes, its name among them
  Env             \* the environment: a text for each of its names

Word(w)   == <<"word", w>>
Assign(x) == <<"assign", x>>
Dollar(x) == <<"dollar", x>>
Ref(x)    == <<"ref", x>>
Quoted(t) == <<"quoted", t>>
Op(o)     == <<"op", o>>

Kind(t) == t[1]

(* A new line in a word that held a name has become a blank, within quotes *)
(* too (which hold no quotes).                                             *)
BlankFor(t) == IF t = Op("\n") THEN Op(" ") ELSE t
Spaced(text) ==
  [i \in DOMAIN text |->
     IF Kind(text[i]) = "quoted" THEN Quoted([j \in DOMAIN text[i][2] |-> BlankFor(text[i][2][j])])
     ELSE BlankFor(text[i])]

(***************************************************************************)
(* reserved_list: the words that may follow, and the two kinds that open   *)
(* and close a construct (FLAG_START, FLAG_END).                           *)
(***************************************************************************)
Openers == {"if", "for", "while", "until"}
Closers == {"fi", "done"}

Follow ==
  [w \in Openers \cup Closers \cup {"then", "elif", "else", "in", "do"} |->
     CASE w \in {"if", "elif"}       -> {"then"}
       [] w = "then"                 -> {"elif", "else", "fi"}
       [] w = "else"                 -> {"fi"}
       [] w = "for"                  -> {"in"}
       [] w \in {"while", "until", "in"} -> {"do"}
       [] w = "do"                   -> {"done"}
       [] w \in Closers              -> {}]

(***************************************************************************)
(* A child_prog: argv and group are empty where the code has NULL; sp      *)
(* counts the names to expand.  A pipe holds one program at most, since    *)
(* there is no | between commands.                                         *)
(***************************************************************************)
NullChild == [argv |-> <<>>, group |-> <<>>, sp |-> 0]
IsNull(child) == child.argv = <<>> /\ child.group = <<>>

NewContext == [list |-> <<>>, child |-> NullChild, w |-> "none", old_flag |-> {}]

Pipe(child, type, mode) ==
  [progs |-> IF IsNull(child) THEN <<>> ELSE <<child>>, followup |-> type, r_mode |-> mode]

DonePipe(ctx, type) ==
  [ctx EXCEPT !.list = Append(@, Pipe(ctx.child, type, ctx.w)), !.child = NullChild]

(* The list with the empty pipe that done_pipe puts after the last one.    *)
ListHead(ctx) == Append(ctx.list, Pipe(NullChild, "none", "none"))

(***************************************************************************)
(* The state of the reader: `left' is the input, dest the word under way,  *)
(* nonnull that a quote was in it, stack the contexts put aside, bad what  *)
(* the last done_word returned, complained that "syntax error" has been    *)
(* printed, rcode what parse_stream returns.                               *)
(***************************************************************************)
Reader(text, again) ==
  [left |-> text, again |-> again, dest |-> <<>>, nonnull |-> FALSE, ctx |-> NewContext,
   stack |-> <<>>, bad |-> FALSE, complained |-> FALSE, rcode |-> "reading"]

Complain(r) == [r EXCEPT !.bad = TRUE, !.complained = TRUE]
Reset(r)    == [r EXCEPT !.dest = <<>>, !.nonnull = FALSE]

Open(r, w) ==
  [r EXCEPT !.stack = Append(@, r.ctx), !.ctx = [NewContext EXCEPT !.w = w, !.old_flag = Follow[w]]]

\* Mutant: the flags of the inner construct stay after it is closed.
CloseKeepingFlags(r, w) ==
  LET outer  == r.stack[Len(r.stack)]
      closed == DonePipe([r.ctx EXCEPT !.w = w], "seq")
  IN  [r EXCEPT !.ctx = [outer EXCEPT !.child.group = ListHead(closed), !.old_flag = r.ctx.old_flag],
                !.stack = SubSeq(@, 1, Len(@) - 1)]

Close(r, w) ==
  LET outer  == r.stack[Len(r.stack)]
      closed == DonePipe([r.ctx EXCEPT !.w = w], "seq")
  IN  [r EXCEPT !.ctx = [outer EXCEPT !.child.group = ListHead(closed)],
                !.stack = SubSeq(@, 1, Len(@) - 1)]

MisplacedOpener(r, w) == w \in Openers /\ r.ctx.w \in {"in", "for"}
Misplaced(r, w) ==
  \/ MisplacedOpener(r, w)
  \/ w \notin Openers /\ (r.ctx.w = "none" \/ w \notin r.ctx.old_flag)

(* reserved_word, and the result done_word makes of it.                    *)
ReservedWord(r, w) ==
  LET after == IF Misplaced(r, w)   THEN Complain([r EXCEPT !.ctx.w = "sntx"])
               ELSE IF w \in Openers THEN Open(r, w)
               ELSE IF w \in Closers THEN Close(r, w)
               ELSE [r EXCEPT !.ctx.w = w, !.ctx.old_flag = Follow[w]]
  IN  Reset([after EXCEPT !.bad = (after.ctx.w = "sntx")])

AddArgument(r) ==
  LET added == Reset([r EXCEPT !.ctx.child.argv = Append(@, r.dest), !.bad = FALSE])
  IN  IF r.ctx.w = "for" THEN [added EXCEPT !.ctx = DonePipe(@, "seq")] ELSE added

IsReserved(r) ==
  /\ r.ctx.child.argv = <<>>
  /\ ~r.again
  /\ \E w \in DOMAIN Follow : r.dest = <<Word(w)>>

DoneWord(r) ==
  IF r.dest = <<>> /\ ~r.nonnull THEN [r EXCEPT !.bad = FALSE]
  ELSE IF r.ctx.child.group # <<>> THEN Complain(r)
  ELSE IF IsReserved(r) THEN ReservedWord(r, r.dest[1][2])
  ELSE AddArgument(r)

(***************************************************************************)
(* One turn of parse_stream.  A blank looks at what done_word says, the    *)
(* other separators do not; & and | alone are not known.                   *)
(***************************************************************************)
Return(r, rcode) == [r EXCEPT !.rcode = rcode]

Blank(r) == LET d == DoneWord(r) IN IF d.bad THEN Return(d, "1") ELSE d

Newline(r) ==
  LET d == Blank(r)
      p == [d EXCEPT !.ctx = DonePipe(@, "seq")]
  IN  IF d.rcode = "1" THEN d ELSE IF p.ctx.w = "none" THEN Return(p, "0") ELSE p

Separator(r, type) == LET d == DoneWord(r) IN [d EXCEPT !.ctx = DonePipe(@, type)]

ReadOp(r, o) ==
  CASE o = " "  -> Blank(r)
    [] o = "\n" -> Newline(r)
    [] o = ";"  -> Separator(r, "seq")
    [] o = "&&" -> Separator(r, "and")
    [] o = "||" -> Separator(r, "or")
    [] OTHER    -> Return(Complain(DoneWord(r)), "1")

ReadToken(r, t) ==
  CASE Kind(t) = "op"     -> ReadOp(r, t[2])
    [] Kind(t) = "quoted" -> [r EXCEPT !.dest = @ \o t[2], !.nonnull = TRUE]
    [] Kind(t) = "dollar" -> [r EXCEPT !.dest = Append(@, Ref(t[2])), !.ctx.child.sp = @ + 1]
    [] OTHER              -> [r EXCEPT !.dest = Append(@, t)]

Read(r) ==
  IF r.left = <<>> THEN Return(r, "eof")
  ELSE LET next == [r EXCEPT !.left = Tail(@)] IN ReadToken(next, Head(r.left))

(***************************************************************************)
(* parse_stream_outer: a list runs unless parse_stream returned 1 or a     *)
(* construct is open, which old_flag tells.                                *)
(***************************************************************************)
Accepted(r) == r.rcode # "1" /\ r.ctx.old_flag = {}

ListRead(r) == ListHead(Separator(r, "seq").ctx)
=============================================================================
