------------------------------- MODULE Script -------------------------------
(***************************************************************************)
(* What a script of the shell means, stated on the script as it is written *)
(* and not on what the shell makes of it: which commands run, with which   *)
(* arguments, given the codes the commands before them returned.           *)
(*                                                                         *)
(* A list is a sequence of entries [do, sep]; what an entry does is a      *)
(* command (a sequence of words), an if, a while or until, or a for.       *)
(***************************************************************************)
EXTENDS ShellSyntax, Integers, FiniteSets, SequencesExt

Entry(do, sep)         == [do |-> do, sep |-> sep]
Run(words)             == [type |-> "run", words |-> words]
If(arms, otherwise)    == [type |-> "if", arms |-> arms, otherwise |-> otherwise]
Arm(cond, body)        == [cond |-> cond, body |-> body]
Loop(word, cond, body) == [type |-> "loop", word |-> word, cond |-> cond, body |-> body]
For(x, values, body)   == [type |-> "for", var |-> x, values |-> values, body |-> body]

(***************************************************************************)
(* The line a script is written as.  nl is what stands at the end of a     *)
(* command inside a construct: ";" or a new line.                          *)
(***************************************************************************)
Join(parts, between) ==
  FlattenSeq([i \in DOMAIN parts |-> IF i = 1 THEN parts[i] ELSE <<between>> \o parts[i]])

Keyword(w) == <<Word(w), Op(" ")>>

RECURSIVE Written(_, _)
WrittenDo(do, nl) ==
  CASE do.type = "run"  -> Join(do.words, Op(" "))
    [] do.type = "loop" ->
         Keyword(do.word) \o Written(do.cond, nl) \o Keyword("do") \o Written(do.body, nl)
         \o <<Word("done")>>
    [] do.type = "for"  ->
         Keyword("for") \o <<do.var, Op(" ")>> \o Keyword("in") \o Join(do.values, Op(" "))
         \o <<Op(nl)>> \o Keyword("do") \o Written(do.body, nl) \o <<Word("done")>>
    [] do.type = "if"   ->
         FlattenSeq([i \in DOMAIN do.arms |->
            Keyword(IF i = 1 THEN "if" ELSE "elif") \o Written(do.arms[i].cond, nl)
            \o Keyword("then") \o Written(do.arms[i].body, nl)])
         \o (IF do.otherwise = <<>> THEN <<>> ELSE Keyword("else") \o Written(do.otherwise, nl))
         \o <<Word("fi")>>

Written(list, nl) ==
  FlattenSeq([i \in DOMAIN list |->
     WrittenDo(list[i].do, nl) \o <<Op(IF list[i].sep = ";" THEN nl ELSE list[i].sep), Op(" ")>>])

Line(list, nl) ==
  FlattenSeq([i \in DOMAIN list |-> WrittenDo(list[i].do, nl) \o <<Op(list[i].sep), Op(" ")>>])
  \o <<Op("\n")>>

(***************************************************************************)
(* Names and texts.  A name of the environment hides a variable.           *)
(***************************************************************************)
Lookup(store, code, x) ==
  IF x = "?"                  THEN <<Word(IF code = 0 THEN "0" ELSE "1")>>
  ELSE IF x \in DOMAIN Env   THEN Env[x]
  ELSE IF x \in DOMAIN store THEN store[x]
  ELSE <<>>

Expanded(word, store, code) ==
  LET text == FlattenSeq([i \in DOMAIN word |->
                 CASE Kind(word[i]) = "dollar" -> Lookup(store, code, word[i][2])
                   [] Kind(word[i]) = "quoted" -> word[i][2]
                   [] OTHER                    -> <<word[i]>>])
  IN  IF \E i \in DOMAIN word : Kind(word[i]) = "dollar" THEN Spaced(text) ELSE text

(* The parts of a text between the separators for which Cut holds.         *)
Parts(text, Cut(_)) ==
  LET cuts == SelectSeq([i \in DOMAIN text |-> i], LAMBDA i : Cut(text[i]))
      ends == <<0>> \o cuts \o <<Len(text) + 1>>
  IN  [k \in 1..(Len(ends) - 1) |-> SubSeq(text, ends[k] + 1, ends[k + 1] - 1)]

NonEmpty(parts) == SelectSeq(parts, LAMBDA p : p # <<>>)
Words(text)     == NonEmpty(Parts(text, LAMBDA t : t = Op(" ")))

(* A text that holds nothing but commands and what joins them.             *)
Joins == {Op(";"), Op("&&"), Op("||")}
Flat(text) ==
  LET parts == Parts(text, LAMBDA t : t \in Joins)
      seps  == SelectSeq(text, LAMBDA t : t \in Joins) \o <<Op(";")>>
      all   == [i \in DOMAIN parts |-> Entry(Run(Words(parts[i])), seps[i][2])]
  IN  SelectSeq(all, LAMBDA e : e.do.words # <<>>)

(* The command a word stands for: the one of that name (what follows a dot *)
(* left aside), else the only one whose name begins so.                    *)
UpToDot(s) == LET dots == {i \in DOMAIN s : s[i] = "."}
              IN  IF dots = {} THEN s ELSE SubSeq(s, 1, (CHOOSE i \in dots : \A j \in dots : i <= j) - 1)
Meant(name) ==
  LET typed == UpToDot(Spell(name))
      fits  == {c \in Range(CommandTable) : IsPrefix(typed, Spell(c))}
      full  == {c \in fits : Spell(c) = typed}
  IN  IF full # {} THEN full ELSE IF Cardinality(fits) = 1 THEN fits ELSE {}

(***************************************************************************)
(* The machine.  todo is a stack of what is left to do; store holds the    *)
(* variables; code is that of the last command.  It stops at a command and *)
(* at each look at the keyboard; Step does what lies between.              *)
(***************************************************************************)
Entries(list, polls) ==
  [is |-> "entries", list |-> list, polls |-> polls, skip |-> FALSE, looked |-> FALSE]
Do(do)      == [is |-> "do", do |-> do]
Look        == [is |-> "look"]
List(list)  == Entries(list, FALSE)

Put(due, front)   == [due EXCEPT !.todo = front \o Tail(@)]
Item(due)        == Head(due.todo)
Finished(due)     == due.todo = <<>>
AtCommand(due)    == ~Finished(due) /\ Item(due).is = "command"
AtLook(due)       == ~Finished(due) /\ Item(due).is = "look"

(* Entry by entry.  After a failed && or a fulfilled || everything up to   *)
(* the next ";" is skipped.  The condition of a loop looks at the keyboard *)
(* before each entry, the skipped ones too.                                *)
StepEntries(due) ==
  LET it      == Item(due)
      first   == Head(it.list)
      others  == [it EXCEPT !.list = Tail(it.list), !.looked = FALSE]
  IN  CASE it.list = <<>>           -> Put(due, <<>>)
        [] it.list # <<>> /\ it.polls /\ ~it.looked
                                    -> Put(due, <<Look, [it EXCEPT !.looked = TRUE]>>)
        [] it.list # <<>> /\ (it.polls => it.looked) /\ it.skip
                                    -> Put(due, <<[others EXCEPT !.skip = first.sep # ";"]>>)
        [] OTHER                    -> Put(due, <<Do(first.do), [is |-> "join", sep |-> first.sep],
                                                  others>>)

StepJoin(due) ==
  LET sep  == Item(due).sep
      skip == (sep = "&&" /\ due.code # 0) \/ (sep = "||" /\ due.code = 0)
  IN  [due EXCEPT !.todo = <<[@[2] EXCEPT !.skip = skip]>> \o SubSeq(@, 3, Len(@))]

Set(store, x, value) == [y \in DOMAIN store \cup {x} |-> IF y = x THEN value ELSE store[y]]

IsAssignment(words) == \A i \in DOMAIN words : Kind(words[i][1]) = "assign"
HasNames(words)     == \E i \in DOMAIN words : \E j \in DOMAIN words[i] : Kind(words[i][j]) = "dollar"

StepAssignments(due, words) ==
  [Put(due, <<>>) EXCEPT
     !.store = FoldLeft(LAMBDA s, w : Set(s, w[1][2], Expanded(Tail(w), s, due.code)), @, words),
     !.code  = 0]

(* HUSH_NO_EVAL keeps what names stand for as it is.                       *)
Literal(store) ==
  "HUSH_NO_EVAL" \in DOMAIN store /\ store["HUSH_NO_EVAL"] \notin {<<>>, <<Word("0")>>}

(* With a name in it a command is expanded, and what that gives is read as *)
(* commands; if it cannot be read, nothing runs and the code stays.        *)
StepRun(due, words) ==
  LET texts == [i \in DOMAIN words |-> Expanded(words[i], due.store, due.code)]
      text  == Join(texts, Op(" "))
      meant == IF Len(texts[1]) = 1 /\ Kind(texts[1][1]) = "word" /\ Len(texts) <= MaxArgs
               THEN Meant(texts[1][1][2]) ELSE {}
      reads == HasNames(words) /\ ~Literal(due.store)
  IN  CASE IsAssignment(words) -> StepAssignments(due, words)
        [] ~IsAssignment(words) /\ reads ->
             Put(due, IF Contains(text, Op("&")) THEN <<>> ELSE <<List(Flat(text))>>)
        [] ~IsAssignment(words) /\ ~reads ->
             IF meant = {} THEN [Put(due, <<>>) EXCEPT !.code = 1]
             ELSE Put(due, <<[is |-> "command", command |-> CHOOSE c \in meant : TRUE,
                              arguments |-> Tail(texts)]>>)

StepDo(due) ==
  LET do == Item(due).do
  IN  CASE do.type = "run"  -> StepRun(due, do.words)
        [] do.type = "if"   -> Put(due, <<[is |-> "arms", arms |-> do.arms, otherwise |-> do.otherwise]>>)
        [] do.type = "loop" -> Put(due, <<Entries(do.cond, TRUE), [is |-> "loop", loop |-> do]>>)
        [] do.type = "for"  -> Put(due, <<Look, [is |-> "first", loop |-> do]>>)

StepArms(due) ==
  LET it == Item(due)
  IN  IF it.arms = <<>> THEN Put(due, <<List(it.otherwise)>>)
      ELSE Put(due, <<List(it.arms[1].cond),
                      [is |-> "then", body |-> it.arms[1].body, else |-> [it EXCEPT !.arms = Tail(@)]]>>)

StepThen(due) ==
  Put(due, <<IF due.code = 0 THEN List(Item(due).body) ELSE Item(due).else>>)

StepLoop(due) ==
  LET loop == Item(due).loop
  IN  IF (loop.word = "while") = (due.code = 0) THEN Put(due, <<List(loop.body), Do(loop)>>)
      ELSE Put(due, <<>>)

(* The values of a for are those of its first pass; without any, nothing   *)
(* runs and the code is 0.                                                 *)
StepFirst(due) ==
  LET loop   == Item(due).loop
      values == FlattenSeq([i \in DOMAIN loop.values |->
                              Words(Expanded(loop.values[i], due.store, due.code))])
  IN  IF values = <<>> THEN [Put(due, <<>>) EXCEPT !.code = 0]
      ELSE Put(due, <<[is |-> "pass", loop |-> loop, values |-> values]>>)

(* The variable of a for may be what another name stands for.              *)
Variable(t, store) == IF Kind(t) = "dollar" THEN Lookup(store, 0, t[2])[1][2] ELSE t[2]

StepPass(due) ==
  LET it == Item(due)
  IN  IF it.values = <<>> THEN Put(due, <<>>)
      ELSE [Put(due, <<List(it.loop.body), Look, [it EXCEPT !.values = Tail(@)]>>) EXCEPT
              !.store = Set(@, Variable(it.loop.var, @), Head(it.values)), !.code = 0]

Step(due) ==
  CASE Item(due).is = "entries" -> StepEntries(due)
    [] Item(due).is = "join"    -> StepJoin(due)
    [] Item(due).is = "do"      -> StepDo(due)
    [] Item(due).is = "arms"    -> StepArms(due)
    [] Item(due).is = "then"    -> StepThen(due)
    [] Item(due).is = "loop"    -> StepLoop(due)
    [] Item(due).is = "first"   -> StepFirst(due)
    [] Item(due).is = "pass"    -> StepPass(due)

RECURSIVE Onward(_)
Onward(due) == IF Finished(due) \/ AtCommand(due) \/ AtLook(due) THEN due ELSE Onward(Step(due))

Begin(list, store) == Onward([todo |-> <<List(list)>>, store |-> store, code |-> 0])

(* The command at the front has returned a code.                           *)
After(due, code) == Onward([Put(due, <<>>) EXCEPT !.code = code])

(* A look at the keyboard: if Ctrl-C has been pressed the innermost loop   *)
(* is left, with code 1.                                                   *)
IsLoop(it) == it.is \in {"loop", "first", "pass"}
Looked(due, stop) ==
  LET loop == CHOOSE i \in DOMAIN due.todo : /\ IsLoop(due.todo[i])
                                             /\ \A j \in 1..(i - 1) : ~IsLoop(due.todo[j])
  IN  IF stop THEN Onward([due EXCEPT !.todo = SubSeq(@, loop + 1, Len(@)), !.code = 1])
      ELSE Onward(Put(due, <<>>))
=============================================================================
