------------------------------- MODULE Shell -------------------------------
(***************************************************************************)
(* main_loop and the shell it starts (main.c, hush.c, command.c).  After a *)
(* delay, which a key ends, bootcmd is read and run; then there is nothing *)
(* but a loop that prints.                                                 *)
(*                                                                         *)
(* reader is parse_stream at work, or idle.  frames are the calls of       *)
(* run_list_real that have not returned, the innermost last: a "group" has *)
(* been called for an if, while or for, a "line" from parse_stream_outer,  *)
(* by main_loop or for a command that was expanded and read again.         *)
(* The name of a for is made of letters, or of names to expand.            *)
(***************************************************************************)
EXTENDS ShellSyntax, Integers, FiniteSets, SequencesExt

CONSTANTS
  Keys,            \* what can be typed; "ctrlc" is Ctrl-C
  PollsPerSecond,  \* how often the countdown looks at the keyboard
  MaxCalls         \* how many calls the heap has room for: a bound

ShellAssumption ==
  /\ MaxArgs \in Nat \ {0}
  /\ PollsPerSecond \in Nat \ {0}
  /\ MaxCalls \in Nat \ {0}
ASSUME ShellAssumption

VARIABLES
  pc,               \* main_loop: "start", "countdown", "shell"; "forever", the loop
                    \* it ends in; "hung", the one of xmalloc
  bootdelay,
  polls,            \* left in this second
  line,             \* the text of bootcmd
  key,              \* what the UART has received, or "none"
  had_ctrlc,        \* ctrlc_was_pressed
  reader,
  frames,
  top_vars,
  last_return_code

main      == <<pc, bootdelay, polls, line>>
keyboard  == <<key, had_ctrlc>>
variables == <<top_vars, last_return_code>>
shellVars == <<main, keyboard, variables, reader, frames>>

Idle == [left |-> <<>>, rcode |-> "idle"]

Frame(list, kind) ==
  [list |-> list, kind |-> kind, at |-> 1, phase |-> "check", rpipe |-> 0,
   flag_rep |-> FALSE, flag_skip |-> TRUE, flag_restore |-> FALSE,
   if_code |-> 0, next_if_code |-> 0, skip |-> "xxxx", rcode |-> 0,
   listed |-> FALSE, values |-> <<>>]

(***************************************************************************)
(* main_loop: the delay and the key that ends it.                          *)
(***************************************************************************)
StartShell == pc' = "shell" /\ reader' = Reader(line, FALSE)
NoBoot     == pc' = "forever" /\ UNCHANGED reader

(* u_boot_hush_start, and process_boot_delay up to the first look at the   *)
(* keyboard.                                                               *)
EnterMainLoop ==
  /\ pc = "start"
  /\ top_vars' = [x \in {"HUSH_VERSION"} |-> <<Word("0.01")>>]
  /\ polls' = PollsPerSecond
  /\ CASE bootdelay = -1 \/ line = <<>>     -> NoBoot
       [] bootdelay > 0 /\ line # <<>>      -> pc' = "countdown" /\ UNCHANGED reader
       [] OTHER                             -> StartShell
  /\ UNCHANGED <<bootdelay, line, keyboard, last_return_code, frames>>

\* Mutant: the delay is counted down before it is looked at.
CountDownFirst ==
  /\ pc = "countdown"
  /\ key = "none"
  /\ polls' = polls - 1
  /\ IF polls > 0 THEN UNCHANGED <<pc, bootdelay, reader>> ELSE StartShell /\ bootdelay' = 0
  /\ UNCHANGED <<line, keyboard, variables, frames>>

(* abortboot_normal: any key ends the delay and the boot.                  *)
KeyPressed ==
  /\ pc = "countdown"
  /\ key # "none"
  /\ key' = "none"
  /\ bootdelay' = 0
  /\ NoBoot
  /\ UNCHANGED <<polls, line, had_ctrlc, variables, frames>>

CountDown ==
  /\ pc = "countdown"
  /\ key = "none"
  /\ IF polls > 1
     THEN polls' = polls - 1 /\ UNCHANGED <<pc, bootdelay, reader>>
     ELSE /\ polls' = PollsPerSecond
          /\ bootdelay' = bootdelay - 1
          /\ IF bootdelay > 1 THEN UNCHANGED <<pc, reader>> ELSE StartShell
  /\ UNCHANGED <<line, keyboard, variables, frames>>

(***************************************************************************)
(* Reading: one token, and what parse_stream_outer does at the end.        *)
(***************************************************************************)
Reading == reader # Idle

ReadOn ==
  /\ Reading
  /\ reader.rcode = "reading"
  /\ reader' = Read(reader)
  /\ UNCHANGED <<main, keyboard, variables, frames>>

RunLine ==
  /\ Reading
  /\ reader.rcode # "reading"
  /\ Accepted(reader)
  /\ reader' = Idle
  /\ frames' = Append(frames, Frame(ListRead(reader), "line"))
  /\ UNCHANGED <<main, keyboard, variables>>

(***************************************************************************)
(* run_list_real.  In(f) is the pipe the frame f stands at.                *)
(***************************************************************************)
Loops == {"while", "until", "for"}

In(f)     == f.list[f.at]
Top       == frames[Len(frames)]
Callers   == SubSeq(frames, 1, Len(frames) - 1)
Onto(f)  == [f EXCEPT !.at = IF f.flag_restore THEN f.rpipe ELSE f.at + 1, !.phase = "head"]
Goes(f)   == frames' = Append(Callers, f)
Running   == ~Reading /\ frames # <<>> /\ pc # "hung"

(* A pipe has returned a code: what the lists that follow make of it.      *)
Completed(f, code) ==
  LET mode == In(f).r_mode
      type == In(f).followup
  IN  Onto([f EXCEPT
        !.rcode        = code,
        !.next_if_code = IF mode \in {"if", "elif"} THEN code ELSE @,
        !.flag_rep     = CASE mode = "while" -> code = 0
                           [] mode = "until" -> code # 0
                           [] OTHER          -> @,
        !.skip         = IF (code = 0 /\ type = "or") \/ (code # 0 /\ type = "and") THEN mode ELSE @])

Completes(f, code) ==
  /\ Goes(Completed(f, code))
  /\ last_return_code' = code

(* The innermost call returns; a line that was read again answers with     *)
(* last_return_code, whatever its list returned.  What a group's list has  *)
(* become stays in the caller's.                                           *)
Kept(caller) ==
  IF Top.kind = "group" THEN [caller EXCEPT !.list[caller.at].progs[1].group = Top.list] ELSE caller

Returns(code) ==
  LET caller == Callers[Len(Callers)]
      answer == IF Top.kind = "group" THEN code ELSE last_return_code
  IN  IF Callers = <<>> THEN frames' = <<>> /\ pc' = "forever" /\ UNCHANGED last_return_code
      ELSE /\ frames' = [Callers EXCEPT ![Len(Callers)] = Completed(Kept(caller), answer)]
           /\ last_return_code' = answer
           /\ UNCHANGED pc

(* The text cannot be run: parse_stream_outer returns, the caller goes on  *)
(* with the code it had.                                                   *)
RefuseLine ==
  /\ Reading
  /\ reader.rcode # "reading"
  /\ ~Accepted(reader)
  /\ reader' = Idle
  /\ IF frames = <<>> THEN pc' = "forever" /\ UNCHANGED <<frames, last_return_code>>
     ELSE Completes(Top, last_return_code) /\ UNCHANGED pc
  /\ UNCHANGED <<bootdelay, polls, line, keyboard, top_vars>>

(* The check of "for" that comes first.                                    *)
ForAtFault(list) ==
  \E i \in DOMAIN list :
    \/ list[i].r_mode \in {"in", "for"} /\ i = Len(list)
    \/ list[i].r_mode = "in" /\ list[i + 1].r_mode = "in" /\ list[i + 1].progs # <<>>
    \/ list[i].r_mode = "for" /\ list[i + 1].r_mode # "in"

CheckFor ==
  /\ Running
  /\ Top.phase = "check"
  /\ IF ForAtFault(Top.list) THEN Returns(1)
     ELSE Goes([Top EXCEPT !.phase = "head"]) /\ UNCHANGED <<pc, last_return_code>>
  /\ UNCHANGED <<bootdelay, polls, line, keyboard, reader, top_vars>>

EndOfList ==
  /\ Running
  /\ Top.phase = "head"
  /\ Top.at > Len(Top.list)
  /\ Returns(Top.rcode)
  /\ UNCHANGED <<bootdelay, polls, line, keyboard, reader, top_vars>>

\* Mutant: Ctrl-C is not remembered.
LookOnce ==
  /\ Running
  /\ Top.phase = "head"
  /\ Top.at <= Len(Top.list)
  /\ In(Top).r_mode \in Loops
  /\ key' = "none"
  /\ had_ctrlc' = (key = "ctrlc")

(* At the head of a loop: ctrlc(), had_ctrlc().  A key that is not Ctrl-C  *)
(* is lost.                                                                *)
LookForCtrlC ==
  /\ Running
  /\ Top.phase = "head"
  /\ Top.at <= Len(Top.list)
  /\ In(Top).r_mode \in Loops
  /\ key' = "none"
  /\ had_ctrlc' = (had_ctrlc \/ key = "ctrlc")

LeaveLoop == had_ctrlc' /\ Returns(1)

EnterLoop ==
  /\ ~had_ctrlc'
  /\ Goes([Top EXCEPT !.phase = "pipe", !.flag_restore = FALSE,
                      !.flag_rep = @ /\ Top.rpipe # 0,
                      !.rpipe = IF @ = 0 THEN Top.at ELSE @])
  /\ UNCHANGED <<pc, last_return_code>>

LoopHead ==
  /\ LookForCtrlC
  /\ LeaveLoop \/ EnterLoop
  /\ UNCHANGED <<bootdelay, polls, line, reader, top_vars>>

(* The pipe itself.                                                        *)
AtPipe ==
  /\ Running
  /\ Top.at <= Len(Top.list)
  /\ Top.phase = "pipe" \/ (Top.phase = "head" /\ In(Top).r_mode \notin Loops)

\* Mutant: what is skipped does not end at the next ";".
SkippedOn(f) == In(f).r_mode = f.skip

Skipped(f) == In(f).r_mode = f.skip /\ f.flag_skip

SkipPipe ==
  /\ AtPipe
  /\ Skipped(Top)
  /\ Goes(Onto([Top EXCEPT !.flag_skip = In(Top).followup # "seq"]))
  /\ UNCHANGED <<main, keyboard, variables, reader>>

(* What every pipe that is not skipped does to the flags first.            *)
Entered(f) ==
  LET mode == In(f).r_mode
  IN  [f EXCEPT !.flag_skip = TRUE,
                !.skip = "xxxx",
                !.if_code = IF mode \in {"then", "else"} THEN f.next_if_code ELSE @,
                !.flag_restore = @ \/ (mode = "done" /\ f.flag_rep),
                !.rpipe = IF mode = "done" /\ ~f.flag_rep THEN 0 ELSE @]

PassedOver(f) ==
  LET mode == In(f).r_mode
  IN  \/ mode = "then" /\ f.if_code # 0
      \/ mode = "else" /\ f.if_code = 0
      \/ mode = "in"
      \/ mode = "do" /\ ~f.flag_rep
      \/ In(f).progs = <<>> /\ ~(mode = "elif" /\ f.if_code = 0)

PassOver ==
  /\ AtPipe
  /\ ~Skipped(Top)
  /\ PassedOver(Entered(Top))
  /\ Goes(Onto(Entered(Top)))
  /\ UNCHANGED <<main, keyboard, variables, reader>>

IfIsOver ==
  /\ AtPipe
  /\ ~Skipped(Top)
  /\ In(Top).r_mode = "elif"
  /\ Top.if_code = 0
  /\ Returns(Top.rcode)
  /\ UNCHANGED <<bootdelay, polls, line, keyboard, reader, top_vars>>


LookupParam(vs, x) ==
  IF x = "?"               THEN <<Word(IF last_return_code = 0 THEN "0" ELSE "1")>>
  ELSE IF x \in DOMAIN Env THEN Env[x]
  ELSE IF x \in DOMAIN vs  THEN vs[x]
  ELSE <<>>

HasName(word) == \E i \in DOMAIN word : Kind(word[i]) = "ref"

InsertVarValue(vs, word) ==
  LET text == FlattenSeq([i \in DOMAIN word |->
                 IF Kind(word[i]) = "ref" THEN LookupParam(vs, word[i][2]) ELSE <<word[i]>>])
  IN  IF HasName(word) THEN Spaced(text) ELSE text

SetLocalVar(vs, x, value) ==
  IF x = "HUSH_VERSION" THEN vs
  ELSE [y \in DOMAIN vs \cup {x} |-> IF y = x THEN value ELSE vs[y]]

(* for: the list of values, cut at blanks, and one pass after the other: a *)
(* command "name=value", which is an assignment unless the name is still   *)
(* to be expanded.                                                         *)
Values(text) ==
  LET blanks == SelectSeq([i \in DOMAIN text |-> i], LAMBDA i : text[i] = Op(" "))
      ends   == <<0>> \o blanks \o <<Len(text) + 1>>
      cut    == [k \in 1..(Len(ends) - 1) |-> SubSeq(text, ends[k] + 1, ends[k + 1] - 1)]
  IN  SelectSeq(cut, LAMBDA value : value # <<>>)

MakeListIn(argv) == FlattenSeq([i \in DOMAIN argv |-> Values(InsertVarValue(top_vars, argv[i]))])

ForValues(f) ==
  LET next == f.list[f.at + 1]
  IN  IF f.listed THEN f.values
      ELSE IF next.progs = <<>> THEN <<>> ELSE MakeListIn(next.progs[1].argv)

AtFor == AtPipe /\ ~Skipped(Top) /\ In(Top).r_mode = "for" /\ In(Top).progs # <<>>

ForName == In(Top).progs[1].argv[1]

ForIsOver ==
  /\ AtFor
  /\ ForValues(Top) = <<>>
  /\ Goes(Onto([Entered(Top) EXCEPT !.listed = FALSE, !.flag_rep = FALSE]))
  /\ UNCHANGED <<main, keyboard, variables, reader>>

(* The next value is taken off the list.                                   *)
Passing == [Entered(Top) EXCEPT !.listed = TRUE, !.flag_rep = TRUE, !.values = Tail(ForValues(Top))]

ForPass ==
  /\ AtFor
  /\ ForValues(Top) # <<>>
  /\ ~HasName(ForName)
  /\ top_vars' = SetLocalVar(top_vars, ForName[1][2], Head(ForValues(Top)))
  /\ Completes(Passing, 0)
  /\ UNCHANGED <<main, keyboard, reader>>

(***************************************************************************)
(* run_pipe_real.                                                          *)
(***************************************************************************)
ToRun ==
  /\ AtPipe
  /\ ~Skipped(Top)
  /\ ~PassedOver(Entered(Top))
  /\ In(Top).r_mode # "for"
  /\ ~(In(Top).r_mode = "elif" /\ Top.if_code = 0)

Child == In(Top).progs[1]

RunGroup ==
  /\ ToRun
  /\ Child.group # <<>>
  /\ frames' = Append(Append(Callers, Entered(Top)), Frame(Child.group, "group"))
  /\ UNCHANGED <<main, keyboard, variables, reader>>

IsAssigned(word) == word # <<>> /\ Kind(word[1]) = "assign"

(* The assignments argv begins with.                                       *)
Prefix == SelectInSeq(Child.argv, LAMBDA w : ~IsAssigned(w))
Assignments == IF Prefix = 0 THEN Child.argv ELSE SubSeq(Child.argv, 1, Prefix - 1)
Rest        == IF Prefix = 0 THEN <<>> ELSE SubSeq(Child.argv, Prefix, Len(Child.argv))

Assigned ==
  FoldLeft(LAMBDA vs, w : SetLocalVar(vs, w[1][2], InsertVarValue(vs, Tail(w))), top_vars, Assignments)

Expansions    == Len(SelectSeq(Assignments, HasName))

HasArgv == ToRun /\ Child.group = <<>>

(* The frame that runs a command: the names in the assignments before it   *)
(* are taken off sp, for good.                                             *)
Calling == [Entered(Top) EXCEPT !.list[Top.at].progs[1].sp = @ - Expansions]

RunAssignments ==
  /\ HasArgv
  /\ Rest = <<>>
  /\ top_vars' = Assigned
  /\ Completes(Entered(Top), 0)
  /\ UNCHANGED <<main, keyboard, reader>>

(* make_string: what is left of argv, expanded, becomes a line.  With      *)
(* HUSH_NO_EVAL what a name stands for is marked to be taken as it is.     *)
NoEval(vs) == "HUSH_NO_EVAL" \in DOMAIN vs /\ vs["HUSH_NO_EVAL"] \notin {<<>>, <<Word("0")>>}

Marked(vs, word) ==
  LET text(t) == InsertVarValue(vs, <<t>>)
      marked  == FlattenSeq([i \in DOMAIN word |->
                    IF Kind(word[i]) = "ref" /\ NoEval(vs) /\ text(word[i]) # <<>>
                    THEN <<Quoted(text(word[i]))>> ELSE text(word[i])])
  IN  IF HasName(word) THEN Spaced(marked) ELSE marked

MakeString(vs, argv) ==
  FlattenSeq([i \in DOMAIN argv |-> Append(Marked(vs, argv[i]), Op(IF i < Len(argv) THEN " " ELSE "\n"))])

ReadsAgain == HasArgv /\ Rest # <<>> /\ Child.sp # Expansions

ReadAgain ==
  /\ ReadsAgain
  /\ Len(frames) < MaxCalls
  /\ top_vars' = Assigned
  /\ frames' = Append(Callers, Calling)
  /\ reader' = Reader(MakeString(Assigned, Rest), TRUE)
  /\ UNCHANGED <<main, keyboard, last_return_code>>

(* A pass of "for $x": "value=value" is read again.                        *)
NamedValue(vs, name, value) ==
  LET text == InsertVarValue(vs, name)
  IN  Spaced(IF text # <<>> /\ Kind(Last(text)) = "word"
             THEN Front(text) \o <<Assign(Last(text)[2])>> \o value
             ELSE text \o <<Word("=")>> \o value)

ForReadsAgain == AtFor /\ ForValues(Top) # <<>> /\ HasName(ForName)

ForPassAgain ==
  /\ ForReadsAgain
  /\ Len(frames) < MaxCalls
  /\ frames' = Append(Callers, Passing)
  /\ reader' = Reader(Append(NamedValue(top_vars, ForName, Head(ForValues(Top))), Op("\n")), TRUE)
  /\ UNCHANGED <<main, keyboard, variables>>

(* Every reading of an expanded text takes memory that is given back when  *)
(* it returns; xmalloc prints and loops when there is none left.           *)
OutOfMemory ==
  /\ ReadsAgain \/ ForReadsAgain
  /\ Len(frames) >= MaxCalls
  /\ pc' = "hung"
  /\ UNCHANGED <<bootdelay, polls, line, keyboard, variables, reader, frames>>

AtCall ==
  /\ HasArgv
  /\ Rest # <<>>
  /\ Child.sp = Expansions

(***************************************************************************)
(* cmd_process and find_cmd_tbl.  It is given argv with the assignments.   *)
(***************************************************************************)
Letters(word) ==
  FlattenSeq([i \in DOMAIN word |-> CASE Kind(word[i]) = "word"   -> Spell(word[i][2])
                                      [] Kind(word[i]) = "assign" -> Append(Spell(word[i][2]), "=")
                                      [] OTHER                    -> <<word[i][2]>>])

FindCmd(word) ==
  LET cmd   == Letters(word)
      dot   == SelectInSeq(cmd, LAMBDA c : c = ".")
      typed == IF dot = 0 THEN cmd ELSE SubSeq(cmd, 1, dot - 1)
      found == {i \in DOMAIN CommandTable : IsPrefix(typed, Spell(CommandTable[i]))}
      full  == {i \in found : Len(typed) = Len(Spell(CommandTable[i]))}
  IN  IF full # {} THEN full ELSE IF Cardinality(found) = 1 THEN found ELSE {}

Processed == IF Contains(Rest[1], Op(";")) THEN {} ELSE FindCmd(Child.argv[1])

(* Nothing of that name, or too many arguments.                            *)
RefuseCommand ==
  /\ AtCall
  /\ Processed = {} \/ Len(Child.argv) > MaxArgs
  /\ top_vars' = Assigned
  /\ Completes(Calling, 1)
  /\ UNCHANGED <<main, keyboard, reader>>

(* External: what a command does, and the code it returns.                 *)
RunCommand(command, arguments, code) ==
  /\ AtCall
  /\ Len(Child.argv) <= MaxArgs
  /\ \E i \in Processed : command = CommandTable[i]
  /\ arguments = Tail(Child.argv)
  /\ top_vars' = Assigned
  /\ Completes(Calling, code)
  /\ UNCHANGED <<main, keyboard, reader>>

(* External: a key is typed.                                               *)
TypeKey ==
  /\ key = "none"
  /\ pc \notin {"forever", "hung"}
  /\ key' \in Keys
  /\ UNCHANGED <<main, had_ctrlc, variables, reader, frames>>

Countdown == EnterMainLoop \/ KeyPressed \/ CountDown
Parse     == ReadOn \/ RunLine \/ RefuseLine
Lists     == CheckFor \/ EndOfList \/ SkipPipe \/ PassOver \/ IfIsOver \/ ForIsOver \/ ForPass
Pipes     == RunGroup \/ RunAssignments \/ ReadAgain \/ ForPassAgain \/ OutOfMemory \/ RefuseCommand
Command   == \E i \in DOMAIN CommandTable, code \in {0, 1} :
                AtCall /\ RunCommand(CommandTable[i], Tail(Child.argv), code)

Program == Countdown \/ Parse \/ Lists \/ Pipes \/ Command \/ LoopHead

(***************************************************************************)
(* The shell alone, whatever bootcmd holds.                                *)
(***************************************************************************)
ShellInit ==
  /\ pc = "start"
  /\ bootdelay \in Int
  /\ polls = PollsPerSecond
  /\ key = "none"
  /\ had_ctrlc = FALSE
  /\ reader = Idle
  /\ frames = <<>>
  /\ top_vars = << >>
  /\ last_return_code = 0

ShellNext == Program \/ TypeKey

ShellSpec == ShellInit /\ [][ShellNext]_shellVars

(* pc, the delay, the last code, and the shape of every call of            *)
(* run_list_real.                                                          *)
ShellTypeOK ==
  /\ pc \in {"start", "countdown", "shell", "forever", "hung"}
  /\ bootdelay \in Int
  /\ polls \in 1..PollsPerSecond
  /\ key \in Keys \cup {"none"}
  /\ had_ctrlc \in BOOLEAN
  /\ last_return_code \in {0, 1}
  /\ \A i \in DOMAIN frames :
       /\ frames[i].at \in 1..(Len(frames[i].list) + 1)
       /\ frames[i].rpipe \in 0..frames[i].at
       /\ frames[i].if_code \in {0, 1} /\ frames[i].next_if_code \in {0, 1}

(* A list is run only when all its constructs are closed: old_flag, which  *)
(* parse_stream_outer looks at, is zero just when no context is put aside. *)
OpenIsKnown == Reading => (reader.ctx.old_flag = {} <=> reader.stack = <<>>)
=============================================================================
