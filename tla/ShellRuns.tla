----------------------------- MODULE ShellRuns -----------------------------
(***************************************************************************)
(* The shell beside the script it was given: whatever command the shell    *)
(* runs, and whenever it looks at the keyboard, the script must be at that *)
(* very command, or at that look, having seen the same codes.              *)
(***************************************************************************)
EXTENDS Shell, Script

CONSTANTS
  Scripts,    \* scripts bootcmd may hold
  Lines,      \* lines it may hold besides: any sequence of tokens
  Delays(_)   \* values of bootdelay tried with a line

VARIABLES
  scripted,   \* bootcmd is one of Scripts
  due         \* what the script has left to do

vars == <<shellVars, scripted, due>>

HushVariables == [x \in {"HUSH_VERSION"} |-> <<Word("0.01")>>]
Wrong         == [todo |-> <<>>, store |-> HushVariables, code |-> -1]

Init ==
  /\ \/ /\ scripted = TRUE
        /\ \E script \in Scripts, nl \in {";", "\n"} :
              line = Line(script, nl) /\ due = Begin(script, HushVariables)
     \/ /\ scripted = FALSE
        /\ line \in Lines
        /\ due = Wrong
  /\ bootdelay \in Delays(line)
  /\ ShellInit

(* A command runs: the script must be at that command.                     *)
CommandRuns(command, arguments, code) ==
  /\ RunCommand(command, arguments, code)
  /\ due' = IF /\ AtCommand(due)
               /\ Head(due.todo).command = command
               /\ Head(due.todo).arguments = arguments
            THEN After(due, code) ELSE Wrong

(* A loop looks at the keyboard: the script must be at a look.             *)
Looks == LoopHead /\ due' = IF AtLook(due) THEN Looked(due, had_ctrlc') ELSE Wrong

ShellSteps ==
  /\ \/ (Countdown \/ Parse \/ Lists \/ Pipes) /\ UNCHANGED due
     \/ \E i \in DOMAIN CommandTable, code \in {0, 1} :
           AtCall /\ CommandRuns(CommandTable[i], Tail(Child.argv), code)
     \/ Looks
  /\ UNCHANGED scripted

(* What main_loop ends in, a loop that prints; or the one of xmalloc.      *)
LoopForEver == pc \in {"forever", "hung"} /\ UNCHANGED vars

Next ==
  \/ ShellSteps
  \/ LoopForEver
  \/ TypeKey /\ UNCHANGED <<scripted, due>>

(* A step of the program is taken when there is one, which is until it     *)
(* loops for ever; nothing is assumed of the keyboard.  This is weak      *)
(* fairness of Program, written so that TLC need not compute ENABLED.      *)
Fairness == []<><<Program>>_shellVars \/ <>[](pc \in {"forever", "hung"})

Spec == Init /\ [][Next]_vars /\ Fairness

(***************************************************************************)
(* Properties.                                                             *)
(***************************************************************************)
AtEnd == Running /\ Len(frames) = 1 /\ Top.at > Len(Top.list)

(* The flags of run_list_real (flag_skip, skip_more_in_this_rmode,         *)
(* if_code, next_if_code, flag_rep, rpipe), nested and repeated as they    *)
(* may be, make of the pipes exactly the script that was written: every    *)
(* command with its arguments, none left out, none twice.                  *)
RunsAsWritten ==
  scripted =>
    /\ due # Wrong
    /\ AtEnd => Finished(due)
    /\ Reading /\ reader.rcode # "reading" => Accepted(reader) \/ frames # <<>>

(* A text that is expanded is read again, in a call of its own, as often   *)
(* as there are names in what it expands to.  That depth is bounded, and   *)
(* the heap suffices, unless a variable names itself, or names others that *)
(* lead back to it (x='$x'; $x), whatever is read, run and typed.          *)
NamesIn(text) ==
  LET names(t) == {t[i][2] : i \in {j \in DOMAIN t : Kind(t[j]) = "dollar"}}
  IN  names(text) \cup UNION {names(text[i][2]) : i \in {j \in DOMAIN text : Kind(text[j]) = "quoted"}}

Circular ==
  \E names \in SUBSET (DOMAIN Env \cup DOMAIN top_vars) \ {{}} :
    \A x \in names : NamesIn(LookupParam(top_vars, x)) \cap names # {}


(* Without while and until every line comes to its end, whatever is typed; *)
(* Ctrl-C, once seen, ends the others: however deep the calls are, none of *)
(* them goes round again.  What follows is no command loop but a loop that *)
(* prints, which the comment before it says is never reached (main.c:103); *)
(* or the loop of xmalloc, which HangsOnlyInCircles is about.              *)
Endless == \E i \in DOMAIN line : line[i] \in {Word("while"), Word("until")}
ShellReturns == (~Endless \/ had_ctrlc) ~> pc \in {"forever", "hung"}
=============================================================================
