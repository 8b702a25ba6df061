------------------------------ MODULE MCShell ------------------------------
(***************************************************************************)
(* Constants of ShellRuns for TLC.                                         *)
(***************************************************************************)
EXTENDS ShellRuns

MCCommandTable == <<"a", "b", "bootm">>

MCSpell(name) ==
  CASE name = "a"      -> <<"a">>
    [] name = "b"      -> <<"b">>
    [] name = "boo.x"  -> <<"b", "o", "o", ".", "x">>
    [] name = "bootm"  -> <<"b", "o", "o", "t", "m">>
    [] OTHER           -> <<name>>

MCEnv == [kernel |-> <<Word("b"), Op("||"), Word("bootm"), Op(" "), Word("1"), Op(";"), Word("a")>>]

A == Run(<< <<Word("a")>> >>)
B == Run(<< <<Word("b")>> >>)
M == Run(<< <<Word("boo.x")>> >>)
U == Run(<< <<Word("bo")>>, <<Word("1")>> >>)
Names(x) == Run(<< <<Word("a")>>, <<Dollar(x)>> >>)
Just(x)  == Run(<< <<Dollar(x)>> >>)
Sets(x, word) == Run(<< <<Assign(x)>> \o word >>)

One(do)              == <<Entry(do, ";")>>
Two(p, sep, q)       == <<Entry(p, sep), Entry(q, ";")>>
Three(p, s, q, t, r) == <<Entry(p, s), Entry(q, t), Entry(r, ";")>>

Seps == {";", "&&", "||"}

Plain == {Three(A, s, B, t, M) : s \in Seps, t \in Seps}

Conds == {One(A), Two(A, "&&", B), Two(A, "||", B), Two(A, ";", B)}
Ifs ==
  {If(<<Arm(c, Two(M, s, A))>>, e) : c \in Conds, s \in {"&&", "||"}, e \in {<<>>, Two(B, "||", M)}}
  \cup {If(<<Arm(One(A), One(M)), Arm(c, One(A))>>, e) : c \in {One(B), Two(B, "||", A)}, e \in {<<>>, One(B)}}

Whiles ==
  {Loop(w, c, b) : w \in {"while", "until"}, c \in Conds,
                   b \in {Two(M, "&&", A), One(If(<<Arm(One(B), One(M))>>, <<>>))}}
Nested ==
  {Loop("while", One(A), One(Loop("until", Two(B, "||", A), One(M)))),
   Loop("while", One(If(<<Arm(One(A), One(B))>>, One(M))), One(A)),
   Loop("until", One(Loop("while", One(A), One(B))), One(M))}

Fors ==
  {For(Word("x"), v, One(b)) : v \in {<<>>, << <<Word("a")>>, <<Word("b")>> >>, << <<Dollar("list")>> >>},
                         b \in {Names("x"), Just("x"), If(<<Arm(One(A), One(Names("x")))>>, <<>>),
                                For(Word("y"), << <<Dollar("x")>>, <<Word("1")>> >>, One(Names("y")))}}

AB == <<Quoted(<<Word("a"), Op(" "), Word("b")>>)>>
Expanding ==
  {Three(Just(x), s, A, ";", Names("?")) : x \in {"kernel", "nothing"}, s \in Seps}
  \cup {Three(Sets("v", <<Quoted(<<Word("a"), Op("&&"), Word("b")>>)>>), ";", Just("v"), s, M) : s \in {"&&", "||"}}
  \cup {Three(Sets("v", <<Quoted(<<Word("a"), Op("&"), Word("b")>>)>>), ";",
              If(<<Arm(One(A), One(Just("v")))>>, <<>>), s, M) : s \in {"&&", "||"}}
  \cup {Three(Sets("v", <<Quoted(<<Word("a"), Op(";"), Word("b")>>)>>), ";",
              Sets("HUSH_NO_EVAL", <<Word("1")>>), ";", Names("v")),
        Three(Sets("v", <<Quoted(<<Dollar("w")>>)>>), ";",
              Sets("w", <<Quoted(<<Word("b"), Op(";"), Word("a")>>)>>), "&&", Just("v")),
        Three(Sets("v", <<Quoted(<<Word("a"), Op("\n"), Word("b")>>)>>), ";", Names("v"), ";", Just("v")),
        Three(Sets("v", <<Word("x")>>), ";",
              For(Dollar("v"), << <<Word("a")>>, <<Word("b")>> >>, One(Names("x"))), ";", Just("x")),
        Three(Sets("kernel", <<Word("a")>>), ";", Just("kernel"), "||", U),
        Three(Run(<< <<Quoted(<<Word("a"), Op(";"), Word("b")>>)>> >>), "||", U, "||",
              Run(<< <<Word("a")>>, <<Word("b")>>, <<Word("a")>>, <<Word("b")>> >>))}

MCScripts ==
  Plain \cup Expanding
  \cup {Two(c, s, B) : c \in Ifs, s \in Seps}
  \cup {Two(c, s, B) : c \in Whiles \cup Nested, s \in {"&&", "||"}}
  \cup {Three(Sets("list", AB), ";", c, s, B) : c \in Fors, s \in {"&&", "||"}}

(* Any three of these words, alone or inside an if, each with what may     *)
(* follow it: most of these lines are at fault somewhere.                  *)
MCWords == {<<Word(w)>> : w \in {"a", "if", "then", "else", "fi", "while", "do", "done", "for", "in"}}
ThreeWords ==
  {w[1] \o <<Op(s)>> \o w[2] \o <<Op(t)>> \o w[3] \o <<Op("\n")>> :
     w \in [1..3 -> MCWords], s \in {" ", ";"}, t \in {" ", ";"}}
Inside ==
  {<<Word("if"), Op(" "), Word("a"), Op(";"), Word("then"), Op(" ")>> \o l :
     l \in {x \in ThreeWords : x[1] \in {Word("a"), Word("else"), Word("fi"), Word("while")}}}

(* Variables that name themselves, or each other; run or not; in a loop.   *)
Self(x, y) == <<Assign(x), Quoted(<<Dollar(y)>>), Op(";")>>
Circles ==
  {Self("x", "x") \o <<Dollar("x"), Op("\n")>>,
   Self("x", "x") \o <<Word("a"), Op("\n")>>,
   Self("x", "y") \o Self("y", "x") \o <<Word("a"), Op("||"), Dollar("y"), Op("\n")>>,
   Self("x", "x") \o <<Word("while"), Op(" "), Word("a"), Op(";"), Word("do"), Op(" "), Dollar("x"),
                      Op(";"), Word("done"), Op("\n")>>,
   Self("x", "x") \o <<Word("for"), Op(" "), Dollar("x"), Op(" "), Word("in"), Op(" "), Word("a"), Op(";"),
                      Word("do"), Op(" "), Word("b"), Op(";"), Word("done"), Op("\n")>>}

MCLines == ThreeWords \cup Inside \cup Circles \cup {<<>>}

(* The delay is tried with an empty bootcmd and with the shortest scripts. *)
MCDelays(text) == IF Len(text) \in {0, 10} THEN {-1, 0, 2} ELSE {0}
MCKeys == {"ctrlc", "x"}
=============================================================================
