----------------------------- MODULE MmcCommand -----------------------------
(***************************************************************************)
(* What mmc_send_cmd promises its callers (mmc_init, mmc_bread): one       *)
(* command at a time, ending in success or failure.  A success means that  *)
(* the command was carried out and all its data moved - while the host is  *)
(* "trusted".  It stops being trusted when a command is reported as done   *)
(* although nothing is known about it, and is trusted again once a failure *)
(* has been reported.  MmcHost implements this specification.              *)
(***************************************************************************)
EXTENDS Integers

CONSTANT MaxWords   \* largest transfer, in words

VARIABLES
  state,    \* "idle", "working", "failing" or "clocking" (in mmc_set_ios)
  asked,    \* words the last command asked for
  moved,    \* words it moved; meaningful when idle
  ret,      \* what it returned
  trusted,  \* a return of 0 can be believed
  dead      \* the host was given up

vars == <<state, asked, moved, ret, trusted, dead>>

Init == /\ state = "idle" /\ asked = 0 /\ moved = 0 /\ ret = 0
        /\ trusted = TRUE /\ dead = FALSE

Begin(n) ==
  /\ state = "idle" /\ ~dead
  /\ state' = "working" /\ asked' = n /\ moved' = 0
  /\ UNCHANGED <<ret, trusted, dead>>

(* A read to an address that is not word aligned fails without being sent. *)
Reject(n) ==
  /\ state = "idle" /\ ~dead
  /\ state' = "failing" /\ asked' = n /\ moved' = 0 /\ trusted' = TRUE
  /\ UNCHANGED <<ret, dead>>

(* CMD12 is a success that does nothing; a dead host fails at once.        *)
Refuse(n) ==
  /\ state = "idle"
  /\ asked' = n /\ moved' = 0
  /\ ret' = IF dead THEN -1 ELSE 0
  /\ ~dead => n = 0
  /\ UNCHANGED <<state, trusted, dead>>

Succeed ==
  /\ state = "working" /\ trusted
  /\ state' = "idle" /\ ret' = 0 /\ moved' = asked
  /\ UNCHANGED <<asked, trusted, dead>>

(* The command is reported as done and may not be.                         *)
Presume ==
  /\ state = "working"
  /\ state' = "idle" /\ ret' = 0 /\ moved' \in 0 .. asked /\ trusted' = FALSE
  /\ UNCHANGED <<asked, dead>>

Abort ==
  /\ state = "working"
  /\ state' = "failing" /\ trusted' = TRUE
  /\ UNCHANGED <<asked, moved, ret, dead>>

Fail ==
  /\ state = "failing"
  /\ state' = "idle" /\ ret' = -1 /\ moved' \in 0 .. asked
  /\ UNCHANGED <<asked, trusted, dead>>

SetClock ==
  /\ state = "idle"
  /\ state' = "clocking" /\ moved' = 0
  /\ UNCHANGED <<asked, ret, trusted, dead>>

(* What a read moved is not disturbed by a change of the clock.            *)
ClockSet ==
  /\ state = "clocking"
  /\ state' = "idle" /\ moved' \in 0 .. asked
  /\ ret = 0 /\ trusted => moved' = asked
  /\ dead' \in {dead, TRUE}
  /\ UNCHANGED <<asked, ret, trusted>>

Next ==
  \/ \E n \in 0 .. MaxWords : Begin(n) \/ Reject(n) \/ Refuse(n)
  \/ Succeed \/ Presume \/ Abort \/ Fail
  \/ SetClock \/ ClockSet

(* A call that was made returns, in one way or another.                    *)
Answer == Succeed \/ Presume \/ Abort \/ Fail \/ ClockSet

Spec == Init /\ [][Next]_vars /\ WF_vars(Answer)
=============================================================================
