---------------------------- MODULE RegisterBus ----------------------------
(***************************************************************************)
(* What i2c_read and i2c_write promise axp209.c: a return of 0 means that  *)
(* the register was written, or read, before the call returned.  A write   *)
(* that returned -1 is in doubt: it may have happened, or may still happen *)
(* while the wires are slow, but never after a later call has returned 0.  *)
(* Twi implements this specification; Power is built on it.                *)
(***************************************************************************)
EXTENDS Integers

CONSTANTS
  Regs, Values,
  Ops            \* the calls axp209.c makes

VARIABLES
  regs,    \* the chip's registers
  calling, \* a call is under way
  op,      \* that call, or the last one
  doubt,   \* writes that returned -1 since a call last returned 0
  rc,      \* result of the last call
  buf      \* the last byte read

vars == <<regs, calling, op, doubt, rc, buf>>

Write(o) == regs' = [regs EXCEPT ![o.reg] = o.val]

Init ==
  /\ regs \in [Regs -> Values] /\ calling = FALSE /\ op \in Ops /\ doubt = {}
  /\ rc = -1 /\ buf \in Values

Call(o) ==
  /\ ~calling
  /\ calling' = TRUE /\ op' = o
  /\ UNCHANGED <<regs, doubt, rc, buf>>

(* The byte of the write under way, or of one in doubt, gets through.      *)
Lands ==
  /\ \E o \in doubt \cup {op} : o.kind = "write" /\ Write(o)
  /\ calling \/ doubt # {}
  /\ UNCHANGED <<calling, op, doubt, rc, buf>>

Fetch ==
  /\ calling /\ op.kind = "read"
  /\ buf' = regs[op.reg]
  /\ UNCHANGED <<regs, calling, op, doubt, rc>>

ReturnOk ==
  /\ calling
  /\ IF op.kind = "read" THEN buf = regs[op.reg] ELSE regs[op.reg] = op.val
  /\ calling' = FALSE /\ rc' = 0 /\ doubt' = {}
  /\ UNCHANGED <<regs, op, buf>>

ReturnFailed ==
  /\ calling
  /\ calling' = FALSE /\ rc' = -1
  /\ doubt' = IF op.kind = "write" THEN doubt \cup {op} ELSE doubt
  /\ UNCHANGED <<regs, op, buf>>

Next ==
  \/ \E o \in Ops : Call(o)
  \/ Lands \/ Fetch \/ ReturnOk \/ ReturnFailed

(* A call returns, whether the chip answers or not.                        *)
Return == ReturnOk \/ ReturnFailed

Spec == Init /\ [][Next]_vars /\ WF_vars(Return)
=============================================================================
