------------------------------ MODULE TwiProofs ------------------------------
(***************************************************************************)
(* Proofs about Twi, for every budget, every set of registers and values,  *)
(* and every set of calls: whose byte is on the wires, and that the driver *)
(* implements the safety part of RegisterBus.                              *)
(*                                                                         *)
(* The refinement rests on two facts.  While a call goes well its own      *)
(* bytes, and no others, are on the wires: a controller that announces the *)
(* status the driver waits for can only have reached it through the steps  *)
(* of this call (OwnWires).  And a byte that can still reach a register    *)
(* belongs to a write that failed, or to the call under way (Owned).       *)
(***************************************************************************)
EXTENDS Twi, TLAPS

Talking == {"sta", "irq"}

(* Announced(c, where): the status c was announced, and where holds then.  *)
Announced(c, where) == irq /\ code = c => where

(* The script, step by step: what is on the wires until its status comes,  *)
(* and what is so when it has come.                                        *)
OwnWires ==
  pc \in Talking =>
    /\ ~failed
    /\ at < 6 /\ (op.kind = "write" => at < 4)
    /\ at # 0 => ~stp
    /\ at # 0 /\ ~(at = 3 /\ op.kind = "read") => ~sta
    /\ at = 0 => Announced("TX_STA", bus = "start" /\ ~sta /\ ~stp)
    /\ at = 1 => /\ shift => bus = "start"
                 /\ Announced("TX_AW_ACK", bus = "reg")
    /\ at = 2 => /\ shift => bus = "reg" /\ data = op.reg
                 /\ Announced("TXD_ACK", bus = "data" /\ ptr = op.reg)
    /\ at > 2 => ptr = op.reg
    /\ at = 3 /\ op.kind = "write" => /\ shift => bus = "data" /\ data = op.val
                                      /\ Announced("TXD_ACK", regs[op.reg] = op.val)
    /\ at = 3 /\ op.kind = "read" => /\ ~shift
                                     /\ Announced("TX_RESTA", bus = "start" /\ ~sta)
    /\ at = 4 => /\ shift => bus = "start"
                 /\ Announced("TX_AR_ACK", bus = "get")
    /\ at = 5 => /\ shift => bus = "get"
                 /\ Announced("RXD_NAK", data = regs[op.reg])

(* A call that succeeded and is about to return.                           *)
Done ==
  pc \in {"stop", "status", "lines"} /\ ~failed =>
    /\ ~shift
    /\ IF op.kind = "read" THEN buf = regs[op.reg] ELSE regs[op.reg] = op.val

(* The writes whose byte may still be on its way.                          *)
Late == IF pc = "idle" THEN doubt ELSE doubt \cup {op}

Owned ==
  /\ irq => ~shift
  /\ shift /\ bus = "reg" => data \in Regs
  /\ shift /\ bus = "data" =>
       \E o \in Late : o.kind = "write" /\ o.reg = ptr /\ o.val = data

TwiInv == TypeOK /\ OwnWires /\ Done /\ Owned

(***************************************************************************)
(* The script.                                                             *)
(***************************************************************************)
LEMMA ScriptFacts ==
  /\ Len(Script["write"]) = 4 /\ Len(Script["read"]) = 6
  /\ \A k \in {"write", "read"} :
       Script[k][1] = "TX_STA" /\ Script[k][2] = "TX_AW_ACK" /\ Script[k][3] = "TXD_ACK"
  /\ Script["write"][4] = "TXD_ACK"
  /\ Script["read"][4] = "TX_RESTA" /\ Script["read"][5] = "TX_AR_ACK" /\ Script["read"][6] = "RXD_NAK"
  BY DEF Script

LEMMA OpFacts ==
  ASSUME TypeOK
  PROVE  op.kind \in {"write", "read"} /\ op.reg \in Regs /\ op.val \in Values
  BY TwiAssumption DEF TypeOK

LEMMA NextStepFacts ==
  ASSUME TypeOK, NextStep, at + 1 < Len(Script[op.kind])
  PROVE  /\ at \in 0 .. 4 /\ (op.kind = "write" => at < 3)
         /\ at = 0 => SendData("AW")
         /\ at = 1 => SendData(op.reg)
         /\ at = 2 => IF op.kind = "write" THEN SendData(op.val) ELSE SendStart
         /\ at = 3 => SendData("AR")
         /\ at = 4 => SendData(data)
<1>1. at \in 0 .. 6 /\ op.kind \in {"write", "read"}
  BY OpFacts DEF TypeOK
<1>2. at \in 0 .. 4 /\ (op.kind = "write" => at < 3)
  <2>1. CASE op.kind = "write"
    BY <1>1, <2>1, ScriptFacts
  <2>2. CASE op.kind = "read"
    BY <1>1, <2>2, ScriptFacts
  <2> QED  BY <1>1, <2>1, <2>2
<1>3. CASE at = 0
  <2>1. Script[op.kind][at + 2] = "TX_AW_ACK"
    BY <1>1, <1>3, ScriptFacts
  <2> QED  BY <1>2, <1>3, <2>1 DEF NextStep
<1>4. CASE at = 1
  <2>1. Script[op.kind][at + 2] = "TXD_ACK" /\ at + 2 = 3
    BY <1>1, <1>4, ScriptFacts
  <2> QED  BY <1>2, <1>4, <2>1 DEF NextStep
<1>5. CASE at = 2 /\ op.kind = "write"
  <2>1. Script[op.kind][at + 2] = "TXD_ACK" /\ at + 2 # 3
    BY <1>5, ScriptFacts
  <2> QED  BY <1>2, <1>5, <2>1 DEF NextStep
<1>6. CASE at = 2 /\ op.kind = "read"
  <2>1. Script[op.kind][at + 2] = "TX_RESTA"
    BY <1>6, ScriptFacts
  <2> QED  BY <1>2, <1>6, <2>1 DEF NextStep
<1>7. CASE at = 3
  <2>1. Script[op.kind][at + 2] = "TX_AR_ACK"
    BY <1>1, <1>2, <1>7, ScriptFacts
  <2> QED  BY <1>2, <1>7, <2>1 DEF NextStep
<1>8. CASE at = 4
  <2>1. Script[op.kind][at + 2] = "RXD_NAK"
    BY <1>1, <1>2, <1>8, ScriptFacts
  <2> QED  BY <1>2, <1>8, <2>1 DEF NextStep
<1> QED  BY <1>1, <1>2, <1>3, <1>4, <1>5, <1>6, <1>7, <1>8

LEMMA InitInv == Init => TwiInv
<1> SUFFICES ASSUME Init PROVE TwiInv  OBVIOUS
<1>1. op \in Ops /\ op.val \in Values
  BY TwiAssumption DEF Init
<1>2. TypeOK
  <2>1. at \in 0 .. 6 /\ timeout \in 0 .. Budget /\ rc \in {0, -1}
    BY TwiAssumption DEF Init
  <2>2. op \in Ops /\ buf \in Values /\ doubt \subseteq Ops
    BY <1>1 DEF Init
  <2>3. code \in Codes /\ data \in {"AW", "AR"} \cup Regs \cup Values
    BY DEF Init, Codes
  <2> QED  BY <2>1, <2>2, <2>3 DEF Init, TypeOK
<1> QED  BY <1>2 DEF Init, TwiInv, OwnWires, Done, Owned, Talking

(***************************************************************************)
(* The driver.                                                             *)
(***************************************************************************)
(* A turn of a loop, and the way from one loop to the next.                *)
LEMMA WaitKeeps ==
  ASSUME TwiInv, UNCHANGED <<at, op, failed, rc, buf, doubt, ctl, chip>>,
         timeout' \in 0 .. Budget,
         \/ pc' = pc
         \/ pc = "sta" /\ pc' = "irq"
         \/ pc \in {"stop", "status"} /\ pc' \in {"status", "lines"}
  PROVE  TwiInv'
<1>1. UNCHANGED <<sta, stp, irq, code, data, shift, bus, regs, ptr>>
  BY DEF ctl, chip
<1>2. TypeOK'
  BY <1>1 DEF TwiInv, TypeOK
<1>3. OwnWires'
  BY <1>1 DEF TwiInv, OwnWires, Announced, Talking
<1>4. Done' /\ Owned'
  BY <1>1 DEF TwiInv, TypeOK, Done, Owned, Late
<1> QED  BY <1>2, <1>3, <1>4 DEF TwiInv

(* The driver gives up: bytes of this call may still be on their way.      *)
LEMMA StopKeeps ==
  ASSUME TwiInv, Stop, failed' = TRUE, UNCHANGED <<rc, buf, doubt, chip>>,
         op' \in Ops, at' \in 0 .. 6, op' = op \/ pc = "idle"
  PROVE  TwiInv'
<1>1. /\ UNCHANGED <<code, data, shift, bus, regs, ptr>>
      /\ irq' = FALSE /\ sta' = FALSE /\ stp' = TRUE /\ pc' = "stop"
      /\ timeout' = Budget
  BY DEF Stop, chip
<1>2. timeout' \in 0 .. Budget
  BY <1>1, TwiAssumption
<1>3. TypeOK'
  BY <1>1, <1>2 DEF TwiInv, TypeOK
<1>4. OwnWires' /\ Done'
  BY <1>1 DEF OwnWires, Done, Talking
<1>5. Late \subseteq Late'
  BY <1>1 DEF Late
<1>6. Owned'
  BY <1>1, <1>5 DEF TwiInv, Owned
<1> QED  BY <1>3, <1>4, <1>6 DEF TwiInv

LEMMA CallStep == TwiInv /\ (\E o \in Ops : Call(o)) => TwiInv'
<1> SUFFICES ASSUME TwiInv, NEW o \in Ops, Call(o) PROVE TwiInv'  OBVIOUS
<1>1. /\ pc = "idle" /\ op' = o /\ at' = 0 /\ UNCHANGED <<rc, buf, doubt, chip>>
  BY DEF Call
<1>2. CASE Stop /\ failed' = TRUE
  BY <1>1, <1>2, StopKeeps
<1>3. CASE SendStart /\ failed' = FALSE
  <2>1. /\ UNCHANGED <<rc, buf, doubt, regs, ptr, stp, code, data, shift, bus>>
        /\ sta' = TRUE /\ irq' = FALSE /\ pc' = "sta" /\ timeout' = Budget
    BY <1>1, <1>3 DEF SendStart, chip
  <2>2. timeout' \in 0 .. Budget /\ at' \in 0 .. 6
    BY <1>1, <2>1, TwiAssumption
  <2>3. TypeOK'
    BY <1>1, <1>3, <2>1, <2>2 DEF TwiInv, TypeOK
  <2>4. OwnWires' /\ Done'
    BY <1>1, <1>3, <2>1 DEF OwnWires, Done, Announced, Talking
  <2>5. Late \subseteq Late'
    BY <1>1 DEF Late
  <2>6. Owned'
    BY <2>1, <2>5 DEF TwiInv, Owned
  <2> QED  BY <2>3, <2>4, <2>6 DEF TwiInv
<1> QED  BY <1>2, <1>3 DEF Call

(* A byte is sent: the status expected has come, so nothing else is on the *)
(* wires.                                                                  *)
LEMMA SendKeeps ==
  ASSUME TwiInv, pc \in Talking, irq, SendData(data'),
         data' \in {"AW", "AR"} \cup Regs \cup Values,
         UNCHANGED <<op, failed, rc, buf, doubt, chip>>,
         at' \in 1 .. 5, op.kind = "write" => at' < 4,
         ~sta, ~stp, ~(at' = 3 /\ op.kind = "read"),
         at' = 1 => bus = "start",
         at' = 2 => bus = "reg" /\ data' = op.reg,
         at' > 2 => ptr = op.reg,
         at' = 3 => bus = "data" /\ data' = op.val,
         at' = 4 => bus = "start",
         at' = 5 => bus = "get"
  PROVE  TwiInv'
<1>1. /\ UNCHANGED <<regs, ptr, sta, stp, code, bus>> /\ ~failed
      /\ irq' = FALSE /\ pc' = "irq" /\ timeout' = Budget
  BY DEF SendData, chip, TwiInv, OwnWires
<1>2. shift' \in BOOLEAN
  BY DEF SendData
<1>3. timeout' \in 0 .. Budget /\ at' \in 0 .. 6
  BY <1>1, TwiAssumption
<1>4. TypeOK'
  BY <1>1, <1>2, <1>3 DEF TwiInv, TypeOK
<1>5. OwnWires' /\ Done'
  BY <1>1 DEF OwnWires, Done, Announced, Talking
<1>6. Owned'
  <2>1. op.kind \in {"write", "read"} /\ op.reg \in Regs /\ op.val \in Values
    BY OpFacts DEF TwiInv
  <2>2. bus = "reg" => data' \in Regs
    BY <1>1, <2>1
  <2>3. ASSUME bus = "data"
        PROVE  \E o \in Late' : o.kind = "write" /\ o.reg = ptr /\ o.val = data'
    <3>1. at' = 3 /\ op.kind = "write"
      BY <2>1, <2>3
    <3>2. op \in Late' /\ op.reg = ptr /\ op.val = data'
      BY <1>1, <3>1 DEF Late
    <3> QED  BY <3>1, <3>2
  <2> QED  BY <1>1, <2>2, <2>3 DEF Owned
<1> QED  BY <1>4, <1>5, <1>6 DEF TwiInv

(* The status that ends a step has come.                                   *)
LEMMA CheckStatusStep ==
  ASSUME TwiInv, pc = "irq", CheckStatus
  PROVE  TwiInv'
<1>1. at \in 0 .. 5 /\ op.kind \in {"write", "read"} /\ (op.kind = "write" => at \in 0 .. 3)
  BY OpFacts DEF TwiInv, TypeOK, OwnWires, Talking
<1>2. CASE Status # Expected
  BY <1>2, StopKeeps DEF CheckStatus, GiveUp, TwiInv, TypeOK
<1>3. CASE Status = Expected /\ at + 1 = Len(Script[op.kind])
  <2>1. /\ Stop /\ buf' = IF op.kind = "read" THEN data ELSE buf
        /\ at' = at + 1 /\ UNCHANGED <<op, failed, rc, doubt, regs, ptr>>
    BY <1>3 DEF CheckStatus, chip
  <2>2. irq /\ code = Expected
    BY <1>1, <1>3, ScriptFacts DEF Status, Expected
  <2>3. /\ op.kind = "write" => at = 3 /\ code = "TXD_ACK"
        /\ op.kind = "read" => at = 5 /\ code = "RXD_NAK"
    BY <1>1, <1>3, <2>2, ScriptFacts DEF Expected
  <2>4. ~shift /\ (op.kind = "write" => regs[op.reg] = op.val) /\ (op.kind = "read" => data = regs[op.reg])
    BY <2>2, <2>3 DEF TwiInv, OwnWires, Owned, Announced, Talking
  <2>5. /\ UNCHANGED <<code, data, shift, bus>> /\ pc' = "stop"
        /\ irq' = FALSE /\ sta' = FALSE /\ stp' = TRUE /\ timeout' = Budget
    BY <2>1 DEF Stop
  <2>6. buf' \in Values
    <3>1. regs[op.reg] \in Values
      BY OpFacts DEF TwiInv, TypeOK
    <3> QED  BY <2>1, <2>4, <3>1, <1>1 DEF TwiInv, TypeOK
  <2>7. timeout' \in 0 .. Budget /\ at' \in 0 .. 6
    BY <1>1, <2>1, <2>5, TwiAssumption
  <2>8. TypeOK'
    BY <2>1, <2>5, <2>6, <2>7 DEF TwiInv, TypeOK
  <2>9. OwnWires' /\ Done' /\ Owned'
    BY <1>1, <2>1, <2>4, <2>5 DEF OwnWires, Done, Owned, Talking
  <2> QED  BY <2>8, <2>9 DEF TwiInv
<1>4. CASE Status = Expected /\ at + 1 # Len(Script[op.kind])
  <2>1. NextStep /\ at' = at + 1 /\ UNCHANGED <<op, failed, rc, buf, doubt, chip>>
    BY <1>4 DEF CheckStatus
  <2>2. at + 1 < Len(Script[op.kind])
    <3>1. CASE op.kind = "write"
      BY <1>1, <1>4, <3>1, ScriptFacts
    <3>2. CASE op.kind = "read"
      BY <1>1, <1>4, <3>2, ScriptFacts
    <3> QED  BY <1>1, <3>1, <3>2
  <2>3. /\ at \in 0 .. 4 /\ (op.kind = "write" => at < 3)
        /\ at = 0 => SendData("AW")
        /\ at = 1 => SendData(op.reg)
        /\ at = 2 => IF op.kind = "write" THEN SendData(op.val) ELSE SendStart
        /\ at = 3 => SendData("AR")
        /\ at = 4 => SendData(data)
    BY <2>1, <2>2, NextStepFacts DEF TwiInv
  <2>4. irq /\ code = Expected
    BY <1>1, <1>4, ScriptFacts, SMTT(30) DEF Status, Expected
  <2>5. op.reg \in Regs /\ op.val \in Values /\ data \in {"AW", "AR"} \cup Regs \cup Values
    BY OpFacts DEF TwiInv, TypeOK
  <2>6. CASE at = 0
    <3>1. bus = "start" /\ ~sta /\ ~stp
      BY <1>1, <2>4, <2>6, ScriptFacts DEF TwiInv, OwnWires, Announced, Expected, Talking
    <3>2. at' = 1
      BY <2>1, <2>6
    <3>3. data' = "AW" /\ SendData(data')
      BY <2>3, <2>6 DEF SendData
    <3> QED  BY <2>1, <2>4, <3>1, <3>2, <3>3, SendKeeps DEF Talking
  <2>7. CASE at = 1
    <3>1. bus = "reg" /\ ~sta /\ ~stp
      BY <1>1, <2>4, <2>7, ScriptFacts DEF TwiInv, OwnWires, Announced, Expected, Talking
    <3>2. at' = 2
      BY <2>1, <2>7
    <3>3. data' = op.reg /\ SendData(data')
      BY <2>3, <2>7 DEF SendData
    <3> QED  BY <2>1, <2>4, <2>5, <3>1, <3>2, <3>3, SendKeeps DEF Talking
  <2>8. CASE at = 2
    <3>1. bus = "data" /\ ptr = op.reg /\ ~sta /\ ~stp
      BY <1>1, <2>4, <2>8, ScriptFacts DEF TwiInv, OwnWires, Announced, Expected, Talking
    <3>2. at' = 3 /\ ~shift
      BY <2>1, <2>4, <2>8, <3>1 DEF TwiInv, TypeOK, Owned
    <3>3. CASE op.kind = "write"
      <4>1. data' = op.val /\ SendData(data')
        BY <2>3, <2>8, <3>3 DEF SendData
      <4> QED  BY <2>1, <2>4, <2>5, <3>1, <3>2, <3>3, <4>1, SendKeeps DEF Talking
    <3>4. CASE op.kind = "read"
      <4>1. /\ UNCHANGED <<op, failed, rc, buf, doubt, regs, ptr, stp, code, data, shift, bus>>
            /\ sta' = TRUE /\ irq' = FALSE /\ pc' = "sta" /\ timeout' = Budget
        BY <2>1, <2>3, <2>8, <3>4 DEF SendStart, chip
      <4>2. timeout' \in 0 .. Budget /\ at' \in 0 .. 6
        BY <3>2, <4>1, TwiAssumption
      <4>3. TypeOK'
        BY <4>1, <4>2 DEF TwiInv, TypeOK
      <4>4. OwnWires' /\ Done' /\ Owned'
        BY <3>1, <3>2, <3>4, <4>1 DEF TwiInv, OwnWires, Done, Owned, Announced, Talking
      <4> QED  BY <4>3, <4>4 DEF TwiInv
    <3> QED  BY <1>1, <3>3, <3>4
  <2>9. CASE at = 3
    <3>1. op.kind = "read"
      BY <1>1, <2>3, <2>9
    <3>2. bus = "start" /\ ptr = op.reg /\ ~sta /\ ~stp
      BY <2>4, <2>9, <3>1, ScriptFacts DEF TwiInv, OwnWires, Announced, Expected, Talking
    <3>3. at' = 4
      BY <2>1, <2>9, <3>2 DEF TwiInv, TypeOK
    <3>4. data' = "AR" /\ SendData(data')
      BY <2>3, <2>9 DEF SendData
    <3> QED  BY <2>1, <2>4, <3>1, <3>2, <3>3, <3>4, SendKeeps DEF Talking
  <2>10. CASE at = 4
    <3>1. op.kind = "read"
      BY <1>1, <2>3, <2>10
    <3>2. bus = "get" /\ ptr = op.reg /\ ~sta /\ ~stp
      BY <2>4, <2>10, <3>1, ScriptFacts DEF TwiInv, OwnWires, Announced, Expected, Talking
    <3>3. at' = 5
      BY <2>1, <2>10, <3>2 DEF TwiInv, TypeOK
    <3>4. data' = data /\ SendData(data')
      BY <2>3, <2>10 DEF SendData
    <3> QED  BY <2>1, <2>4, <2>5, <3>1, <3>2, <3>3, <3>4, SendKeeps DEF Talking
  <2> QED  BY <2>3, <2>6, <2>7, <2>8, <2>9, <2>10
<1> QED  BY <1>2, <1>3, <1>4

(* A call returns.  One that succeeded has left nothing on the wires; the  *)
(* byte of one that failed stays in doubt.                                 *)
LEMMA ReturnStep ==
  ASSUME TwiInv, pc \in {"stop", "status", "lines"}, Return
  PROVE  TwiInv'
<1>1. /\ UNCHANGED <<at, op, timeout, failed, buf, sta, stp, irq, code, data, shift, bus, regs, ptr>>
      /\ pc' = "idle"
  BY DEF Return, ctl, chip
<1>2. rc' \in {0, -1} /\ doubt' = Late'
  BY <1>1 DEF Return, Late
<1>3. doubt' \subseteq Ops
  BY DEF Return, TwiInv, TypeOK
<1>4. TypeOK'
  BY <1>1, <1>2, <1>3 DEF TwiInv, TypeOK
<1>5. OwnWires' /\ Done'
  BY <1>1 DEF OwnWires, Done, Talking
<1>6. ASSUME shift, bus = "data"
      PROVE  \E o \in Late' : o.kind = "write" /\ o.reg = ptr /\ o.val = data
  <2>1. PICK o \in Late : o.kind = "write" /\ o.reg = ptr /\ o.val = data
    BY <1>6 DEF TwiInv, Owned
  <2>2. failed /\ o \in doubt \cup {op}
    BY <1>6, <2>1 DEF TwiInv, Done, Late
  <2>3. o \in doubt'
    BY <2>1, <2>2 DEF Return
  <2> QED  BY <1>2, <2>1, <2>3
<1>7. Owned'
  BY <1>1, <1>6 DEF TwiInv, Owned
<1> QED  BY <1>4, <1>5, <1>7 DEF TwiInv

LEMMA GiveUpKeeps == TwiInv /\ GiveUp => TwiInv'
  BY StopKeeps DEF GiveUp, TwiInv, TypeOK

(* One turn of the driver: a loop turns, or is left by what follows it.    *)
LEMMA DriverStep == TwiInv /\ Driver => TwiInv'
<1> SUFFICES ASSUME TwiInv, Driver PROVE TwiInv'  OBVIOUS
<1>1. timeout \in 0 .. Budget /\ Budget \in Nat
  BY TwiAssumption DEF TwiInv, TypeOK
<1>2. CASE timeout > 0 /\ timeout' = timeout - 1 /\ UNCHANGED <<pc, at, op, failed, rc, buf, doubt, ctl, chip>>
  <2>1. timeout' \in 0 .. Budget
    BY <1>1, <1>2
  <2> QED  BY <1>2, <2>1, WaitKeeps
<1>3. CASE pc = "sta" /\ pc' = "irq" /\ timeout' = Budget /\ UNCHANGED <<at, op, failed, rc, buf, doubt, ctl, chip>>
  <2>1. timeout' \in 0 .. Budget
    BY <1>1, <1>3
  <2> QED  BY <1>3, <2>1, WaitKeeps
<1>4. CASE GiveUp
  BY <1>4, GiveUpKeeps
<1>5. CASE pc = "irq" /\ CheckStatus
  BY <1>5, CheckStatusStep
<1>6. CASE pc \in {"stop", "status", "lines"} /\ Return
  BY <1>6, ReturnStep
<1>7. CASE /\ pc \in {"stop", "status"} /\ \E loop \in {"status", "lines"} : Then(loop)
  <2>1. /\ timeout' = Budget /\ pc' \in {"status", "lines"}
        /\ UNCHANGED <<at, op, failed, rc, buf, doubt, ctl, chip>>
    BY <1>7 DEF Then
  <2>2. timeout' \in 0 .. Budget
    BY <1>1, <2>1
  <2> QED  BY <1>7, <2>1, <2>2, WaitKeeps
<1>8. CASE WaitStart
  BY <1>2, <1>3, <1>4, <1>8 DEF WaitStart, Wait
<1>9. CASE WaitIrq
  BY <1>2, <1>4, <1>5, <1>9 DEF WaitIrq, Wait
<1>10. CASE WaitStop
  BY <1>2, <1>6, <1>7, <1>10 DEF WaitStop, Wait
<1>11. CASE WaitStatus
  BY <1>2, <1>6, <1>7, <1>11 DEF WaitStatus, Wait
<1>12. CASE WaitLines
  BY <1>2, <1>6, <1>12 DEF WaitLines, Wait
<1> QED  BY <1>8, <1>9, <1>10, <1>11, <1>12 DEF Driver

(***************************************************************************)
(* The controller and the chip.                                            *)
(***************************************************************************)
(* What the controller announces holds of the wires; what it does to them  *)
(* it does only while a byte is shifted or a start or stop is asked for.   *)
LEMMA ControllerStep == TwiInv /\ Controller => TwiInv'
<1> SUFFICES ASSUME TwiInv, Controller PROVE TwiInv'  OBVIOUS
<1>1. UNCHANGED <<pc, at, op, timeout, failed, rc, buf, doubt>> /\ Late' = Late
  BY DEF Controller, StartSent, StopSent, ByteAcknowledged, ByteRefused, drv, Late
<1>2. op.kind \in {"write", "read"} /\ op.reg \in Regs /\ op.val \in Values
  BY OpFacts DEF TwiInv
<1>3. CASE StartSent
  <2>1. /\ ~irq /\ sta /\ ~stp /\ ~shift
        /\ sta' = FALSE /\ irq' = TRUE /\ bus' = "start"
        /\ UNCHANGED <<stp, data, shift, regs, ptr>>
        /\ code' \in {"TX_STA", "TX_RESTA"}
    BY <1>3 DEF StartSent, Interrupt, chip
  <2>2. TypeOK'
    BY <1>1, <2>1 DEF TwiInv, TypeOK, Codes
  <2>3. OwnWires'
    BY <1>1, <1>2, <2>1 DEF TwiInv, OwnWires, Announced, Talking
  <2>4. Done' /\ Owned'
    BY <1>1, <2>1 DEF TwiInv, Done, Owned
  <2> QED  BY <2>2, <2>3, <2>4 DEF TwiInv
<1>4. CASE StopSent
  <2>1. /\ ~irq /\ stp /\ stp' = FALSE /\ bus' = "idle" /\ shift' = FALSE
        /\ UNCHANGED <<sta, irq, code, data, regs, ptr>>
    BY <1>4 DEF StopSent, chip
  <2>2. TypeOK'
    BY <1>1, <2>1 DEF TwiInv, TypeOK
  <2>3. OwnWires'
    BY <1>1, <1>2, <2>1 DEF TwiInv, OwnWires, Announced, Talking
  <2>4. Done' /\ Owned'
    BY <1>1, <2>1 DEF TwiInv, Done, Owned
  <2> QED  BY <2>2, <2>3, <2>4 DEF TwiInv
<1>5. CASE ByteRefused
  <2>1. /\ ~irq /\ shift /\ shift' = FALSE /\ irq' = TRUE
        /\ bus' \in {"end", "idle"} /\ code' \in {"NAK", "LOST"}
        /\ UNCHANGED <<sta, stp, data, regs, ptr>>
    BY <1>5 DEF ByteRefused, Interrupt, chip
  <2>2. TypeOK'
    BY <1>1, <2>1, ZenonT(40) DEF TwiInv, TypeOK, Codes
  <2>3. OwnWires'
    BY <1>1, <1>2, <2>1 DEF TwiInv, OwnWires, Announced, Talking
  <2>4. Done' /\ Owned'
    BY <1>1, <2>1 DEF TwiInv, Done, Owned
  <2> QED  BY <2>2, <2>3, <2>4 DEF TwiInv
<1>6. CASE ByteAcknowledged
  <2>1. /\ ~irq /\ shift /\ shift' = FALSE /\ irq' = TRUE
        /\ UNCHANGED <<sta, stp>>
    BY <1>6 DEF ByteAcknowledged, Interrupt
  <2>2. Done' /\ Owned'
    BY <1>1, <2>1 DEF TwiInv, Done, Owned
  <2>3. CASE /\ bus = "start" /\ UNCHANGED <<data, regs, ptr>>
             /\ \/ bus' = "reg" /\ code' = "TX_AW_ACK"
                \/ bus' = "get" /\ code' = "TX_AR_ACK"
    <3>1. TypeOK'
      BY <1>1, <2>1, <2>3 DEF TwiInv, TypeOK, Codes
    <3>2. OwnWires'
      BY <1>1, <1>2, <2>1, <2>3 DEF TwiInv, OwnWires, Announced, Talking
    <3> QED  BY <2>2, <3>1, <3>2 DEF TwiInv
  <2>4. CASE /\ bus = "reg" /\ bus' = "data" /\ code' = "TXD_ACK"
             /\ ptr' = data /\ UNCHANGED <<data, regs>>
    <3>1. ptr' \in Regs
      BY <2>1, <2>4 DEF TwiInv, Owned
    <3>2. TypeOK'
      BY <1>1, <2>1, <2>4, <3>1 DEF TwiInv, TypeOK, Codes
    <3>3. OwnWires'
      BY <1>1, <1>2, <2>1, <2>4 DEF TwiInv, TypeOK, OwnWires, Announced, Talking
    <3> QED  BY <2>2, <3>2, <3>3 DEF TwiInv
  <2>5. CASE /\ bus = "data" /\ code' = "TXD_ACK"
             /\ regs' = [regs EXCEPT ![ptr] = data] /\ UNCHANGED <<bus, data, ptr>>
    <3>1. PICK o \in Late : o.kind = "write" /\ o.reg = ptr /\ o.val = data
      BY <2>1, <2>5 DEF TwiInv, Owned
    <3>2. data \in Values
      BY <3>1, TwiAssumption DEF TwiInv, TypeOK, Late
    <3>3. TypeOK'
      BY <1>1, <2>1, <2>5, <3>2 DEF TwiInv, TypeOK, Codes
    <3>4. regs'[ptr] = data
      BY <2>5 DEF TwiInv, TypeOK
    <3>5. OwnWires'
      BY <1>1, <1>2, <2>1, <2>5, <3>4 DEF TwiInv, TypeOK, OwnWires, Announced, Talking
    <3> QED  BY <2>2, <3>3, <3>5 DEF TwiInv
  <2>6. CASE /\ bus = "get" /\ bus' = "end" /\ code' = "RXD_NAK"
             /\ data' = regs[ptr] /\ UNCHANGED <<regs, ptr>>
    <3>1. data' \in Values
      BY <2>6 DEF TwiInv, TypeOK
    <3>2. TypeOK'
      BY <1>1, <2>1, <2>6, <3>1 DEF TwiInv, TypeOK, Codes
    <3>3. OwnWires'
      BY <1>1, <1>2, <2>1, <2>6 DEF TwiInv, TypeOK, OwnWires, Announced, Talking
    <3> QED  BY <2>2, <3>2, <3>3 DEF TwiInv
  <2> QED  BY <1>6, <2>3, <2>4, <2>5, <2>6 DEF ByteAcknowledged, Interrupt, chip
<1> QED  BY <1>3, <1>4, <1>5, <1>6 DEF Controller

LEMMA StutterStep == TwiInv /\ UNCHANGED vars => TwiInv'
<1> SUFFICES ASSUME TwiInv, UNCHANGED vars PROVE TwiInv'  OBVIOUS
<1>1. UNCHANGED <<at, op, failed, rc, buf, doubt, ctl, chip>> /\ pc' = pc /\ timeout' = timeout
  BY DEF vars, drv
<1> QED  BY <1>1, WaitKeeps DEF TwiInv, TypeOK

LEMMA Invariant == Spec => []TwiInv
<1>1. TwiInv /\ [Next]_vars => TwiInv'
  BY CallStep, DriverStep, ControllerStep, StutterStep DEF Next
<1> QED  BY InitInv, <1>1, PTL DEF Spec

(* Every variable keeps its type; the register pointer holds a register    *)
(* and no register ever holds an address byte.                             *)
THEOREM TypeCorrect == Spec => []TypeOK
<1>1. TwiInv => TypeOK
  BY DEF TwiInv
<1> QED  BY Invariant, <1>1, PTL

(* While a call goes well, the wires carry its transaction and no other:   *)
(* whatever an abandoned call left behind in i2c.c's controller cannot     *)
(* produce the statuses the next call waits for.                           *)
THEOREM WiresFollowDriverHolds == Spec => []WiresFollowDriver
<1>1. TwiInv => WiresFollowDriver
  <2> SUFFICES ASSUME TwiInv, pc # "idle", ~failed, at > 0, pc \in Talking, shift
               PROVE  /\ at \in 1 .. 5 /\ op.kind \in {"write", "read"}
                      /\ at = 1 => bus = "start"
                      /\ at = 2 => bus = "reg"
                      /\ at = 3 => op.kind = "write" /\ bus = "data"
                      /\ at = 4 => bus = "start"
                      /\ at = 5 => bus = "get"
                      /\ at > 2 => ptr = op.reg
    BY DEF WiresFollowDriver, Talking
  <2>1. at \in 1 .. 5
    BY DEF TwiInv, TypeOK, OwnWires
  <2>2. op.kind \in {"write", "read"}
    BY OpFacts DEF TwiInv
  <2> QED  BY <2>1, <2>2 DEF TwiInv, OwnWires
<1> QED  BY Invariant, <1>1, PTL

(***************************************************************************)
(* Refinement.                                                             *)
(***************************************************************************)
(* The safety part of ImplementsBus.                                       *)
BusSafety == Bus!Init /\ [][Bus!Next]_(Bus!vars)

BusStep == Bus!Next \/ UNCHANGED Bus!vars

LEMMA InitRefines == Init => Bus!Init
<1> SUFFICES ASSUME Init PROVE Bus!Init  OBVIOUS
<1>1. op \in Ops /\ op.val \in Values
  BY TwiAssumption DEF Init
<1> QED  BY <1>1 DEF Init, Bus!Init

LEMMA BusStutters ==
  ASSUME UNCHANGED <<regs, op, doubt, rc, buf>>, pc # "idle" <=> pc' # "idle"
  PROVE  BusStep
  BY DEF BusStep, Bus!vars

LEMMA CallRefines ==
  ASSUME NEW o \in Ops, Call(o)
  PROVE  BusStep
<1>1. pc = "idle" /\ pc' # "idle" /\ op' = o /\ UNCHANGED <<regs, doubt, rc, buf>>
  BY DEF Call, SendStart, Stop, chip
<1>2. Bus!Call(o)
  BY <1>1 DEF Bus!Call
<1> QED  BY <1>2 DEF BusStep, Bus!Next

(* The last status of a read is the moment the register is fetched; any    *)
(* other status moves nothing the callers see.                             *)
LEMMA CheckStatusRefines ==
  ASSUME TwiInv, pc = "irq", CheckStatus
  PROVE  BusStep
<1>1. op.kind \in {"write", "read"} /\ at \in 0 .. 5
  BY OpFacts DEF TwiInv, TypeOK, OwnWires, Talking
<1>2. pc' # "idle" /\ UNCHANGED <<regs, op, doubt, rc>>
  <2>1. CASE Status # Expected
    BY <2>1 DEF CheckStatus, GiveUp, Stop, chip
  <2>2. CASE Status = Expected /\ at + 1 = Len(Script[op.kind])
    BY <2>2 DEF CheckStatus, Stop, chip
  <2>3. CASE Status = Expected /\ at + 1 # Len(Script[op.kind])
    <3>1. NextStep /\ UNCHANGED <<regs, op, doubt, rc>>
      BY <2>3 DEF CheckStatus, chip
    <3>2. at + 1 < Len(Script[op.kind])
      <4>1. at \in 0 .. 5 /\ (op.kind = "write" => at \in 0 .. 3)
        BY <1>1 DEF TwiInv, OwnWires, Talking
      <4> QED  BY <1>1, <2>3, <4>1, ScriptFacts
    <3>3. \/ SendStart
          \/ \E byte \in {"AW", "AR", op.reg, op.val, data} : SendData(byte)
      BY <1>1, <3>1, <3>2, NextStepFacts DEF TwiInv
    <3> QED  BY <3>1, <3>3 DEF SendStart, SendData
  <2> QED  BY <2>1, <2>2, <2>3
<1>3. CASE buf' = buf
  BY <1>2, <1>3, BusStutters
<1>4. CASE buf' # buf
  <2>1. /\ Status = Expected /\ at + 1 = Len(Script[op.kind])
        /\ op.kind = "read" /\ buf' = data
    BY <1>4 DEF CheckStatus, GiveUp
  <2>2. at = 5 /\ irq /\ code = "RXD_NAK"
    BY <1>1, <2>1, ScriptFacts DEF Status, Expected
  <2>3. buf' = regs[op.reg]
    BY <2>1, <2>2 DEF TwiInv, OwnWires, Announced, Talking
  <2>4. Bus!Fetch
    BY <1>2, <2>1, <2>3 DEF Bus!Fetch
  <2> QED  BY <2>4 DEF BusStep, Bus!Next
<1> QED  BY <1>3, <1>4

(* 0 is returned only for a call that did what was asked.                  *)
LEMMA ReturnRefines ==
  ASSUME TwiInv, pc \in {"stop", "status", "lines"}, Return
  PROVE  BusStep
<1>1. pc # "idle" /\ pc' = "idle" /\ UNCHANGED <<regs, op, buf>>
  BY DEF Return, chip
<1>2. CASE failed
  <2>1. rc' = -1 /\ doubt' = IF op.kind = "write" THEN doubt \cup {op} ELSE doubt
    BY <1>2 DEF Return
  <2>2. Bus!ReturnFailed
    BY <1>1, <2>1 DEF Bus!ReturnFailed
  <2> QED  BY <2>2 DEF BusStep, Bus!Next
<1>3. CASE ~failed
  <2>1. rc' = 0 /\ doubt' = {}
    BY <1>3 DEF Return
  <2>2. IF op.kind = "read" THEN buf = regs[op.reg] ELSE regs[op.reg] = op.val
    BY <1>3 DEF TwiInv, Done
  <2>3. Bus!ReturnOk
    BY <1>1, <2>1, <2>2 DEF Bus!ReturnOk
  <2> QED  BY <2>3 DEF BusStep, Bus!Next
<1> QED  BY <1>2, <1>3

LEMMA DriverRefines ==
  ASSUME TwiInv, Driver
  PROVE  BusStep
<1>1. CASE UNCHANGED <<pc, at, op, failed, rc, buf, doubt, ctl, chip>>
  BY <1>1, BusStutters DEF chip
<1>2. CASE pc = "sta" /\ pc' = "irq" /\ UNCHANGED <<at, op, failed, rc, buf, doubt, ctl, chip>>
  BY <1>2, BusStutters DEF chip
<1>3. CASE pc # "idle" /\ GiveUp
  <2>1. pc' = "stop" /\ UNCHANGED <<regs, op, rc, buf, doubt>>
    BY <1>3 DEF GiveUp, Stop, chip
  <2> QED  BY <1>3, <2>1, BusStutters
<1>4. CASE pc = "irq" /\ CheckStatus
  BY <1>4, CheckStatusRefines
<1>5. CASE pc \in {"stop", "status", "lines"} /\ Return
  BY <1>5, ReturnRefines
<1>6. CASE pc # "idle" /\ \E loop \in {"status", "lines"} : Then(loop)
  <2>1. pc' # "idle" /\ UNCHANGED <<regs, op, rc, buf, doubt>>
    BY <1>6 DEF Then, chip
  <2> QED  BY <1>6, <2>1, BusStutters
<1>7. CASE WaitStart
  BY <1>1, <1>2, <1>3, <1>7 DEF WaitStart, Wait
<1>8. CASE WaitIrq
  BY <1>1, <1>3, <1>4, <1>8 DEF WaitIrq, Wait
<1>9. CASE WaitStop
  BY <1>1, <1>5, <1>6, <1>9 DEF WaitStop, Wait
<1>10. CASE WaitStatus
  BY <1>1, <1>5, <1>6, <1>10 DEF WaitStatus, Wait
<1>11. CASE WaitLines
  BY <1>1, <1>5, <1>11 DEF WaitLines, Wait
<1> QED  BY <1>7, <1>8, <1>9, <1>10, <1>11 DEF Driver

(* A register changes only by a byte of the write under way or of one in   *)
(* doubt.                                                                  *)
LEMMA ControllerRefines ==
  ASSUME TwiInv, Controller
  PROVE  BusStep
<1>1. UNCHANGED <<pc, op, rc, buf, doubt>>
  BY DEF Controller, StartSent, StopSent, ByteAcknowledged, ByteRefused, drv
<1>2. CASE regs' = regs
  BY <1>1, <1>2, BusStutters
<1>3. CASE regs' # regs
  <2>1. ~irq /\ shift /\ bus = "data" /\ regs' = [regs EXCEPT ![ptr] = data]
    BY <1>3 DEF Controller, StartSent, StopSent, ByteAcknowledged, ByteRefused, chip
  <2>2. PICK o \in Late : o.kind = "write" /\ o.reg = ptr /\ o.val = data
    BY <2>1 DEF TwiInv, Owned
  <2>3. o \in doubt \cup {op} /\ (pc # "idle" \/ doubt # {})
    BY DEF Late
  <2>4. Bus!Write(o)
    BY <2>1, <2>2 DEF Bus!Write
  <2>5. Bus!Lands
    BY <1>1, <2>2, <2>3, <2>4 DEF Bus!Lands
  <2> QED  BY <2>5 DEF BusStep, Bus!Next
<1> QED  BY <1>2, <1>3

(* i2c_read and i2c_write implement the register bus axp209.c relies on:   *)
(* every step of the driver and of the controller is a step the register   *)
(* bus allows, or one its callers do not see.  How long a call may take is *)
(* CallsRunOut, below; that a driver which goes on turning returns is left *)
(* to TLC.                                                                 *)
THEOREM ImplementsBusSafely == Spec => BusSafety
<1>1. TwiInv /\ [Next]_vars => [Bus!Next]_(Bus!vars)
  <2> SUFFICES ASSUME TwiInv, [Next]_vars PROVE BusStep
    BY DEF BusStep
  <2>1. CASE \E o \in Ops : Call(o)
    BY <2>1, CallRefines
  <2>2. CASE Driver
    BY <2>2, DriverRefines
  <2>3. CASE Controller
    BY <2>3, ControllerRefines
  <2>4. CASE UNCHANGED vars
    BY <2>4, BusStutters DEF vars, drv, chip
  <2> QED  BY <2>1, <2>2, <2>3, <2>4 DEF Next
<1> QED  BY Invariant, InitRefines, <1>1, PTL DEF Spec, BusSafety

-----------------------------------------------------------------------------
(* How long a call may take.  Every loop has a counter, so the turns the   *)
(* driver may still need can be told from the loops that are left and the  *)
(* counter of the one it is in: Budget + 1 turns for each loop, the turn   *)
(* that finds the counter at zero included.                                *)

(* The loops a call may still go through, the one it is in included: one   *)
(* for each step of the script, one more for each start, and the three of  *)
(* i2c_stop.                                                               *)
LoopsLeft ==
  CASE pc = "idle"   -> 0
    [] pc = "lines"  -> 1
    [] pc = "status" -> 2
    [] pc = "stop"   -> 3
    [] pc \in Talking ->
         3 + (Len(Script[op.kind]) - at)
           + (IF op.kind = "read" /\ at < 3 THEN 1 ELSE 0)
           + (IF pc = "sta" THEN 1 ELSE 0)

LoopsOf(o) == IF o.kind = "read" THEN 11 ELSE 8

TurnsOf(loops) == loops * (Budget + 1)

TurnsLeft == IF pc = "idle" THEN 0 ELSE TurnsOf(LoopsLeft - 1) + timeout + 1

(* A turn of the driver always brings the end of the call nearer, and      *)
(* nothing the controller or the chip does, or does not do, puts it off.   *)
TurnsRunOut ==
  [][/\ Driver => TurnsLeft' < TurnsLeft
     /\ Controller => TurnsLeft' = TurnsLeft
     /\ \A o \in Ops : Call(o) => TurnsLeft' <= TurnsOf(LoopsOf(o))]_vars

(* The turns left are a natural number, zero exactly between calls.        *)
TurnsCounted == TurnsLeft \in Nat /\ (TurnsLeft = 0 <=> pc = "idle")

LEMMA TurnsOfFewer ==
  ASSUME NEW m \in Nat, NEW n \in Nat, m < n
  PROVE  TurnsOf(m) \in Nat /\ TurnsOf(m) + Budget + 1 <= TurnsOf(n)
<1>1. PICK d \in Nat : n = m + 1 + d
  <2>1. n - m - 1 \in Nat /\ n = m + 1 + (n - m - 1)
    OBVIOUS
  <2> QED  BY <2>1
<1>2. PICK b \in Nat : b = Budget + 1
  BY TwiAssumption
<1>3. (m + 1 + d) * b = m * b + b + d * b /\ m * b \in Nat /\ d * b \in Nat
  BY <1>2
<1> QED  BY <1>1, <1>2, <1>3, TwiAssumption DEF TurnsOf

LEMMA TurnsOfMonotone ==
  ASSUME NEW m \in Nat, NEW n \in Nat, m <= n
  PROVE  TurnsOf(m) \in Nat /\ TurnsOf(m) <= TurnsOf(n)
<1>1. TurnsOf(m) \in Nat
  <2>1. m + 1 \in Nat /\ m < m + 1
    OBVIOUS
  <2> QED  BY <2>1, TurnsOfFewer
<1>2. TurnsOf(n) \in Nat
  <2>1. n + 1 \in Nat /\ n < n + 1
    OBVIOUS
  <2> QED  BY <2>1, TurnsOfFewer
<1>3. CASE m = n
  BY <1>1, <1>3
<1>4. CASE m < n
  BY <1>1, <1>2, <1>4, TurnsOfFewer, TwiAssumption
<1> QED  BY <1>3, <1>4

(* TurnsIn(k, t): the turns left in a loop with counter t before k others. *)
TurnsIn(k, t) == TurnsOf(k) + t + 1

LEMMA TurnsInFewer ==
  ASSUME NEW l \in Nat, NEW k \in Nat, l > 0, k > 0,
         NEW t \in 0 .. Budget, NEW u \in 0 .. Budget, k < l \/ (k = l /\ u < t)
  PROVE  TurnsIn(k - 1, u) < TurnsIn(l - 1, t)
<1>1. PICK m \in Nat, n \in Nat : k = m + 1 /\ l = n + 1 /\ m = k - 1 /\ n = l - 1
  <2>1. k - 1 \in Nat /\ l - 1 \in Nat /\ k = (k - 1) + 1 /\ l = (l - 1) + 1
    OBVIOUS
  <2> QED  BY <2>1
<1>2. TurnsOf(m) \in Nat /\ TurnsOf(n) \in Nat
  <2>1. m <= m /\ n <= n
    BY <1>1
  <2> QED  BY <2>1, TurnsOfMonotone
<1>3. m < n => TurnsOf(m) + Budget + 1 <= TurnsOf(n)
  BY TurnsOfFewer
<1>4. TurnsIn(m, u) < TurnsIn(n, t)
  BY <1>1, <1>2, <1>3, TwiAssumption DEF TurnsIn
<1> QED  BY <1>1, <1>4

LEMMA TurnsInPositive ==
  ASSUME NEW l \in Nat, l > 0, NEW t \in 0 .. Budget
  PROVE  /\ TurnsIn(l - 1, t) \in Nat /\ TurnsIn(l - 1, t) > 0
         /\ TurnsIn(l - 1, t) <= TurnsOf(l)
<1>1. PICK m \in Nat : l = m + 1 /\ m = l - 1 /\ m < l
  <2>1. l - 1 \in Nat /\ l = (l - 1) + 1 /\ l - 1 < l
    OBVIOUS
  <2> QED  BY <2>1
<1>2. TurnsOf(m) \in Nat /\ TurnsOf(m) + Budget + 1 <= TurnsOf(l) /\ TurnsOf(l) \in Nat
  <2>1. l <= l
    OBVIOUS
  <2> QED  BY <1>1, <2>1, TurnsOfFewer, TurnsOfMonotone
<1>3. TurnsIn(m, t) \in Nat /\ TurnsIn(m, t) > 0 /\ TurnsIn(m, t) <= TurnsOf(l)
  BY <1>2, TwiAssumption DEF TurnsIn
<1> QED  BY <1>1, <1>3


LEMMA KindFacts ==
  ASSUME TypeOK
  PROVE  /\ at \in 0 .. 6 /\ timeout \in 0 .. Budget /\ Budget \in Nat
         /\ op.kind \in {"write", "read"}
         /\ Len(Script[op.kind]) = IF op.kind = "read" THEN 6 ELSE 4
BY OpFacts, ScriptFacts, TwiAssumption DEF TypeOK

LoopsCounted ==
  /\ LoopsLeft \in Nat
  /\ pc # "idle" => LoopsLeft > 0 /\ timeout \in 0 .. Budget
  /\ pc # "idle" => LoopsLeft <= LoopsOf(op)
  /\ TurnsLeft = IF pc = "idle" THEN 0 ELSE TurnsIn(LoopsLeft - 1, timeout)

LEMMA LoopsLeftNow == TwiInv => LoopsCounted
<1> SUFFICES ASSUME TwiInv PROVE LoopsCounted
  OBVIOUS
<1>1. /\ at \in 0 .. 6 /\ timeout \in 0 .. Budget
      /\ op.kind \in {"write", "read"}
      /\ Len(Script[op.kind]) = IF op.kind = "read" THEN 6 ELSE 4
  BY KindFacts DEF TwiInv
<1>2. pc \in Talking => at < 6 /\ (op.kind = "write" => at < 4)
  BY DEF TwiInv, OwnWires
<1>3. pc \in {"idle", "sta", "irq", "stop", "status", "lines"}
  BY DEF TwiInv, TypeOK
<1>4. CASE pc \in Talking
  <2>1. LoopsLeft = 3 + ((IF op.kind = "read" THEN 6 ELSE 4) - at)
                      + (IF op.kind = "read" /\ at < 3 THEN 1 ELSE 0)
                      + (IF pc = "sta" THEN 1 ELSE 0)
    BY <1>1, <1>4 DEF LoopsLeft, Talking
  <2>2. LoopsLeft \in Nat /\ LoopsLeft > 0 /\ LoopsLeft <= LoopsOf(op)
    BY <1>1, <1>2, <1>4, <2>1 DEF LoopsOf
  <2> QED  BY <1>1, <1>4, <2>2 DEF LoopsCounted, TurnsLeft, TurnsIn, Talking
<1>5. CASE pc \notin Talking
  <2>1. LoopsLeft \in 0 .. 3 /\ (pc # "idle" => LoopsLeft > 0) /\ 3 <= LoopsOf(op)
    BY <1>3, <1>5 DEF LoopsLeft, Talking, LoopsOf
  <2>2. LoopsOf(op) \in Nat
    BY DEF LoopsOf
  <2> QED  BY <1>1, <2>1, <2>2 DEF LoopsCounted, TurnsLeft, TurnsIn
<1> QED  BY <1>4, <1>5

LEMMA LoopsLeftThen == TwiInv' => LoopsCounted'
BY LoopsLeftNow, PTL

(* A turn that leaves fewer loops, or the same with a lower counter.       *)
Nearer ==
  \/ pc' = "idle"
  \/ pc' # "idle" /\ LoopsLeft' < LoopsLeft
  \/ pc' # "idle" /\ LoopsLeft' = LoopsLeft /\ timeout' < timeout

LEMMA NearerLowers ==
  ASSUME TwiInv, TwiInv', pc # "idle", Nearer
  PROVE  TurnsLeft' < TurnsLeft
<1>1. LoopsCounted /\ LoopsCounted'
  BY LoopsLeftNow, LoopsLeftThen
<1>2. /\ LoopsLeft \in Nat /\ LoopsLeft > 0 /\ timeout \in 0 .. Budget
      /\ TurnsLeft = TurnsIn(LoopsLeft - 1, timeout)
  BY <1>1 DEF LoopsCounted
<1>3. CASE pc' = "idle"
  <2>1. TurnsLeft' = 0
    BY <1>1, <1>3 DEF LoopsCounted
  <2> QED  BY <1>2, <2>1, TurnsInPositive
<1>4. CASE pc' # "idle"
  <2>1. /\ LoopsLeft' \in Nat /\ LoopsLeft' > 0 /\ timeout' \in 0 .. Budget
        /\ TurnsLeft' = TurnsIn(LoopsLeft' - 1, timeout')
    BY <1>1, <1>4 DEF LoopsCounted, TurnsIn, TurnsOf
  <2>2. LoopsLeft' < LoopsLeft \/ (LoopsLeft' = LoopsLeft /\ timeout' < timeout)
    BY <1>4 DEF Nearer
  <2>3. TurnsIn(LoopsLeft' - 1, timeout') < TurnsIn(LoopsLeft - 1, timeout)
    BY ONLY <1>2, <2>1, <2>2, TurnsInFewer
  <2> QED  BY <1>2, <2>1, <2>3
<1> QED  BY <1>3, <1>4

LEMMA DriverNearer ==
  ASSUME TwiInv, Driver
  PROVE  pc # "idle" /\ Nearer
<1>0. SUFFICES Nearer
  BY DEF Driver, WaitStart, WaitIrq, WaitStop, WaitStatus, WaitLines, Wait
<1>1. /\ at \in 0 .. 6 /\ timeout \in 0 .. Budget /\ Budget \in Nat
      /\ op.kind \in {"write", "read"}
      /\ Len(Script[op.kind]) = IF op.kind = "read" THEN 6 ELSE 4
      /\ pc \in Talking => at < 6 /\ (op.kind = "write" => at < 4)
  BY KindFacts DEF TwiInv, OwnWires
<1>2. ASSUME pc # "idle", timeout' = timeout - 1, UNCHANGED <<pc, at, op>>
      PROVE  Nearer
  <2>1. LoopsLeft' = LoopsLeft
    BY <1>2 DEF LoopsLeft
  <2>2. timeout' < timeout
    BY <1>1, <1>2
  <2> QED  BY <1>2, <2>1, <2>2 DEF Nearer
<1> DEFINE Length == IF op.kind = "read" THEN 6 ELSE 4
           Restart == IF op.kind = "read" /\ at < 3 THEN 1 ELSE 0
<1>3. pc \in Talking => LoopsLeft = 3 + (Length - at) + Restart + (IF pc = "sta" THEN 1 ELSE 0)
  BY <1>1 DEF LoopsLeft, Talking
<1>4. pc \in Talking => LoopsLeft > 3
  BY <1>1, <1>3
<1>5. ASSUME GiveUp, pc \in Talking PROVE Nearer
  <2>1. pc' = "stop" /\ LoopsLeft' = 3
    BY <1>5 DEF GiveUp, Stop, LoopsLeft, Talking
  <2> QED  BY <1>4, <1>5, <2>1 DEF Nearer
<1>6. CASE WaitStart
  <2>1. CASE pc' = "irq" /\ UNCHANGED <<at, op>>
    <3>1. pc = "sta"
      BY <1>6 DEF WaitStart, Wait
    <3>2. LoopsLeft = 3 + (Length - at) + Restart + 1
      BY <1>3, <3>1 DEF Talking
    <3>3. LoopsLeft' = 3 + (Length - at) + Restart
      BY <1>1, <2>1 DEF LoopsLeft, Talking
    <3> HIDE DEF Length, Restart
    <3>4. Length \in Nat /\ Restart \in Nat
      BY DEF Length, Restart
    <3>5. LoopsLeft' < LoopsLeft
      BY <1>1, <3>2, <3>3, <3>4
    <3> QED  BY <2>1, <3>5 DEF Nearer
  <2> QED  BY <1>2, <1>5, <1>6, <2>1 DEF WaitStart, Wait, Talking
<1>7. CASE WaitIrq
  <2>1. CASE GiveUp \/ (timeout' = timeout - 1 /\ UNCHANGED <<pc, at, op>>)
    BY <1>2, <1>5, <1>7, <2>1 DEF WaitIrq, Wait, Talking
  <2>2. CASE CheckStatus /\ ~GiveUp
    <3>1. pc = "irq" /\ at' = at + 1 /\ op' = op
          /\ IF at + 1 = Len(Script[op.kind]) THEN Stop ELSE NextStep
      BY <1>7, <2>2 DEF WaitIrq, Wait, CheckStatus
    <3>2. CASE at + 1 = Len(Script[op.kind])
      <4>1. pc' = "stop" /\ LoopsLeft' = 3
        BY <3>1, <3>2 DEF Stop, LoopsLeft, Talking
      <4> QED  BY <1>4, <3>1, <4>1 DEF Nearer, Talking
    <3>3. CASE at + 1 # Len(Script[op.kind])
      <4>1. /\ at \in 0 .. 4 /\ (op.kind = "write" => at < 3)
            /\ pc' \in {"sta", "irq"} /\ (pc' = "sta" => at = 2 /\ op.kind = "read")
        <5>1. at + 1 < Len(Script[op.kind])
          BY <1>1, <3>1, <3>3 DEF Talking
        <5>2. TypeOK /\ NextStep
          BY <3>1, <3>3 DEF TwiInv
        <5>3. at \in 0 .. 4 /\ (op.kind = "write" => at < 3)
          BY <5>1, <5>2, NextStepFacts
        <5>4. SendStart => pc' = "sta"
          BY DEF SendStart
        <5>5. \A byte : SendData(byte) => pc' = "irq"
          BY DEF SendData
        <5>6. CASE at = 2 /\ op.kind = "read"
          BY <1>1, <5>1, <5>2, <5>3, <5>4, <5>6, NextStepFacts
        <5>7. CASE ~(at = 2 /\ op.kind = "read")
          <6>1. pc' = "irq"
            BY <1>1, <5>1, <5>2, <5>3, <5>5, <5>7, NextStepFacts
          <6> QED  BY <5>3, <6>1
        <5> QED  BY <5>6, <5>7
      <4>2. LoopsLeft' = 3 + (Length - (at + 1))
                           + (IF op.kind = "read" /\ at + 1 < 3 THEN 1 ELSE 0)
                           + (IF pc' = "sta" THEN 1 ELSE 0)
        BY <1>1, <3>1, <4>1 DEF LoopsLeft, Talking
      <4>3. LoopsLeft = 3 + (Length - at) + Restart
        BY <1>1, <1>3, <3>1 DEF Talking
      <4>4. LoopsLeft' < LoopsLeft
        BY <1>1, <4>1, <4>2, <4>3
      <4> QED  BY <4>1, <4>4 DEF Nearer
    <3> QED  BY <3>2, <3>3
  <2> QED  BY <1>7, <2>1, <2>2 DEF WaitIrq, Wait
<1>8. ASSUME Return PROVE Nearer
  BY <1>8 DEF Return, Nearer
<1>9. CASE WaitStop
  <2>1. CASE Then("status")
    <3>1. pc = "stop" /\ pc' = "status"
      BY <1>9, <2>1 DEF WaitStop, Wait, Then
    <3>2. LoopsLeft = 3 /\ LoopsLeft' = 2
      BY <3>1 DEF LoopsLeft, Talking
    <3> QED  BY <3>1, <3>2 DEF Nearer
  <2> QED  BY <1>2, <1>8, <1>9, <2>1 DEF WaitStop, Wait
<1>10. CASE WaitStatus
  <2>1. CASE Then("lines")
    <3>1. pc = "status" /\ pc' = "lines"
      BY <1>10, <2>1 DEF WaitStatus, Wait, Then
    <3>2. LoopsLeft = 2 /\ LoopsLeft' = 1
      BY <3>1 DEF LoopsLeft, Talking
    <3> QED  BY <3>1, <3>2 DEF Nearer
  <2> QED  BY <1>2, <1>8, <1>10, <2>1 DEF WaitStatus, Wait
<1>11. CASE WaitLines
  BY <1>2, <1>8, <1>11 DEF WaitLines, Wait
<1> QED  BY <1>6, <1>7, <1>9, <1>10, <1>11 DEF Driver

LEMMA CallTurns ==
  ASSUME TwiInv', NEW o \in Ops, Call(o)
  PROVE  TurnsLeft' <= TurnsOf(LoopsOf(o))
<1>1. op' = o /\ pc' # "idle"
  BY DEF Call, SendStart, Stop
<1>2. PICK l \in Nat : /\ l > 0 /\ l <= LoopsOf(o) /\ timeout' \in 0 .. Budget
                       /\ TurnsLeft' = TurnsIn(l - 1, timeout')
  <2>1. LoopsCounted'
    BY LoopsLeftThen
  <2> QED  BY <1>1, <2>1 DEF LoopsCounted, TurnsIn, TurnsOf, LoopsOf
<1>3. TurnsLeft' <= TurnsOf(l) /\ TurnsLeft' \in Nat
  BY ONLY <1>2, TurnsInPositive
<1>4. LoopsOf(o) \in Nat
  BY DEF LoopsOf
<1>5. TurnsOf(l) \in Nat /\ TurnsOf(l) <= TurnsOf(LoopsOf(o))
  BY <1>2, <1>4, TurnsOfMonotone
<1>6. TurnsOf(LoopsOf(o)) \in Nat
  <2>1. LoopsOf(o) <= LoopsOf(o)
    BY <1>4
  <2> QED  BY <1>4, <2>1, TurnsOfMonotone
<1> QED  BY <1>3, <1>5, <1>6

(* i2c_read and i2c_write return after at most eleven and eight loops of   *)
(* Budget + 1 turns, whatever the controller and the chip do.  The         *)
(* fairness of the driver is all that ImplementsBus adds to it.            *)
THEOREM CallsRunOut == Spec => []TurnsCounted /\ TurnsRunOut
<1>1. TwiInv => TurnsCounted
  <2> SUFFICES ASSUME TwiInv PROVE TurnsCounted
    OBVIOUS
  <2>1. LoopsCounted
    BY LoopsLeftNow
  <2>2. CASE pc = "idle"
    BY <2>1, <2>2 DEF LoopsCounted, TurnsCounted
  <2>3. CASE pc # "idle"
    BY <2>1, <2>3, TurnsInPositive DEF LoopsCounted, TurnsCounted
  <2> QED  BY <2>2, <2>3
<1> DEFINE Step == /\ Driver => TurnsLeft' < TurnsLeft
                   /\ Controller => TurnsLeft' = TurnsLeft
                   /\ \A o \in Ops : Call(o) => TurnsLeft' <= TurnsOf(LoopsOf(o))
<1>2. TwiInv /\ TwiInv' => Step
  <2> SUFFICES ASSUME TwiInv, TwiInv' PROVE Step
    OBVIOUS
  <2>1. Driver => TurnsLeft' < TurnsLeft
    BY DriverNearer, NearerLowers
  <2>2. Controller => TurnsLeft' = TurnsLeft
    <3>1. Controller => UNCHANGED <<pc, at, op, timeout>>
      BY DEF Controller, StartSent, StopSent, ByteAcknowledged, ByteRefused, drv
    <3>2. ASSUME UNCHANGED <<pc, at, op, timeout>> PROVE TurnsLeft' = TurnsLeft
      BY <3>2 DEF TurnsLeft, LoopsLeft, TurnsOf
    <3> QED  BY <3>1, <3>2
  <2>3. \A o \in Ops : Call(o) => TurnsLeft' <= TurnsOf(LoopsOf(o))
    BY CallTurns
  <2> QED  BY <2>1, <2>2, <2>3
<1>3. Step => [Step]_vars
  OBVIOUS
<1> HIDE DEF Step
<1>4. Spec => []TurnsCounted /\ [][Step]_vars
  BY <1>1, <1>2, <1>3, Invariant, PTL DEF Spec
<1> QED  BY <1>4 DEF Step, TurnsRunOut
==============================================================================
