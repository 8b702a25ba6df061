-------------------------------- MODULE Twi --------------------------------
(***************************************************************************)
(* The I2C driver, pcduino_uboot/i2c.c (pcduino_spl has the same code):    *)
(* i2c_read and i2c_write of one byte of one register of the power chip.   *)
(* The driver polls; the TWI controller and the chip behind it run         *)
(* concurrently and may be slow, refuse, or never finish.                  *)
(*                                                                         *)
(* A polling loop turns 0x2ff times in the code, Budget times here.        *)
(***************************************************************************)
EXTENDS Integers, Sequences

CONSTANTS
  Budget,     \* turns of a polling loop
  Regs,       \* registers of the chip
  Values,     \* what a register holds
  Ops         \* the calls made; the value of a read is of no account

ASSUME TwiAssumption ==
  /\ Budget \in Nat
  /\ Ops # {} /\ Ops \subseteq [kind : {"read", "write"}, reg : Regs, val : Values]

VARIABLES
  pc,      \* the loop the driver is in, or "idle" between calls
  at,      \* how many steps of the script of the call are behind
  op,      \* the call
  timeout, \* the loop's counter
  failed,  \* i2c_do_read or i2c_do_write has given up
  rc,      \* result of the last call
  buf,     \* the byte read
  doubt,   \* history: writes that failed since a call last succeeded
  sta, stp, irq,  \* control register: start, stop, interrupt flag
  code,    \* the status the interrupt flag announces
  data,    \* data register
  shift,   \* a byte is being shifted over the wires
  bus,     \* where the transaction on the wires stands
  regs,    \* the chip's registers
  ptr      \* the chip's register pointer

drv  == <<pc, at, op, timeout, failed, rc, buf, doubt>>
ctl  == <<sta, stp, irq, code, data, shift, bus>>
chip == <<regs, ptr>>
vars == <<drv, ctl, chip>>

(* The steps of i2c_do_write and i2c_do_read, each named for the status it *)
(* expects to end with.                                                    *)
Script == [write |-> <<"TX_STA", "TX_AW_ACK", "TXD_ACK", "TXD_ACK">>,
           read  |-> <<"TX_STA", "TX_AW_ACK", "TXD_ACK", "TX_RESTA", "TX_AR_ACK", "RXD_NAK">>]

Expected == Script[op.kind][at + 1]

Codes == {"TX_STA", "TX_RESTA", "TX_AW_ACK", "TX_AR_ACK", "TXD_ACK", "RXD_NAK",
          "NAK", "LOST"}

(* The status register: "No relevant status infomation, INT_FLAG = 0".     *)
Status == IF irq THEN code ELSE "IDLE"

LinesIdle == bus = "idle" /\ ~shift

TypeOK ==
  /\ pc \in {"idle", "sta", "irq", "stop", "status", "lines"}
  /\ at \in 0 .. 6 /\ op \in Ops
  /\ timeout \in 0 .. Budget
  /\ failed \in BOOLEAN /\ rc \in {0, -1} /\ buf \in Values
  /\ doubt \subseteq Ops
  /\ sta \in BOOLEAN /\ stp \in BOOLEAN /\ irq \in BOOLEAN
  /\ code \in Codes
  /\ data \in {"AW", "AR"} \cup Regs \cup Values
  /\ shift \in BOOLEAN
  /\ bus \in {"idle", "start", "reg", "data", "get", "end"}
  /\ regs \in [Regs -> Values] /\ ptr \in Regs

(* i2c_init has reset the controller.                                      *)
Init ==
  /\ pc = "idle" /\ at = 0 /\ timeout = 0
  /\ op = CHOOSE o \in Ops : TRUE
  /\ failed = FALSE /\ rc = -1 /\ buf = op.val /\ doubt = {}
  /\ sta = FALSE /\ stp = FALSE /\ irq = FALSE /\ code = "NAK" /\ data = "AW"
  /\ shift = FALSE /\ bus = "idle"
  /\ regs \in [Regs -> Values] /\ ptr \in Regs

-----------------------------------------------------------------------------
(* The driver's writes to the controller.                                  *)

(* i2c_stop: everything but the enable bits is cleared, STP is set.        *)
Stop ==
  /\ irq' = FALSE /\ sta' = FALSE /\ stp' = TRUE
  /\ pc' = "stop" /\ timeout' = Budget
  /\ UNCHANGED <<code, data, shift, bus>>

(* i2c_start: STA set, the interrupt flag cleared.                         *)
SendStart ==
  /\ sta' = TRUE /\ irq' = FALSE
  /\ pc' = "sta" /\ timeout' = Budget
  /\ UNCHANGED <<stp, code, data, shift, bus>>

(* i2c_send_data, or the clearing of the interrupt flag that makes the     *)
(* controller fetch a byte; it has a byte to move if a transaction is open.*)
SendData(byte) ==
  /\ data' = byte
  /\ irq' = FALSE
  /\ shift' = (bus # "idle")
  /\ pc' = "irq" /\ timeout' = Budget
  /\ UNCHANGED <<sta, stp, code, bus>>

-----------------------------------------------------------------------------
(* The driver.                                                             *)

(* A call: the first i2c_start refuses a controller that is not idle.      *)
Call(o) ==
  /\ pc = "idle"
  /\ op' = o /\ at' = 0
  /\ IF Status = "IDLE"
       THEN SendStart /\ failed' = FALSE
       ELSE Stop /\ failed' = TRUE
  /\ UNCHANGED <<rc, buf, doubt, chip>>

(* Mutant: the counter runs past zero.                                     *)
WaitPastZero(loop, met, Passed, Failed) ==
  /\ pc = loop
  /\ \/ /\ ~met
        /\ timeout' = timeout - 1
        /\ UNCHANGED <<pc, at, op, failed, rc, buf, doubt, ctl, chip>>
     \/ met /\ Passed

(* A loop "while (!met && timeout-- > 0); if (timeout != 0) ok else fail": *)
(* running out leaves the counter at -1 and passes, while success on the   *)
(* last turn fails.                                                        *)
Wait(loop, met, Passed, Failed) ==
  /\ pc = loop
  /\ \/ /\ ~met /\ timeout > 0
        /\ timeout' = timeout - 1
        /\ UNCHANGED <<pc, at, op, failed, rc, buf, doubt, ctl, chip>>
     \/ /\ met /\ timeout > 0
        /\ Passed
     \/ /\ ~met /\ timeout = 0
        /\ Passed
     \/ /\ met /\ timeout = 0
        /\ Failed

GiveUp ==
  /\ Stop
  /\ failed' = TRUE
  /\ UNCHANGED <<at, op, rc, buf, doubt, chip>>

(* i2c_wait_ctl(TWI_CTL_STA, 0).                                           *)
WaitStart ==
  Wait("sta", ~sta,
       /\ pc' = "irq" /\ timeout' = Budget
       /\ UNCHANGED <<at, op, failed, rc, buf, doubt, ctl, chip>>,
       GiveUp)

(* The next step of the script.                                            *)
NextStep ==
  CASE Script[op.kind][at + 2] = "TX_RESTA"  -> SendStart
    [] Script[op.kind][at + 2] = "TX_AW_ACK" -> SendData("AW")
    [] Script[op.kind][at + 2] = "TX_AR_ACK" -> SendData("AR")
    [] Script[op.kind][at + 2] = "RXD_NAK"   -> SendData(data)
    [] Script[op.kind][at + 2] = "TXD_ACK" ->
         SendData(IF at + 2 = 3 THEN op.reg ELSE op.val)

(* Mutant: the status is not compared.                                     *)
CheckStatusIgnored ==
  /\ at' = at + 1
  /\ IF at + 1 = Len(Script[op.kind])
       THEN /\ Stop
            /\ buf' = IF op.kind = "read" THEN data ELSE buf
       ELSE NextStep /\ UNCHANGED buf
  /\ UNCHANGED <<op, failed, rc, doubt, chip>>

(* After i2c_wait_irq: the status must be the one expected; the byte read  *)
(* is taken from the data register.                                        *)
CheckStatus ==
  IF Status = Expected
    THEN /\ at' = at + 1
         /\ IF at + 1 = Len(Script[op.kind])
              THEN /\ Stop
                   /\ buf' = IF op.kind = "read" THEN data ELSE buf
              ELSE NextStep /\ UNCHANGED buf
         /\ UNCHANGED <<op, failed, rc, doubt, chip>>
    ELSE GiveUp

(* i2c_wait_irq_status.                                                    *)
WaitIrq == Wait("irq", irq, CheckStatus, GiveUp)

(* The end of i2c_read and i2c_write, which ignore what i2c_stop returns.  *)
Return ==
  /\ pc' = "idle"
  /\ rc' = IF failed THEN -1 ELSE 0
  /\ doubt' = IF ~failed THEN {}
              ELSE IF op.kind = "write" THEN doubt \cup {op} ELSE doubt
  /\ UNCHANGED <<at, op, timeout, failed, buf, ctl, chip>>

(* The three waits of i2c_stop.                                            *)
Then(loop) ==
  /\ pc' = loop /\ timeout' = Budget
  /\ UNCHANGED <<at, op, failed, rc, buf, doubt, ctl, chip>>

WaitStop == Wait("stop", ~stp, Then("status"), Return)
WaitStatus == Wait("status", Status = "IDLE", Then("lines"), Return)

(* Mutant: the last wait of i2c_stop has no budget.                        *)
WaitLinesForever ==
  pc = "lines" /\ IF LinesIdle THEN Return ELSE UNCHANGED vars

WaitLines == Wait("lines", LinesIdle, Return, Return)

-----------------------------------------------------------------------------
(* The controller and the chip (external).  The controller rests while the *)
(* interrupt flag is up.  A stop may cut a byte off.                       *)

Interrupt(c) == irq' = TRUE /\ code' = c

StartSent ==
  /\ ~irq /\ sta /\ ~stp /\ ~shift
  /\ sta' = FALSE
  /\ Interrupt(IF bus = "idle" THEN "TX_STA" ELSE "TX_RESTA")
  /\ bus' = "start"
  /\ UNCHANGED <<drv, stp, data, shift, chip>>

StopSent ==
  /\ ~irq /\ stp
  /\ stp' = FALSE /\ bus' = "idle" /\ shift' = FALSE
  /\ UNCHANGED <<drv, sta, irq, code, data, chip>>

ByteAcknowledged ==
  /\ ~irq /\ shift
  /\ shift' = FALSE
  /\ \/ /\ bus = "start" /\ data = "AW"
        /\ bus' = "reg" /\ Interrupt("TX_AW_ACK")
        /\ UNCHANGED <<data, chip>>
     \/ /\ bus = "start" /\ data = "AR"
        /\ bus' = "get" /\ Interrupt("TX_AR_ACK")
        /\ UNCHANGED <<data, chip>>
     \/ /\ bus = "reg"
        /\ bus' = "data" /\ Interrupt("TXD_ACK")
        /\ ptr' = data
        /\ UNCHANGED <<data, regs>>
     \/ /\ bus = "data"
        /\ Interrupt("TXD_ACK")
        /\ regs' = [regs EXCEPT ![ptr] = data]
        /\ UNCHANGED <<bus, data, ptr>>
     \/ /\ bus = "get"
        /\ bus' = "end" /\ Interrupt("RXD_NAK")
        /\ data' = regs[ptr]
        /\ UNCHANGED chip
  /\ UNCHANGED <<drv, sta, stp>>

ByteRefused ==
  /\ ~irq /\ shift
  /\ shift' = FALSE
  /\ \/ bus' = "end" /\ Interrupt("NAK")
     \/ bus' = "idle" /\ Interrupt("LOST")
  /\ UNCHANGED <<drv, sta, stp, data, chip>>

-----------------------------------------------------------------------------
Driver == WaitStart \/ WaitIrq \/ WaitStop \/ WaitStatus \/ WaitLines
Controller == StartSent \/ StopSent \/ ByteAcknowledged \/ ByteRefused

Next == (\E o \in Ops : Call(o)) \/ Driver \/ Controller

Spec == Init /\ [][Next]_vars

(* The CPU runs the driver's loops; nothing is assumed of the controller.  *)
FairSpec == Spec /\ WF_vars(Driver)

-----------------------------------------------------------------------------
(* Properties.                                                             *)

(* The driver implements the register bus axp209.c relies on: success is   *)
(* never reported for a byte that did not get through, although a polling  *)
(* loop that runs out reports success; and a byte left on the wires by a   *)
(* failed call never lands after a later call succeeded.  Every call       *)
(* returns, whatever the controller does.                                  *)
Bus == INSTANCE RegisterBus WITH calling <- pc # "idle"
ImplementsBus == Bus!Spec

(* A byte goes out only in the transaction of the call under way: what is  *)
(* on the wires when the driver has seen an expected status is its own.    *)
WiresFollowDriver ==
  pc # "idle" /\ ~failed /\ at > 0 /\ pc \in {"irq", "sta"} /\ shift =>
    /\ bus = CASE at = 1 -> "start"
               [] at = 2 -> "reg"
               [] at = 3 /\ op.kind = "write" -> "data"
               [] at = 4 -> "start"
               [] at = 5 -> "get"
    /\ at > 2 => ptr = op.reg
=============================================================================
