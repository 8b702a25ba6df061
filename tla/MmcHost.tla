------------------------------- MODULE MmcHost -------------------------------
(***************************************************************************)
(* The SD/MMC host driver of pcduino_uboot/mmc.c: mmc_send_cmd and what it *)
(* calls (mmc_trans_data_by_cpu, mmc_update_clk), and mmc_set_ios with     *)
(* mmc_config_clock.  The driver polls; the controller is a concurrent     *)
(* process that answers, transfers, fails or stays silent at its own pace. *)
(*                                                                         *)
(* One driver step is one turn of a polling loop.  The loops of the code   *)
(* count 0xfffff (0xffff for the data phase) turns; here they count Budget *)
(* turns, each with the code's own test and decrement order.               *)
(***************************************************************************)
EXTENDS Integers, FiniteSets

CONSTANTS
  Budget,     \* turns a polling loop may take (0xfffff in the code)
  MaxWords,   \* largest transfer, in 32-bit words
  FifoDepth   \* words the controller's FIFO holds

ASSUME BudgetAssumption == Budget \in Nat \ {0}
ASSUME SizeAssumption   == /\ MaxWords \in Nat
                           /\ FifoDepth \in Nat \ {0}

VARIABLES
  pc,         \* which loop the driver is in; "idle" between calls
  req,        \* the request being executed
  timeout,    \* the loop's counter
  word,       \* words moved from the FIFO to data->dest
  clk,        \* mmc_update_clk calls left after this one; -1: error path
  ret,        \* result of the last mmc_send_cmd
  spent,      \* history: a budget ran out and nobody has reset since
  fatal_err,  \* mmchost->fatal_err
  rint,       \* raw interrupt status register: the bits raised
  fifo,       \* words waiting in the FIFO
  job,        \* the request the controller is executing, or executed last
  left,       \* words the card still has to deliver for it
  engine,     \* the controller's command engine
  busy,       \* STATUS bit 9: card holds DAT0
  updating    \* CMD bit 31: a clock update is pending

drv  == <<pc, req, timeout, word, clk, ret, spent, fatal_err>>
ctl  == <<rint, fifo, job, left, engine, busy, updating>>
vars == <<drv, ctl>>

Bits == {"cmd", "over", "stopped", "err"}

(* What callers ask for: CMD12, commands without data (with or without a   *)
(* busy phase), and reads of one or more blocks.  "aligned" is false only  *)
(* when the user names an odd load address in the bootm command.           *)
Requests ==
  {r \in [kind : {"stop", "plain", "read"}, words : 0 .. MaxWords,
          multi : BOOLEAN, wait : BOOLEAN, aligned : BOOLEAN] :
     /\ r.kind = "read" <=> r.words > 0
     /\ r.kind # "read" => ~r.multi /\ r.aligned
     /\ r.kind # "plain" => ~r.wait}

NoRequest == [kind |-> "stop", words |-> 0, multi |-> FALSE, wait |-> FALSE,
              aligned |-> TRUE]

TypeOK ==
  /\ pc \in {"idle", "fifo", "cmd", "data", "busy", "clock"}
  /\ req \in Requests
  /\ timeout \in 0 .. Budget
  /\ word \in 0 .. MaxWords
  /\ clk \in -1 .. 2
  /\ ret \in {0, -1}
  /\ spent \in BOOLEAN
  /\ fatal_err \in BOOLEAN
  /\ rint \subseteq Bits
  /\ fifo \in 0 .. FifoDepth
  /\ job \in Requests
  /\ left \in 0 .. MaxWords
  /\ engine \in {"idle", "sent", "data", "stopping"}
  /\ busy \in BOOLEAN
  /\ updating \in BOOLEAN

Init ==
  /\ pc = "idle" /\ req = NoRequest /\ timeout = 0 /\ word = 0 /\ clk = 0
  /\ ret = 0 /\ spent = FALSE /\ fatal_err = FALSE
  /\ rint = {} /\ fifo = 0 /\ job = NoRequest /\ left = 0
  /\ engine = "idle" /\ busy = FALSE /\ updating = FALSE

-----------------------------------------------------------------------------
(* How mmc_send_cmd ends.                                                  *)

(* Mutant: the interrupts are not acknowledged.                            *)
ReturnUnacknowledged ==
  /\ pc' = "idle" /\ ret' = 0 /\ fifo' = 0
  /\ UNCHANGED <<rint, job, left, engine, busy, updating, clk, timeout>>

(* The tail after "out:" with error = 0: acknowledge all interrupts, reset *)
(* the FIFO, return 0.                                                     *)
ReturnSuccess ==
  /\ pc' = "idle" /\ ret' = 0
  /\ rint' = {} /\ fifo' = 0
  /\ UNCHANGED <<job, left, engine, busy, updating, clk, timeout>>

(* The tail after "out:" with error # 0: soft-reset the controller, then   *)
(* mmc_update_clk, whose result the tail ignores.                          *)
ResetController ==
  /\ pc' = "clock" /\ clk' = -1 /\ timeout' = Budget
  /\ fifo' = 0 /\ left' = 0 /\ engine' = "idle" /\ updating' = TRUE
  /\ UNCHANGED <<rint, job, busy, ret>>

(* "goto out" from a loop whose budget ran out: error is whatever error    *)
(* bits the status register happens to show, so without one the command is *)
(* reported as a success.                                                  *)
GiveUp ==
  IF "err" \in rint
    THEN ResetController /\ spent' = FALSE
    ELSE ReturnSuccess /\ spent' = TRUE

-----------------------------------------------------------------------------
(* Calls into the driver.                                                  *)

(* Mutant: a dead host is not refused.                                     *)
SendCmdUnchecked(r) ==
  /\ pc = "idle"
  /\ req' = r /\ word' = 0
  /\ pc' = IF r.kind = "read" THEN "fifo" ELSE "cmd"
  /\ timeout' = Budget
  /\ engine' = "sent" /\ job' = r /\ left' = r.words
  /\ UNCHANGED <<clk, ret, spent, fatal_err, rint, fifo, busy, updating>>

(* mmc_send_cmd up to the write of the command register.  A controller     *)
(* still busy with an earlier command may drop the new one.                *)
SendCmd(r) ==
  /\ pc = "idle"
  /\ req' = r
  /\ word' = 0
  /\ UNCHANGED fatal_err
  /\ \/ /\ fatal_err
        /\ ret' = -1
        /\ UNCHANGED <<pc, timeout, clk, spent, ctl>>
     \/ /\ ~fatal_err /\ r.kind = "stop"
        /\ ret' = 0
        /\ UNCHANGED <<pc, timeout, clk, spent, ctl>>
     \/ /\ ~fatal_err /\ ~r.aligned
        /\ ResetController
        /\ spent' = FALSE
     \/ /\ ~fatal_err /\ r.kind # "stop" /\ r.aligned
        /\ pc' = IF r.kind = "read" THEN "fifo" ELSE "cmd"
        /\ timeout' = Budget
        /\ \/ engine' = "sent" /\ job' = r /\ left' = r.words
           \/ engine # "idle" /\ UNCHANGED <<engine, job, left>>
        /\ UNCHANGED <<clk, ret, spent, rint, fifo, busy, updating>>

(* mmc_set_ios: with a clock, mmc_config_clock makes three clock updates   *)
(* (off, divider, on); with mmc->clock still 0, as when the bus width is   *)
(* set first, none.  The bus width write that follows has no state here.   *)
SetIos ==
  /\ pc = "idle"
  /\ \/ /\ pc' = "clock" /\ clk' = 2 /\ timeout' = Budget
        /\ updating' = TRUE
        /\ UNCHANGED <<req, word, ret, spent, fatal_err, rint, fifo,
                       job, left, engine, busy>>
     \/ UNCHANGED vars

-----------------------------------------------------------------------------
(* The polling loops.                                                      *)

(* mmc_trans_data_by_cpu: "while (--timeout && FIFO empty)", then one word *)
(* is read and the budget starts again.                                    *)
PollFifo ==
  /\ pc = "fifo"
  /\ UNCHANGED <<req, fatal_err>>
  /\ \/ /\ timeout = 1
        /\ GiveUp
        /\ UNCHANGED word
     \/ /\ timeout > 1 /\ fifo = 0
        /\ timeout' = timeout - 1
        /\ UNCHANGED <<pc, word, clk, ret, spent, ctl>>
     \/ /\ timeout > 1 /\ fifo > 0
        /\ fifo' = fifo - 1
        /\ word' = word + 1
        /\ timeout' = Budget
        /\ pc' = IF word + 1 = req.words THEN "cmd" ELSE "fifo"
        /\ UNCHANGED <<clk, ret, spent, rint, job, left, engine, busy, updating>>

(* After the last status loop: the busy phase of an R1b command, or the    *)
(* response is read and the call succeeds.                                 *)
AfterStatus ==
  IF req.wait
    THEN /\ pc' = "busy" /\ timeout' = Budget
         /\ UNCHANGED <<clk, ret, ctl>>
    ELSE ReturnSuccess

(* "do { status = rint; if (!timeout-- || error bits) goto out; }          *)
(* while (!done)": on the turn that finds the counter at zero the loop     *)
(* gives up even if the bit it waits for is set.                           *)
PollStatus(loop, done, Continue) ==
  /\ pc = loop
  /\ UNCHANGED <<req, word, fatal_err>>
  /\ \/ /\ "err" \in rint \/ timeout = 0
        /\ GiveUp
     \/ /\ "err" \notin rint /\ timeout > 0 /\ done \notin rint
        /\ timeout' = timeout - 1
        /\ UNCHANGED <<pc, clk, ret, spent, ctl>>
     \/ /\ "err" \notin rint /\ timeout > 0 /\ done \in rint
        /\ Continue
        /\ UNCHANGED spent

PollCmd ==
  PollStatus("cmd", "cmd",
    IF req.kind = "read"
      THEN /\ pc' = "data" /\ timeout' = Budget
           /\ UNCHANGED <<clk, ret, ctl>>
      ELSE AfterStatus)

(* A multi-block read ends with the automatic CMD12, a single block with   *)
(* data over.                                                              *)
PollData ==
  PollStatus("data", IF req.multi THEN "stopped" ELSE "over", AfterStatus)

(* Mutant: the busy loop without a budget.                                 *)
PollBusyForever ==
  /\ pc = "busy" /\ ~busy
  /\ ReturnSuccess
  /\ UNCHANGED <<req, word, fatal_err, spent>>

(* The busy loop is the one whose timeout is an error.                     *)
PollBusy ==
  /\ pc = "busy"
  /\ UNCHANGED <<req, word, fatal_err>>
  /\ \/ /\ timeout = 0
        /\ ResetController
        /\ spent' = FALSE
     \/ /\ timeout > 0 /\ busy
        /\ timeout' = timeout - 1
        /\ UNCHANGED <<pc, clk, ret, spent, ctl>>
     \/ /\ timeout > 0 /\ ~busy
        /\ ReturnSuccess
        /\ UNCHANGED spent

(* What follows mmc_update_clk = 0: it acknowledged the interrupts it saw; *)
(* the error tail then returns -1, mmc_config_clock goes on to its next    *)
(* update or is done.                                                      *)
ClockUpdated ==
  /\ rint' = {}
  /\ \/ /\ clk = -1
        /\ pc' = "idle" /\ ret' = -1
        /\ UNCHANGED <<clk, timeout, updating>>
     \/ /\ clk = 0
        /\ pc' = "idle"
        /\ UNCHANGED <<ret, clk, timeout, updating>>
     \/ /\ clk > 0
        /\ clk' = clk - 1 /\ timeout' = Budget /\ updating' = TRUE
        /\ UNCHANGED <<pc, ret>>
  /\ UNCHANGED fatal_err

(* What follows mmc_update_clk = -1: the error tail ignores it and still   *)
(* acknowledges everything, mmc_set_ios declares the host dead.            *)
ClockFailed ==
  /\ pc' = "idle"
  /\ IF clk = -1
       THEN ret' = -1 /\ rint' = {} /\ UNCHANGED fatal_err
       ELSE fatal_err' = TRUE /\ UNCHANGED <<ret, rint>>
  /\ UNCHANGED <<clk, timeout, updating>>

(* Mutant: a budget tested before it is decremented passes zero.           *)
PollClockPastZero ==
  /\ pc = "clock"
  /\ UNCHANGED <<req, word, spent, fifo, job, left, engine, busy>>
  /\ \/ /\ updating
        /\ timeout' = timeout - 1
        /\ UNCHANGED <<pc, clk, ret, fatal_err, rint, updating>>
     \/ ~updating /\ ClockUpdated

(* mmc_update_clk: "while (pending && timeout--); if (!timeout) return -1".*)
(* An update still pending when the counter is zero leaves it at           *)
(* 0xffffffff, which passes the test; one that completes at zero fails it. *)
PollClock ==
  /\ pc = "clock"
  /\ UNCHANGED <<req, word, spent, fifo, job, left, engine, busy>>
  /\ \/ /\ updating /\ timeout > 0
        /\ timeout' = timeout - 1
        /\ UNCHANGED <<pc, clk, ret, fatal_err, rint, updating>>
     \/ /\ updating /\ timeout = 0
        /\ ClockUpdated
     \/ /\ ~updating /\ timeout > 0
        /\ ClockUpdated
     \/ /\ ~updating /\ timeout = 0
        /\ ClockFailed

-----------------------------------------------------------------------------
(* The controller and the card behind it (external).                       *)

(* The card's response is in: command done.                                *)
CardAnswers ==
  /\ engine = "sent"
  /\ rint' = rint \cup {"cmd"}
  /\ engine' = IF left > 0 THEN "data" ELSE "idle"
  /\ busy' \in IF job.wait THEN BOOLEAN ELSE {busy}
  /\ UNCHANGED <<drv, fifo, job, left, updating>>

WordArrives ==
  /\ engine = "data" /\ left > 0 /\ fifo < FifoDepth
  /\ fifo' = fifo + 1
  /\ left' = left - 1
  /\ UNCHANGED <<drv, rint, job, engine, busy, updating>>

DataOver ==
  /\ engine = "data" /\ left = 0
  /\ rint' = rint \cup {"over"}
  /\ engine' = IF job.multi THEN "stopping" ELSE "idle"
  /\ UNCHANGED <<drv, fifo, job, left, busy, updating>>

AutoStopDone ==
  /\ engine = "stopping"
  /\ rint' = rint \cup {"stopped"}
  /\ engine' = "idle"
  /\ UNCHANGED <<drv, fifo, job, left, busy, updating>>

(* Response timeout, CRC error, FIFO overrun, ...: one of the bits 0xbfc2. *)
TransferFails ==
  /\ engine # "idle"
  /\ rint' = rint \cup {"err"}
  /\ engine' = "idle"
  /\ left' = 0
  /\ UNCHANGED <<drv, fifo, job, busy, updating>>

BusyEnds ==
  /\ busy
  /\ busy' = FALSE
  /\ UNCHANGED <<drv, rint, fifo, job, left, engine, updating>>

ClockUpdateDone ==
  /\ updating
  /\ updating' = FALSE
  /\ UNCHANGED <<drv, rint, fifo, job, left, engine, busy>>

-----------------------------------------------------------------------------
Driver == PollFifo \/ PollCmd \/ PollData \/ PollBusy \/ PollClock

Controller ==
  \/ CardAnswers \/ WordArrives \/ DataOver \/ AutoStopDone
  \/ TransferFails \/ BusyEnds \/ ClockUpdateDone

Next ==
  \/ \E r \in Requests : SendCmd(r)
  \/ SetIos
  \/ Driver
  \/ Controller

Spec == Init /\ [][Next]_vars

(* The CPU runs the driver's loops; nothing is assumed of the controller.  *)
FairSpec == Spec /\ WF_vars(Driver)

-----------------------------------------------------------------------------
(* Properties.                                                             *)

(* A command that mmc_send_cmd reports as done, with no polling budget     *)
(* exhausted since the last reset, is really over: the controller is       *)
(* idle, no interrupt is left to be taken for the next command's, and      *)
(* every word asked for is in memory.  One that it reports as failed       *)
(* leaves the controller as quiet, so its late answer cannot complete the  *)
(* next command.                                                           *)
ReturnsQuiescent ==
  pc = "idle" /\ ~spent =>
    /\ engine = "idle" /\ rint = {} /\ fifo = 0 /\ left = 0
    /\ ret = 0 => word = req.words

(* Once the host is declared dead no command reaches the controller.       *)
DeadHostSendsNothing ==
  [][fatal_err => fatal_err' /\ (engine' = "sent" => engine = "sent")]_vars

(* mmc_send_cmd implements the abstract command its callers rely on: a     *)
(* success can be believed while the host is trusted, and every call       *)
(* returns whatever the controller does, since no loop polls the hardware  *)
(* without a budget.                                                       *)
Command == INSTANCE MmcCommand WITH
  state   <- CASE pc = "idle" -> "idle"
               [] pc = "clock" /\ clk = -1 -> "failing"
               [] pc = "clock" /\ clk # -1 -> "clocking"
               [] OTHER -> "working",
  asked   <- req.words,
  moved   <- IF pc = "idle" THEN word ELSE 0,
  trusted <- ~spent,
  dead    <- fatal_err

ImplementsCommand == Command!Spec

(* What the "cmd timeout" diagnostic of mmc_send_cmd announces: a command  *)
(* that ran out of time is not reported as a success, so that success      *)
(* means the controller has finished.                                      *)
SuccessMeansFinished == pc = "idle" /\ ret = 0 => engine = "idle"
=============================================================================
