--------------------------- MODULE MmcHostProofs ---------------------------
(***************************************************************************)
(* What mmc_send_cmd returns can be trusted, for every budget, transfer    *)
(* size and FIFO depth: TypeOK and ReturnsQuiescent are invariants.        *)
(*                                                                         *)
(* ReturnsQuiescent speaks of the moments between calls.  To be inductive  *)
(* it needs what holds in the middle of one: the interrupt bits that are   *)
(* up tell how far the controller has got, and no word is lost between the *)
(* card, the FIFO and memory.                                              *)
(***************************************************************************)
EXTENDS MmcHost, TLAPS

(* The controller has nothing to do and nothing to say.                    *)
ControllerIdle == engine = "idle" /\ fifo = 0 /\ left = 0

LastCallComplete == ret = 0 => word = req.words

(* How far the controller is with the current request.                     *)
Progress ==
  "err" \notin rint =>
    /\ word + fifo + left = req.words
    /\ engine = "sent" => rint = {} /\ left = req.words
    /\ engine = "data" => rint = {"cmd"} /\ req.kind = "read"
    /\ engine = "stopping" => /\ rint = {"cmd", "over"} /\ left = 0
                              /\ req.kind = "read" /\ req.multi
    /\ engine = "idle" =>
         /\ left = 0
         /\ rint = IF req.kind = "plain" THEN {"cmd"}
                   ELSE {"cmd", "over"} \cup IF req.multi THEN {"stopped"} ELSE {}

(* Where the driver is with it.                                            *)
Phase ==
  /\ job = req
  /\ req.kind # "stop"
  /\ "err" \in rint => engine = "idle"
  /\ pc = "fifo" => req.kind = "read" /\ word < req.words
  /\ pc \in {"cmd", "data"} => word = req.words
  /\ pc = "data" => req.kind = "read"
  /\ pc = "busy" => word = req.words /\ ControllerIdle /\ "err" \notin rint
  /\ Progress

HostInv ==
  ~spent =>
    /\ pc = "idle" => ControllerIdle /\ rint = {} /\ LastCallComplete
    /\ pc = "clock" => /\ ControllerIdle
                       /\ clk # -1 => rint = {} /\ LastCallComplete
    /\ pc \notin {"idle", "clock"} => Phase

-----------------------------------------------------------------------------
(* Type correctness, in two halves: the flags, for the provers' sake, and  *)
(* the rest, which needs one fact about the FIFO loop: it runs only while  *)
(* words are missing.                                                      *)
Flags == /\ spent \in BOOLEAN /\ fatal_err \in BOOLEAN
         /\ busy \in BOOLEAN /\ updating \in BOOLEAN

Numbers ==
  /\ pc \in {"idle", "fifo", "cmd", "data", "busy", "clock"}
  /\ req \in Requests /\ job \in Requests
  /\ timeout \in 0 .. Budget
  /\ word \in 0 .. MaxWords /\ left \in 0 .. MaxWords
  /\ clk \in -1 .. 2 /\ ret \in {0, -1}
  /\ rint \subseteq Bits
  /\ fifo \in 0 .. FifoDepth
  /\ engine \in {"idle", "sent", "data", "stopping"}

FifoInv == pc = "fifo" => word < req.words

LEMMA TypeSplit == TypeOK <=> Flags /\ Numbers
BY DEF TypeOK, Flags, Numbers

LEMMA Sizes == /\ Budget \in Nat /\ Budget > 0 /\ MaxWords \in Nat
               /\ FifoDepth \in Nat /\ FifoDepth > 0
BY BudgetAssumption, SizeAssumption

LEMMA RequestFields ==
  ASSUME NEW r \in Requests
  PROVE  /\ r.words \in 0 .. MaxWords
         /\ r.kind \in {"stop", "plain", "read"}
         /\ r.kind = "read" <=> r.words > 0
         /\ r.kind # "plain" => ~r.wait
BY Sizes DEF Requests

LEMMA NoRequestType == NoRequest \in Requests
BY Sizes DEF NoRequest, Requests

LEMMA FlagsInit == Init => Flags
BY DEF Init, Flags

LEMMA NumbersInit == Init => Numbers /\ FifoInv
BY NoRequestType, Sizes DEF Init, Numbers, FifoInv

LEMMA FlagsStep == TypeOK /\ [Next]_vars => Flags'
<1> SUFFICES ASSUME TypeOK, [Next]_vars
             PROVE  Flags'
  OBVIOUS
<1> USE TypeSplit DEF Flags
<1>1. ASSUME NEW r \in Requests, SendCmd(r)
      PROVE  Flags'
  BY <1>1 DEF SendCmd, ResetController, ctl
<1>2. CASE SetIos
  BY <1>2 DEF SetIos, vars, drv, ctl
<1>3. CASE PollFifo \/ PollCmd \/ PollData \/ PollBusy
  BY <1>3 DEF PollFifo, PollCmd, PollData, PollBusy, PollStatus, AfterStatus,
              GiveUp, ReturnSuccess, ResetController, ctl
<1>4. CASE PollClock
  BY <1>4 DEF PollClock, ClockUpdated, ClockFailed
<1>5. CASE CardAnswers
  <2>1. job.wait \in BOOLEAN
    BY DEF TypeOK, Requests
  <2>2. QED
    BY <1>5, <2>1 DEF CardAnswers, drv
<1>6. CASE Controller /\ ~CardAnswers
  BY <1>6 DEF Controller, WordArrives, DataOver, AutoStopDone, TransferFails,
              BusyEnds, ClockUpdateDone, drv
<1>7. CASE UNCHANGED vars
  BY <1>7 DEF vars, drv, ctl
<1>8. QED
  BY <1>1, <1>2, <1>3, <1>4, <1>5, <1>6, <1>7 DEF Next, Driver, Controller

LEMMA NumbersStep == Numbers /\ FifoInv /\ [Next]_vars => Numbers' /\ FifoInv'
<1> SUFFICES ASSUME Numbers, FifoInv, [Next]_vars
             PROVE  Numbers' /\ FifoInv'
  OBVIOUS
<1> USE Sizes DEF Numbers, FifoInv
<1>r. /\ req.words \in 0 .. MaxWords /\ job.words \in 0 .. MaxWords
      /\ req.kind = "read" <=> req.words > 0
  BY RequestFields
<1>1. ASSUME NEW r \in Requests, SendCmd(r)
      PROVE  Numbers' /\ FifoInv'
  BY <1>1, RequestFields DEF SendCmd, ResetController, ctl
<1>2. CASE SetIos
  BY <1>2 DEF SetIos, vars, drv, ctl
<1>3. CASE PollFifo
  <2>1. CASE timeout = 1
    BY <1>3, <2>1 DEF PollFifo, GiveUp, ReturnSuccess, ResetController
  <2>2. CASE timeout > 1 /\ fifo = 0
    BY <1>3, <2>2 DEF PollFifo, ctl
  <2>3. CASE timeout > 1 /\ fifo > 0
    <3>1. pc = "fifo" /\ word' = word + 1 /\ fifo' = fifo - 1 /\ timeout' = Budget
      BY <1>3, <2>3 DEF PollFifo
    <3>2. word' \in 0 .. MaxWords /\ fifo' \in 0 .. FifoDepth
      BY <3>1, <2>3, <1>r
    <3>3. QED
      BY <1>3, <1>r, <2>3, <3>1, <3>2 DEF PollFifo
  <2>4. QED
    BY <1>3, <2>1, <2>2, <2>3 DEF PollFifo
<1>4. CASE PollCmd
  BY <1>4 DEF PollCmd, PollStatus, AfterStatus, GiveUp, ReturnSuccess,
              ResetController, ctl
<1>5. CASE PollData
  BY <1>5 DEF PollData, PollStatus, AfterStatus, GiveUp, ReturnSuccess,
              ResetController, ctl
<1>6. CASE PollBusy
  BY <1>6 DEF PollBusy, ReturnSuccess, ResetController, ctl
<1>7. CASE PollClock
  BY <1>7 DEF PollClock, ClockUpdated, ClockFailed
<1>8. CASE Controller
  <2>1. CASE CardAnswers \/ DataOver \/ AutoStopDone
    BY <2>1 DEF CardAnswers, DataOver, AutoStopDone, drv, Bits
  <2>2. CASE WordArrives
    <3>1. fifo' \in 0 .. FifoDepth /\ left' \in 0 .. MaxWords
      BY <2>2 DEF WordArrives
    <3>2. QED
      BY <2>2, <3>1 DEF WordArrives, drv
  <2>3. CASE TransferFails
    BY <2>3 DEF TransferFails, drv, Bits
  <2>4. CASE BusyEnds \/ ClockUpdateDone
    BY <2>4 DEF BusyEnds, ClockUpdateDone, drv
  <2>5. QED
    BY <1>8, <2>1, <2>2, <2>3, <2>4 DEF Controller
<1>9. CASE UNCHANGED vars
  BY <1>9 DEF vars, drv, ctl
<1>10. QED
  BY <1>1, <1>2, <1>3, <1>4, <1>5, <1>6, <1>7, <1>8, <1>9 DEF Next, Driver

(* Every reachable state is well typed: no counter of a polling loop       *)
(* leaves its range and no read moves more words than it asked for.        *)
THEOREM TypeCorrect == Spec => []TypeOK
<1>1. Init => TypeOK /\ FifoInv
  BY FlagsInit, NumbersInit, TypeSplit
<1>2. TypeOK /\ FifoInv /\ [Next]_vars => TypeOK' /\ FifoInv'
  <2>1. TypeOK /\ FifoInv /\ [Next]_vars => Flags' /\ Numbers' /\ FifoInv'
    BY FlagsStep, NumbersStep, TypeSplit
  <2>2. Flags' /\ Numbers' => TypeOK'
    BY DEF TypeOK, Flags, Numbers
  <2>3. QED
    BY <2>1, <2>2
<1>3. QED
  BY <1>1, <1>2, PTL DEF Spec

-----------------------------------------------------------------------------
LEMMA HostInvInit == Init => HostInv
BY DEF Init, HostInv, ControllerIdle, LastCallComplete, NoRequest

(* The invariant does not depend on the loop counter, on DAT0 or on a      *)
(* pending clock update.                                                   *)
LEMMA HostInvKept ==
  ASSUME HostInv, UNCHANGED <<pc, req, word, clk, ret, spent>>,
         UNCHANGED <<rint, fifo, job, left, engine>>
  PROVE  HostInv'
BY DEF HostInv, Phase, Progress, ControllerIdle, LastCallComplete

LEMMA HostInvCall ==
  ASSUME TypeOK, HostInv, NEW r \in Requests, SendCmd(r) \/ SetIos
  PROVE  HostInv'
<1> USE TypeSplit DEF Numbers
<1>1. CASE SetIos
  <2>1. CASE UNCHANGED vars
    BY <2>1 DEF vars, drv, ctl, HostInv, Phase, Progress, ControllerIdle, LastCallComplete
  <2>2. CASE ~UNCHANGED vars
    BY <1>1, <2>2 DEF SetIos, HostInv, ControllerIdle, LastCallComplete
  <2> QED BY <2>1, <2>2
<1>2. CASE SendCmd(r)
  <2>1. r.kind \in {"stop", "plain", "read"} /\ (r.kind = "read" <=> r.words > 0)
        /\ r.words \in Nat
    BY RequestFields
  <2>2. CASE fatal_err \/ (~fatal_err /\ r.kind = "stop")
    BY <1>2, <2>1, <2>2 DEF SendCmd, HostInv, ControllerIdle, LastCallComplete,
                            ResetController, ctl
  <2>3. CASE ~fatal_err /\ r.kind # "stop" /\ ~r.aligned
    BY <1>2, <2>3 DEF SendCmd, HostInv, ControllerIdle, ResetController
  <2>4. CASE ~fatal_err /\ r.kind # "stop" /\ r.aligned
    BY <1>2, <2>1, <2>4 DEF SendCmd, HostInv, ControllerIdle, Phase, Progress
  <2>5. QED
    BY <1>2, <2>2, <2>3, <2>4 DEF SendCmd
<1>3. QED
  BY <1>1, <1>2

LEMMA HostInvPoll ==
  ASSUME TypeOK, HostInv, Driver
  PROVE  HostInv'
<1> USE TypeSplit DEF Numbers
<1>r. req.words \in Nat /\ (req.kind = "read" <=> req.words > 0)
      /\ req.kind \in {"stop", "plain", "read"} /\ (req.kind # "plain" => ~req.wait)
  BY RequestFields
<1>1. CASE PollFifo
  <2>1. CASE timeout = 1
    BY <1>1, <2>1 DEF PollFifo, GiveUp, ReturnSuccess, ResetController, HostInv,
                      ControllerIdle
  <2>2. CASE timeout > 1 /\ fifo = 0
    BY <1>1, <2>2 DEF PollFifo, HostInv, Phase, Progress, ControllerIdle, ctl
  <2>3. CASE timeout > 1 /\ fifo > 0
    BY <1>1, <1>r, <2>3 DEF PollFifo, HostInv, Phase, Progress
  <2>4. QED
    BY <1>1, <2>1, <2>2, <2>3 DEF PollFifo
<1>2. CASE PollCmd
  <2>1. CASE "err" \in rint \/ timeout = 0
    BY <1>2, <2>1 DEF PollCmd, PollStatus, GiveUp, ReturnSuccess, ResetController,
                      HostInv, ControllerIdle
  <2>2. CASE "err" \notin rint /\ timeout > 0 /\ "cmd" \notin rint
    BY <1>2, <2>2, HostInvKept DEF PollCmd, PollStatus, ctl
  <2>3. CASE "err" \notin rint /\ timeout > 0 /\ "cmd" \in rint
    <3>1. CASE spent
      <4>1. spent' = spent
        BY <1>2, <2>3 DEF PollCmd, PollStatus
      <4>2. QED
        BY <3>1, <4>1 DEF HostInv
    <3>2. CASE ~spent
      <4>1. pc = "cmd" /\ Phase
        BY <1>2, <3>2 DEF PollCmd, PollStatus, HostInv
      <4>2. spent' = spent /\ word' = word /\ req' = req
        BY <1>2, <2>3 DEF PollCmd, PollStatus
      <4>3. CASE req.kind = "read"
        <5>1. pc' = "data" /\ ctl' = ctl
          BY <1>2, <2>3, <4>3 DEF PollCmd, PollStatus, ctl
        <5>2. QED
          BY <4>1, <4>2, <4>3, <5>1 DEF HostInv, Phase, Progress, ControllerIdle, ctl
      <4>4. CASE req.kind = "plain"
        <5>1. ControllerIdle
          BY <2>3, <4>1, <4>4, <1>r DEF Phase, Progress, ControllerIdle
        <5>2. AfterStatus
          BY <1>2, <2>3, <4>4 DEF PollCmd, PollStatus
        <5>3. CASE req.wait
          BY <2>3, <4>1, <4>2, <4>4, <5>1, <5>2, <5>3
             DEF AfterStatus, HostInv, Phase, Progress, ControllerIdle, ctl
        <5>4. CASE ~req.wait
          BY <4>1, <4>2, <5>1, <5>2, <5>4
             DEF AfterStatus, ReturnSuccess, HostInv, Phase, ControllerIdle,
                 LastCallComplete
        <5>5. QED
          BY <5>3, <5>4
      <4>5. QED
        BY <1>r, <4>1, <4>3, <4>4 DEF Phase
    <3>3. QED
      BY <3>1, <3>2
  <2>4. QED
    BY <1>2, <2>1, <2>2, <2>3 DEF PollCmd, PollStatus
<1>3. CASE PollData
  <2> DEFINE done == IF req.multi THEN "stopped" ELSE "over"
  <2>1. CASE "err" \in rint \/ timeout = 0
    BY <1>3, <2>1 DEF PollData, PollStatus, GiveUp, ReturnSuccess, ResetController,
                      HostInv, ControllerIdle
  <2>2. CASE "err" \notin rint /\ timeout > 0 /\ done \notin rint
    BY <1>3, <2>2, HostInvKept DEF PollData, PollStatus, ctl
  <2>3. CASE "err" \notin rint /\ timeout > 0 /\ done \in rint
    <3>1. CASE spent
      <4>1. spent' = spent
        BY <1>3, <2>3 DEF PollData, PollStatus
      <4>2. QED
        BY <3>1, <4>1 DEF HostInv
    <3>2. CASE ~spent
      <4>1. pc = "data" /\ Phase /\ req.kind = "read" /\ ~req.wait
        BY <1>3, <1>r, <3>2 DEF PollData, PollStatus, HostInv, Phase
      <4>2. ReturnSuccess /\ spent' = spent /\ word' = word /\ req' = req
        BY <1>3, <2>3, <4>1 DEF PollData, PollStatus, AfterStatus
      <4>3. engine = "idle" /\ left = 0
        BY <2>3, <4>1 DEF Phase, Progress
      <4>4. QED
        BY <4>1, <4>2, <4>3 DEF ReturnSuccess, HostInv, Phase, ControllerIdle,
                               LastCallComplete
    <3>3. QED
      BY <3>1, <3>2
  <2>4. QED
    BY <1>3, <2>1, <2>2, <2>3 DEF PollData, PollStatus
<1>4. CASE PollBusy
  BY <1>4 DEF PollBusy, ReturnSuccess, ResetController, HostInv, Phase, Progress,
              ControllerIdle, LastCallComplete, ctl
<1>5. CASE PollClock
  BY <1>5 DEF PollClock, ClockUpdated, ClockFailed, HostInv, ControllerIdle,
              LastCallComplete
<1>6. QED
  BY <1>1, <1>2, <1>3, <1>4, <1>5 DEF Driver

LEMMA HostInvController ==
  ASSUME TypeOK, HostInv, Controller
  PROVE  HostInv'
<1> USE TypeSplit DEF Numbers, HostInv, ControllerIdle, LastCallComplete, Phase
<1>r. req.words \in Nat /\ (req.kind = "read" <=> req.words > 0)
      /\ req.kind \in {"stop", "plain", "read"}
  BY RequestFields
<1>1. CASE CardAnswers
  <2>1. /\ engine = "sent" /\ rint' = rint \cup {"cmd"}
        /\ engine' = IF left > 0 THEN "data" ELSE "idle"
        /\ UNCHANGED <<drv, fifo, job, left>>
    BY <1>1 DEF CardAnswers
  <2>2. UNCHANGED <<pc, req, word, clk, ret, spent>>
    BY <2>1 DEF drv
  <2>3. CASE spent
    BY <2>2, <2>3
  <2>4. CASE ~spent
    <3>1. pc \notin {"idle", "clock"} /\ Phase
      BY <2>1, <2>4
    <3>2. ("err" \in rint)' = ("err" \in rint)
      BY <2>1
    <3>3. "err" \notin rint => rint' = {"cmd"} /\ left = req.words
      BY <1>r, <2>1, <3>1 DEF Progress
    <3>4. Progress'
      <4>1. CASE left = 0
        BY <1>r, <2>1, <2>2, <3>1, <3>2, <3>3, <4>1 DEF Progress
      <4>2. CASE left > 0
        BY <1>r, <2>1, <2>2, <3>1, <3>2, <3>3, <4>2 DEF Progress
      <4>3. QED
        BY <4>1, <4>2
    <3>5. QED
      BY <2>1, <2>2, <2>4, <3>1, <3>2, <3>4
  <2>5. QED
    BY <2>3, <2>4
<1>2. CASE WordArrives
  BY <1>2, <1>r DEF WordArrives, Progress, drv
<1>3. CASE DataOver
  BY <1>3, <1>r DEF DataOver, Progress, drv
<1>4. CASE AutoStopDone
  BY <1>4, <1>r DEF AutoStopDone, Progress, drv
<1>5. CASE TransferFails
  BY <1>5 DEF TransferFails, Progress, drv
<1>6. CASE BusyEnds
  BY <1>6, HostInvKept DEF BusyEnds, drv
<1>7. CASE ClockUpdateDone
  BY <1>7, HostInvKept DEF ClockUpdateDone, drv
<1>8. QED
  BY <1>1, <1>2, <1>3, <1>4, <1>5, <1>6, <1>7 DEF Controller

(* Between two calls, unless a polling budget ran out since the last       *)
(* reset, the controller is idle and silent, and a call that returned 0    *)
(* has moved every word it was asked for.                                  *)
THEOREM HostTrusted == Spec => []ReturnsQuiescent
<1>1. TypeOK /\ HostInv /\ [Next]_vars => HostInv'
  <2> SUFFICES ASSUME TypeOK, HostInv, [Next]_vars
               PROVE  HostInv'
    OBVIOUS
  <2>1. CASE Next
    BY <2>1, HostInvCall, HostInvPoll, HostInvController, NoRequestType DEF Next
  <2>2. CASE UNCHANGED vars
    BY <2>2, HostInvKept DEF vars, drv, ctl
  <2>3. QED
    BY <2>1, <2>2
<1>2. HostInv => ReturnsQuiescent
  BY DEF HostInv, ReturnsQuiescent, ControllerIdle, LastCallComplete
<1>3. QED
  BY <1>1, <1>2, HostInvInit, TypeCorrect, PTL DEF Spec

(* A host that mmc_set_ios has declared dead never sends a command again.  *)
THEOREM DeadHost == Spec => DeadHostSendsNothing
<1>1. [Next]_vars => (fatal_err => fatal_err' /\ (engine' = "sent" => engine = "sent"))
  <2> SUFFICES ASSUME [Next]_vars, fatal_err
               PROVE  fatal_err' /\ (engine' = "sent" => engine = "sent")
    OBVIOUS
  <2>1. ASSUME NEW r \in Requests, SendCmd(r)
        PROVE  fatal_err' /\ (engine' = "sent" => engine = "sent")
    BY <2>1 DEF SendCmd, ctl
  <2>2. CASE SetIos
    BY <2>2 DEF SetIos, vars, drv, ctl
  <2>3. CASE PollFifo \/ PollCmd \/ PollData \/ PollBusy
    BY <2>3 DEF PollFifo, PollCmd, PollData, PollBusy, PollStatus, AfterStatus, GiveUp,
                ReturnSuccess, ResetController, ctl
  <2>4. CASE PollClock
    BY <2>4 DEF PollClock, ClockUpdated, ClockFailed
  <2>5. CASE Controller
    BY <2>5 DEF Controller, CardAnswers, WordArrives, DataOver, AutoStopDone,
                TransferFails, BusyEnds, ClockUpdateDone, drv
  <2>6. CASE UNCHANGED vars
    BY <2>6 DEF vars, drv, ctl
  <2>7. QED
    BY <2>1, <2>2, <2>3, <2>4, <2>5, <2>6 DEF Next, Driver
<1>2. QED
  BY <1>1, PTL DEF Spec, DeadHostSendsNothing

(***************************************************************************)
(* Refinement.                                                             *)
(***************************************************************************)
(* The safety part of ImplementsCommand.                                   *)
CommandSafety == Command!Init /\ [][Command!Next]_(Command!vars)

CommandStep == Command!Next \/ UNCHANGED Command!vars

(* No more words are moved than were asked for.                            *)
Bounded == word <= req.words

Abstraction == TypeOK /\ HostInv /\ Bounded

(* What the mapping makes of each place in the code.                       *)
Waiting == pc \in {"fifo", "cmd", "data", "busy"}
Failing == pc = "clock" /\ clk = -1
Clocking == pc = "clock" /\ clk # -1

LEMMA BoundedStep == TypeOK /\ FifoInv /\ Bounded /\ [Next]_vars => Bounded'
<1> SUFFICES ASSUME TypeOK, FifoInv, Bounded, [Next]_vars PROVE Bounded'
  OBVIOUS
<1>1. ASSUME NEW r \in Requests, SendCmd(r) PROVE Bounded'
  <2>1. word' = 0 /\ req' = r
    BY <1>1 DEF SendCmd
  <2> QED  BY <2>1, RequestFields, Sizes DEF Bounded
<1>2. CASE PollFifo
  <2>1. req' = req /\ (word' = word \/ word' = word + 1)
    BY <1>2 DEF PollFifo
  <2>2. word < req.words /\ word \in Nat /\ req.words \in Nat
    BY <1>2, RequestFields, Sizes DEF PollFifo, FifoInv, TypeOK
  <2> QED  BY <2>1, <2>2 DEF Bounded
<1>3. CASE UNCHANGED <<word, req>>
  BY <1>3 DEF Bounded
<1>4. CASE SetIos \/ PollCmd \/ PollData \/ PollBusy \/ PollClock
  BY <1>3, <1>4 DEF SetIos, PollCmd, PollData, PollBusy, PollClock, PollStatus, vars, drv
<1>5. CASE Controller \/ UNCHANGED vars
  BY <1>3, <1>5 DEF Controller, CardAnswers, WordArrives, DataOver, AutoStopDone, TransferFails,
                    BusyEnds, ClockUpdateDone, vars, drv
<1> QED  BY <1>1, <1>2, <1>4, <1>5 DEF Next, Driver

LEMMA Stutters ==
  ASSUME UNCHANGED <<req, ret, spent, fatal_err>>,
         \/ UNCHANGED <<pc, clk, word>>
         \/ Waiting /\ Waiting'
         \/ Clocking /\ Clocking'
  PROVE  CommandStep
<1>1. UNCHANGED Command!vars
  BY DEF Command!vars, Waiting, Clocking
<1> QED  BY <1>1 DEF CommandStep

(* A call to mmc_send_cmd, with its early returns.                         *)
LEMMA CallRefines ==
  ASSUME Abstraction, NEW r \in Requests, SendCmd(r)
  PROVE  CommandStep
<1>1. pc = "idle" /\ req' = r /\ word' = 0 /\ fatal_err' = fatal_err /\ r.words \in 0 .. MaxWords
  BY RequestFields DEF SendCmd
<1>2. CASE fatal_err /\ ret' = -1 /\ UNCHANGED <<pc, spent>>
  <2>1. Command!Refuse(r.words)
    BY <1>1, <1>2 DEF Command!Refuse
  <2> QED  BY <1>1, <2>1 DEF CommandStep, Command!Next
<1>3. CASE ~fatal_err /\ r.kind = "stop" /\ ret' = 0 /\ UNCHANGED <<pc, spent>>
  <2>1. r.words = 0
    BY <1>3, RequestFields, Sizes
  <2>2. Command!Refuse(r.words)
    BY <1>1, <1>3, <2>1 DEF Command!Refuse
  <2> QED  BY <1>1, <2>2 DEF CommandStep, Command!Next
<1>4. CASE ~fatal_err /\ ResetController /\ spent' = FALSE
  <2>1. pc' = "clock" /\ clk' = -1 /\ ret' = ret
    BY <1>4 DEF ResetController
  <2>2. Command!Reject(r.words)
    BY <1>1, <1>4, <2>1 DEF Command!Reject
  <2> QED  BY <1>1, <2>2 DEF CommandStep, Command!Next
<1>5. CASE ~fatal_err /\ pc' \in {"fifo", "cmd"} /\ UNCHANGED <<clk, ret, spent>>
  <2>1. Command!Begin(r.words)
    BY <1>1, <1>5 DEF Command!Begin
  <2> QED  BY <1>1, <2>1 DEF CommandStep, Command!Next
<1> QED  BY <1>2, <1>3, <1>4, <1>5 DEF SendCmd

LEMMA SetIosRefines ==
  ASSUME SetIos
  PROVE  CommandStep
<1>1. CASE UNCHANGED vars
  BY <1>1, Stutters DEF vars, drv
<1>2. CASE ~UNCHANGED vars
  <2>1. /\ pc = "idle" /\ pc' = "clock" /\ clk' # -1
        /\ UNCHANGED <<req, ret, spent, fatal_err>>
    BY <1>2 DEF SetIos
  <2>2. Command!SetClock
    BY <2>1 DEF Command!SetClock
  <2> QED  BY <2>2 DEF CommandStep, Command!Next
<1> QED  BY <1>1, <1>2

(* A command ends well: to be believed if no budget has run out.           *)
LEMMA SuccessRefines ==
  ASSUME Abstraction, HostInv', Waiting, ReturnSuccess, spent' = spent \/ spent' = TRUE,
         UNCHANGED <<req, word, fatal_err>>
  PROVE  CommandStep
<1>1. pc' = "idle" /\ ret' = 0 /\ clk' = clk
  BY DEF ReturnSuccess
<1>2. word \in 0 .. req.words
  BY RequestFields, Sizes DEF Abstraction, TypeOK, Bounded
<1>3. CASE spent'
  <2>1. Command!Presume
    BY <1>1, <1>2, <1>3 DEF Command!Presume, Waiting
  <2> QED  BY <2>1 DEF CommandStep, Command!Next
<1>4. CASE ~spent'
  <2>1. ~spent
    BY <1>4 DEF Abstraction, TypeOK
  <2>2. word' = req.words
    BY <1>1, <1>4 DEF HostInv, LastCallComplete
  <2>3. Command!Succeed
    BY <1>1, <1>4, <2>1, <2>2 DEF Command!Succeed, Waiting
  <2> QED  BY <2>3 DEF CommandStep, Command!Next
<1> QED  BY <1>3, <1>4

(* A command fails: the reset makes the host trustworthy again.            *)
LEMMA ResetRefines ==
  ASSUME Waiting, ResetController, spent' = FALSE, UNCHANGED <<req, word, fatal_err>>
  PROVE  CommandStep
<1>1. pc' = "clock" /\ clk' = -1 /\ ret' = ret
  BY DEF ResetController
<1>2. Command!Abort
  BY <1>1 DEF Command!Abort, Waiting
<1> QED  BY <1>2 DEF CommandStep, Command!Next

LEMMA GiveUpRefines ==
  ASSUME Abstraction, HostInv', Waiting, GiveUp, UNCHANGED <<req, word, fatal_err>>
  PROVE  CommandStep
  BY SuccessRefines, ResetRefines DEF GiveUp

(* The status loops and the busy loop.                                     *)
LEMMA PollRefines ==
  ASSUME Abstraction, HostInv', PollFifo \/ PollCmd \/ PollData \/ PollBusy
  PROVE  CommandStep
<1>1. CASE UNCHANGED <<pc, clk, word, req, ret, spent, fatal_err>>
  BY <1>1, Stutters
<1>2. CASE Waiting /\ Waiting' /\ UNCHANGED <<req, ret, spent, fatal_err>>
  BY <1>2, Stutters
<1>3. CASE Waiting /\ GiveUp /\ UNCHANGED <<req, word, fatal_err>>
  BY <1>3, GiveUpRefines
<1>4. CASE Waiting /\ ReturnSuccess /\ UNCHANGED <<req, word, fatal_err, spent>>
  BY <1>4, SuccessRefines
<1>5. CASE Waiting /\ ResetController /\ spent' = FALSE /\ UNCHANGED <<req, word, fatal_err>>
  BY <1>5, ResetRefines
<1>6. CASE PollFifo
  BY <1>1, <1>2, <1>3, <1>6 DEF PollFifo, Waiting
<1>7. CASE PollCmd
  BY <1>1, <1>2, <1>3, <1>4, <1>7 DEF PollCmd, PollStatus, AfterStatus, Waiting
<1>8. CASE PollData
  BY <1>1, <1>2, <1>3, <1>4, <1>8 DEF PollData, PollStatus, AfterStatus, Waiting
<1>9. CASE PollBusy
  BY <1>1, <1>4, <1>5, <1>9 DEF PollBusy, Waiting
<1> QED  BY <1>6, <1>7, <1>8, <1>9

(* A clock update: of the error tail, or of mmc_set_ios.                   *)
LEMMA ClockRefines ==
  ASSUME Abstraction, PollClock
  PROVE  CommandStep
<1>1. pc = "clock" /\ UNCHANGED <<req, word, spent>> /\ clk \in -1 .. 2
  BY DEF PollClock, Abstraction, TypeOK
<1>2. word \in 0 .. req.words
  BY RequestFields, Sizes DEF Abstraction, TypeOK, Bounded
<1>3. CASE UNCHANGED <<pc, clk, ret, fatal_err>>
  BY <1>1, <1>3, Stutters
<1>4. CASE clk > 0 /\ clk' = clk - 1 /\ UNCHANGED <<pc, ret, fatal_err>>
  <2>1. clk # -1 /\ clk' # -1
    BY <1>1, <1>4
  <2> QED  BY <1>1, <1>4, <2>1, Stutters DEF Clocking
<1>5. CASE clk = -1 /\ pc' = "idle" /\ ret' = -1 /\ UNCHANGED fatal_err
  <2>1. Command!Fail
    BY <1>1, <1>2, <1>5 DEF Command!Fail
  <2> QED  BY <2>1 DEF CommandStep, Command!Next
<1>6. CASE clk # -1 /\ pc' = "idle" /\ ret' = ret /\ fatal_err' \in {fatal_err, TRUE}
  <2>1. ret = 0 /\ ~spent => word = req.words
    BY <1>1, <1>6 DEF Abstraction, HostInv, LastCallComplete
  <2>2. Command!ClockSet
    BY <1>1, <1>2, <1>6, <2>1 DEF Command!ClockSet
  <2> QED  BY <2>2 DEF CommandStep, Command!Next
<1>7. CASE ClockUpdated
  BY <1>4, <1>5, <1>6, <1>7 DEF ClockUpdated
<1>8. CASE ClockFailed
  BY <1>5, <1>6, <1>8 DEF ClockFailed
<1> QED  BY <1>3, <1>7, <1>8 DEF PollClock

LEMMA InitRefines == Init => Command!Init
  BY DEF Init, NoRequest, Command!Init

(* mmc_send_cmd and mmc_set_ios implement the abstract command their       *)
(* callers rely on, whatever the controller does: what is reported as done *)
(* was done while the host is trusted, and trust returns only with a       *)
(* reported failure.  How long a call may take is CallsRunOut, below; that *)
(* a driver which goes on turning returns is left to TLC.                  *)
THEOREM ImplementsCommandSafely == Spec => CommandSafety
<1>1. Init => Abstraction /\ FifoInv
  BY FlagsInit, NumbersInit, TypeSplit, HostInvInit DEF Abstraction, Bounded, Init, NoRequest
<1>2. Abstraction /\ FifoInv /\ [Next]_vars => Abstraction' /\ FifoInv'
  <2> SUFFICES ASSUME Abstraction, FifoInv, [Next]_vars PROVE Abstraction' /\ FifoInv'
    OBVIOUS
  <2>1. TypeOK' /\ FifoInv'
    <3>1. Flags' /\ Numbers' /\ FifoInv'
      BY FlagsStep, NumbersStep, TypeSplit DEF Abstraction
    <3> QED  BY <3>1 DEF TypeOK, Flags, Numbers
  <2>2. HostInv'
    <3>1. CASE Next
      BY <3>1, HostInvCall, HostInvPoll, HostInvController, NoRequestType DEF Next, Abstraction
    <3>2. CASE UNCHANGED vars
      BY <3>2, HostInvKept DEF vars, drv, ctl, Abstraction
    <3> QED  BY <3>1, <3>2
  <2> QED  BY <2>1, <2>2, BoundedStep DEF Abstraction
<1>3. Abstraction /\ HostInv' /\ [Next]_vars => [Command!Next]_(Command!vars)
  <2> SUFFICES ASSUME Abstraction, HostInv', [Next]_vars PROVE CommandStep
    BY DEF CommandStep
  <2>1. CASE Controller \/ UNCHANGED vars
    <3>1. UNCHANGED <<pc, req, word, clk, ret, spent, fatal_err>>
      BY <2>1 DEF Controller, CardAnswers, WordArrives, DataOver, AutoStopDone, TransferFails,
                  BusyEnds, ClockUpdateDone, vars, drv
    <3> QED  BY <3>1, Stutters
  <2> QED  BY <2>1, CallRefines, SetIosRefines, PollRefines, ClockRefines DEF Next, Driver
<1>4. Abstraction => HostInv
  BY DEF Abstraction
<1> QED  BY <1>1, <1>2, <1>3, <1>4, InitRefines, PTL DEF Spec, CommandSafety

-----------------------------------------------------------------------------
(* How long a call may take.  Every polling loop has a counter, so the     *)
(* turns the driver may still need can be told from the loops that are     *)
(* left and the counter of the one it is in: Budget + 1 turns for each     *)
(* loop, the turn that finds the counter at zero included.                 *)

(* The loops a call may still go through, the one it is in included: one   *)
(* for each word, the status loops, the busy loop, and the clock update of *)
(* the error tail.                                                         *)
LoopsLeft ==
  CASE pc = "idle"  -> 0
    [] pc = "clock" -> IF clk = -1 THEN 1 ELSE clk + 1
    [] pc = "busy"  -> 2
    [] pc = "data"  -> 3
    [] pc = "cmd"   -> 4
    [] pc = "fifo"  -> req.words - word + 4

TurnsOf(loops) == loops * (Budget + 1)

TurnsLeft == IF pc = "idle" THEN 0 ELSE TurnsOf(LoopsLeft - 1) + timeout + 1

(* A turn of the driver always brings the end of the call nearer, and      *)
(* nothing the controller does, or does not do, puts it off.               *)
TurnsRunOut ==
  [][/\ Driver => TurnsLeft' < TurnsLeft
     /\ Controller => TurnsLeft' = TurnsLeft
     /\ \A r \in Requests : SendCmd(r) => TurnsLeft' <= TurnsOf(r.words + 4)
     /\ SetIos => TurnsLeft' <= TurnsOf(3)]_vars

(* The turns left are a natural number, zero exactly between calls.        *)
TurnsCounted == TurnsLeft \in Nat /\ (TurnsLeft = 0 <=> pc = "idle")

LEMMA TurnsOfFewer ==
  ASSUME NEW m \in Nat, NEW n \in Nat, m < n
  PROVE  TurnsOf(m) \in Nat /\ TurnsOf(m) + Budget + 1 <= TurnsOf(n)
<1>1. PICK d \in Nat : n = m + 1 + d
  <2>1. n - m - 1 \in Nat /\ n = m + 1 + (n - m - 1)
    OBVIOUS
  <2> QED  BY <2>1
<1>2. PICK b \in Nat : b = Budget + 1
  BY Sizes
<1>3. (m + 1 + d) * b = m * b + b + d * b /\ m * b \in Nat /\ d * b \in Nat
  BY <1>2
<1> QED  BY <1>1, <1>2, <1>3, Sizes DEF TurnsOf

LEMMA TurnsOfMonotone ==
  ASSUME NEW m \in Nat, NEW n \in Nat, m <= n
  PROVE  TurnsOf(m) \in Nat /\ TurnsOf(m) <= TurnsOf(n)
<1>1. TurnsOf(m) \in Nat
  <2>1. m + 1 \in Nat /\ m < m + 1
    OBVIOUS
  <2> QED  BY <2>1, TurnsOfFewer
<1>2. TurnsOf(n) \in Nat
  <2>1. n + 1 \in Nat /\ n < n + 1
    OBVIOUS
  <2> QED  BY <2>1, TurnsOfFewer
<1>3. CASE m = n
  BY <1>1, <1>3
<1>4. CASE m < n
  BY <1>1, <1>2, <1>4, TurnsOfFewer, Sizes
<1> QED  BY <1>3, <1>4

(* TurnsIn(k, t): the turns left in a loop with counter t before k others. *)
TurnsIn(k, t) == TurnsOf(k) + t + 1

LEMMA TurnsInFewer ==
  ASSUME NEW l \in Nat, NEW k \in Nat, l > 0, k > 0,
         NEW t \in 0 .. Budget, NEW u \in 0 .. Budget, k < l \/ (k = l /\ u < t)
  PROVE  TurnsIn(k - 1, u) < TurnsIn(l - 1, t)
<1>1. PICK m \in Nat, n \in Nat : k = m + 1 /\ l = n + 1 /\ m = k - 1 /\ n = l - 1
  <2>1. k - 1 \in Nat /\ l - 1 \in Nat /\ k = (k - 1) + 1 /\ l = (l - 1) + 1
    OBVIOUS
  <2> QED  BY <2>1
<1>2. TurnsOf(m) \in Nat /\ TurnsOf(n) \in Nat
  <2>1. m <= m /\ n <= n
    BY <1>1
  <2> QED  BY <2>1, TurnsOfMonotone
<1>3. m < n => TurnsOf(m) + Budget + 1 <= TurnsOf(n)
  BY TurnsOfFewer
<1>4. TurnsIn(m, u) < TurnsIn(n, t)
  BY <1>1, <1>2, <1>3, Sizes DEF TurnsIn
<1> QED  BY <1>1, <1>4

LEMMA TurnsInPositive ==
  ASSUME NEW l \in Nat, l > 0, NEW t \in 0 .. Budget
  PROVE  /\ TurnsIn(l - 1, t) \in Nat /\ TurnsIn(l - 1, t) > 0
         /\ TurnsIn(l - 1, t) <= TurnsOf(l)
<1>1. PICK m \in Nat : l = m + 1 /\ m = l - 1 /\ m < l
  <2>1. l - 1 \in Nat /\ l = (l - 1) + 1 /\ l - 1 < l
    OBVIOUS
  <2> QED  BY <2>1
<1>2. TurnsOf(m) \in Nat /\ TurnsOf(m) + Budget + 1 <= TurnsOf(l) /\ TurnsOf(l) \in Nat
  <2>1. l <= l
    OBVIOUS
  <2> QED  BY <1>1, <2>1, TurnsOfFewer, TurnsOfMonotone
<1>3. TurnsIn(m, t) \in Nat /\ TurnsIn(m, t) > 0 /\ TurnsIn(m, t) <= TurnsOf(l)
  BY <1>2, Sizes DEF TurnsIn
<1> QED  BY <1>1, <1>3

LoopsCounted ==
  /\ LoopsLeft \in Nat
  /\ pc # "idle" => LoopsLeft > 0 /\ timeout \in 0 .. Budget
  /\ TurnsLeft = IF pc = "idle" THEN 0 ELSE TurnsIn(LoopsLeft - 1, timeout)

LEMMA LoopsLeftNow == TypeOK /\ FifoInv => LoopsCounted
<1> SUFFICES ASSUME TypeOK, FifoInv PROVE LoopsCounted
  OBVIOUS
<1>1. req.words \in Nat /\ word \in Nat /\ (pc = "fifo" => word < req.words)
  BY RequestFields, Sizes DEF TypeOK, FifoInv
<1>2. pc = "fifo" => req.words - word \in Nat
  BY <1>1
<1>3. pc = "clock" /\ clk # -1 => clk + 1 \in Nat /\ clk + 1 > 0
  BY DEF TypeOK
<1>4. LoopsLeft \in Nat /\ (pc # "idle" => LoopsLeft > 0)
  BY <1>1, <1>2, <1>3 DEF LoopsLeft, TypeOK
<1> QED  BY <1>4 DEF LoopsCounted, TurnsLeft, TurnsIn, TypeOK

LEMMA LoopsLeftThen == TypeOK' /\ FifoInv' => LoopsCounted'
BY LoopsLeftNow, PTL

(* A turn that leaves fewer loops, or the same with a lower counter.       *)
Nearer ==
  \/ pc' = "idle"
  \/ pc' # "idle" /\ LoopsLeft' < LoopsLeft
  \/ pc' # "idle" /\ LoopsLeft' = LoopsLeft /\ timeout' < timeout

LEMMA NearerLowers ==
  ASSUME TypeOK, FifoInv, TypeOK', FifoInv', pc # "idle", Nearer
  PROVE  TurnsLeft' < TurnsLeft
<1>1. LoopsCounted /\ LoopsCounted'
  BY LoopsLeftNow, LoopsLeftThen
<1>2. /\ LoopsLeft \in Nat /\ LoopsLeft > 0 /\ timeout \in 0 .. Budget
      /\ TurnsLeft = TurnsIn(LoopsLeft - 1, timeout)
  BY <1>1 DEF LoopsCounted
<1>3. CASE pc' = "idle"
  <2>1. TurnsLeft' = 0
    BY <1>1, <1>3 DEF LoopsCounted
  <2> QED  BY <1>2, <2>1, TurnsInPositive
<1>4. CASE pc' # "idle"
  <2>1. /\ LoopsLeft' \in Nat /\ LoopsLeft' > 0 /\ timeout' \in 0 .. Budget
        /\ TurnsLeft' = TurnsIn(LoopsLeft' - 1, timeout')
    BY <1>1, <1>4 DEF LoopsCounted, TurnsIn, TurnsOf
  <2>2. LoopsLeft' < LoopsLeft \/ (LoopsLeft' = LoopsLeft /\ timeout' < timeout)
    BY <1>4 DEF Nearer
  <2>3. TurnsIn(LoopsLeft' - 1, timeout') < TurnsIn(LoopsLeft - 1, timeout)
    BY ONLY <1>2, <2>1, <2>2, TurnsInFewer
  <2> QED  BY <1>2, <2>1, <2>3
<1> QED  BY <1>3, <1>4

LEMMA DriverNearer ==
  ASSUME TypeOK, FifoInv, Driver
  PROVE  pc # "idle" /\ Nearer
<1>0. SUFFICES Nearer
  BY DEF Driver, PollFifo, PollCmd, PollData, PollBusy, PollClock, PollStatus
<1>1. /\ timeout \in 0 .. Budget /\ Budget \in Nat /\ clk \in -1 .. 2
      /\ req.words \in Nat /\ word \in Nat
      /\ pc = "fifo" => word < req.words
  BY RequestFields, Sizes DEF TypeOK, FifoInv
<1>2. ASSUME GiveUp \/ ResetController \/ ReturnSuccess, UNCHANGED <<req, word>>,
             pc \in {"fifo", "cmd", "data", "busy"}
      PROVE  Nearer
  <2>1. CASE pc' = "idle"
    BY <2>1 DEF Nearer
  <2>2. CASE pc' = "clock" /\ clk' = -1
    <3>1. LoopsLeft' = 1
      BY <2>2 DEF LoopsLeft
    <3>2. LoopsLeft > 1
      BY <1>1, <1>2 DEF LoopsLeft
    <3> QED  BY <2>2, <3>1, <3>2 DEF Nearer
  <2> QED  BY <1>2, <2>1, <2>2 DEF GiveUp, ReturnSuccess, ResetController
<1>3. ASSUME UNCHANGED <<pc, req, word, clk>>, pc # "idle", timeout' = timeout - 1
      PROVE  Nearer
  <2>1. LoopsLeft' = LoopsLeft
    BY <1>3 DEF LoopsLeft
  <2>2. timeout' < timeout
    BY <1>1, <1>3
  <2> QED  BY <1>3, <2>1, <2>2 DEF Nearer
<1>4. CASE PollFifo
  <2>1. CASE timeout = 1
    BY <1>2, <1>4, <2>1 DEF PollFifo
  <2>2. CASE timeout > 1 /\ fifo = 0
    BY <1>3, <1>4, <2>2 DEF PollFifo
  <2>3. CASE timeout > 1 /\ ~(fifo = 0)
    <3>1. pc = "fifo" /\ req' = req /\ word' = word + 1
          /\ pc' = IF word + 1 = req.words THEN "cmd" ELSE "fifo"
      BY <1>4, <2>3 DEF PollFifo
    <3>2. LoopsLeft = req.words - word + 4
      BY <3>1 DEF LoopsLeft
    <3>3. LoopsLeft' = IF word + 1 = req.words THEN 4 ELSE req.words - (word + 1) + 4
      BY <3>1 DEF LoopsLeft
    <3>4. LoopsLeft' < LoopsLeft
      BY <1>1, <3>1, <3>2, <3>3
    <3> QED  BY <3>1, <3>4 DEF Nearer
  <2> QED  BY <1>1, <1>4, <2>1, <2>2, <2>3 DEF PollFifo
<1>5. ASSUME AfterStatus, UNCHANGED <<req, word>>, pc \in {"cmd", "data"}
      PROVE  Nearer
  <2>1. CASE req.wait
    <3>1. pc' = "busy" /\ LoopsLeft' = 2
      BY <1>5, <2>1 DEF AfterStatus, LoopsLeft
    <3>2. LoopsLeft > 2
      BY <1>5 DEF LoopsLeft
    <3> QED  BY <3>1, <3>2 DEF Nearer
  <2>2. CASE ~req.wait
    BY <1>2, <1>5, <2>2 DEF AfterStatus
  <2> QED  BY <2>1, <2>2
<1>6. CASE PollCmd
  <2>1. CASE UNCHANGED <<pc, clk>> /\ timeout' = timeout - 1
    BY <1>3, <1>6, <2>1 DEF PollCmd, PollStatus
  <2>2. CASE GiveUp \/ AfterStatus
    BY <1>2, <1>5, <1>6, <2>2 DEF PollCmd, PollStatus
  <2>3. CASE pc' = "data"
    <3>1. LoopsLeft' = 3 /\ LoopsLeft = 4
      BY <1>6, <2>3 DEF PollCmd, PollStatus, LoopsLeft
    <3> QED  BY <2>3, <3>1 DEF Nearer
  <2> QED  BY <1>6, <2>1, <2>2, <2>3 DEF PollCmd, PollStatus
<1>7. CASE PollData
  <2>1. CASE UNCHANGED <<pc, clk>> /\ timeout' = timeout - 1
    BY <1>3, <1>7, <2>1 DEF PollData, PollStatus
  <2>2. CASE GiveUp \/ AfterStatus
    BY <1>2, <1>5, <1>7, <2>2 DEF PollData, PollStatus
  <2> QED  BY <1>7, <2>1, <2>2 DEF PollData, PollStatus
<1>8. CASE PollBusy
  BY <1>2, <1>3, <1>8 DEF PollBusy
<1>9. CASE PollClock
  <2>1. CASE pc' = "idle"
    BY <2>1 DEF Nearer
  <2>2. CASE UNCHANGED <<pc, clk>> /\ timeout' = timeout - 1
    BY <1>3, <1>9, <2>2 DEF PollClock
  <2>3. CASE clk > 0 /\ clk' = clk - 1 /\ pc' = pc
    <3>1. pc = "clock" /\ clk \in {1, 2} /\ clk # -1 /\ clk' # -1
      BY <1>1, <1>9, <2>3 DEF PollClock
    <3>2. LoopsLeft = clk + 1 /\ LoopsLeft' = clk' + 1
      BY <2>3, <3>1 DEF LoopsLeft
    <3> QED  BY <1>1, <2>3, <3>1, <3>2 DEF Nearer
  <2> QED  BY <1>9, <2>1, <2>2, <2>3 DEF PollClock, ClockUpdated, ClockFailed
<1> QED  BY <1>4, <1>6, <1>7, <1>8, <1>9 DEF Driver

LEMMA CallTurns ==
  ASSUME TypeOK', FifoInv', NEW r \in Requests, SendCmd(r)
  PROVE  TurnsLeft' <= TurnsOf(r.words + 4)
<1>1. LoopsCounted' /\ r.words \in Nat /\ r.words + 4 \in Nat
  BY LoopsLeftThen, RequestFields
<1>2. CASE pc' = "idle"
  <2>1. TurnsLeft' = 0
    BY <1>1, <1>2 DEF LoopsCounted
  <2>2. r.words + 4 <= r.words + 4
    BY <1>1
  <2>3. TurnsOf(r.words + 4) \in Nat
    BY <1>1, <2>2, TurnsOfMonotone
  <2> QED  BY <2>1, <2>3
<1>3. CASE pc' # "idle"
  <2>1. PICK l \in Nat : /\ l = LoopsLeft' /\ l > 0 /\ timeout' \in 0 .. Budget
                         /\ TurnsLeft' = TurnsIn(l - 1, timeout')
    BY <1>1, <1>3 DEF LoopsCounted, TurnsIn, TurnsOf
  <2>2. TurnsLeft' <= TurnsOf(l) /\ TurnsLeft' \in Nat
    BY ONLY <2>1, TurnsInPositive
  <2>3. req' = r /\ word' = 0 /\ (pc' = "clock" => clk' = -1) /\ pc' \in {"fifo", "cmd", "clock"}
    BY <1>3 DEF SendCmd, ResetController
  <2>4. l <= r.words + 4
    BY <1>1, <2>1, <2>3 DEF LoopsLeft
  <2>5. TurnsOf(l) \in Nat /\ TurnsOf(l) <= TurnsOf(r.words + 4)
    BY <1>1, <2>4, TurnsOfMonotone
  <2>6. TurnsOf(r.words + 4) \in Nat
    <3>1. r.words + 4 <= r.words + 4
      BY <1>1
    <3> QED  BY <1>1, <3>1, TurnsOfMonotone
  <2> QED  BY <2>2, <2>5, <2>6
<1> QED  BY <1>2, <1>3

(* mmc_send_cmd and mmc_set_ios return after a bounded number of turns of  *)
(* their loops, whatever the controller does: Budget + 1 for each word and *)
(* for each of four more loops, and three loops for a change of the clock. *)
(* The fairness of the driver is all that ImplementsCommand adds to it.    *)
THEOREM CallsRunOut == Spec => []TurnsCounted /\ TurnsRunOut
<1>1. Init => TypeOK /\ FifoInv
  BY FlagsInit, NumbersInit, TypeSplit
<1>2. TypeOK /\ FifoInv /\ [Next]_vars => TypeOK' /\ FifoInv'
  <2> SUFFICES ASSUME TypeOK, FifoInv, [Next]_vars PROVE TypeOK' /\ FifoInv'
    OBVIOUS
  <2>1. Flags' /\ Numbers' /\ FifoInv'
    BY FlagsStep, NumbersStep, TypeSplit
  <2> QED  BY <2>1 DEF TypeOK, Flags, Numbers
<1>3. TypeOK /\ FifoInv => TurnsCounted
  <2> SUFFICES ASSUME TypeOK, FifoInv PROVE TurnsCounted
    OBVIOUS
  <2>1. LoopsCounted
    BY LoopsLeftNow
  <2>2. CASE pc = "idle"
    BY <2>1, <2>2 DEF LoopsCounted, TurnsCounted
  <2>3. CASE pc # "idle"
    BY <2>1, <2>3, TurnsInPositive DEF LoopsCounted, TurnsCounted
  <2> QED  BY <2>2, <2>3
<1> DEFINE Step == /\ Driver => TurnsLeft' < TurnsLeft
                   /\ Controller => TurnsLeft' = TurnsLeft
                   /\ \A r \in Requests : SendCmd(r) => TurnsLeft' <= TurnsOf(r.words + 4)
                   /\ SetIos => TurnsLeft' <= TurnsOf(3)
<1>4. TypeOK /\ FifoInv /\ TypeOK' /\ FifoInv' => Step
  <2> SUFFICES ASSUME TypeOK, FifoInv, TypeOK', FifoInv' PROVE Step
    OBVIOUS
  <2>1. Driver => TurnsLeft' < TurnsLeft
    BY DriverNearer, NearerLowers
  <2>2. Controller => TurnsLeft' = TurnsLeft
    <3>1. Controller => UNCHANGED <<pc, req, timeout, word, clk>>
      BY DEF Controller, CardAnswers, WordArrives, DataOver, AutoStopDone, TransferFails,
             BusyEnds, ClockUpdateDone, drv
    <3>2. ASSUME UNCHANGED <<pc, req, timeout, word, clk>> PROVE TurnsLeft' = TurnsLeft
      BY <3>2 DEF TurnsLeft, LoopsLeft, TurnsOf
    <3> QED  BY <3>1, <3>2
  <2>3. \A r \in Requests : SendCmd(r) => TurnsLeft' <= TurnsOf(r.words + 4)
    BY CallTurns
  <2>4. SetIos => TurnsLeft' <= TurnsOf(3)
    <3>1. ASSUME SetIos, pc' = "idle" PROVE TurnsLeft' = 0
      BY <3>1 DEF TurnsLeft
    <3>2. ASSUME SetIos, pc' # "idle" PROVE TurnsLeft' = TurnsOf(3)
      BY Sizes, <3>2 DEF SetIos, vars, drv, TurnsLeft, LoopsLeft, TurnsOf
    <3>3. TurnsOf(3) \in Nat
      BY Sizes DEF TurnsOf
    <3> QED  BY <3>1, <3>2, <3>3
  <2> QED  BY <2>1, <2>2, <2>3, <2>4
<1>5. Step => [Step]_vars
  OBVIOUS
<1> HIDE DEF Step
<1>6. Spec => []TurnsCounted /\ [][Step]_vars
  BY <1>1, <1>2, <1>3, <1>4, PTL DEF Spec
<1> QED  BY <1>6 DEF Step, TurnsRunOut
==============================================================================
