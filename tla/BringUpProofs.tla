--------------------------- MODULE BringUpProofs ---------------------------
(***************************************************************************)
(* Proofs about the two modules of the SPL's bring-up: about Power, for    *)
(* every content the power chip's registers may have at power-on, and      *)
(* about Timer, for counters of any width, delays of any length short of a *)
(* turn of the counter, and any reading rate.                              *)
(***************************************************************************)
EXTENDS Power, Timer, TLAPS

-----------------------------------------------------------------------------
(* Power.                                                                  *)

(* The numbers the code computes, as far as the proofs need them.          *)
LEMMA Numbers ==
  /\ Dcdc2 \in 0 .. 63 /\ Dcdc3 \in 0 .. 127 /\ Ldo2 \in 0 .. 15
  /\ Ldo3 \in 0 .. 127
BY DEF Dcdc2, Dcdc3, Ldo2, Ldo3, Cfg, Asked

(* The loop over LDO4's table ends where it begins.                        *)
LEMMA Ldo4IsLowest == Ldo4 = 0
<1>1. vindex[0 + 1] <= 2800 /\ \A d \in 0 .. 0 - 1 : vindex[d + 1] > 2800
  BY DEF vindex
<1>2. \A c \in 0 .. 15 : (\A d \in 0 .. c - 1 : vindex[d + 1] > 2800) => c = 0
  <2>. SUFFICES ASSUME NEW c \in 0 .. 15, \A d \in 0 .. c - 1 : vindex[d + 1] > 2800, c # 0
                PROVE  FALSE
    OBVIOUS
  <2>1. 0 \in 0 .. c - 1
    OBVIOUS
  <2>2. vindex[0 + 1] > 2800
    BY <2>1
  <2>. QED
    BY <1>1, <2>2 DEF vindex
<1>3. 0 \in 0 .. 15
  OBVIOUS
<1>4. (CHOOSE c \in 0 .. 15 :
         vindex[c + 1] <= 2800 /\ \A d \in 0 .. c - 1 : vindex[d + 1] > 2800) = 0
  BY <1>1, <1>2, <1>3
<1>. QED
  BY <1>1, <1>3, <1>4 DEF Ldo4, Ldo4Cfg, Asked

LEMMA Ldo4IsNibble == Ldo4 \in 0 .. 15
BY Ldo4IsLowest

(* The register values for the voltages asked for stand for them.          *)
LEMMA Asking ==
  /\ Dcdc2 = 28 /\ Dcdc3 = 22 /\ Ldo2 = 12 /\ Ldo3 = 84
  /\ Asked["DCDC2"] = 1400 /\ Asked["DCDC3"] = 1250 /\ Asked["LDO2"] = 3000
  /\ Asked["LDO3"] = 2800
BY DEF Dcdc2, Dcdc3, Ldo2, Ldo3, Cfg, Asked

(* A byte is its halves.                                                   *)
LEMMA Halves ==
  /\ \A b \in Byte : High(b) \in 0 .. 15 /\ Low(b) \in 0 .. 15
  /\ \A h, l \in 0 .. 15 :
       h * 16 + l \in Byte /\ High(h * 16 + l) = h /\ Low(h * 16 + l) = l
BY DEF Byte, High, Low
-----------------------------------------------------------------------------
(* The inductive invariant.                                                *)

(* While a copy of a register is being changed it is the register's value, *)
(* and nothing is in doubt: the read that fetched it settled everything.   *)
Fresh ==
  /\ pc = "step" => doubt = {} /\ current = regs["DCDC2"] /\ current # Dcdc2
  /\ pc \in {"ldo2_write", "ldo4_write"} => doubt = {} /\ current = regs["LDO24"]

(* What has been achieved when nothing has failed.                         *)
PastInit  == Steps \ {"clock", "clock_pll", "clock_cpu", "init"}
PastDcdc2 == PastInit \ {"dcdc2", "step"}
PastDcdc3 == PastDcdc2 \ {"dcdc3"}
PastLdo2  == PastDcdc3 \ {"dcdc3_read", "ldo2", "ldo2_write"}
PastLdo3  == PastLdo2 \ {"ldo3"}
PastLdo4  == PastLdo3 \ {"ldo4", "ldo4_write"}

Progress ==
  power_failed = FALSE =>
    /\ pc \in PastInit => doubt = {}
    /\ pc \in PastDcdc2 => regs["DCDC2"] = Dcdc2
    /\ pc \in PastDcdc3 => regs["DCDC3"] = Dcdc3
    /\ pc \in PastLdo2 => High(regs["LDO24"]) = Ldo2
    /\ pc \in PastLdo3 => regs["LDO3"] = Ldo3
    /\ pc \in PastLdo4 => Low(regs["LDO24"]) = Ldo4

Ready ==
  /\ regs["DCDC2"] = Dcdc2 /\ regs["DCDC3"] = Dcdc3 /\ regs["LDO3"] = Ldo3
  /\ High(regs["LDO24"]) = Ldo2 /\ Low(regs["LDO24"]) = Ldo4
  /\ doubt = {}

(* PLL1 leaves its safe frequency only at the end of a bring-up in which   *)
(* nothing failed, and the CPU runs from it only then and until the next   *)
(* stage's first step.                                                     *)
Clocking ==
  /\ pc \in {"clock_pll", "clock_cpu", "pll1_div", "pll1_cfg", "pll1_cpu"} =>
       source = "osc24m"
  /\ pc \notin {"clock", "clock_pll", "pll1_cpu", "done"} => pll1 = pll1_para[1]
  /\ pc \in {"pll1_div", "pll1_cfg", "pll1_cpu"} => power_failed = FALSE
  /\ pc = "done" /\ pll1 # pll1_para[1] => power_failed = FALSE
  /\ pc = "clock" /\ pll1 # pll1_para[1] => Ready

(* Writes in doubt to the two registers that are read before written: at   *)
(* most one each, and it moves the register no further than a step.        *)
Near(old, new) ==
  \/ new = old
  \/ new = old + 1 /\ old < Dcdc2
  \/ new = old - 1 /\ old > Dcdc2

OneHalf(old, new) == High(new) = High(old) \/ Low(new) = Low(old)

Pending ==
  /\ \A w \in doubt :
       /\ w.reg = "DCDC2" => Near(regs["DCDC2"], w.val)
       /\ w.reg = "LDO24" => OneHalf(regs["LDO24"], w.val)
  /\ \A w, x \in doubt :
       w.reg = x.reg /\ w.reg \in {"DCDC2", "LDO24"} => w.val = x.val

(* The parts of the type invariant, each for the provers that handle it.   *)
Flags == /\ stage \in {"spl", "uboot"} /\ pc \in Steps
         /\ power_failed \in BOOLEAN
         /\ source \in {"osc24m", "pll1"}

Bytes == current \in Byte /\ regs \in [RegNames -> Byte] /\ doubt \subseteq Writes

Clocks == /\ pll1 \in {pll1_para[1], Frequency(1008)}
          /\ axi \in 1 .. 4 /\ ahb \in {1, 2, 4, 8} /\ apb0 \in {1, 2, 4, 8}

LEMMA TypeParts == TypeOK <=> Flags /\ Bytes /\ Clocks
BY DEF TypeOK, Flags, Bytes, Clocks

IInv == TypeOK /\ Fresh /\ Progress /\ Clocking /\ Pending

(* IInv holds at the start ...                                             *)
THEOREM InitIInv == Init => IInv
<1>. SUFFICES ASSUME Init PROVE IInv
  OBVIOUS
<1>1. TypeOK
  <2>1. Flags
    BY DEF Init, Flags, Steps
  <2>2. Bytes
    BY RegistersAssumption DEF Init, Bytes, Byte
  <2>3. Clocks
    BY DEF Init, Clocks
  <2>. QED
    BY <2>1, <2>2, <2>3, TypeParts
<1>2. Fresh /\ Progress /\ Clocking /\ Pending
  BY DEF Init, Fresh, Progress, Clocking, Pending, PastInit, PastDcdc2, PastDcdc3,
         PastLdo2, PastLdo3, PastLdo4, Steps
<1>. QED
  BY <1>1, <1>2 DEF IInv

-----------------------------------------------------------------------------
(* The actions in groups that disturb the same state.                      *)

ClockAction == ClockSafe \/ ClockPll \/ ClockCpu \/ SetPll1 \/ Pll1Dividers
               \/ Pll1Configure \/ Pll1Cpu \/ EnterUBoot
ReadAction == AxpInit \/ SetDcdc2 \/ ReadDcdc3 \/ ReadForLdo2 \/ ReadForLdo4
WriteAction == StepDcdc2 \/ SetDcdc3 \/ WriteLdo2 \/ SetLdo3 \/ WriteLdo4

LEMMA Groups ==
  [Next]_vars => ClockAction \/ ReadAction \/ WriteAction \/ Lands \/ Reset
                 \/ UNCHANGED vars
BY DEF Next, BringUp, ClockAction, ReadAction, WriteAction

LEMMA FlagsKept == ASSUME Flags, [Next]_vars PROVE Flags'
<1>1. CASE ClockAction
  <2>1. CASE SetPll1
    <3>1. UNCHANGED <<stage, power_failed>>
      BY <2>1 DEF SetPll1
    <3>2. CASE power_failed
      BY <2>1, <3>1, <3>2 DEF Flags, Steps, SetPll1, clocks
    <3>3. CASE ~power_failed
      BY <2>1, <3>1, <3>3 DEF Flags, Steps, SetPll1
    <3>. QED
      BY <3>2, <3>3
  <2>2. CASE ClockSafe \/ ClockPll \/ ClockCpu
    BY <2>2 DEF Flags, Steps, ClockSafe, ClockPll, ClockCpu
  <2>3. CASE Pll1Dividers \/ Pll1Configure \/ Pll1Cpu
    BY <2>3 DEF Flags, Steps, Pll1Dividers, Pll1Configure, Pll1Cpu
  <2>4. CASE EnterUBoot
    BY <2>4 DEF Flags, Steps, EnterUBoot, clocks
  <2>. QED
    BY <1>1, <2>1, <2>2, <2>3, <2>4 DEF ClockAction
<1>2. CASE ReadAction
  BY <1>2 DEF Flags, Steps, ReadAction, AxpInit, SetDcdc2, ReadDcdc3, ReadForLdo2,
       ReadForLdo4, ReadLdo24, Read, ReadFails, Passed, Failed, clocks
<1>3. CASE WriteAction
  BY <1>3 DEF Flags, Steps, WriteAction, StepDcdc2, SetDcdc3, WriteLdo2, SetLdo3,
       WriteLdo4, WriteLdo24, Write, WriteFails, Passed, Failed, clocks
<1>4. CASE Lands \/ Reset \/ UNCHANGED vars
  BY <1>4 DEF Flags, Steps, Lands, Reset, vars, clocks
<1>. QED
  BY <1>1, <1>2, <1>3, <1>4, Groups

(* Every value written is a byte, and a write that may be in doubt changes *)
(* only its own register.                                                  *)
LEMMA WrittenBytes ==
  ASSUME IInv
  PROVE  /\ pc = "step" => Dcdc2Next \in Byte
         /\ Ldo2Byte \in Byte /\ Ldo4Byte \in Byte
         /\ Dcdc3 \in Byte /\ Ldo3 \in Byte
<1>1. current \in Byte
  BY TypeParts DEF IInv, Bytes
<1>2. pc = "step" => current # Dcdc2
  BY DEF IInv, Fresh
<1>3. pc = "step" => Dcdc2Next \in Byte
  <2>1. CASE current < Dcdc2
    BY <1>1, <2>1, Numbers DEF Dcdc2Next, Byte
  <2>2. CASE current > Dcdc2
    BY <1>1, <2>2, Numbers DEF Dcdc2Next, Byte
  <2>3. Dcdc2 \in Int /\ current \in Int
    BY <1>1, Numbers DEF Byte
  <2>. QED
    BY <1>2, <2>1, <2>2, <2>3
<1>4. High(current) \in 0 .. 15 /\ Low(current) \in 0 .. 15
  BY <1>1, Halves
<1>5. Ldo2 * 16 + Low(current) \in Byte /\ High(current) * 16 + Ldo4 \in Byte
  BY <1>4, Numbers, Ldo4IsNibble, Halves
<1>6. Ldo2Byte \in Byte /\ Ldo4Byte \in Byte
  BY <1>4, <1>5, Numbers DEF Ldo2Byte, Ldo4Byte
<1>7. Dcdc3 \in Byte /\ Ldo3 \in Byte
  BY Numbers DEF Byte
<1>. QED
  BY <1>3, <1>6, <1>7

Put(r, b) ==
  /\ regs' \in {regs, [regs EXCEPT ![r] = b]}
  /\ doubt' \subseteq doubt \cup {[reg |-> r, val |-> b]}

LEMMA WriteForm ==
  ASSUME IInv, WriteAction
  PROVE  /\ \E r \in RegNames, b \in Byte : Put(r, b)
         /\ UNCHANGED current
<1>1. CASE StepDcdc2
  <2>1. Put("DCDC2", Dcdc2Next) /\ pc = "step" /\ UNCHANGED current
    BY <1>1 DEF StepDcdc2, Write, WriteFails, Put
  <2>. QED
    BY <2>1, WrittenBytes DEF RegNames
<1>2. CASE SetDcdc3
  <2>1. Put("DCDC3", Dcdc3) /\ UNCHANGED current
    BY <1>2 DEF SetDcdc3, Write, WriteFails, Put
  <2>. QED
    BY <2>1, WrittenBytes DEF RegNames
<1>3. CASE WriteLdo2
  <2>1. Put("LDO24", Ldo2Byte) /\ UNCHANGED current
    BY <1>3 DEF WriteLdo2, WriteLdo24, Write, WriteFails, Put
  <2>. QED
    BY <2>1, WrittenBytes DEF RegNames
<1>4. CASE SetLdo3
  <2>1. Put("LDO3", Ldo3) /\ UNCHANGED current
    BY <1>4 DEF SetLdo3, Write, WriteFails, Put
  <2>. QED
    BY <2>1, WrittenBytes DEF RegNames
<1>5. CASE WriteLdo4
  <2>1. Put("LDO24", Ldo4Byte) /\ UNCHANGED current
    BY <1>5 DEF WriteLdo4, WriteLdo24, Write, WriteFails, Put
  <2>. QED
    BY <2>1, WrittenBytes DEF RegNames
<1>. QED
  BY <1>1, <1>2, <1>3, <1>4, <1>5 DEF WriteAction

LEMMA BytesKept == ASSUME IInv, [Next]_vars PROVE Bytes'
<1>. USE TypeParts DEF IInv
<1>1. CASE ClockAction
  BY <1>1 DEF Bytes, ClockAction, ClockSafe, ClockPll, ClockCpu, SetPll1,
       Pll1Dividers, Pll1Configure, Pll1Cpu, EnterUBoot, clocks
<1>2. CASE ReadAction
  BY <1>2 DEF Bytes, RegNames, ReadAction, AxpInit, SetDcdc2, ReadDcdc3, ReadForLdo2,
       ReadForLdo4, ReadLdo24, Read, ReadFails, clocks
<1>3. CASE WriteAction
  <2>1. PICK r \in RegNames, b \in Byte : Put(r, b)
    BY <1>3, WriteForm
  <2>. QED
    BY <1>3, <2>1, WriteForm DEF Bytes, Put, Writes
<1>4. CASE Lands \/ Reset \/ UNCHANGED vars
  BY <1>4 DEF Bytes, Byte, Writes, Lands, Reset, vars, clocks
<1>. QED
  BY <1>1, <1>2, <1>3, <1>4, Groups

LEMMA ClockingKept == ASSUME IInv, [Next]_vars PROVE Clocking'
<1>. USE TypeParts DEF IInv
<1>1. CASE ClockAction
  <2>1. CASE EnterUBoot
    <3>1. pll1 # pll1_para[1] => Ready
      BY <2>1 DEF EnterUBoot, Clocking, Ready, Progress, PastInit, PastDcdc2,
           PastDcdc3, PastLdo2, PastLdo3, PastLdo4, Steps
    <3>. QED
      BY <2>1, <3>1 DEF Clocking, Ready, EnterUBoot, clocks
  <2>2. CASE ~EnterUBoot
    BY <1>1, <2>2 DEF Clocking, Flags, ClockAction, ClockSafe, ClockPll, ClockCpu,
         SetPll1, Pll1Dividers, Pll1Configure, Pll1Cpu, clocks
  <2>. QED
    BY <2>1, <2>2
<1>2. CASE ReadAction
  BY <1>2 DEF Clocking, Flags, ReadAction, AxpInit, SetDcdc2, ReadDcdc3, ReadForLdo2,
       ReadForLdo4, ReadLdo24, Passed, Failed, clocks
<1>3. CASE WriteAction
  BY <1>3 DEF Clocking, WriteAction, StepDcdc2, SetDcdc3, WriteLdo2, SetLdo3,
       WriteLdo4, WriteLdo24, Passed, Failed, clocks
<1>4. CASE Lands \/ Reset \/ UNCHANGED vars
  BY <1>4 DEF Clocking, Ready, Lands, Reset, vars, clocks
<1>. QED
  BY <1>1, <1>2, <1>3, <1>4, Groups

LEMMA FreshKept == ASSUME IInv, [Next]_vars PROVE Fresh'
<1>. USE DEF IInv
<1>1. CASE ClockAction
  BY <1>1 DEF Fresh, ClockAction, ClockSafe, ClockPll, ClockCpu, SetPll1,
       Pll1Dividers, Pll1Configure, Pll1Cpu, EnterUBoot
<1>2. CASE ReadAction
  BY <1>2 DEF Fresh, ReadAction, AxpInit, SetDcdc2, ReadDcdc3, ReadForLdo2,
       ReadForLdo4, ReadLdo24, Read, ReadFails, Passed, Failed
<1>3. CASE WriteAction
  BY <1>3 DEF Fresh, WriteAction, StepDcdc2, SetDcdc3, WriteLdo2, SetLdo3,
       WriteLdo4, WriteLdo24, Passed, Failed
<1>4. CASE Lands
  BY <1>4 DEF Fresh, Lands
<1>5. CASE Reset \/ UNCHANGED vars
  BY <1>5 DEF Fresh, Reset, vars
<1>. QED
  BY <1>1, <1>2, <1>3, <1>4, <1>5, Groups

LEMMA ProgressKept == ASSUME IInv, [Next]_vars PROVE Progress'
<1>. USE DEF Progress, PastInit, PastDcdc2, PastDcdc3, PastLdo2, PastLdo3, PastLdo4,
             Steps
<1>0. Progress /\ Fresh /\ Bytes
  BY TypeParts DEF IInv
<1>1. CASE ClockAction
  BY <1>0, <1>1 DEF ClockAction, ClockSafe, ClockPll, ClockCpu, SetPll1,
       Pll1Dividers, Pll1Configure, Pll1Cpu, EnterUBoot
<1>2. CASE ReadAction
  BY <1>0, <1>2 DEF ReadAction, AxpInit, SetDcdc2, ReadDcdc3, ReadForLdo2,
       ReadForLdo4, ReadLdo24, Read, ReadFails, Passed, Failed
<1>3. CASE StepDcdc2
  BY <1>0, <1>3 DEF StepDcdc2, Write, Passed, Failed
<1>4. CASE SetDcdc3
  BY <1>0, <1>4 DEF SetDcdc3, Write, Passed, Failed, Bytes, RegNames
<1>5. CASE WriteLdo2
  <2>1. High(Ldo2Byte) = Ldo2
    BY TypeParts, Numbers, Halves DEF IInv, Bytes, Ldo2Byte
  <2>. QED
    BY <1>0, <1>5, <2>1 DEF WriteLdo2, WriteLdo24, Write, Passed, Failed, Bytes,
         RegNames
<1>6. CASE SetLdo3
  BY <1>0, <1>6 DEF SetLdo3, Write, Passed, Failed, Bytes, RegNames
<1>7. CASE WriteLdo4
  <2>1. High(Ldo4Byte) = High(current) /\ Low(Ldo4Byte) = Ldo4
    BY TypeParts, Ldo4IsNibble, Halves DEF IInv, Bytes, Ldo4Byte
  <2>. QED
    BY <1>0, <1>7, <2>1 DEF WriteLdo4, WriteLdo24, Write, Passed, Failed, Bytes,
         RegNames, Fresh
<1>8. CASE Lands
  BY <1>0, <1>8 DEF Lands
<1>9. CASE Reset \/ UNCHANGED vars
  BY <1>0, <1>9 DEF Reset, vars
<1>. QED
  BY <1>1, <1>2, <1>3, <1>4, <1>5, <1>6, <1>7, <1>8, <1>9, Groups DEF WriteAction

LEMMA ClocksKept == ASSUME IInv, [Next]_vars PROVE Clocks'
<1>0. Clocks
  BY TypeParts DEF IInv
<1>1. AxiDiv(Frequency(1008)) \in 1 .. 4 /\ AhbDiv(Frequency(1008)) \in {1, 2, 4, 8}
  <2>1. Frequency(1008) = 1008
    <3>1. pll1_para[4] = 1008 /\ 4 \in 1 .. Len(pll1_para)
      BY DEF pll1_para
    <3>2. \A i \in 1 .. Len(pll1_para) : \A j \in 1 .. i - 1 :
            pll1_para[j] < pll1_para[i]
      BY DEF pll1_para
    <3>3. \A i \in 1 .. Len(pll1_para) :
            /\ pll1_para[i] >= 1008
            /\ \A j \in 1 .. i - 1 : pll1_para[j] < 1008
            => i = 4
      BY DEF pll1_para
    <3>. QED
      BY <3>1, <3>2, <3>3 DEF Frequency
  <2>. QED
    BY <2>1 DEF AxiDiv, AhbDiv, RDiv
<1>2. CASE ClockAction
  BY <1>0, <1>1, <1>2 DEF Clocks, ClockAction, ClockSafe, ClockPll, ClockCpu, SetPll1,
       Pll1Dividers, Pll1Configure, Pll1Cpu, EnterUBoot, clocks
<1>3. CASE ReadAction \/ WriteAction \/ Lands \/ UNCHANGED vars
  BY <1>0, <1>3 DEF Clocks, ReadAction, AxpInit, SetDcdc2, ReadDcdc3, ReadForLdo2,
       ReadForLdo4, ReadLdo24, WriteAction, StepDcdc2, SetDcdc3, WriteLdo2, SetLdo3,
       WriteLdo4, WriteLdo24, Lands, vars, clocks
<1>4. CASE Reset
  BY <1>4 DEF Clocks, Reset
<1>. QED
  BY <1>2, <1>3, <1>4, Groups

LEMMA PendingKept == ASSUME IInv, [Next]_vars PROVE Pending'
<1>0. Pending /\ Fresh /\ Bytes
  BY TypeParts DEF IInv
<1>1. CASE ClockAction \/ UNCHANGED vars
  BY <1>0, <1>1 DEF Pending, ClockAction, ClockSafe, ClockPll, ClockCpu, SetPll1,
       Pll1Dividers, Pll1Configure, Pll1Cpu, EnterUBoot, vars
<1>2. CASE ReadAction
  BY <1>0, <1>2 DEF Pending, ReadAction, AxpInit, SetDcdc2, ReadDcdc3, ReadForLdo2,
       ReadForLdo4, ReadLdo24, Read, ReadFails
<1>3. CASE StepDcdc2
  <2>1. doubt = {} /\ current = regs["DCDC2"] /\ current # Dcdc2
    BY <1>0, <1>3 DEF Fresh, StepDcdc2
  <2>2. doubt' \subseteq {[reg |-> "DCDC2", val |-> Dcdc2Next]}
    BY <1>3, <2>1 DEF StepDcdc2, Write, WriteFails
  <2>3. regs' \in {regs, [regs EXCEPT !["DCDC2"] = Dcdc2Next]}
    BY <1>3 DEF StepDcdc2, Write, WriteFails
  <2>4. Near(current, Dcdc2Next)
    <3>1. current \in Int /\ Dcdc2 \in Int
      BY <1>0, Numbers DEF Bytes, Byte
    <3>. QED
      BY <2>1, <3>1 DEF Near, Dcdc2Next
  <2>5. Near(regs'["DCDC2"], Dcdc2Next)
    <3>1. CASE regs' = regs
      BY <2>1, <2>4, <3>1
    <3>2. CASE regs' = [regs EXCEPT !["DCDC2"] = Dcdc2Next]
      BY <1>0, <3>2 DEF Near, Bytes, RegNames
    <3>. QED
      BY <2>3, <3>1, <3>2
  <2>. QED
    BY <2>2, <2>5 DEF Pending
<1>4. CASE SetDcdc3
  <2>1. Put("DCDC3", Dcdc3)
    BY <1>4 DEF SetDcdc3, Write, WriteFails, Put
  <2>. QED
    BY <1>0, <2>1 DEF Pending, Put, Bytes, RegNames
<1>5. CASE WriteLdo2
  <2>1. doubt = {} /\ current = regs["LDO24"]
    BY <1>0, <1>5 DEF Fresh, WriteLdo2, WriteLdo24
  <2>2. Low(Ldo2Byte) = Low(current)
    BY <1>0, Numbers, Halves DEF Bytes, Ldo2Byte
  <2>3. Put("LDO24", Ldo2Byte)
    BY <1>5 DEF WriteLdo2, WriteLdo24, Write, WriteFails, Put
  <2>. QED
    BY <1>0, <2>1, <2>2, <2>3 DEF Pending, Put, Bytes, RegNames, OneHalf
<1>6. CASE SetLdo3
  <2>1. Put("LDO3", Ldo3)
    BY <1>6 DEF SetLdo3, Write, WriteFails, Put
  <2>. QED
    BY <1>0, <2>1 DEF Pending, Put, Bytes, RegNames
<1>7. CASE WriteLdo4
  <2>1. doubt = {} /\ current = regs["LDO24"]
    BY <1>0, <1>7 DEF Fresh, WriteLdo4, WriteLdo24
  <2>2. High(Ldo4Byte) = High(current)
    BY <1>0, Ldo4IsNibble, Halves DEF Bytes, Ldo4Byte
  <2>3. Put("LDO24", Ldo4Byte)
    BY <1>7 DEF WriteLdo4, WriteLdo24, Write, WriteFails, Put
  <2>. QED
    BY <1>0, <2>1, <2>2, <2>3 DEF Pending, Put, Bytes, RegNames, OneHalf
<1>8. CASE Lands
  <2>1. PICK w \in doubt : regs' = [regs EXCEPT ![w.reg] = w.val]
    BY <1>8 DEF Lands
  <2>2. doubt' = doubt
    BY <1>8 DEF Lands
  <2>3. ASSUME NEW x \in doubt
        PROVE  /\ x.reg = "DCDC2" => Near(regs'["DCDC2"], x.val)
               /\ x.reg = "LDO24" => OneHalf(regs'["LDO24"], x.val)
    <3>1. CASE x.reg = w.reg
      BY <1>0, <2>1, <2>3, <3>1 DEF Pending, Near, OneHalf, Bytes, Writes
    <3>2. CASE x.reg # w.reg
      BY <1>0, <2>1, <2>3, <3>2 DEF Pending, Bytes, Writes
    <3>. QED
      BY <3>1, <3>2
  <2>. QED
    BY <1>0, <2>2, <2>3 DEF Pending
<1>9. CASE Reset
  BY <1>9 DEF Pending, Reset
<1>. QED
  BY <1>1, <1>2, <1>3, <1>4, <1>5, <1>6, <1>7, <1>8, <1>9, Groups DEF WriteAction

(* ... and every step of either stage keeps it.                            *)
THEOREM NextIInv == IInv /\ [Next]_vars => IInv'
<1>. SUFFICES ASSUME IInv, [Next]_vars PROVE IInv'
  OBVIOUS
<1>1. TypeOK'
  <2>1. Flags'
    BY FlagsKept, TypeParts DEF IInv
  <2>2. Bytes' /\ Clocks'
    BY BytesKept, ClocksKept
  <2>. QED
    BY <2>1, <2>2 DEF TypeOK, Flags, Bytes, Clocks
<1>. QED
  BY <1>1, FreshKept, ProgressKept, ClockingKept, PendingKept DEF IInv

LEMMA Invariance == Spec => []IInv
BY InitIInv, NextIInv, PTL DEF Spec
-----------------------------------------------------------------------------
(* The theorems.                                                           *)

(* The type invariant of the bring-up.                                     *)
THEOREM TypeCorrect == Spec => []TypeOK
BY Invariance, PTL DEF IInv

(* When the CPU runs from a PLL1 above 384 MHz the bring-up is done, or    *)
(* the next stage's is about to begin, and every voltage was reached.      *)
LEMMA InvImpliesFast == IInv => FastOnlyWithPower
<1>0. Ready => FastOnlyWithPower
  <2>. SUFFICES ASSUME Ready PROVE FastOnlyWithPower
    OBVIOUS
  <2>1. /\ regs["DCDC2"] = 28 /\ regs["DCDC3"] = 22 /\ regs["LDO3"] = 84
        /\ High(regs["LDO24"]) = 12 /\ Low(regs["LDO24"]) = 0 /\ doubt = {}
    BY Asking, Ldo4IsLowest DEF Ready
  <2>2. /\ Held["DCDC2"] = 1400 /\ Held["DCDC3"] = 1250
        /\ Held["LDO2"] = 3000 /\ Held["LDO3"] = 2800
    BY <2>1 DEF Held
  <2>3. Held["LDO4"] = vindex[1]
    BY <2>1 DEF Held
  <2>4. vindex[1] = 1250
    BY DEF vindex
  <2>. QED
    BY <2>1, <2>2, <2>3, <2>4, Asking DEF FastOnlyWithPower
<1>. SUFFICES ASSUME IInv, CpuClock > pll1_para[1] PROVE Ready
  BY <1>0 DEF FastOnlyWithPower
<1>1. source # "osc24m" /\ pll1 # pll1_para[1]
  BY DEF CpuClock, pll1_para
<1>2. pc \in {"clock", "done"}
  BY <1>1 DEF IInv, Clocking
<1>3. CASE pc = "clock"
  BY <1>1, <1>3 DEF IInv, Clocking
<1>4. CASE pc = "done"
  BY <1>1, <1>4 DEF IInv, Clocking, Progress, Ready, Steps, PastInit, PastDcdc2,
       PastDcdc3, PastLdo2, PastLdo3, PastLdo4
<1>. QED
  BY <1>2, <1>3, <1>4

(* The processor is never clocked up before the four voltages axp209.c     *)
(* sets as asked have been reached, and LDO4 the 1250 mV it is set to; and *)
(* no late write can take one away: "if (!power_failed)" in main() and     *)
(* s_init(), with the reads of axp209.c that settle what was in doubt.     *)
THEOREM FastOnlyWithPowerHolds == Spec => []FastOnlyWithPower
BY Invariance, InvImpliesFast, PTL

(* What any step does to the registers that are read before written.       *)
LEMMA RegisterSteps ==
  ASSUME IInv, [Next]_vars
  PROVE  /\ Near(regs["DCDC2"], regs'["DCDC2"])
         /\ OneHalf(regs["LDO24"], regs'["LDO24"])
<1>0. Pending /\ Fresh /\ Bytes
  BY TypeParts DEF IInv
<1>1. CASE UNCHANGED regs
  BY <1>1 DEF Near, OneHalf
<1>2. CASE Lands
  BY <1>0, <1>2 DEF Lands, Pending, Bytes, Near, OneHalf, Writes
<1>3. CASE StepDcdc2
  <2>1. current = regs["DCDC2"] /\ current # Dcdc2 /\ current \in Int /\ Dcdc2 \in Int
    BY <1>0, <1>3, Numbers DEF Fresh, StepDcdc2, Bytes, Byte
  <2>2. Put("DCDC2", Dcdc2Next)
    BY <1>3 DEF StepDcdc2, Write, WriteFails, Put
  <2>3. Near(regs["DCDC2"], Dcdc2Next)
    BY <2>1 DEF Near, Dcdc2Next
  <2>. QED
    BY <1>0, <2>2, <2>3 DEF Put, Near, OneHalf, Bytes, RegNames
<1>4. CASE SetDcdc3 \/ SetLdo3
  <2>1. Put("DCDC3", Dcdc3) \/ Put("LDO3", Ldo3)
    BY <1>4 DEF SetDcdc3, SetLdo3, Write, WriteFails, Put
  <2>. QED
    BY <1>0, <2>1 DEF Put, Near, OneHalf, Bytes, RegNames
<1>5. CASE WriteLdo2
  <2>1. current = regs["LDO24"] /\ Low(Ldo2Byte) = Low(current)
    BY <1>0, <1>5, Numbers, Halves DEF Fresh, WriteLdo2, WriteLdo24, Bytes, Ldo2Byte
  <2>2. Put("LDO24", Ldo2Byte)
    BY <1>5 DEF WriteLdo2, WriteLdo24, Write, WriteFails, Put
  <2>. QED
    BY <1>0, <2>1, <2>2 DEF Put, Near, OneHalf, Bytes, RegNames
<1>6. CASE WriteLdo4
  <2>1. current = regs["LDO24"] /\ High(Ldo4Byte) = High(current)
    BY <1>0, <1>6, Ldo4IsNibble, Halves DEF Fresh, WriteLdo4, WriteLdo24, Bytes,
         Ldo4Byte
  <2>2. Put("LDO24", Ldo4Byte)
    BY <1>6 DEF WriteLdo4, WriteLdo24, Write, WriteFails, Put
  <2>. QED
    BY <1>0, <2>1, <2>2 DEF Put, Near, OneHalf, Bytes, RegNames
<1>7. CASE ClockAction
  BY <1>1, <1>7 DEF ClockAction, ClockSafe, ClockPll, ClockCpu, SetPll1,
       Pll1Dividers, Pll1Configure, Pll1Cpu, EnterUBoot
<1>8. CASE ReadAction
  BY <1>1, <1>8 DEF ReadAction, AxpInit, SetDcdc2, ReadDcdc3, ReadForLdo2,
       ReadForLdo4, ReadLdo24, Read, ReadFails
<1>9. CASE Reset \/ UNCHANGED vars
  BY <1>1, <1>9 DEF Reset, vars
<1>. QED
  BY <1>2, <1>3, <1>4, <1>5, <1>6, <1>7, <1>8, <1>9, Groups DEF WriteAction

(* axp209_set_dcdc2 moves the core voltage one unit at a time towards its  *)
(* goal, and a step that gets through late is still only one unit; and     *)
(* axp209_set_ldo2 and axp209_set_ldo4 never change each other's half of   *)
(* the register they share.                                                *)
THEOREM Gentle == Spec => OutputsAreGentle
<1>1. IInv /\ [Next]_vars => [CoreMovesByOne /\ OneHalfKept]_vars
  BY RegisterSteps DEF Near, OneHalf, CoreMovesByOne, OneHalfKept
<1>. QED
  BY <1>1, Invariance, PTL DEF Spec, OutputsAreGentle
-----------------------------------------------------------------------------
(* The bus clocks.                                                         *)

(* clock_set_pll1(1008000000) finds its frequency in the table, and the    *)
(* dividers that go with it.                                               *)
LEMMA FastClock ==
  /\ pll1_para[1] = 384 /\ Frequency(1008) = 1008
  /\ AxiDiv(1008) = 3 /\ AhbDiv(1008) = 2
<1>1. Len(pll1_para) = 14 /\ pll1_para[1] = 384 /\ pll1_para[2] = 768
      /\ pll1_para[3] = 960 /\ pll1_para[4] = 1008
  BY DEF pll1_para
<1>2. 4 \in 1 .. Len(pll1_para)
        /\ pll1_para[4] >= 1008 /\ \A j \in 1 .. 4 - 1 : pll1_para[j] < 1008
  BY <1>1
<1>3. ASSUME NEW i \in 1 .. Len(pll1_para), pll1_para[i] >= 1008,
             \A j \in 1 .. i - 1 : pll1_para[j] < 1008
      PROVE  i = 4
  <2>1. i # 1 /\ i # 2 /\ i # 3
    BY <1>1, <1>3
  <2>2. ~(i > 4)
    BY <1>1, <1>3
  <2>. QED
    BY <1>1, <2>1, <2>2
<1>4. (CHOOSE i \in 1 .. Len(pll1_para) :
         pll1_para[i] >= 1008 /\ \A j \in 1 .. i - 1 : pll1_para[j] < 1008) = 4
  BY <1>2, <1>3
<1>5. Frequency(1008) = 1008
  BY <1>1, <1>4 DEF Frequency
<1>6. AxiDiv(1008) = 3
  BY DEF AxiDiv, RDiv
<1>7. AhbDiv(1008) = 2
  BY <1>6 DEF AhbDiv, RDiv
<1>. QED
  BY <1>1, <1>5, <1>6, <1>7

(* The dividers are set before the clock they are needed for.              *)
Divided ==
  /\ source = "pll1" =>
       \/ pll1 = 384 /\ axi = 1 /\ ahb = 2 /\ apb0 = 1
       \/ pll1 = 1008 /\ axi = 3 /\ ahb = 2 /\ apb0 = 2
  /\ pc \in {"clock_pll", "clock_cpu"} => axi = 1 /\ ahb = 2 /\ apb0 = 1
  /\ pc \in {"pll1_cfg", "pll1_cpu"} => axi = 3 /\ ahb = 2 /\ apb0 = 2
  /\ pc = "pll1_cpu" => pll1 = 1008

LEMMA DividedKept == ASSUME IInv, Divided, [Next]_vars PROVE Divided'
<1>0. Clocking /\ Flags
  BY TypeParts DEF IInv
<1>1. CASE ClockAction
  <2>1. CASE ClockSafe
    BY <2>1 DEF ClockSafe, Divided
  <2>2. CASE ClockPll
    BY <1>0, <2>2, FastClock DEF ClockPll, Divided, Clocking
  <2>3. CASE ClockCpu
    BY <1>0, <2>3, FastClock DEF ClockCpu, Divided, Clocking
  <2>4. CASE SetPll1
    BY <1>0, <2>4 DEF SetPll1, Divided, Clocking, clocks
  <2>5. CASE Pll1Dividers
    BY <1>0, <2>5, FastClock DEF Pll1Dividers, Divided, Clocking
  <2>6. CASE Pll1Configure
    BY <1>0, <2>6, FastClock DEF Pll1Configure, Divided, Clocking
  <2>7. CASE Pll1Cpu
    BY <2>7 DEF Pll1Cpu, Divided
  <2>8. CASE EnterUBoot
    BY <2>8 DEF EnterUBoot, Divided, clocks
  <2>. QED
    BY <1>1, <2>1, <2>2, <2>3, <2>4, <2>5, <2>6, <2>7, <2>8 DEF ClockAction
<1>2. CASE ReadAction
  BY <1>2 DEF Divided, ReadAction, AxpInit, SetDcdc2, ReadDcdc3, ReadForLdo2,
       ReadForLdo4, ReadLdo24, Passed, Failed, clocks
<1>3. CASE WriteAction
  BY <1>3 DEF Divided, WriteAction, StepDcdc2, SetDcdc3, WriteLdo2, SetLdo3,
       WriteLdo4, WriteLdo24, Passed, Failed, clocks
<1>4. CASE Lands \/ Reset \/ UNCHANGED vars
  BY <1>4 DEF Divided, Lands, Reset, vars, clocks
<1>. QED
  BY <1>1, <1>2, <1>3, <1>4, Groups

LEMMA InvImpliesInRange == IInv /\ Divided => BusClocksInRange
<1>. SUFFICES ASSUME IInv, Divided PROVE BusClocksInRange
  OBVIOUS
<1>1. /\ axi \in 1 .. 4 /\ ahb \in {1, 2, 4, 8} /\ apb0 \in {1, 2, 4, 8}
      /\ source \in {"osc24m", "pll1"}
  BY TypeParts DEF IInv, Clocks, Flags
<1>2. CASE source = "osc24m"
  <2>1. AxiClock \in 0 .. 24
    BY <1>1, <1>2 DEF AxiClock, CpuClock
  <2>2. AhbClock \in 0 .. 24
    BY <1>1, <2>1 DEF AhbClock
  <2>3. Apb0Clock \in 0 .. 24
    BY <1>1, <2>2 DEF Apb0Clock
  <2>. QED
    BY <2>1, <2>2, <2>3 DEF BusClocksInRange
<1>3. CASE source = "pll1" /\ pll1 = 384 /\ axi = 1 /\ ahb = 2 /\ apb0 = 1
  <2>1. AxiClock = 384
    BY <1>3 DEF AxiClock, CpuClock
  <2>2. AhbClock = 192
    BY <1>3, <2>1 DEF AhbClock
  <2>3. Apb0Clock = 192
    BY <1>3, <2>2 DEF Apb0Clock
  <2>4. SafeSetting
    BY <1>3, FastClock DEF SafeSetting
  <2>. QED
    BY <2>1, <2>2, <2>3, <2>4 DEF BusClocksInRange
<1>4. CASE source = "pll1" /\ pll1 = 1008 /\ axi = 3 /\ ahb = 2 /\ apb0 = 2
  <2>1. AxiClock = 336
    BY <1>4 DEF AxiClock, CpuClock
  <2>2. AhbClock = 168
    BY <1>4, <2>1 DEF AhbClock
  <2>3. Apb0Clock = 84
    BY <1>4, <2>2 DEF Apb0Clock
  <2>. QED
    BY <2>1, <2>2, <2>3 DEF BusClocksInRange
<1>. QED
  BY <1>1, <1>2, <1>3, <1>4 DEF Divided

(* At no instant between two writes of clock_init_safe and clock_set_pll1, *)
(* whatever was left by the stage before or by a reset, does AXI, AHB or   *)
(* APB0 run above the limit clock_set_pll1 notes for it, except APB0 in    *)
(* clock_init_safe's own setting, where it runs at 192 MHz.                *)
THEOREM BusClocksHold == Spec => []BusClocksInRange
<1>1. Init => Divided
  BY DEF Init, Divided
<1>2. IInv /\ Divided /\ [Next]_vars => Divided'
  BY DividedKept
<1>. QED
  BY <1>1, <1>2, Invariance, InvImpliesInRange, PTL DEF Spec

-----------------------------------------------------------------------------
(* How long a bring-up may take.                                           *)

(* How far the core voltage is from its goal, in the steps that            *)
(* axp209_set_dcdc2 moves it by.                                           *)
Distance ==
  IF regs["DCDC2"] < Dcdc2 THEN Dcdc2 - regs["DCDC2"] ELSE regs["DCDC2"] - Dcdc2

(* The steps of a stage from where it stands, the stepping left out.       *)
StepsAfter(step) ==
  CASE step = "done" -> 0
    [] step = "pll1_cpu" -> 1
    [] step = "pll1_cfg" -> 2
    [] step = "pll1_div" -> 3
    [] step = "pll1" -> 4
    [] step = "ldo4_write" -> 5
    [] step = "ldo4" -> 6
    [] step = "ldo3" -> 7
    [] step = "ldo2_write" -> 8
    [] step = "ldo2" -> 9
    [] step = "dcdc3_read" -> 10
    [] step = "dcdc3" -> 11
    [] step = "step" -> 12
    [] step = "dcdc2" -> 13
    [] step = "init" -> 14
    [] step = "clock_cpu" -> 15
    [] step = "clock_pll" -> 16
    [] step = "clock" -> 17

(* Both stages, with a read and a write for each step of the core voltage, *)
(* which U-Boot finds where the SPL has left it.                           *)
StepsLeft == StepsAfter(pc) + 2 * Distance + IF stage = "spl" THEN 18 ELSE 0

(* Never more than both stages take for the distance there is; none once   *)
(* U-Boot is done and the voltage is right.                                *)
StepsCounted ==
  /\ StepsLeft \in 0 .. 35 + 2 * Distance
  /\ stage = "uboot" /\ pc = "done" /\ Distance = 0 => StepsLeft = 0

(* Every step of the code brings the end nearer, a write that gets through *)
(* late never puts it off, and after a reset all is to be done again but   *)
(* the stepping that was done before.                                      *)
StepsRunOut ==
  [][/\ BringUp \/ EnterUBoot => StepsLeft' < StepsLeft
     /\ Lands => StepsLeft' <= StepsLeft
     /\ Distance' <= Distance
     /\ Reset => StepsLeft' = 35 + 2 * Distance]_vars

LEMMA DistanceFacts ==
  ASSUME IInv, [Next]_vars
  PROVE  /\ Distance \in Nat /\ Distance' \in Nat /\ Distance' <= Distance
         /\ pc = "step" /\ Write("DCDC2", Dcdc2Next) => Distance' + 1 <= Distance
<1> DEFINE old == regs["DCDC2"]
           new == regs'["DCDC2"]
<1>1. old \in Byte /\ Dcdc2 \in 0 .. 63
  BY TypeParts, Numbers DEF IInv, Bytes, RegNames
<1>2. Near(old, new)
  BY RegisterSteps
<1>3. pc = "step" /\ Write("DCDC2", Dcdc2Next) =>
        /\ old # Dcdc2
        /\ new = IF old < Dcdc2 THEN old + 1 ELSE old - 1
  <2> SUFFICES ASSUME pc = "step", Write("DCDC2", Dcdc2Next)
               PROVE  old # Dcdc2 /\ new = IF old < Dcdc2 THEN old + 1 ELSE old - 1
    OBVIOUS
  <2>1. current = old /\ current # Dcdc2 /\ regs \in [RegNames -> Byte]
    BY TypeParts DEF IInv, Fresh, Bytes
  <2>2. new = Dcdc2Next
    BY <2>1 DEF Write, RegNames
  <2> QED  BY <2>1, <2>2 DEF Dcdc2Next
<1>4. /\ Distance = IF old < Dcdc2 THEN Dcdc2 - old ELSE old - Dcdc2
      /\ Distance' = IF new < Dcdc2 THEN Dcdc2 - new ELSE new - Dcdc2
  BY DEF Distance, Dcdc2, Cfg
<1> HIDE DEF old, new
<1> QED  BY <1>1, <1>2, <1>3, <1>4 DEF Near, Byte

LEMMA Ranks ==
  /\ StepsAfter("done") = 0 /\ StepsAfter("pll1_cpu") = 1 /\ StepsAfter("pll1_cfg") = 2
  /\ StepsAfter("pll1_div") = 3 /\ StepsAfter("pll1") = 4 /\ StepsAfter("ldo4_write") = 5
  /\ StepsAfter("ldo4") = 6 /\ StepsAfter("ldo3") = 7 /\ StepsAfter("ldo2_write") = 8
  /\ StepsAfter("ldo2") = 9 /\ StepsAfter("dcdc3_read") = 10 /\ StepsAfter("dcdc3") = 11
  /\ StepsAfter("step") = 12 /\ StepsAfter("dcdc2") = 13 /\ StepsAfter("init") = 14
  /\ StepsAfter("clock_cpu") = 15 /\ StepsAfter("clock_pll") = 16 /\ StepsAfter("clock") = 17
BY DEF StepsAfter

LEMMA RankType == \A step \in Steps : StepsAfter(step) \in 0 .. 17
BY Ranks DEF Steps

(* Every step of a stage but the write of a stepping goes forward.         *)
LEMMA Forward ==
  ASSUME Flags, BringUp
  PROVE  /\ stage' = stage
         /\ \/ StepsAfter(pc') < StepsAfter(pc)
            \/ /\ pc = "step" /\ Write("DCDC2", Dcdc2Next)
               /\ StepsAfter(pc') = 13 /\ StepsAfter(pc) = 12
<1>1. CASE ClockSafe \/ ClockPll \/ ClockCpu \/ Pll1Dividers \/ Pll1Configure \/ Pll1Cpu
  BY <1>1, Ranks DEF ClockSafe, ClockPll, ClockCpu, Pll1Dividers, Pll1Configure, Pll1Cpu
<1>2. CASE SetPll1
  BY <1>2, Ranks DEF SetPll1
<1>3. CASE AxpInit \/ SetDcdc2 \/ ReadDcdc3
  BY <1>3, Ranks DEF AxpInit, SetDcdc2, ReadDcdc3, Passed, Failed
<1>4. CASE StepDcdc2
  BY <1>4, Ranks DEF StepDcdc2, Passed, Failed
<1>5. CASE SetDcdc3 \/ SetLdo3
  BY <1>5, Ranks DEF SetDcdc3, SetLdo3, Passed, Failed
<1>6. CASE ReadForLdo2 \/ ReadForLdo4
  BY <1>6, Ranks DEF ReadForLdo2, ReadForLdo4, ReadLdo24, Passed, Failed
<1>7. CASE WriteLdo2 \/ WriteLdo4
  BY <1>7, Ranks DEF WriteLdo2, WriteLdo4, WriteLdo24, Passed, Failed
<1> QED  BY <1>1, <1>2, <1>3, <1>4, <1>5, <1>6, <1>7 DEF BringUp

LEMMA StepsType == ASSUME IInv, [Next]_vars PROVE StepsCounted
<1>1. StepsAfter(pc) \in 0 .. 17 /\ Distance \in Nat
  BY RankType, DistanceFacts, TypeParts DEF IInv, Flags
<1>2. CASE stage = "spl"
  BY <1>1, <1>2 DEF StepsCounted, StepsLeft
<1>3. CASE stage # "spl"
  BY <1>1, <1>3, Ranks DEF StepsCounted, StepsLeft
<1> QED  BY <1>2, <1>3

(* A read and a write are worth less than the unit they have gained.       *)
LEMMA UnitGained ==
  ASSUME NEW near \in Nat, NEW far \in Nat, near + 1 <= far, NEW extra \in Nat
  PROVE  13 + 2 * near + extra < 12 + 2 * far + extra
<1>1. 2 * near + 2 <= 2 * far
  OBVIOUS
<1>2. 2 * near \in Nat /\ 2 * far \in Nat
  OBVIOUS
<1> QED  BY <1>1, <1>2

LEMMA StepsLower ==
  ASSUME IInv, IInv', [Next]_vars
  PROVE  /\ BringUp \/ EnterUBoot => StepsLeft' < StepsLeft
         /\ Lands => StepsLeft' <= StepsLeft
         /\ Distance' <= Distance
         /\ Reset => StepsLeft' = 35 + 2 * Distance
<1>1. Distance \in Nat /\ Distance' \in Nat /\ Distance' <= Distance
  BY DistanceFacts
<1>2. StepsAfter(pc) \in Nat /\ StepsAfter(pc') \in Nat
  <2>1. pc \in Steps /\ pc' \in Steps
    BY TypeParts DEF IInv, Flags, TypeOK
  <2> QED  BY <2>1, RankType
<1>3. /\ StepsLeft = StepsAfter(pc) + 2 * Distance + IF stage = "spl" THEN 18 ELSE 0
      /\ StepsLeft' = StepsAfter(pc') + 2 * Distance' + IF stage' = "spl" THEN 18 ELSE 0
  BY DEF StepsLeft, StepsAfter
<1>4. ASSUME BringUp PROVE StepsLeft' < StepsLeft
  <2>1. Flags
    BY TypeParts DEF IInv
  <2>2. CASE StepsAfter(pc') < StepsAfter(pc) /\ stage' = stage
    BY <1>1, <1>2, <1>3, <2>2
  <2>3. CASE /\ pc = "step" /\ Write("DCDC2", Dcdc2Next) /\ stage' = stage
             /\ StepsAfter(pc') = 13 /\ StepsAfter(pc) = 12
    <3>1. Distance' + 1 <= Distance
      BY <2>3, DistanceFacts
    <3>2. PICK extra \in Nat : /\ StepsLeft = 12 + 2 * Distance + extra
                               /\ StepsLeft' = 13 + 2 * Distance' + extra
      BY <1>3, <2>3
    <3>3. 13 + 2 * Distance' + extra < 12 + 2 * Distance + extra
      BY <1>1, <3>1, UnitGained
    <3> QED  BY <3>2, <3>3
  <2> QED  BY <1>4, <2>1, <2>2, <2>3, Forward
<1>5. ASSUME EnterUBoot PROVE StepsLeft' < StepsLeft
  <2>1. pc = "done" /\ stage = "spl" /\ pc' = "clock" /\ stage' = "uboot"
    BY <1>5 DEF EnterUBoot
  <2>2. StepsAfter(pc) = 0 /\ StepsAfter(pc') = 17
    BY <2>1, Ranks
  <2> QED  BY <1>1, <1>3, <2>1, <2>2
<1>6. ASSUME Lands PROVE StepsLeft' <= StepsLeft
  <2>1. pc' = pc /\ stage' = stage
    BY <1>6 DEF Lands
  <2> QED  BY <1>1, <1>2, <1>3, <2>1
<1>7. ASSUME Reset PROVE StepsLeft' = 35 + 2 * Distance
  <2>1. pc' = "clock" /\ stage' = "spl" /\ regs' = regs
    BY <1>7 DEF Reset
  <2>2. Distance' = Distance
    BY <2>1 DEF Distance, Dcdc2, Cfg
  <2>3. StepsAfter(pc') = 17
    BY <2>1, Ranks
  <2> QED  BY <1>1, <1>3, <2>1, <2>2, <2>3
<1> QED  BY <1>1, <1>4, <1>5, <1>6, <1>7

(* The bring-up of both stages takes at most 35 steps and two for each     *)
(* unit between the core voltage and its goal, whatever fails; no write    *)
(* that gets through late prolongs it, and the stepping that was done      *)
(* before a reset need not be done again.  SteppingEnds adds only the      *)
(* fairness of the steps.                                                  *)
THEOREM StepsRunOutHolds == Spec => []StepsCounted /\ StepsRunOut
<1> DEFINE Step == /\ BringUp \/ EnterUBoot => StepsLeft' < StepsLeft
                   /\ Lands => StepsLeft' <= StepsLeft
                   /\ Distance' <= Distance
                   /\ Reset => StepsLeft' = 35 + 2 * Distance
<1>1. IInv /\ IInv' /\ [Next]_vars => StepsCounted /\ [Step]_vars
  BY StepsType, StepsLower
<1> HIDE DEF Step
<1>2. Spec => []StepsCounted /\ [][Step]_vars
  BY <1>1, Invariance, PTL DEF Spec
<1> QED  BY <1>2 DEF Step, StepsRunOut

-----------------------------------------------------------------------------
(* Timer.                                                                  *)

(* What the loops are right about: either the counter moves between any    *)
(* two reads, or every loop called is one that allows for a counter that   *)
(* does not.                                                               *)
Suited == "timer" \in Kinds => MinGap["timer"] > 0

(* A running loop has counted every tick but the one that a rollover       *)
(* loses, and whether the counter has rolled over shows in how it stands   *)
(* to the ticks gone by.  It rolls over once at most.                      *)
Rolls == IF elapsed <= last THEN 0 ELSE 1

Counting ==
  loop = "polling" =>
    /\ tmo \in 1 .. cnt
    /\ elapsed = cnt - tmo + Rolls

(* mdelay calls only timer0_udelay.                                        *)
Calling == msec > 0 => "timer" \in Kinds

TimerInv == TimerTypeOK /\ Calling /\ Counting /\ NeverShort

(* The delays asked for, whichever call asked.                             *)
LEMMA Delays ==
  ASSUME NEW c \in Counts \cup {PerMsec, 0}
  PROVE  /\ c \in Word /\ c + MaxGap < Modulus
         /\ Modulus \in Nat /\ MaxGap \in Nat
<1>1. Modulus \in Nat /\ MaxGap \in Nat
  BY TimerAssumption
<1>2. PerMsec \in Word /\ PerMsec + MaxGap < Modulus
  BY TimerAssumption
<1>3. CASE c = 0
  BY <1>1, <1>2, <1>3 DEF Word
<1>4. CASE c # 0
  BY <1>4, TimerAssumption DEF Word
<1>. QED
  BY <1>1, <1>3, <1>4

(* TimerInv holds at the start.                                                *)
THEOREM TimerInitInv == TimerInit => TimerInv
<1>1. 0 \in Word /\ MaxGap \in Nat /\ MaxMsec \in Nat
  BY Delays, TimerAssumption DEF Word
<1>. QED
  BY <1>1 DEF TimerInit, TimerInv, TimerTypeOK, Calling, Counting, NeverShort

(* Every way for a loop to start establishes TimerInv.                         *)
LEMMA Started ==
  ASSUME NEW k \in Kinds, NEW c \in Counts \cup {PerMsec}, Start(k, c),
         msec' \in 0 .. MaxMsec, Calling'
  PROVE  TimerInv'
<1>1. c \in Word /\ c \in Nat /\ MaxGap \in Nat
  BY Delays DEF Word
<1>2. TimerTypeOK'
  BY <1>1 DEF Start, TimerTypeOK
<1>3. Counting'
  BY <1>1 DEF Start, Counting, Rolls, Word
<1>4. NeverShort'
  BY <1>1 DEF Start, NeverShort
<1>. QED
  BY <1>2, <1>3, <1>4 DEF TimerInv

(* What a turn of a loop subtracts: the ticks that went by, less one when  *)
(* the counter rolled over.                                                *)
LEMMA TicksSeen ==
  ASSUME Suited, TimerTypeOK, NEW gap \in MinGap[kind] .. MaxGap
  PROVE  LET now == Plus(last, gap)
         IN  /\ now \in Word
             /\ \/ now = last + gap /\ Seen(kind, now) = gap
                \/ /\ now = last + gap - Modulus /\ gap > 0
                   /\ Seen(kind, now) = gap - 1
<1>. DEFINE now == Plus(last, gap)
<1>1. /\ last \in Word /\ gap \in Nat /\ gap < Modulus /\ Modulus \in Nat
      /\ kind \in Kinds /\ MinGap[kind] \in Nat /\ gap >= MinGap[kind]
  BY Delays, TimerAssumption DEF TimerTypeOK, Word
<1>2. gap > 0 \/ kind = "avs"
  BY <1>1, TimerAssumption DEF Suited
<1>3. CASE last + gap < Modulus
  <2>1. now = last + gap /\ now \in Word
    BY <1>1, <1>3 DEF Plus, Word
  <2>. QED
    BY <1>1, <1>2, <2>1 DEF Seen, Word
<1>4. CASE ~(last + gap < Modulus)
  <2>1. now = last + gap - Modulus /\ now \in Word /\ now < last /\ gap > 0
    BY <1>1, <1>4 DEF Plus, Word
  <2>2. Seen(kind, now) = gap - 1
    BY <1>1, <2>1 DEF Seen, Word
  <2>. QED
    BY <2>1, <2>2
<1>. QED
  BY <1>3, <1>4

LEMMA Turned ==
  ASSUME Suited, TimerInv, NEW gap \in MinGap[kind] .. MaxGap, Poll(gap)
  PROVE  TimerInv'
<1>. DEFINE seen == Seen(kind, last')
<1>1. /\ loop = "polling" /\ last' = Plus(last, gap) /\ tmo' = Minus(tmo, seen)
      /\ elapsed' = elapsed + gap
      /\ loop' = IF tmo' > tmo \/ tmo' = 0 THEN "returned" ELSE "polling"
      /\ UNCHANGED <<kind, cnt, msec>>
  BY DEF Poll
<1>2. /\ cnt \in Word /\ cnt + MaxGap < Modulus /\ Modulus \in Nat /\ MaxGap \in Nat
      /\ gap \in Nat /\ gap <= MaxGap
  BY Delays, TimerAssumption DEF TimerInv, TimerTypeOK
<1>3. tmo \in 1 .. cnt /\ elapsed = cnt - tmo + Rolls /\ last \in Word /\ elapsed \in Nat
  BY <1>1 DEF TimerInv, TimerTypeOK, Counting
<1>4. /\ last' \in Word
      /\ \/ last' = last + gap /\ seen = gap
         \/ last' = last + gap - Modulus /\ gap > 0 /\ seen = gap - 1
  BY <1>1, TicksSeen DEF TimerInv
<1>5. elapsed <= cnt - tmo + 1
  BY <1>2, <1>3 DEF Rolls, Word
<1>6. CASE seen < tmo
  <2>1. tmo' = tmo - seen /\ tmo' \in 1 .. cnt /\ loop' = "polling"
    BY <1>1, <1>2, <1>3, <1>4, <1>6 DEF Minus, Word
  <2>2. elapsed' = cnt - tmo' + Rolls'
    <3>1. CASE last' = last + gap /\ seen = gap
      BY <1>1, <1>2, <1>3, <2>1, <3>1 DEF Rolls, Word
    <3>2. CASE last' = last + gap - Modulus /\ gap > 0 /\ seen = gap - 1
      <4>1. elapsed <= last
        BY <1>2, <1>3, <1>4, <1>5, <3>2 DEF Word
      <4>2. elapsed' > last'
        BY <1>1, <1>2, <1>3, <3>2 DEF Word
      <4>3. Rolls = 0 /\ Rolls' = 1
        <5>1. /\ last \in Int /\ last' \in Int /\ elapsed \in Int /\ elapsed' \in Int
          BY <1>1, <1>2, <1>3, <1>4 DEF Word
        <5>2. ~(elapsed' <= last')
          BY <5>1, <4>2
        <5>. QED
          BY <4>1, <5>2 DEF Rolls
      <4>4. elapsed' = elapsed + gap /\ tmo' = tmo - (gap - 1) /\ elapsed = cnt - tmo + Rolls
        BY <1>1, <1>3, <2>1, <3>2
      <4>. QED
        BY <1>2, <1>3, <4>3, <4>4 DEF Word
    <3>. QED
      BY <1>4, <3>1, <3>2
  <2>3. elapsed' \in 0 .. cnt' + MaxGap
    BY <1>1, <1>2, <1>3, <1>5 DEF Word
  <2>4. tmo' \in Word
    BY <1>2, <2>1 DEF Word
  <2>5. TimerTypeOK'
    BY <1>1, <1>4, <2>1, <2>3, <2>4 DEF TimerInv, TimerTypeOK
  <2>. QED
    BY <1>1, <2>1, <2>2, <2>5 DEF TimerInv, Calling, Counting, NeverShort
<1>7. CASE seen >= tmo
  <2>1. loop' = "returned" /\ tmo' \in Word
    BY <1>1, <1>2, <1>3, <1>4, <1>7 DEF Minus, Word
  <2>2. elapsed' >= cnt /\ elapsed' <= cnt + MaxGap /\ elapsed' \in Nat
    BY <1>1, <1>2, <1>3, <1>4, <1>5, <1>7 DEF Rolls, Word
  <2>3. TimerTypeOK'
    BY <1>1, <1>2, <1>4, <2>1, <2>2 DEF TimerInv, TimerTypeOK, Word
  <2>. QED
    BY <1>1, <2>1, <2>2, <2>3 DEF TimerInv, Calling, Counting, NeverShort
<1>. QED
  BY <1>2, <1>3, <1>4, <1>6, <1>7 DEF Word

(* Every step keeps TimerInv.                                                  *)
THEOREM TimerNextInv == Suited /\ TimerInv /\ [TimerNext]_timerVars => TimerInv'
<1>. SUFFICES ASSUME Suited, TimerInv, [TimerNext]_timerVars PROVE TimerInv'
  OBVIOUS
<1>1. ASSUME NEW k \in Kinds, NEW c \in Counts, Cndelay(k, c) PROVE TimerInv'
  BY <1>1, Started DEF Cndelay, Calling, TimerInv, TimerTypeOK
<1>2. ASSUME NEW ms \in 1 .. MaxMsec, Mdelay(ms) PROVE TimerInv'
  <2>1. ms - 1 \in 0 .. MaxMsec
    BY TimerAssumption
  <2>. QED
    BY <1>2, <2>1, Started DEF Mdelay, Calling
<1>3. CASE MdelayNext
  <2>1. msec' \in 0 .. MaxMsec
    BY <1>3, TimerAssumption DEF MdelayNext, TimerInv, TimerTypeOK
  <2>2. "timer" \in Kinds
    BY <1>3 DEF MdelayNext, TimerInv, Calling, TimerTypeOK
  <2>. QED
    BY <1>3, <2>1, <2>2, Started DEF MdelayNext, Calling
<1>4. CASE Turn
  BY <1>4, Turned DEF Turn
<1>5. CASE UNCHANGED timerVars
  BY <1>5 DEF timerVars, TimerInv, TimerTypeOK, Calling, Counting, Rolls, NeverShort
<1>. QED
  BY <1>1, <1>2, <1>3, <1>4, <1>5 DEF TimerNext

LEMMA TimerInvariance == Suited => (TimerSpec => []TimerInv)
<1>1. ASSUME Suited PROVE TimerSpec => []TimerInv
  <2>1. TimerInv /\ [TimerNext]_timerVars => TimerInv'
    BY <1>1, TimerNextInv
  <2>. QED
    BY <2>1, TimerInitInv, PTL DEF TimerSpec
<1>. QED
  BY <1>1

(* The loops' words stay words, and no delay of timer.c is longer than     *)
(* asked by more than one turn of the loop.                                *)
THEOREM TimerTypeCorrect == Suited => (TimerSpec => []TimerTypeOK)
BY TimerInvariance, PTL DEF TimerInv

(* No delay of timer.c is too short, wherever the counter stood.           *)
THEOREM NeverShortHolds == Suited => (TimerSpec => []NeverShort)
BY TimerInvariance, PTL DEF TimerInv

-----------------------------------------------------------------------------
(* How long a delay may go on.                                             *)

(* What a loop that polls can still see go by, the tick that a rollover    *)
(* loses included; and the calls mdelay has still to make.                 *)
TicksLeft == IF loop = "polling" THEN cnt + 1 - elapsed ELSE 0

WaitLeft == msec * (PerMsec + 2) + TicksLeft

(* The wait that is left is a natural number, zero just when nobody waits. *)
WaitCounted == WaitLeft \in Nat /\ (WaitLeft = 0 <=> loop # "polling" /\ msec = 0)

(* A turn of a loop uses up a delay if the counter has moved at all, a     *)
(* turn in which it has not leaves it, and each call of mdelay's uses up   *)
(* its millisecond.                                                        *)
WaitRunsOut ==
  [][/\ \A gap \in MinGap[kind] .. MaxGap :
          Poll(gap) => IF gap > 0 THEN WaitLeft' < WaitLeft ELSE WaitLeft' = WaitLeft
     /\ MdelayNext => WaitLeft' < WaitLeft
     /\ \A k \in Kinds, c \in Counts : Cndelay(k, c) => WaitLeft' <= c + 1
     /\ \A ms \in 1 .. MaxMsec : Mdelay(ms) => WaitLeft' < ms * (PerMsec + 2)]_timerVars

LEMMA TicksType ==
  ASSUME TimerInv
  PROVE  /\ TicksLeft \in Nat /\ (TicksLeft = 0 <=> loop # "polling")
         /\ loop = "polling" => elapsed \in Nat /\ cnt \in Nat /\ elapsed <= cnt
         /\ PerMsec \in Nat /\ msec \in Nat
         /\ msec * (PerMsec + 2) \in Nat
<1>1. cnt \in Nat /\ elapsed \in Nat /\ PerMsec \in Nat /\ msec \in Nat /\ last \in Nat
  <2>1. cnt \in Word /\ PerMsec \in Word /\ Modulus \in Nat
    BY Delays, TimerAssumption DEF TimerInv, TimerTypeOK
  <2>2. elapsed \in 0 .. cnt + MaxGap /\ msec \in 0 .. MaxMsec /\ last \in Word
    BY DEF TimerInv, TimerTypeOK
  <2> QED  BY <2>1, <2>2, TimerAssumption DEF Word
<1>2. loop = "polling" => elapsed <= cnt
  <2> SUFFICES ASSUME loop = "polling" PROVE elapsed <= cnt
    OBVIOUS
  <2>1. tmo \in 1 .. cnt /\ elapsed = cnt - tmo + Rolls /\ Rolls \in {0, 1}
    BY DEF TimerInv, Counting, Rolls
  <2> QED  BY <1>1, <2>1
<1>3. msec * (PerMsec + 2) \in Nat
  <2>1. PICK p \in Nat : p = PerMsec + 2
    BY <1>1
  <2>2. msec * p \in Nat
    BY <1>1
  <2> QED  BY <2>1, <2>2
<1> QED  BY <1>1, <1>2, <1>3 DEF TicksLeft

LEMMA WaitType == TimerInv => WaitCounted
<1> SUFFICES ASSUME TimerInv PROVE WaitCounted
  OBVIOUS
<1>1. /\ TicksLeft \in Nat /\ (TicksLeft = 0 <=> loop # "polling") /\ msec \in Nat
      /\ PerMsec \in Nat /\ msec * (PerMsec + 2) \in Nat
  BY TicksType
<1>2. PICK n \in Nat : n = msec * (PerMsec + 2)
  BY <1>1
<1>3. n = 0 <=> msec = 0
  <2>1. CASE msec = 0
    BY <1>1, <1>2, <2>1
  <2>2. CASE msec # 0
    <3>1. PICK m \in Nat : msec = m + 1
      <4>1. msec - 1 \in Nat /\ msec = (msec - 1) + 1
        BY <1>1, <2>2
      <4> QED  BY <4>1
    <3>2. n = m * (PerMsec + 2) + PerMsec + 2 /\ m * (PerMsec + 2) \in Nat
      BY <1>1, <1>2, <3>1
    <3> QED  BY <1>1, <2>2, <3>2
  <2> QED  BY <2>1, <2>2
<1> QED  BY <1>1, <1>2, <1>3 DEF WaitCounted, WaitLeft

TicksCounted == TicksLeft \in Nat

LEMMA TicksThen == TimerInv' => TicksCounted'
<1>1. TimerInv => TicksCounted
  BY TicksType DEF TicksCounted
<1> QED  BY <1>1, PTL

(* A loop starts with the ticks it was asked for, and one for a rollover.  *)
LEMMA StartTicks ==
  ASSUME NEW k, NEW c \in Nat, Start(k, c)
  PROVE  TicksLeft' \in Nat /\ TicksLeft' <= c + 1
BY DEF Start, TicksLeft

LEMMA WaitLower ==
  ASSUME Suited, TimerInv, TimerInv'
  PROVE  /\ \A gap \in MinGap[kind] .. MaxGap :
              Poll(gap) => IF gap > 0 THEN WaitLeft' < WaitLeft ELSE WaitLeft' = WaitLeft
         /\ MdelayNext => WaitLeft' < WaitLeft
         /\ \A k \in Kinds, c \in Counts : Cndelay(k, c) => WaitLeft' <= c + 1
         /\ \A ms \in 1 .. MaxMsec : Mdelay(ms) => WaitLeft' < ms * (PerMsec + 2)
<1>1. /\ TicksLeft \in Nat /\ msec \in Nat /\ PerMsec \in Nat /\ msec * (PerMsec + 2) \in Nat
      /\ loop = "polling" => elapsed \in Nat /\ cnt \in Nat /\ elapsed <= cnt
  BY TicksType
<1>2. PICK t \in Nat, u \in Nat : t = TicksLeft /\ u = TicksLeft'
  BY <1>1, TicksThen DEF TicksCounted
<1>3. PICK w, x : /\ w = WaitLeft /\ w = msec * (PerMsec + 2) + t
                  /\ x = WaitLeft' /\ x = msec' * (PerMsec + 2) + u
  BY <1>2 DEF WaitLeft, TicksLeft
<1>4. ASSUME NEW gap \in MinGap[kind] .. MaxGap, Poll(gap)
      PROVE  IF gap > 0 THEN WaitLeft' < WaitLeft ELSE WaitLeft' = WaitLeft
  <2>1. gap \in Nat
    BY TimerAssumption DEF TimerInv, TimerTypeOK
  <2>2. loop = "polling" /\ elapsed' = elapsed + gap /\ msec' = msec /\ cnt' = cnt
    BY <1>4 DEF Poll
  <2>3. TicksLeft = cnt + 1 - elapsed
    BY <2>2 DEF TicksLeft
  <2>4. TicksLeft' = IF loop' = "polling" THEN cnt + 1 - (elapsed + gap) ELSE 0
    BY <2>2 DEF TicksLeft
  <2>5. CASE gap > 0
    <3>1. u < t
      BY <1>1, <1>2, <2>1, <2>2, <2>3, <2>4, <2>5
    <3>2. PICK n \in Nat : w = n + t /\ x = n + u
      BY <1>1, <1>3, <2>2
    <3>3. x < w
      BY <3>1, <3>2
    <3> QED  BY <1>3, <2>5, <3>3
  <2>6. CASE gap = 0
    <3>1. loop' = "polling"
      <4>1. Seen(kind, Plus(last, gap)) = 0
        BY <2>6, TicksSeen DEF TimerInv
      <4>2. tmo \in Nat /\ tmo > 0
        <5>1. tmo \in 1 .. cnt
          BY <2>2 DEF TimerInv, Counting
        <5> QED  BY <1>1, <2>2, <5>1
      <4>3. Minus(tmo, 0) = tmo
        BY <4>2 DEF Minus
      <4> QED  BY <4>1, <4>2, <4>3, <1>4 DEF Poll
    <3>2. u = t
      BY <1>1, <1>2, <2>2, <2>3, <2>4, <2>6, <3>1
    <3> QED  BY <1>3, <2>2, <2>6, <3>2
  <2> QED  BY <2>1, <2>5, <2>6
<1>5. ASSUME NEW m \in Nat, msec' = m, Start("timer", PerMsec)
      PROVE  WaitLeft' < (m + 1) * (PerMsec + 2)
  <2>1. u <= PerMsec + 1
    BY <1>1, <1>2, <1>5, StartTicks
  <2>2. PICK n \in Nat : n = m * (PerMsec + 2)
    <3>1. PICK p \in Nat : p = PerMsec + 2
      BY <1>1
    <3> QED  BY <3>1
  <2>3. (m + 1) * (PerMsec + 2) = n + PerMsec + 2
    BY <1>1, <2>2
  <2>4. x = n + u
    BY <1>3, <1>5, <2>2
  <2>5. x < (m + 1) * (PerMsec + 2)
    BY <1>1, <2>1, <2>3, <2>4
  <2> QED  BY <1>3, <2>5
<1>6. ASSUME MdelayNext PROVE WaitLeft' < WaitLeft
  <2>1. msec' = msec - 1 /\ msec > 0 /\ Start("timer", PerMsec) /\ loop = "returned"
    BY <1>6 DEF MdelayNext
  <2>2. msec - 1 \in Nat /\ (msec - 1) + 1 = msec
    BY <1>1, <2>1
  <2>3. WaitLeft' < msec * (PerMsec + 2)
    BY <1>5, <2>1, <2>2
  <2>4. t = 0
    BY <1>2, <2>1 DEF TicksLeft
  <2>5. w = msec * (PerMsec + 2)
    BY <1>1, <1>3, <2>4
  <2> QED  BY <1>3, <2>3, <2>5
<1>7. ASSUME NEW k \in Kinds, NEW c \in Counts, Cndelay(k, c) PROVE WaitLeft' <= c + 1
  <2>1. msec' = 0 /\ Start(k, c) /\ c \in Nat
    BY <1>7, TimerAssumption DEF Cndelay, Word
  <2>2. u <= c + 1
    BY <1>2, <2>1, StartTicks
  <2>3. 0 * (PerMsec + 2) = 0
    BY <1>1
  <2>4. x = u
    BY <1>3, <2>1, <2>3
  <2> QED  BY <1>3, <2>2, <2>4
<1>8. ASSUME NEW ms \in 1 .. MaxMsec, Mdelay(ms) PROVE WaitLeft' < ms * (PerMsec + 2)
  <2>1. msec' = ms - 1 /\ Start("timer", PerMsec)
    BY <1>8 DEF Mdelay
  <2>2. ms - 1 \in Nat /\ (ms - 1) + 1 = ms
    BY TimerAssumption
  <2> QED  BY <1>5, <2>1, <2>2
<1> QED  BY <1>4, <1>6, <1>7, <1>8

(* A delay of c ticks is over after at most c + 1 turns in which the       *)
(* counter has moved, and mdelay after PerMsec + 2 for each millisecond.   *)
(* DelayEnds adds only that the counter keeps moving between some reads.   *)
THEOREM WaitRunsOutHolds == Suited => (TimerSpec => []WaitCounted /\ WaitRunsOut)
<1> DEFINE Step ==
      /\ \A gap \in MinGap[kind] .. MaxGap :
           Poll(gap) => IF gap > 0 THEN WaitLeft' < WaitLeft ELSE WaitLeft' = WaitLeft
      /\ MdelayNext => WaitLeft' < WaitLeft
      /\ \A k \in Kinds, c \in Counts : Cndelay(k, c) => WaitLeft' <= c + 1
      /\ \A ms \in 1 .. MaxMsec : Mdelay(ms) => WaitLeft' < ms * (PerMsec + 2)
<1>1. Suited /\ TimerInv /\ TimerInv' => [Step]_timerVars
  BY WaitLower
<1> HIDE DEF Step
<1>2. ASSUME Suited PROVE TimerSpec => []WaitCounted /\ [][Step]_timerVars
  <2>1. TimerInv /\ TimerInv' => [Step]_timerVars
    BY <1>1, <1>2
  <2>2. TimerSpec => []TimerInv
    BY <1>2, TimerInvariance
  <2> QED  BY <2>1, <2>2, WaitType, PTL
<1> QED  BY <1>2 DEF Step, WaitRunsOut
=============================================================================
