------------------------------- MODULE Power -------------------------------
(***************************************************************************)
(* Clock and voltage bring-up: axp209.c, clock.c, and the part of the      *)
(* SPL's main() and of U-Boot's s_init() that uses them, which is the same *)
(* code run once by each stage.  The board may be reset at any moment; the *)
(* power chip keeps its registers.                                         *)
(*                                                                         *)
(* A register access is one step here, with the outcomes RegisterBus       *)
(* allows (and Twi implements).                                            *)
(***************************************************************************)
EXTENDS Integers, Sequences

CONSTANT FirstRegisters   \* what the chip's registers may hold at power-on

VARIABLES
  stage,         \* "spl" or "uboot"
  pc,            \* the step of the bring-up about to be taken
  power_failed,  \* main's and s_init's flag
  current,       \* the byte a read-modify-write works on
  source,        \* the CPU's clock: "osc24m" or "pll1"
  pll1,          \* PLL1 in MHz
  axi, ahb, apb0,  \* clock dividers, each bus run from the one before
  regs,          \* the chip's registers
  doubt          \* writes that failed since an access last succeeded

clocks == <<source, pll1, axi, ahb, apb0>>
vars   == <<stage, pc, power_failed, current, clocks, regs, doubt>>

RegNames == {"DCDC2", "DCDC3", "LDO24", "LDO3"}
Byte     == 0 .. 255
Writes   == [reg : RegNames, val : Byte]

ASSUME RegistersAssumption == FirstRegisters \subseteq [RegNames -> Byte]

-----------------------------------------------------------------------------
(* The numbers of axp209.c and clock.c.                                    *)

(* The voltages main() and s_init() ask for, in millivolts.                *)
Asked == [DCDC2 |-> 1400, DCDC3 |-> 1250, LDO2 |-> 3000, LDO3 |-> 2800, LDO4 |-> 2800]

(* A voltage as a register value: "cfg = (mvolt - base) / step", clamped.  *)
Cfg(mvolt, base, step, top) ==
  IF mvolt < base THEN 0
  ELSE IF (mvolt - base) \div step > top THEN top
  ELSE (mvolt - base) \div step

Dcdc2 == Cfg(Asked.DCDC2, 700, 25, 63)
Dcdc3 == Cfg(Asked.DCDC3, 700, 25, 127)
Ldo2  == Cfg(Asked.LDO2, 1800, 100, 15)
Ldo3  == Cfg(Asked.LDO3, 700, 25, 127)

vindex == <<1250, 1300, 1400, 1500, 1600, 1700, 1800, 1900, 2000, 2500,
            2700, 2800, 3000, 3100, 3200, 3300>>

(* "for (cfg = 0; mvolt < vindex[cfg] && cfg < 15; cfg++)": the first      *)
(* voltage that does not exceed the request, in a table that rises.        *)
Ldo4Cfg(mvolt) ==
  IF \E c \in 0 .. 15 : vindex[c + 1] <= mvolt
    THEN CHOOSE c \in 0 .. 15 :
           vindex[c + 1] <= mvolt /\ \A d \in 0 .. c - 1 : vindex[d + 1] > mvolt
    ELSE 15

Ldo4 == Ldo4Cfg(Asked.LDO4)

High(byte) == byte \div 16
Low(byte)  == byte % 16

pll1_para == <<384, 768, 960, 1008, 1056, 1104, 1152, 1200, 1248, 1296, 1344,
               1392, 1440, 1488>>

(* The first frequency of the table that is not below the one asked for.   *)
Frequency(mhz) ==
  pll1_para[CHOOSE i \in 1 .. Len(pll1_para) :
              pll1_para[i] >= mhz /\ \A j \in 1 .. i - 1 : pll1_para[j] < mhz]

RDiv(a, b) == (a + b - 1) \div b

AxiDiv(mhz) == RDiv(mhz, 432)

(* The AHB divider the register can hold for the ratio wanted.             *)
AhbDiv(mhz) ==
  LET ratio == RDiv(mhz \div AxiDiv(mhz), 204)
  IN  IF ratio > 4 THEN 8 ELSE IF ratio > 2 THEN 4 ELSE IF ratio > 1 THEN 2 ELSE 1

CpuClock == IF source = "osc24m" THEN 24 ELSE pll1
AxiClock == CpuClock \div axi
AhbClock == AxiClock \div ahb
Apb0Clock == AhbClock \div apb0

-----------------------------------------------------------------------------
Steps == {"clock", "clock_pll", "clock_cpu", "init", "dcdc2", "step", "dcdc3",
          "dcdc3_read", "ldo2", "ldo2_write", "ldo3", "ldo4", "ldo4_write",
          "pll1", "pll1_div", "pll1_cfg", "pll1_cpu", "done"}

TypeOK ==
  /\ stage \in {"spl", "uboot"} /\ pc \in Steps
  /\ power_failed \in BOOLEAN
  /\ current \in Byte
  /\ source \in {"osc24m", "pll1"} /\ pll1 \in {pll1_para[1], Frequency(1008)}
  /\ axi \in 1 .. 4 /\ ahb \in {1, 2, 4, 8} /\ apb0 \in {1, 2, 4, 8}
  /\ regs \in [RegNames -> Byte]
  /\ doubt \subseteq Writes

Init ==
  /\ stage = "spl" /\ pc = "clock" /\ power_failed = FALSE /\ current = 0
  /\ source = "osc24m" /\ pll1 = pll1_para[1] /\ axi = 1 /\ ahb = 1 /\ apb0 = 1
  /\ regs \in FirstRegisters /\ doubt = {}

-----------------------------------------------------------------------------
(* Register accesses.                                                      *)

(* axp209_read: a read that succeeds settles every write in doubt.         *)
Read(reg) ==
  /\ current' = regs[reg]
  /\ doubt' = {}
  /\ UNCHANGED regs

(* axp209_write.                                                           *)
Write(reg, byte) ==
  /\ regs' = [regs EXCEPT ![reg] = byte]
  /\ doubt' = {}

ReadFails == UNCHANGED <<regs, doubt>>

WriteFails(reg, byte) ==
  /\ regs' \in {regs, [regs EXCEPT ![reg] = byte]}
  /\ doubt' = doubt \cup {[reg |-> reg, val |-> byte]}

(* A write reported as failed gets through after all.                      *)
Lands ==
  /\ \E w \in doubt : regs' = [regs EXCEPT ![w.reg] = w.val]
  /\ UNCHANGED <<stage, pc, power_failed, current, clocks, doubt>>

Passed(next) == pc' = next /\ UNCHANGED power_failed

(* Mutant: "=" for "|=".                                                   *)
FailedForgotten(next) == pc' = next /\ power_failed' = (pc # "dcdc2")

(* "power_failed |= rc".                                                   *)
Failed(next) == pc' = next /\ power_failed' = TRUE

-----------------------------------------------------------------------------
(* clock_init_safe: the CPU runs from the oscillator while PLL1 is set.    *)

ClockSafe ==
  /\ pc = "clock" /\ pc' = "clock_pll"
  /\ source' = "osc24m" /\ axi' = 1 /\ ahb' = 2 /\ apb0' = 1
  /\ UNCHANGED <<stage, power_failed, current, pll1, regs, doubt>>

ClockPll ==
  /\ pc = "clock_pll" /\ pc' = "clock_cpu"
  /\ pll1' = pll1_para[1]
  /\ UNCHANGED <<stage, power_failed, current, source, axi, ahb, apb0, regs, doubt>>

ClockCpu ==
  /\ pc = "clock_cpu" /\ pc' = "init"
  /\ source' = "pll1"
  /\ UNCHANGED <<stage, power_failed, current, pll1, axi, ahb, apb0, regs, doubt>>

-----------------------------------------------------------------------------
(* axp209_init to axp209_set_ldo4.                                         *)

(* The chip's version is read to see that it answers.                      *)
AxpInit ==
  /\ pc = "init"
  /\ \/ doubt' = {} /\ Passed("dcdc2") /\ UNCHANGED regs
     \/ ReadFails /\ Failed("dcdc2")
  /\ UNCHANGED <<stage, current, clocks>>

(* axp209_set_dcdc2 reads where the voltage stands ...                     *)
SetDcdc2 ==
  /\ pc = "dcdc2"
  /\ \/ /\ Read("DCDC2")
        /\ Passed(IF regs["DCDC2"] = Dcdc2 THEN "dcdc3" ELSE "step")
     \/ ReadFails /\ Failed("dcdc3") /\ UNCHANGED current
  /\ UNCHANGED <<stage, clocks>>

(* Mutants: a step that does not move, and one of the wrong direction.     *)
Dcdc2Stuck == current

Dcdc2Away == IF current < Dcdc2 THEN current - 1 ELSE current + 1

(* ... and moves it by one unit at a time.                                 *)
Dcdc2Next == IF current < Dcdc2 THEN current + 1 ELSE current - 1

StepDcdc2 ==
  /\ pc = "step"
  /\ \/ Write("DCDC2", Dcdc2Next) /\ Passed("dcdc2")
     \/ WriteFails("DCDC2", Dcdc2Next) /\ Failed("dcdc3")
  /\ UNCHANGED <<stage, current, clocks>>

(* axp209_set_dcdc3 writes, and reads back whatever became of it.          *)
SetDcdc3 ==
  /\ pc = "dcdc3"
  /\ \/ Write("DCDC3", Dcdc3) /\ Passed("dcdc3_read")
     \/ WriteFails("DCDC3", Dcdc3) /\ Failed("dcdc3_read")
  /\ UNCHANGED <<stage, current, clocks>>

ReadDcdc3 ==
  /\ pc = "dcdc3_read"
  /\ \/ doubt' = {} /\ Passed("ldo2") /\ UNCHANGED regs
     \/ ReadFails /\ Failed("ldo2")
  /\ UNCHANGED <<stage, current, clocks>>

(* LDO2 and LDO4 share a register: each is set by reading it and writing   *)
(* it back with one half replaced.                                         *)
ReadLdo24(at, write, next) ==
  /\ pc = at
  /\ \/ Read("LDO24") /\ Passed(write)
     \/ ReadFails /\ Failed(next) /\ UNCHANGED current
  /\ UNCHANGED <<stage, clocks>>

WriteLdo24(at, byte, next) ==
  /\ pc = at
  /\ \/ Write("LDO24", byte) /\ Passed(next)
     \/ WriteFails("LDO24", byte) /\ Failed(next)
  /\ UNCHANGED <<stage, current, clocks>>

(* Mutant: the other half is cleared.                                      *)
Ldo2ByteAlone == Ldo2 * 16

Ldo2Byte == Low(current) + Ldo2 * 16
Ldo4Byte == High(current) * 16 + Ldo4

ReadForLdo2 == ReadLdo24("ldo2", "ldo2_write", "ldo3")
WriteLdo2 == WriteLdo24("ldo2_write", Ldo2Byte, "ldo3")

SetLdo3 ==
  /\ pc = "ldo3"
  /\ \/ Write("LDO3", Ldo3) /\ Passed("ldo4")
     \/ WriteFails("LDO3", Ldo3) /\ Failed("ldo4")
  /\ UNCHANGED <<stage, current, clocks>>

ReadForLdo4 == ReadLdo24("ldo4", "ldo4_write", "pll1")
WriteLdo4 == WriteLdo24("ldo4_write", Ldo4Byte, "pll1")

-----------------------------------------------------------------------------
(* "if (!power_failed) clock_set_pll1(1008000000)".                        *)

SetPll1 ==
  /\ pc = "pll1"
  /\ IF power_failed
       THEN pc' = "done" /\ UNCHANGED clocks
       ELSE /\ pc' = "pll1_div"
            /\ source' = "osc24m" /\ axi' = 1 /\ ahb' = 2 /\ apb0' = 1
            /\ UNCHANGED pll1
  /\ UNCHANGED <<stage, power_failed, current, regs, doubt>>

(* Mutant: the CPU is switched to PLL1 before its clock dividers are set.  *)
Pll1DividersLate ==
  /\ pc = "pll1_div" /\ pc' = "pll1_cfg"
  /\ source' = "pll1"
  /\ UNCHANGED <<stage, power_failed, current, axi, ahb, apb0, pll1, regs, doubt>>

Pll1Dividers ==
  /\ pc = "pll1_div" /\ pc' = "pll1_cfg"
  /\ axi' = AxiDiv(Frequency(1008)) /\ ahb' = AhbDiv(Frequency(1008)) /\ apb0' = 2
  /\ UNCHANGED <<stage, power_failed, current, source, pll1, regs, doubt>>

Pll1Configure ==
  /\ pc = "pll1_cfg" /\ pc' = "pll1_cpu"
  /\ pll1' = Frequency(1008)
  /\ UNCHANGED <<stage, power_failed, current, source, axi, ahb, apb0, regs, doubt>>

Pll1Cpu ==
  /\ pc = "pll1_cpu" /\ pc' = "done"
  /\ source' = "pll1"
  /\ UNCHANGED <<stage, power_failed, current, pll1, axi, ahb, apb0, regs, doubt>>

(* The SPL has loaded U-Boot, which starts over.                           *)
EnterUBoot ==
  /\ stage = "spl" /\ pc = "done"
  /\ stage' = "uboot" /\ pc' = "clock" /\ power_failed' = FALSE
  /\ UNCHANGED <<current, clocks, regs, doubt>>

(* The reset button (external): the processor and its I2C controller start *)
(* over, the power chip does not notice.                                   *)
Reset ==
  /\ stage' = "spl" /\ pc' = "clock" /\ power_failed' = FALSE /\ current' = 0
  /\ source' = "osc24m" /\ pll1' = pll1_para[1] /\ axi' = 1 /\ ahb' = 1 /\ apb0' = 1
  /\ doubt' = {}
  /\ UNCHANGED regs

-----------------------------------------------------------------------------
BringUp ==
  \/ ClockSafe \/ ClockPll \/ ClockCpu
  \/ AxpInit \/ SetDcdc2 \/ StepDcdc2 \/ SetDcdc3 \/ ReadDcdc3
  \/ ReadForLdo2 \/ WriteLdo2 \/ SetLdo3 \/ ReadForLdo4 \/ WriteLdo4
  \/ SetPll1 \/ Pll1Dividers \/ Pll1Configure \/ Pll1Cpu

Next == BringUp \/ EnterUBoot \/ Lands \/ Reset

Spec == Init /\ [][Next]_vars

(* An access always returns (Twi implements RegisterBus).                  *)
FairSpec == Spec /\ WF_vars(BringUp)

-----------------------------------------------------------------------------
(* Properties.                                                             *)

(* The voltages the chip's registers stand for.                            *)
Held ==
  [DCDC2 |-> 700 + 25 * regs["DCDC2"], DCDC3 |-> 700 + 25 * regs["DCDC3"],
   LDO2  |-> 1800 + 100 * High(regs["LDO24"]), LDO3 |-> 700 + 25 * regs["LDO3"],
   LDO4  |-> vindex[Low(regs["LDO24"]) + 1]]

(* The processor runs above its safe frequency only while the chip holds   *)
(* the voltages that were asked for, however many accesses failed, and     *)
(* whatever writes got through late.  All but LDO4: the loop that looks    *)
(* for its voltage ends at the lowest of the table, 1250 mV, where 2800    *)
(* were asked for; and that is what it is held at.                         *)
FastOnlyWithPower ==
  CpuClock > pll1_para[1] =>
    /\ \A out \in {"DCDC2", "DCDC3", "LDO2", "LDO3"} : Held[out] = Asked[out]
    /\ Held["LDO4"] = 1250
    /\ doubt = {}

(* No output jumps.  The core voltage moves one unit at a time, always     *)
(* towards its goal; and setting one of the two outputs that share a       *)
(* register never disturbs the other, even when a stale copy of the        *)
(* register lands late.                                                    *)
CoreMovesByOne ==
  LET old == regs["DCDC2"]
      new == regs'["DCDC2"]
  IN  new # old => \/ new = old + 1 /\ old < Dcdc2
                   \/ new = old - 1 /\ old > Dcdc2
OneHalfKept ==
  \/ High(regs'["LDO24"]) = High(regs["LDO24"])
  \/ Low(regs'["LDO24"]) = Low(regs["LDO24"])
OutputsAreGentle == [][CoreMovesByOne /\ OneHalfKept]_vars

(* The setting of clock_init_safe: all dividers at their names' values     *)
(* (AXI_DIV_1, AHB_DIV_2, APB0_DIV_1) and the CPU on PLL1 at 384 MHz.      *)
SafeSetting ==
  /\ source = "pll1" /\ pll1 = pll1_para[1]
  /\ axi = 1 /\ ahb = 2 /\ apb0 = 1

(* At no instant, the moments of switching included, does a bus run above  *)
(* the limit clock_set_pll1 notes for it ("Max 450MHz", "Max 250MHz", "Max *)
(* 150MHz"), except APB0 in the setting clock_init_safe calls safe: there  *)
(* it runs at 192 MHz until clock_set_pll1, and for good if that is never  *)
(* called because a voltage was refused.                                   *)
BusClocksInRange ==
  /\ AxiClock <= 450 /\ AhbClock <= 250
  /\ Apb0Clock <= 150 \/ (SafeSetting /\ Apb0Clock = 192)

(* The stepping of the core voltage ends.                                  *)
SteppingEnds == pc \in {"dcdc2", "step"} ~> pc \notin {"dcdc2", "step"}
=============================================================================
