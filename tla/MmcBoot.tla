------------------------------- MODULE MmcBoot -------------------------------
(***************************************************************************)
(* From sunxi_mmc_init to the jump into U-Boot: mmc_start_init,            *)
(* mmc_startup, sd_change_freq, mmc_bread (pcduino_spl/mmc.c) and          *)
(* spl_mmc_load_image (pcduino_spl/spl.c), against a card that follows the *)
(* SD state diagram.                                                       *)
(*                                                                         *)
(* A command is one step here.  Its outcomes are those MmcCommand allows   *)
(* (and MmcHost implements): the driver gets 0 or -1, the card may or may  *)
(* not have carried the command out when the driver gets -1, and with      *)
(* silent also when it gets 0.                                             *)
(***************************************************************************)
EXTENDS Integers

CONSTANTS
  Kinds,         \* what may be in the slot
  OpTries,       \* turns of the ACMD41 loop (1000 in the code)
  ImageSectors,  \* size of the U-Boot image
  FirstSector,   \* where it starts on the card
  CardSectors,   \* capacity of the card
  BMax           \* mmc->b_max, blocks per read command

ASSUME BootAssumption ==
  /\ Kinds \subseteq {"none", "mmc", "sd1", "sd2", "sdhc"}
  /\ OpTries \in Nat
  /\ ImageSectors \in Nat \ {0} /\ FirstSector \in Nat \ {0}
  /\ CardSectors \in Nat
  /\ BMax \in Nat \ {0}

VARIABLES
  silent,         \* whether a polling budget may run out unnoticed (see MmcHost)
  pc,             \* the command about to be sent, or where the boot ended
  tries,          \* counter of the loop the driver is in
  v2,             \* mmc->version = SD_VERSION_2
  high_capacity,  \* mmc->high_capacity
  lba,            \* mmc->lba: 0 until mmc_set_capacity
  has_init,       \* mmc->has_init
  fatal_err,      \* mmchost->fatal_err
  wide,           \* mmc->card_caps & MMC_MODE_4BIT
  width,          \* the controller's bus width
  done,           \* blocks mmc_bread has read
  mem,            \* for each image block, the sector found in memory
  mmc_probed,     \* history: CMD1 was tried
  card            \* the card: its kind, state, bus width, and ACMD flag

drv  == <<silent, pc, tries, v2, high_capacity, lba, has_init, fatal_err, wide, width,
          done, mem, mmc_probed>>
vars == <<drv, card>>

loading == <<done, mem>>

IsSD  == card.kind \in {"sd1", "sd2", "sdhc"}
Image == 0 .. ImageSectors - 1
NoSector == -1

(* Nothing comes to the branch for MMC cards, which is not modelled.       *)
TypeOK ==
  /\ pc \in {"start", "idle", "if_cond", "app_op", "op_cond", "cid", "rca", "csd", "select",
             "app_scr", "scr", "check", "switch", "app_bus", "bus", "clock", "load",
             "read", "jumped", "hang"}
  /\ tries \in 0 .. OpTries \cup 0 .. 4
  /\ v2 \in BOOLEAN /\ high_capacity \in BOOLEAN
  /\ lba \in 0 .. CardSectors
  /\ silent \in BOOLEAN /\ has_init \in BOOLEAN /\ fatal_err \in BOOLEAN
  /\ ~mmc_probed
  /\ wide \in BOOLEAN /\ width \in {1, 4}
  /\ done \in 0 .. ImageSectors
  /\ mem \in [Image -> {NoSector} \cup Nat]
  /\ card \in [kind : Kinds, state : {"idle", "ready", "ident", "stby", "tran"},
               bus : {1, 4}, app : BOOLEAN]

(* The boot ROM has just read the SPL from the card, if there is one.      *)
Init ==
  /\ silent \in BOOLEAN
  /\ pc = "start" /\ tries = 0 /\ v2 = FALSE /\ high_capacity = FALSE
  /\ lba = 0 /\ has_init = FALSE /\ fatal_err = FALSE
  /\ wide = FALSE /\ width = 1
  /\ done = 0 /\ mem = [i \in Image |-> NoSector] /\ mmc_probed = FALSE
  /\ card \in [kind : Kinds, state : {"tran"}, bus : {1}, app : {FALSE}]

-----------------------------------------------------------------------------
(* One mmc_send_cmd.                                                       *)

(* What can come of a command the card would accept (legal) or not: the    *)
(* value returned, whether the card carried it out, and whether            *)
(* cmd->response was written.                                              *)
Outcomes(legal) ==
  LET outcome(r, e, f) == [ret |-> r, exec |-> e, fresh |-> f]
  IN  {outcome(-1, FALSE, FALSE)}
      \cup (IF legal /\ ~fatal_err
              THEN {outcome(0, TRUE, TRUE), outcome(-1, TRUE, FALSE)} ELSE {})
      \cup (IF silent /\ ~fatal_err THEN {outcome(0, FALSE, FALSE)} ELSE {})
      \cup (IF silent /\ legal /\ ~fatal_err THEN {outcome(0, TRUE, FALSE)} ELSE {})

(* The card carries a command out: it moves to a new state and forgets a   *)
(* pending CMD55.                                                          *)
CardMoves(o, state) ==
  card' = IF o.exec THEN [card EXCEPT !.state = state, !.app = FALSE] ELSE card

(* Data crosses the bus only if both ends use as many lines.               *)
DataLegal == card.state = "tran" /\ width = card.bus

(* sunxi_mmc_init failed.  main() ignores it and loads the image anyway.   *)
InitFails == pc' = "load" /\ has_init' = FALSE

(* The result a command leaves: the next one on success, else the end of   *)
(* the initialisation.                                                     *)
Continue(o, next) ==
  IF o.ret = 0 THEN pc' = next /\ UNCHANGED has_init ELSE InitFails

(* A command whose response the driver does not interpret.                 *)
Command(at, legal, state, next) ==
  /\ pc = at
  /\ \E o \in Outcomes(legal) : CardMoves(o, state) /\ Continue(o, next)
  /\ UNCHANGED <<tries, v2, high_capacity, lba, silent, fatal_err, wide, width, loading, mmc_probed>>

(* CMD55: the next command is an application command.                      *)
AppCmd(at, legal, next, turns) ==
  /\ pc = at
  /\ tries' = turns
  /\ \E o \in Outcomes(legal) :
       /\ card' = IF o.exec THEN [card EXCEPT !.app = TRUE] ELSE card
       /\ Continue(o, next)
  /\ UNCHANGED <<v2, high_capacity, lba, silent, fatal_err, wide, width, loading, mmc_probed>>

-----------------------------------------------------------------------------
(* mmc_start_init.                                                         *)

(* mmc_set_bus_width(1) and mmc_set_clock(1): a clock that cannot be set   *)
(* makes every later command fail.                                         *)
Start ==
  /\ pc = "start"
  /\ pc' = "idle" /\ width' = 1 /\ fatal_err' \in BOOLEAN
  /\ UNCHANGED <<tries, v2, high_capacity, lba, silent, has_init, wide, loading, mmc_probed, card>>

(* mmc_go_idle: CMD0 takes any card back to the idle state, on one line.   *)
GoIdle ==
  /\ pc = "idle"
  /\ \E o \in Outcomes(card.kind # "none") :
       /\ card' = IF o.exec
                    THEN [card EXCEPT !.state = "idle", !.bus = 1, !.app = FALSE]
                    ELSE card
       /\ Continue(o, "if_cond")
  /\ UNCHANGED <<tries, v2, high_capacity, lba, silent, fatal_err, wide, width, loading, mmc_probed>>

(* mmc_send_if_cond, whose result is overwritten: a card that does not     *)
(* echo the pattern is taken for a version 1 card.                         *)
SendIfCond ==
  /\ pc = "if_cond"
  /\ \E o \in Outcomes(card.kind \in {"sd2", "sdhc"} /\ card.state = "idle") :
       /\ CardMoves(o, card.state)
       /\ v2' \in IF o.fresh THEN {TRUE} ELSE IF o.ret = 0 THEN BOOLEAN ELSE {FALSE}
  /\ pc' = "app_op" /\ tries' = OpTries
  /\ UNCHANGED <<high_capacity, lba, silent, has_init, fatal_err, wide, width, loading, mmc_probed>>

(* What follows sd_send_op_cond's failure: an MMC card is probed for when  *)
(* it returned TIMEOUT, but mmc_send_cmd knows no error except -1.         *)
TIMEOUT == -19
UNUSABLE_ERR == -17

OpCondFails(err) ==
  /\ InitFails
  /\ mmc_probed' = (err = TIMEOUT)

AppOpCond ==
  /\ pc = "app_op"
  /\ \E o \in Outcomes(IsSD /\ card.state = "idle") :
       /\ card' = IF o.exec THEN [card EXCEPT !.app = TRUE] ELSE card
       /\ IF o.ret = 0
            THEN pc' = "op_cond" /\ UNCHANGED <<has_init, mmc_probed>>
            ELSE OpCondFails(o.ret)
  /\ UNCHANGED <<tries, v2, high_capacity, lba, silent, fatal_err, wide, width, loading>>

(* Mutant: the ACMD41 loop does not count.                                 *)
SendOpCondForever ==
  /\ pc = "op_cond"
  /\ pc' \in {"app_op", "cid"}
  /\ UNCHANGED <<tries, v2, high_capacity, lba, silent, has_init, fatal_err, wide, width, loading,
                 mmc_probed, card>>

(* ACMD41.  A high capacity card stays busy until the host says, by HCS in *)
(* the argument, that it can handle it; HCS is set for version 2 only.     *)
(* "while (!ready && timeout--); if (timeout <= 0) unusable": a card that  *)
(* becomes ready on the last turn is refused.                              *)
SendOpCond ==
  /\ pc = "op_cond"
  /\ \E o \in Outcomes(IsSD /\ card.state = "idle" /\ card.app), ready, ccs \in BOOLEAN :
       /\ o.fresh => /\ ready => card.kind # "sdhc" \/ v2
                    /\ ccs = (ready /\ card.kind = "sdhc")
       /\ CardMoves(o, IF ready /\ (card.kind # "sdhc" \/ v2) THEN "ready" ELSE card.state)
       /\ \/ /\ o.ret # 0
             /\ OpCondFails(o.ret)
             /\ UNCHANGED <<tries, high_capacity, silent>>
          \/ /\ o.ret = 0 /\ ~ready /\ tries > 0
             /\ tries' = tries - 1 /\ pc' = "app_op"
             /\ UNCHANGED <<has_init, mmc_probed, high_capacity, silent>>
          \/ /\ o.ret = 0 /\ tries = 0
             /\ OpCondFails(UNUSABLE_ERR)
             /\ UNCHANGED <<tries, high_capacity, silent>>
          \/ /\ o.ret = 0 /\ ready /\ tries > 0
             /\ high_capacity' = ccs /\ pc' = "cid"
             /\ UNCHANGED <<tries, has_init, mmc_probed>>
  /\ UNCHANGED <<v2, lba, silent, fatal_err, wide, width, loading>>

-----------------------------------------------------------------------------
(* mmc_startup.                                                            *)

SendCid == Command("cid", IsSD /\ card.state = "ready", "ident", "rca")
SendRca == Command("rca", IsSD /\ card.state = "ident", "stby", "csd")

(* CMD9, then mmc_send_status, whose verdict is thrown away and which      *)
(* changes nothing.                                                        *)
SendCsd == Command("csd", IsSD /\ card.state = "stby", "stby", "select")

(* CMD7, then mmc_set_capacity: from here on the capacity stands, whatever *)
(* becomes of the rest.  A CSD that was never received may say anything.   *)
Select ==
  /\ pc = "select"
  /\ \E o \in Outcomes(IsSD /\ card.state = "stby") :
       /\ CardMoves(o, "tran")
       /\ Continue(o, "app_scr")
       /\ lba' \in IF o.ret # 0 THEN {lba}
                   ELSE IF silent THEN 0 .. CardSectors ELSE {CardSectors}
  /\ UNCHANGED <<tries, v2, high_capacity, silent, fatal_err, wide, width, loading, mmc_probed>>

AppScr == AppCmd("app_scr", IsSD /\ card.state = "tran", "scr", 3)

(* After sd_change_freq: the bus is widened if the SCR said it can be.     *)
AfterChangeFreq(can) == IF can THEN "app_bus" ELSE "clock"

(* Mutant: the retries of ACMD51 run past zero.                            *)
SendScrPastZero ==
  /\ pc = "scr"
  /\ tries' = tries - 1
  /\ UNCHANGED <<pc, v2, high_capacity, lba, silent, has_init, fatal_err, wide, width, loading,
                 mmc_probed, card>>

(* ACMD51, retried up to three times without a new CMD55: a card that has  *)
(* seen the first attempt takes the second for the reserved CMD51.         *)
(* Version 1.0 cards have no CMD6.                                         *)
SendScr ==
  /\ pc = "scr"
  /\ \E o \in Outcomes(IsSD /\ card.app /\ DataLegal) :
       /\ CardMoves(o, card.state)
       /\ \/ /\ o.ret # 0 /\ tries > 0
             /\ tries' = tries - 1
             /\ UNCHANGED <<pc, has_init, wide>>
          \/ /\ o.ret # 0 /\ tries = 0
             /\ InitFails
             /\ UNCHANGED <<tries, wide>>
          \/ /\ o.ret = 0
             /\ wide' \in BOOLEAN
             /\ pc' \in IF ~o.fresh THEN {"check", AfterChangeFreq(wide')}
                        ELSE IF card.kind = "sd1" THEN {AfterChangeFreq(wide')}
                        ELSE {"check"}
             /\ tries' = 4
             /\ UNCHANGED has_init
  /\ UNCHANGED <<v2, high_capacity, lba, silent, fatal_err, width, loading, mmc_probed>>

HasCmd6 == card.kind \in {"sd2", "sdhc"} /\ DataLegal

(* CMD6 in check mode, up to four times while the function is busy; after  *)
(* that its last answer counts.  The answer says whether the card can      *)
(* switch to high speed.                                                   *)
SwitchCheck ==
  /\ pc = "check"
  /\ \E o \in Outcomes(HasCmd6), busy, supported \in BOOLEAN :
       /\ CardMoves(o, card.state)
       /\ \/ /\ o.ret # 0
             /\ InitFails
             /\ UNCHANGED tries
          \/ /\ o.ret = 0 /\ busy /\ tries > 1
             /\ tries' = tries - 1
             /\ UNCHANGED <<pc, has_init>>
          \/ /\ o.ret = 0 /\ (~busy \/ tries = 1)
             /\ pc' = IF supported THEN "switch" ELSE AfterChangeFreq(wide)
             /\ UNCHANGED <<tries, has_init>>
  /\ UNCHANGED <<v2, high_capacity, lba, silent, fatal_err, wide, width, loading, mmc_probed>>

Switch == Command("switch", HasCmd6, card.state, AfterChangeFreq(wide))

AppBus == AppCmd("app_bus", IsSD /\ card.state = "tran", "bus", 0)

(* Mutant: the result of ACMD6 is ignored.                                 *)
SetBusWidthUnchecked ==
  /\ pc = "bus" /\ pc' = "clock"
  /\ \E o \in Outcomes(IsSD /\ card.app /\ card.state = "tran") :
       /\ card' = IF o.exec THEN [card EXCEPT !.bus = 4, !.app = FALSE] ELSE card
       /\ width' = IF o.ret = 0 THEN 4 ELSE width
  /\ UNCHANGED <<tries, v2, high_capacity, lba, silent, has_init, fatal_err, wide, loading, mmc_probed>>

(* ACMD6, then mmc_set_bus_width(4), which leaves the controller on one    *)
(* line if its clock cannot be reprogrammed.                               *)
SetBusWidth ==
  /\ pc = "bus"
  /\ \E o \in Outcomes(IsSD /\ card.app /\ card.state = "tran") :
       /\ card' = IF o.exec THEN [card EXCEPT !.bus = 4, !.app = FALSE] ELSE card
       /\ Continue(o, "clock")
       /\ IF o.ret = 0
            THEN /\ fatal_err' \in {fatal_err, TRUE}
                 /\ width' = IF fatal_err' THEN width ELSE 4
            ELSE UNCHANGED <<fatal_err, width>>
  /\ UNCHANGED <<tries, v2, high_capacity, lba, silent, wide, loading, mmc_probed>>

(* The last mmc_set_clock; mmc_complete_init declares the card usable      *)
(* without looking at how it went.                                         *)
SetClock ==
  /\ pc = "clock"
  /\ fatal_err' \in {fatal_err, TRUE}
  /\ has_init' = TRUE
  /\ pc' = "load"
  /\ UNCHANGED <<tries, v2, high_capacity, lba, silent, wide, width, loading, mmc_probed, card>>

-----------------------------------------------------------------------------
(* spl_mmc_load_image and mmc_bread.                                       *)

(* The range check, then CMD16.  Without a capacity the check fails.       *)
LoadImage ==
  /\ pc = "load"
  /\ \/ /\ FirstSector + ImageSectors > lba
        /\ pc' = "hang"
        /\ UNCHANGED card
     \/ /\ FirstSector + ImageSectors <= lba
        /\ \E o \in Outcomes(IsSD /\ card.state = "tran") :
             /\ CardMoves(o, card.state)
             /\ pc' = IF o.ret = 0 THEN "read" ELSE "hang"
  /\ UNCHANGED <<tries, v2, high_capacity, lba, silent, has_init, fatal_err, wide, width, loading,
                 mmc_probed>>

Chunk == IF ImageSectors - done > BMax THEN BMax ELSE ImageSectors - done

(* Mutant: "start" is not advanced from one chunk to the next.             *)
SectorReadAgain(i) == FirstSector + i - done

(* The sector a read for image block i brings: a block number is taken for *)
(* a byte address by a card of the other kind.                             *)
SectorRead(i) ==
  IF high_capacity = (card.kind = "sdhc") THEN FirstSector + i ELSE NoSector

(* One turn of the loop of mmc_bread: CMD17 or CMD18 with its data (the    *)
(* CMD12 that follows is a success that does nothing).  A transfer that    *)
(* died unnoticed has filled some of the blocks.                           *)
ReadBlocks ==
  /\ pc = "read"
  /\ \E o \in Outcomes(IsSD /\ DataLegal), moved \in 0 .. Chunk :
       /\ o.fresh => moved = Chunk
       /\ CardMoves(o, card.state)
       /\ IF o.ret = 0
            THEN /\ mem' = [i \in Image |-> IF i \in done .. done + moved - 1
                                            THEN SectorRead(i) ELSE mem[i]]
                 /\ done' = done + Chunk
                 /\ pc' = IF done + Chunk = ImageSectors THEN "jumped" ELSE "read"
            ELSE pc' = "hang" /\ UNCHANGED loading
  /\ UNCHANGED <<tries, v2, high_capacity, lba, silent, has_init, fatal_err, wide, width, mmc_probed>>

-----------------------------------------------------------------------------
Next ==
  \/ Start \/ GoIdle \/ SendIfCond \/ AppOpCond \/ SendOpCond
  \/ SendCid \/ SendRca \/ SendCsd \/ Select
  \/ AppScr \/ SendScr \/ SwitchCheck \/ Switch
  \/ AppBus \/ SetBusWidth \/ SetClock
  \/ LoadImage \/ ReadBlocks

Spec == Init /\ [][Next]_vars

(* A command always returns (MmcHost implements MmcCommand), so the boot  *)
(* goes on as long as there is a step to take.                             *)
FairSpec == Spec /\ WF_vars(Next)

-----------------------------------------------------------------------------
(* Properties.                                                             *)

(* The SPL jumps into U-Boot only with the whole image in memory, each     *)
(* block from its own sector: however the initialisation failed half-way,  *)
(* whatever was retried, and however the read was cut into chunks; if the  *)
(* controller reports its errors.                                          *)
JumpMeansLoaded ==
  pc = "jumped" /\ ~silent => \A i \in Image : mem[i] = FirstSector + i

(* What the driver believes of the card is so, if the controller reports   *)
(* its errors.  The image may be read after an initialisation that failed, *)
(* but only from a card that was selected, whose capacity is known and     *)
(* which is addressed the way it expects.  And once mmc->has_init is set   *)
(* the controller and the card use as many lines, unless the host is dead. *)
CardIsAsBelieved ==
  ~silent =>
    /\ pc = "read" => /\ card.state = "tran" /\ lba = CardSectors
                      /\ high_capacity = (card.kind = "sdhc")
    /\ has_init /\ ~fatal_err => width = card.bus /\ card.state = "tran"

(* The boot comes to an end, in U-Boot or in the led loop, even with a     *)
(* silent controller.                                                      *)
BootEnds == <>(pc \in {"jumped", "hang"})
=============================================================================
