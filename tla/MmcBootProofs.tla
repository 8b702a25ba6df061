---------------------------- MODULE MmcBootProofs ----------------------------
(***************************************************************************)
(* Proofs about MmcBoot, for every card, image, number of turns and size   *)
(* of a read.                                                              *)
(*                                                                         *)
(* A command that is reported as done has been carried out, if the         *)
(* controller is not silent (OutcomeFacts).  So each stage of the          *)
(* initialisation knows the state the card is in, and what is believed     *)
(* when the image is read follows, whether the initialisation got to its   *)
(* end or failed after the capacity was set.                               *)
(***************************************************************************)
EXTENDS MmcBoot, TLAPS

LEMMA OutcomeFacts ==
  ASSUME NEW legal \in BOOLEAN, NEW o \in Outcomes(legal)
  PROVE  /\ o.ret \in {0, -1}
         /\ o.exec \in BOOLEAN /\ o.fresh \in BOOLEAN
         /\ o.exec => legal
         /\ o.fresh => o.exec
         /\ o.ret = 0 /\ ~silent => o.exec /\ o.fresh
<1> DEFINE outcome(r, e, f) == [ret |-> r, exec |-> e, fresh |-> f]
<1>1. \/ o = outcome(-1, FALSE, FALSE)
      \/ legal /\ o = outcome(0, TRUE, TRUE)
      \/ legal /\ o = outcome(-1, TRUE, FALSE)
      \/ silent /\ o = outcome(0, FALSE, FALSE)
      \/ silent /\ legal /\ o = outcome(0, TRUE, FALSE)
  BY DEF Outcomes
<1>2. CASE o = outcome(-1, FALSE, FALSE)
  BY <1>2
<1>3. CASE legal /\ o = outcome(0, TRUE, TRUE)
  BY <1>3
<1>4. CASE legal /\ o = outcome(-1, TRUE, FALSE)
  BY <1>4
<1>5. CASE silent /\ o = outcome(0, FALSE, FALSE)
  BY <1>5
<1>6. CASE silent /\ legal /\ o = outcome(0, TRUE, FALSE)
  BY <1>6
<1> QED  BY <1>1, <1>2, <1>3, <1>4, <1>5, <1>6

(* No error that sd_send_op_cond returns leads to the MMC branch.          *)
LEMMA OpCondFacts ==
  ASSUME NEW err \in {0, -1, UNUSABLE_ERR}, OpCondFails(err)
  PROVE  pc' = "load" /\ has_init' = FALSE /\ ~mmc_probed'
<1>1. err # TIMEOUT
  BY DEF TIMEOUT, UNUSABLE_ERR
<1> QED  BY <1>1 DEF OpCondFails, InitFails

(* What CardMoves leaves alone.                                            *)
Cards == [kind : Kinds, state : {"idle", "ready", "ident", "stby", "tran"}, bus : {1, 4}, app : BOOLEAN]

LEMMA CardMovesFacts ==
  ASSUME card \in Cards, NEW o, NEW state \in {"idle", "ready", "ident", "stby", "tran"},
         CardMoves(o, state)
  PROVE  /\ card' \in Cards /\ card'.kind = card.kind /\ card'.bus = card.bus
         /\ card'.state = IF o.exec THEN state ELSE card.state
  BY DEF Cards, CardMoves

LEMMA AppFacts ==
  ASSUME card \in Cards, NEW o, card' = IF o.exec THEN [card EXCEPT !.app = TRUE] ELSE card
  PROVE  /\ card' \in Cards /\ card'.kind = card.kind /\ card'.bus = card.bus
         /\ card'.state = card.state
  BY DEF Cards

(***************************************************************************)
(* Types.                                                                  *)
(***************************************************************************)
LEMMA TypeInit == Init => TypeOK
<1> SUFFICES ASSUME Init PROVE TypeOK  OBVIOUS
<1>1. mem \in [Image -> {NoSector} \cup Nat]
  BY DEF Init
<1>2. tries \in 0 .. OpTries \cup 0 .. 4 /\ lba \in 0 .. CardSectors /\ done \in 0 .. ImageSectors
  BY BootAssumption DEF Init
<1>3. card \in [kind : Kinds, state : {"idle", "ready", "ident", "stby", "tran"}, bus : {1, 4}, app : BOOLEAN]
  BY DEF Init
<1> QED  BY <1>1, <1>2, <1>3 DEF Init, TypeOK

LEMMA TypeCommand ==
  ASSUME TypeOK, NEW at, NEW legal \in BOOLEAN,
         NEW state \in {"idle", "ready", "ident", "stby", "tran"},
         NEW next \in {"rca", "csd", "select", "app_bus", "clock"},
         Command(at, legal, state, next)
  PROVE  TypeOK'
<1>1. PICK o \in Outcomes(legal) : CardMoves(o, state) /\ Continue(o, next)
  BY DEF Command
<1>2. card' \in Cards
  BY <1>1, CardMovesFacts DEF TypeOK, Cards
<1>3. pc' \in {next, "load"} /\ has_init' \in BOOLEAN
  BY <1>1 DEF Continue, InitFails, TypeOK
<1> QED  BY <1>2, <1>3 DEF Command, TypeOK, Cards, loading, Image

LEMMA TypeAppCmd ==
  ASSUME TypeOK, NEW at, NEW legal \in BOOLEAN, NEW next \in {"scr", "bus"}, NEW turns \in 0 .. 4,
         AppCmd(at, legal, next, turns)
  PROVE  TypeOK'
<1>1. PICK o \in Outcomes(legal) :
        /\ card' = IF o.exec THEN [card EXCEPT !.app = TRUE] ELSE card
        /\ Continue(o, next)
  BY DEF AppCmd
<1>2. card' \in Cards
  BY <1>1, AppFacts DEF TypeOK, Cards
<1>3. pc' \in {next, "load"} /\ has_init' \in BOOLEAN
  BY <1>1 DEF Continue, InitFails, TypeOK
<1> QED  BY <1>2, <1>3 DEF AppCmd, TypeOK, Cards, loading, Image

LEMMA LegalBool ==
  ASSUME TypeOK
  PROVE  /\ IsSD \in BOOLEAN /\ DataLegal \in BOOLEAN /\ HasCmd6 \in BOOLEAN
         /\ (IsSD /\ card.app /\ DataLegal) \in BOOLEAN
  BY DEF IsSD, DataLegal, HasCmd6, TypeOK

LEMMA TypeIdentify ==
  TypeOK /\ (Start \/ GoIdle \/ SendIfCond \/ AppOpCond \/ SendOpCond) => TypeOK'
<1> SUFFICES ASSUME TypeOK, Start \/ GoIdle \/ SendIfCond \/ AppOpCond \/ SendOpCond
             PROVE  TypeOK'
  OBVIOUS
<1>1. CASE Start
  BY <1>1 DEF Start, TypeOK, loading, Image
<1>2. CASE GoIdle
  <2>1. card' \in Cards /\ pc' \in {"if_cond", "load"} /\ has_init' \in BOOLEAN
    BY <1>2 DEF GoIdle, TypeOK, Cards, Continue, InitFails
  <2> QED  BY <1>2, <2>1 DEF GoIdle, TypeOK, Cards, loading, Image
<1>3. CASE SendIfCond
  <2>1. PICK o \in Outcomes(card.kind \in {"sd2", "sdhc"} /\ card.state = "idle") :
           /\ CardMoves(o, card.state)
           /\ v2' \in IF o.fresh THEN {TRUE} ELSE IF o.ret = 0 THEN BOOLEAN ELSE {FALSE}
    BY <1>3 DEF SendIfCond
  <2>2. card' \in Cards /\ v2' \in BOOLEAN
    BY <2>1, CardMovesFacts DEF TypeOK, Cards
  <2> QED  BY <1>3, <2>2, BootAssumption DEF SendIfCond, TypeOK, Cards, loading, Image
<1>4. CASE AppOpCond
  <2>1. PICK o \in Outcomes(IsSD /\ card.state = "idle") :
           /\ card' = IF o.exec THEN [card EXCEPT !.app = TRUE] ELSE card
           /\ IF o.ret = 0
              THEN pc' = "op_cond" /\ UNCHANGED <<has_init, mmc_probed>>
              ELSE OpCondFails(o.ret)
    BY <1>4 DEF AppOpCond
  <2>2. card' \in Cards
    BY <2>1, AppFacts DEF TypeOK, Cards
  <2>3. o.ret \in {0, -1}
    BY OutcomeFacts DEF IsSD
  <2>4. pc' \in {"op_cond", "load"} /\ has_init' \in BOOLEAN /\ ~mmc_probed'
    <3>1. CASE o.ret = 0
      BY <2>1, <3>1 DEF TypeOK
    <3>2. CASE o.ret # 0
      BY <2>1, <2>3, <3>2, OpCondFacts
    <3> QED  BY <3>1, <3>2
  <2> QED  BY <1>4, <2>2, <2>4 DEF AppOpCond, TypeOK, Cards, loading, Image
<1>5. CASE SendOpCond
  <2>1. PICK o \in Outcomes(IsSD /\ card.state = "idle" /\ card.app), ready \in BOOLEAN, ccs \in BOOLEAN :
           /\ CardMoves(o, IF ready /\ (card.kind # "sdhc" \/ v2) THEN "ready" ELSE card.state)
           /\ \/ /\ o.ret # 0
                 /\ OpCondFails(o.ret)
                 /\ UNCHANGED <<tries, high_capacity, silent>>
              \/ /\ o.ret = 0 /\ ~ready /\ tries > 0
                 /\ tries' = tries - 1 /\ pc' = "app_op"
                 /\ UNCHANGED <<has_init, mmc_probed, high_capacity, silent>>
              \/ /\ o.ret = 0 /\ tries = 0
                 /\ OpCondFails(UNUSABLE_ERR)
                 /\ UNCHANGED <<tries, high_capacity, silent>>
              \/ /\ o.ret = 0 /\ ready /\ tries > 0
                 /\ high_capacity' = ccs /\ pc' = "cid"
                 /\ UNCHANGED <<tries, has_init, mmc_probed>>
    BY <1>5 DEF SendOpCond
  <2>2. card' \in Cards
    BY <2>1, CardMovesFacts DEF TypeOK, Cards
  <2>3. o.ret \in {0, -1}
    BY OutcomeFacts DEF IsSD, TypeOK
  <2>4. pc' \in {"app_op", "cid", "load"} /\ has_init' \in BOOLEAN /\ ~mmc_probed'
    <3>1. \/ pc' = "app_op" /\ UNCHANGED <<has_init, mmc_probed>>
          \/ pc' = "cid" /\ UNCHANGED <<has_init, mmc_probed>>
          \/ OpCondFails(o.ret) \/ OpCondFails(UNUSABLE_ERR)
      BY <2>1
    <3>2. OpCondFails(o.ret) \/ OpCondFails(UNUSABLE_ERR)
            => pc' = "load" /\ has_init' = FALSE /\ ~mmc_probed'
      BY <2>3, OpCondFacts
    <3>3. has_init \in BOOLEAN /\ ~mmc_probed
      BY DEF TypeOK
    <3>4. CASE OpCondFails(o.ret) \/ OpCondFails(UNUSABLE_ERR)
      BY <3>2, <3>4
    <3>5. CASE pc' \in {"app_op", "cid"} /\ UNCHANGED <<has_init, mmc_probed>>
      BY <3>3, <3>5
    <3> QED  BY <3>1, <3>4, <3>5
  <2>5. high_capacity' \in BOOLEAN
    BY <2>1 DEF TypeOK
  <2>6. tries' \in 0 .. OpTries \cup 0 .. 4
    BY <2>1, BootAssumption DEF TypeOK
  <2> QED  BY <1>5, <2>2, <2>4, <2>5, <2>6 DEF SendOpCond, TypeOK, Cards, loading, Image
<1> QED  BY <1>1, <1>2, <1>3, <1>4, <1>5

LEMMA TypeStartup ==
  TypeOK /\ (SendCid \/ SendRca \/ SendCsd \/ Select \/ AppScr \/ SendScr) => TypeOK'
<1> SUFFICES ASSUME TypeOK, SendCid \/ SendRca \/ SendCsd \/ Select \/ AppScr \/ SendScr
             PROVE  TypeOK'
  OBVIOUS
<1>1. CASE SendCid \/ SendRca \/ SendCsd
  BY <1>1, TypeCommand DEF SendCid, SendRca, SendCsd, IsSD
<1>2. CASE Select
  <2>1. PICK o \in Outcomes(IsSD /\ card.state = "stby") :
           /\ CardMoves(o, "tran")
           /\ Continue(o, "app_scr")
           /\ lba' \in IF o.ret # 0 THEN {lba}
                       ELSE IF silent THEN 0 .. CardSectors ELSE {CardSectors}
    BY <1>2 DEF Select
  <2>2. card' \in Cards
    BY <2>1, CardMovesFacts DEF TypeOK, Cards
  <2>3. pc' \in {"app_scr", "load"} /\ has_init' \in BOOLEAN
    BY <2>1 DEF Continue, InitFails, TypeOK
  <2>4. lba' \in 0 .. CardSectors
    BY <2>1, BootAssumption DEF TypeOK
  <2> QED  BY <1>2, <2>2, <2>3, <2>4 DEF Select, TypeOK, Cards, loading, Image
<1>3. CASE AppScr
  <2>1. (IsSD /\ card.state = "tran") \in BOOLEAN
    BY DEF IsSD
  <2>2. 3 \in 0 .. 4
    OBVIOUS
  <2> QED  BY <1>3, <2>1, <2>2, TypeAppCmd DEF AppScr
<1>4. CASE SendScr
  <2>1. PICK o \in Outcomes(IsSD /\ card.app /\ DataLegal) :
           /\ CardMoves(o, card.state)
           /\ \/ /\ o.ret # 0 /\ tries > 0
                 /\ tries' = tries - 1
                 /\ UNCHANGED <<pc, has_init, wide>>
              \/ /\ o.ret # 0 /\ tries = 0
                 /\ InitFails
                 /\ UNCHANGED <<tries, wide>>
              \/ /\ o.ret = 0
                 /\ wide' \in BOOLEAN
                 /\ pc' \in IF ~o.fresh THEN {"check", AfterChangeFreq(wide')}
                            ELSE IF card.kind = "sd1" THEN {AfterChangeFreq(wide')}
                            ELSE {"check"}
                 /\ tries' = 4
                 /\ UNCHANGED has_init
    BY <1>4 DEF SendScr
  <2>2. card' \in Cards
    BY <2>1, CardMovesFacts DEF TypeOK, Cards
  <2>3. pc' \in {"scr", "load", "check", "app_bus", "clock"}
    BY <1>4, <2>1 DEF SendScr, InitFails, AfterChangeFreq
  <2>4. has_init' \in BOOLEAN /\ wide' \in BOOLEAN
    BY <2>1 DEF InitFails, TypeOK
  <2>5. tries' \in 0 .. OpTries \cup 0 .. 4
    BY <2>1, BootAssumption DEF TypeOK
  <2> QED  BY <1>4, <2>2, <2>3, <2>4, <2>5 DEF SendScr, TypeOK, Cards, loading, Image
<1> QED  BY <1>1, <1>2, <1>3, <1>4

LEMMA TypeSwitch ==
  TypeOK /\ (SwitchCheck \/ Switch \/ AppBus \/ SetBusWidth \/ SetClock) => TypeOK'
<1> SUFFICES ASSUME TypeOK, SwitchCheck \/ Switch \/ AppBus \/ SetBusWidth \/ SetClock
             PROVE  TypeOK'
  OBVIOUS
<1>1. CASE SwitchCheck
  <2>1. PICK o \in Outcomes(HasCmd6), busy \in BOOLEAN, supported \in BOOLEAN :
           /\ CardMoves(o, card.state)
           /\ \/ /\ o.ret # 0
                 /\ InitFails
                 /\ UNCHANGED tries
              \/ /\ o.ret = 0 /\ busy /\ tries > 1
                 /\ tries' = tries - 1
                 /\ UNCHANGED <<pc, has_init>>
              \/ /\ o.ret = 0 /\ (~busy \/ tries = 1)
                 /\ pc' = IF supported THEN "switch" ELSE AfterChangeFreq(wide)
                 /\ UNCHANGED <<tries, has_init>>
    BY <1>1 DEF SwitchCheck
  <2>2. card' \in Cards
    BY <2>1, CardMovesFacts DEF TypeOK, Cards
  <2>3. pc' \in {"check", "load", "switch", "app_bus", "clock"}
    BY <1>1, <2>1 DEF SwitchCheck, InitFails, AfterChangeFreq
  <2>4. has_init' \in BOOLEAN
    BY <2>1 DEF InitFails, TypeOK
  <2>5. tries' \in 0 .. OpTries \cup 0 .. 4
    BY <2>1, BootAssumption DEF TypeOK
  <2> QED  BY <1>1, <2>2, <2>3, <2>4, <2>5 DEF SwitchCheck, TypeOK, Cards, loading, Image
<1>2. CASE Switch
  <2>1. HasCmd6 \in BOOLEAN /\ AfterChangeFreq(wide) \in {"app_bus", "clock"}
    BY DEF HasCmd6, DataLegal, AfterChangeFreq
  <2>2. card.state \in {"idle", "ready", "ident", "stby", "tran"}
    BY DEF TypeOK
  <2> QED  BY <1>2, <2>1, <2>2, TypeCommand DEF Switch
<1>3. CASE AppBus
  <2>1. (IsSD /\ card.state = "tran") \in BOOLEAN
    BY DEF IsSD
  <2>2. 0 \in 0 .. 4
    OBVIOUS
  <2> QED  BY <1>3, <2>1, <2>2, TypeAppCmd DEF AppBus
<1>4. CASE SetBusWidth
  <2>1. PICK o \in Outcomes(IsSD /\ card.app /\ card.state = "tran") :
           /\ card' = IF o.exec THEN [card EXCEPT !.bus = 4, !.app = FALSE] ELSE card
           /\ Continue(o, "clock")
           /\ IF o.ret = 0
                THEN /\ fatal_err' \in {fatal_err, TRUE}
                     /\ width' = IF fatal_err' THEN width ELSE 4
                ELSE UNCHANGED <<fatal_err, width>>
    BY <1>4 DEF SetBusWidth
  <2>2. card' \in Cards
    BY <2>1 DEF TypeOK, Cards
  <2>3. pc' \in {"clock", "load"} /\ has_init' \in BOOLEAN
    BY <2>1 DEF Continue, InitFails, TypeOK
  <2>4. fatal_err' \in BOOLEAN /\ width' \in {1, 4}
    BY <2>1 DEF TypeOK
  <2> QED  BY <1>4, <2>2, <2>3, <2>4 DEF SetBusWidth, TypeOK, Cards, loading, Image
<1>5. CASE SetClock
  <2>1. fatal_err' \in BOOLEAN /\ has_init' \in BOOLEAN
    BY <1>5 DEF SetClock, TypeOK
  <2> QED  BY <1>5, <2>1 DEF SetClock, TypeOK, loading, Image
<1> QED  BY <1>1, <1>2, <1>3, <1>4, <1>5

LEMMA ChunkFacts ==
  ASSUME done \in 0 .. ImageSectors
  PROVE  /\ Chunk \in Nat /\ done + Chunk \in 0 .. ImageSectors
         /\ done < ImageSectors => Chunk > 0
  BY BootAssumption DEF Chunk

LEMMA TypeLoad ==
  TypeOK /\ (LoadImage \/ ReadBlocks) => TypeOK'
<1> SUFFICES ASSUME TypeOK, LoadImage \/ ReadBlocks PROVE TypeOK'  OBVIOUS
<1>1. CASE LoadImage
  <2>1. card' \in Cards
    BY <1>1, CardMovesFacts DEF LoadImage, TypeOK, Cards
  <2>2. pc' \in {"read", "hang"}
    BY <1>1 DEF LoadImage
  <2> QED  BY <1>1, <2>1, <2>2 DEF LoadImage, TypeOK, Cards, loading, Image
<1>2. CASE ReadBlocks
  <2>1. PICK o \in Outcomes(IsSD /\ DataLegal), moved \in 0 .. Chunk :
           /\ CardMoves(o, card.state)
           /\ IF o.ret = 0
              THEN /\ mem' = [i \in Image |-> IF i \in done .. done + moved - 1
                                              THEN SectorRead(i) ELSE mem[i]]
                   /\ done' = done + Chunk
                   /\ pc' = IF done + Chunk = ImageSectors THEN "jumped" ELSE "read"
              ELSE pc' = "hang" /\ UNCHANGED loading
    BY <1>2 DEF ReadBlocks
  <2>2. card' \in Cards
    BY <2>1, CardMovesFacts DEF TypeOK, Cards
  <2>3. pc' \in {"jumped", "read", "hang"}
    BY <2>1
  <2>4. done' \in 0 .. ImageSectors
    BY <2>1, ChunkFacts DEF TypeOK, loading
  <2>5. \A i \in Image : SectorRead(i) \in {NoSector} \cup Nat
    BY BootAssumption DEF SectorRead, Image, NoSector
  <2>6. mem' \in [Image -> {NoSector} \cup Nat]
    BY <2>1, <2>5 DEF TypeOK, loading
  <2> QED  BY <1>2, <2>2, <2>3, <2>4, <2>6 DEF ReadBlocks, TypeOK, Cards, loading
<1> QED  BY <1>1, <1>2

LEMMA TypeStep == TypeOK /\ [Next]_vars => TypeOK'
<1>1. TypeOK /\ UNCHANGED vars => TypeOK'
  BY DEF TypeOK, vars, drv
<1> QED  BY <1>1, TypeIdentify, TypeStartup, TypeSwitch, TypeLoad DEF Next

(* The boot is type-correct, and never comes to the branch for MMC cards.  *)
THEOREM TypeCorrect == Spec => []TypeOK
  BY TypeInit, TypeStep, PTL DEF Spec

(***************************************************************************)
(* What the driver knows, stage by stage, if the controller reports its    *)
(* errors.                                                                 *)
(***************************************************************************)
AtLoad   == {"load", "read", "jumped", "hang"}
Selected == {"app_scr", "scr", "check", "switch", "app_bus", "bus", "clock"}
Found    == {"cid", "rca", "csd", "select"}
Before   == {"start", "idle", "if_cond", "app_op", "op_cond"}

(* The state the card is in.                                               *)
Staged ==
  /\ pc = "cid" => card.state = "ready"
  /\ pc = "rca" => card.state = "ident"
  /\ pc \in {"csd", "select"} => card.state = "stby"
  /\ pc \in Selected \cup {"read"} => card.state = "tran"
  /\ has_init => pc \in AtLoad /\ card.state = "tran"

(* The capacity, which stands for a card that was found and selected, and  *)
(* the way it is addressed.                                                *)
Addressed ==
  /\ pc \in Before \cup Found => lba = 0
  /\ lba # 0 => lba = CardSectors
  /\ pc \in Found \cup Selected \/ lba # 0 => (high_capacity <=> card.kind = "sdhc")
  /\ pc = "read" => lba # 0

(* The lines in use at both ends.                                          *)
Aligned ==
  /\ pc \in (Before \cup Found \cup Selected) \ {"clock"} => width = 1 /\ card.bus = 1
  /\ pc = "clock" \/ has_init => fatal_err \/ width = card.bus

(* The blocks read so far.                                                 *)
Filled ==
  /\ pc \notin {"read", "jumped", "hang"} => done = 0
  /\ pc \in {"read", "jumped"} => \A i \in 0 .. done - 1 : mem[i] = FirstSector + i
  /\ pc = "jumped" => done = ImageSectors

Believed == ~silent => Staged /\ Addressed /\ Aligned /\ Filled

LEMMA BelievedInit == Init => Believed
  BY DEF Init, Believed, Staged, Addressed, Aligned, Filled, AtLoad, Selected, Found, Before

(* An initialisation that fails before the clock is set leaves behind what *)
(* is known.                                                               *)
LEMMA FailStep ==
  ASSUME TypeOK, Believed, ~silent, pc \notin AtLoad, InitFails,
         UNCHANGED <<silent, lba, high_capacity, loading>>, card'.kind = card.kind
  PROVE  Believed'
<1>1. pc' = "load" /\ ~has_init' /\ UNCHANGED <<silent, lba, high_capacity, done>>
  BY DEF InitFails, loading
<1>2. Staged' /\ Aligned' /\ Filled'
  BY <1>1 DEF Staged, Aligned, Filled, Believed, AtLoad, Selected, Found, Before
<1>3. Addressed'
  BY <1>1 DEF Addressed, Believed, Selected, Found, Before
<1> QED  BY <1>2, <1>3 DEF Believed

(* What one command comes to, and one CMD55.                               *)
LEMMA CommandFacts ==
  ASSUME TypeOK, ~silent, NEW at, NEW legal \in BOOLEAN,
         NEW state \in {"idle", "ready", "ident", "stby", "tran"}, NEW next,
         Command(at, legal, state, next)
  PROVE  /\ pc = at /\ UNCHANGED <<silent, lba, high_capacity, fatal_err, width, loading>>
         /\ card'.kind = card.kind /\ card'.bus = card.bus
         /\ \/ InitFails
            \/ pc' = next /\ UNCHANGED has_init /\ card'.state = state
<1>1. PICK o \in Outcomes(legal) : CardMoves(o, state) /\ Continue(o, next)
  BY DEF Command
<1>2. o.ret = 0 => o.exec
  BY OutcomeFacts
<1>3. /\ card'.kind = card.kind /\ card'.bus = card.bus
      /\ card'.state = IF o.exec THEN state ELSE card.state
  BY <1>1, CardMovesFacts DEF TypeOK, Cards
<1> QED  BY <1>1, <1>2, <1>3 DEF Command, Continue

LEMMA AppCmdFacts ==
  ASSUME TypeOK, NEW at, NEW legal \in BOOLEAN, NEW next, NEW turns,
         AppCmd(at, legal, next, turns)
  PROVE  /\ pc = at /\ UNCHANGED <<silent, lba, high_capacity, fatal_err, width, loading>>
         /\ card'.kind = card.kind /\ card'.bus = card.bus /\ card'.state = card.state
         /\ InitFails \/ (pc' = next /\ UNCHANGED has_init)
<1>1. PICK o \in Outcomes(legal) :
        /\ card' = IF o.exec THEN [card EXCEPT !.app = TRUE] ELSE card
        /\ Continue(o, next)
  BY DEF AppCmd
<1>2. card'.kind = card.kind /\ card'.bus = card.bus /\ card'.state = card.state
  BY <1>1, AppFacts DEF TypeOK, Cards
<1> QED  BY <1>1, <1>2 DEF AppCmd, Continue

(* A step of the initialisation that goes on, the capacity and the lines   *)
(* as they are.                                                            *)
LEMMA GoesOn ==
  ASSUME TypeOK, Believed, ~silent,
         UNCHANGED <<silent, lba, high_capacity, width, loading, has_init>>,
         card'.kind = card.kind, card'.bus = card.bus, fatal_err => fatal_err',
         \/ pc \in Before /\ pc' \in Before
         \/ pc \in Found /\ pc' \in Found
         \/ pc \in Selected \ {"clock"} /\ pc' \in Selected,
         Staged'
  PROVE  Believed'
<1>1. UNCHANGED done
  BY DEF loading
<1>2. Addressed'
  BY DEF Believed, Addressed, Before, Found, Selected
<1>3. Aligned'
  BY DEF Believed, Staged, Aligned, Before, Found, Selected, AtLoad
<1>4. Filled'
  BY <1>1 DEF Believed, Filled, Before, Found, Selected
<1> QED  BY <1>2, <1>3, <1>4 DEF Believed

LEMMA BelievedIdentify ==
  ASSUME TypeOK, Believed, ~silent, Start \/ GoIdle \/ SendIfCond \/ AppOpCond \/ SendOpCond
  PROVE  Believed'
<1> USE DEF Before, Found, Selected, AtLoad
<1>1. CASE Start
  <2>1. /\ pc = "start" /\ pc' = "idle" /\ width' = 1 /\ fatal_err' \in BOOLEAN
        /\ UNCHANGED <<silent, lba, high_capacity, has_init, done, mem, card>>
    BY <1>1 DEF Start, loading
  <2>2. ~has_init /\ width = 1 /\ card.bus = 1
    BY <2>1 DEF Believed, Staged, Aligned
  <2>3. Staged' /\ Addressed' /\ Filled'
    BY <2>1, <2>2 DEF Believed, Staged, Addressed, Filled
  <2>4. Aligned'
    BY <2>1, <2>2 DEF Aligned
  <2> QED  BY <2>3, <2>4 DEF Believed
<1>2. CASE GoIdle
  <2>1. /\ pc = "idle" /\ UNCHANGED <<silent, lba, high_capacity, width, loading, fatal_err>>
        /\ card'.kind = card.kind /\ (card'.bus = card.bus \/ card'.bus = 1)
        /\ InitFails \/ (pc' = "if_cond" /\ UNCHANGED has_init)
    BY <1>2 DEF GoIdle, Continue, TypeOK, Cards
  <2>2. card.bus = 1 /\ ~has_init
    BY <2>1 DEF Believed, Staged, Aligned
  <2>3. CASE InitFails
    BY <2>1, <2>3, FailStep
  <2>4. CASE pc' = "if_cond" /\ UNCHANGED has_init
    <3>1. Staged'
      BY <2>2, <2>4 DEF Staged
    <3> QED  BY <2>1, <2>2, <2>4, <3>1, GoesOn
  <2> QED  BY <2>1, <2>3, <2>4
<1>3. CASE SendIfCond
  <2>1. /\ pc = "if_cond" /\ pc' = "app_op"
        /\ UNCHANGED <<silent, lba, high_capacity, width, loading, has_init, fatal_err>>
    BY <1>3 DEF SendIfCond
  <2>2. PICK o : CardMoves(o, card.state)
    BY <1>3 DEF SendIfCond
  <2>3. card'.kind = card.kind /\ card'.bus = card.bus
    BY <2>2, CardMovesFacts DEF TypeOK, Cards
  <2>4. Staged'
    BY <2>1 DEF Believed, Staged
  <2> QED  BY <2>1, <2>3, <2>4, GoesOn
<1>4. CASE AppOpCond
  <2>1. PICK o : /\ card' = IF o.exec THEN [card EXCEPT !.app = TRUE] ELSE card
                 /\ \/ pc' = "op_cond" /\ UNCHANGED has_init
                    \/ OpCondFails(o.ret)
    BY <1>4 DEF AppOpCond
  <2>2. card'.kind = card.kind /\ card'.bus = card.bus
    BY <2>1, AppFacts DEF TypeOK, Cards
  <2>3. pc = "app_op" /\ UNCHANGED <<silent, lba, high_capacity, width, loading, fatal_err>>
    BY <1>4 DEF AppOpCond
  <2>4. CASE pc' = "op_cond" /\ UNCHANGED has_init
    <3>1. Staged'
      BY <2>3, <2>4 DEF Believed, Staged
    <3> QED  BY <2>2, <2>3, <2>4, <3>1, GoesOn
  <2>5. CASE OpCondFails(o.ret)
    BY <2>2, <2>3, <2>5, FailStep DEF OpCondFails
  <2> QED  BY <2>1, <2>4, <2>5
<1>5. CASE SendOpCond
  <2>1. PICK o \in Outcomes(IsSD /\ card.state = "idle" /\ card.app), ready \in BOOLEAN, ccs \in BOOLEAN :
           /\ o.fresh => /\ ready => card.kind # "sdhc" \/ v2
                         /\ ccs = (ready /\ card.kind = "sdhc")
           /\ CardMoves(o, IF ready /\ (card.kind # "sdhc" \/ v2) THEN "ready" ELSE card.state)
           /\ \/ /\ \/ OpCondFails(o.ret)
                    \/ OpCondFails(UNUSABLE_ERR)
                    \/ pc' = "app_op" /\ UNCHANGED has_init
                 /\ UNCHANGED high_capacity
              \/ /\ o.ret = 0 /\ ready
                 /\ high_capacity' = ccs /\ pc' = "cid"
                 /\ UNCHANGED has_init
    BY <1>5 DEF SendOpCond
  <2>2. /\ card'.kind = card.kind /\ card'.bus = card.bus
        /\ o.exec => card'.state = IF ready /\ (card.kind # "sdhc" \/ v2) THEN "ready" ELSE card.state
    BY <2>1, CardMovesFacts DEF TypeOK, Cards
  <2>3. pc = "op_cond" /\ UNCHANGED <<silent, lba, width, loading, fatal_err>>
    BY <1>5 DEF SendOpCond
  <2>4. CASE UNCHANGED high_capacity /\ (OpCondFails(o.ret) \/ OpCondFails(UNUSABLE_ERR))
    BY <2>2, <2>3, <2>4, FailStep DEF OpCondFails
  <2>5. CASE UNCHANGED high_capacity /\ pc' = "app_op" /\ UNCHANGED has_init
    <3>1. Staged'
      BY <2>3, <2>5 DEF Believed, Staged
    <3> QED  BY <2>2, <2>3, <2>5, <3>1, GoesOn
  <2>6. CASE o.ret = 0 /\ ready /\ high_capacity' = ccs /\ pc' = "cid" /\ UNCHANGED has_init
    <3>1. o.exec /\ o.fresh
      BY <2>6, OutcomeFacts DEF IsSD, TypeOK
    <3>2. card'.state = "ready" /\ (high_capacity' <=> card'.kind = "sdhc")
      BY <2>1, <2>2, <2>6, <3>1
    <3>3. ~has_init /\ lba = 0 /\ width = 1 /\ card.bus = 1 /\ done = 0
      BY <2>3 DEF Believed, Staged, Addressed, Aligned, Filled
    <3>4. Staged' /\ Aligned' /\ Filled'
      BY <2>2, <2>3, <2>6, <3>2, <3>3 DEF Staged, Aligned, Filled, loading
    <3>5. Addressed'
      BY <2>3, <2>6, <3>2, <3>3 DEF Addressed
    <3> QED  BY <3>4, <3>5 DEF Believed
  <2> QED  BY <2>1, <2>4, <2>5, <2>6
<1> QED  BY <1>1, <1>2, <1>3, <1>4, <1>5

LEMMA BelievedStartup ==
  ASSUME TypeOK, Believed, ~silent, SendCid \/ SendRca \/ SendCsd \/ Select \/ AppScr \/ SendScr
  PROVE  Believed'
<1> USE DEF Before, Found, Selected, AtLoad
<1>1. CASE SendCid \/ SendRca \/ SendCsd
  <2>1. \E at \in {"cid", "rca", "csd"}, legal \in BOOLEAN, state \in {"ident", "stby"},
           next \in {"rca", "csd", "select"} :
          /\ Command(at, legal, state, next)
          /\ at = "cid" => next = "rca" /\ state = "ident"
          /\ at = "rca" => next = "csd" /\ state = "stby"
          /\ at = "csd" => next = "select" /\ state = "stby"
    BY <1>1 DEF SendCid, SendRca, SendCsd, IsSD
  <2>2. PICK at \in {"cid", "rca", "csd"}, legal \in BOOLEAN, state \in {"ident", "stby"},
           next \in {"rca", "csd", "select"} :
          /\ Command(at, legal, state, next)
          /\ at = "cid" => next = "rca" /\ state = "ident"
          /\ at = "rca" => next = "csd" /\ state = "stby"
          /\ at = "csd" => next = "select" /\ state = "stby"
    BY <2>1
  <2>3. /\ pc = at /\ UNCHANGED <<silent, lba, high_capacity, fatal_err, width, loading>>
        /\ card'.kind = card.kind /\ card'.bus = card.bus
        /\ \/ InitFails
           \/ pc' = next /\ UNCHANGED has_init /\ card'.state = state
    BY <2>2, CommandFacts
  <2>4. CASE InitFails
    BY <2>3, <2>4, FailStep
  <2>5. CASE pc' = next /\ UNCHANGED has_init /\ card'.state = state
    <3>1. Staged'
      BY <2>2, <2>3, <2>5 DEF Believed, Staged
    <3> QED  BY <2>3, <2>5, <3>1, GoesOn
  <2> QED  BY <2>3, <2>4, <2>5
<1>2. CASE Select
  <2>1. PICK o \in Outcomes(IsSD /\ card.state = "stby") :
           /\ CardMoves(o, "tran")
           /\ Continue(o, "app_scr")
           /\ lba' \in IF o.ret # 0 THEN {lba} ELSE {CardSectors}
    BY <1>2 DEF Select
  <2>2. /\ card'.kind = card.kind /\ card'.bus = card.bus
        /\ o.exec => card'.state = "tran"
    BY <2>1, CardMovesFacts DEF TypeOK, Cards
  <2>3. pc = "select" /\ UNCHANGED <<silent, high_capacity, width, loading, fatal_err>>
    BY <1>2 DEF Select
  <2>4. CASE o.ret # 0
    BY <2>1, <2>2, <2>3, <2>4, FailStep DEF Continue
  <2>5. CASE o.ret = 0
    <3>1. pc' = "app_scr" /\ UNCHANGED has_init /\ lba' = CardSectors /\ card'.state = "tran"
      BY <2>1, <2>2, <2>5, OutcomeFacts DEF Continue, IsSD
    <3>2. Staged' /\ Filled'
      BY <2>3, <3>1 DEF Believed, Staged, Filled, loading
    <3>3. Addressed'
      BY <2>2, <2>3, <3>1 DEF Believed, Addressed
    <3>4. Aligned'
      BY <2>2, <2>3, <3>1 DEF Believed, Staged, Aligned
    <3> QED  BY <3>2, <3>3, <3>4 DEF Believed
  <2> QED  BY <2>4, <2>5
<1>3. CASE AppScr
  <2>1. (IsSD /\ card.state = "tran") \in BOOLEAN
    BY DEF IsSD
  <2>2. /\ pc = "app_scr" /\ UNCHANGED <<silent, lba, high_capacity, fatal_err, width, loading>>
        /\ card'.kind = card.kind /\ card'.bus = card.bus /\ card'.state = card.state
        /\ InitFails \/ (pc' = "scr" /\ UNCHANGED has_init)
    BY <1>3, <2>1, AppCmdFacts DEF AppScr
  <2>3. CASE InitFails
    BY <2>2, <2>3, FailStep
  <2>4. CASE pc' = "scr" /\ UNCHANGED has_init
    <3>1. Staged'
      BY <2>2, <2>4 DEF Believed, Staged
    <3> QED  BY <2>2, <2>4, <3>1, GoesOn
  <2> QED  BY <2>2, <2>3, <2>4
<1>4. CASE SendScr
  <2>1. PICK o : /\ CardMoves(o, card.state)
                 /\ \/ InitFails
                    \/ UNCHANGED has_init /\ pc' \in {pc, "check", "app_bus", "clock"}
    BY <1>4 DEF SendScr, AfterChangeFreq
  <2>2. card'.kind = card.kind /\ card'.bus = card.bus /\ card'.state = card.state
    BY <2>1, CardMovesFacts DEF TypeOK, Cards
  <2>3. pc = "scr" /\ UNCHANGED <<silent, lba, high_capacity, width, loading, fatal_err>>
    BY <1>4 DEF SendScr
  <2>4. CASE InitFails
    BY <2>2, <2>3, <2>4, FailStep
  <2>5. CASE UNCHANGED has_init /\ pc' \in {pc, "check", "app_bus", "clock"}
    <3>1. Staged'
      BY <2>2, <2>3, <2>5 DEF Believed, Staged
    <3> QED  BY <2>2, <2>3, <2>5, <3>1, GoesOn
  <2> QED  BY <2>1, <2>4, <2>5
<1> QED  BY <1>1, <1>2, <1>3, <1>4

LEMMA BelievedSwitch ==
  ASSUME TypeOK, Believed, ~silent, SwitchCheck \/ Switch \/ AppBus \/ SetBusWidth \/ SetClock
  PROVE  Believed'
<1> USE DEF Before, Found, Selected, AtLoad
<1>1. CASE SwitchCheck
  <2>1. PICK o : /\ CardMoves(o, card.state)
                 /\ \/ InitFails
                    \/ UNCHANGED has_init /\ pc' \in {pc, "switch", "app_bus", "clock"}
    BY <1>1 DEF SwitchCheck, AfterChangeFreq
  <2>2. card'.kind = card.kind /\ card'.bus = card.bus /\ card'.state = card.state
    BY <2>1, CardMovesFacts DEF TypeOK, Cards
  <2>3. pc = "check" /\ UNCHANGED <<silent, lba, high_capacity, width, loading, fatal_err>>
    BY <1>1 DEF SwitchCheck
  <2>4. CASE InitFails
    BY <2>2, <2>3, <2>4, FailStep
  <2>5. CASE UNCHANGED has_init /\ pc' \in {pc, "switch", "app_bus", "clock"}
    <3>1. Staged'
      BY <2>2, <2>3, <2>5 DEF Believed, Staged
    <3> QED  BY <2>2, <2>3, <2>5, <3>1, GoesOn
  <2> QED  BY <2>1, <2>4, <2>5
<1>2. CASE Switch
  <2>1. HasCmd6 \in BOOLEAN /\ AfterChangeFreq(wide) \in {"app_bus", "clock"}
    BY DEF HasCmd6, DataLegal, AfterChangeFreq
  <2>2. card.state \in {"idle", "ready", "ident", "stby", "tran"}
    BY DEF TypeOK
  <2>3. /\ pc = "switch" /\ UNCHANGED <<silent, lba, high_capacity, fatal_err, width, loading>>
        /\ card'.kind = card.kind /\ card'.bus = card.bus
        /\ \/ InitFails
           \/ pc' \in {"app_bus", "clock"} /\ UNCHANGED has_init /\ card'.state = card.state
    BY <1>2, <2>1, <2>2, CommandFacts DEF Switch
  <2>4. CASE InitFails
    BY <2>3, <2>4, FailStep
  <2>5. CASE pc' \in {"app_bus", "clock"} /\ UNCHANGED has_init /\ card'.state = card.state
    <3>1. Staged'
      BY <2>3, <2>5 DEF Believed, Staged
    <3> QED  BY <2>3, <2>5, <3>1, GoesOn
  <2> QED  BY <2>3, <2>4, <2>5
<1>3. CASE AppBus
  <2>1. (IsSD /\ card.state = "tran") \in BOOLEAN
    BY DEF IsSD
  <2>2. /\ pc = "app_bus" /\ UNCHANGED <<silent, lba, high_capacity, fatal_err, width, loading>>
        /\ card'.kind = card.kind /\ card'.bus = card.bus /\ card'.state = card.state
        /\ InitFails \/ (pc' = "bus" /\ UNCHANGED has_init)
    BY <1>3, <2>1, AppCmdFacts DEF AppBus
  <2>3. CASE InitFails
    BY <2>2, <2>3, FailStep
  <2>4. CASE pc' = "bus" /\ UNCHANGED has_init
    <3>1. Staged'
      BY <2>2, <2>4 DEF Believed, Staged
    <3> QED  BY <2>2, <2>4, <3>1, GoesOn
  <2> QED  BY <2>2, <2>3, <2>4
<1>4. CASE SetBusWidth
  <2>1. PICK o \in Outcomes(IsSD /\ card.app /\ card.state = "tran") :
           /\ card' = IF o.exec THEN [card EXCEPT !.bus = 4, !.app = FALSE] ELSE card
           /\ Continue(o, "clock")
           /\ IF o.ret = 0
                THEN width' = IF fatal_err' THEN width ELSE 4
                ELSE UNCHANGED <<fatal_err, width>>
    BY <1>4 DEF SetBusWidth
  <2>2. /\ card'.kind = card.kind /\ card'.state = card.state
        /\ o.exec => card'.bus = 4
    BY <2>1 DEF TypeOK
  <2>3. pc = "bus" /\ UNCHANGED <<silent, lba, high_capacity, loading>>
    BY <1>4 DEF SetBusWidth
  <2>4. CASE o.ret # 0
    BY <2>1, <2>2, <2>3, <2>4, FailStep DEF Continue
  <2>5. CASE o.ret = 0
    <3>1. pc' = "clock" /\ UNCHANGED has_init /\ card'.bus = 4 /\ (fatal_err' \/ width' = 4)
      BY <2>1, <2>2, <2>5, OutcomeFacts DEF Continue, IsSD, TypeOK
    <3>2. Staged' /\ Filled'
      BY <2>2, <2>3, <3>1 DEF Believed, Staged, Filled, loading
    <3>3. Addressed'
      BY <2>2, <2>3, <3>1 DEF Believed, Addressed
    <3>4. Aligned'
      BY <3>1 DEF Aligned
    <3> QED  BY <2>3, <3>2, <3>3, <3>4 DEF Believed
  <2> QED  BY <2>4, <2>5
<1>5. CASE SetClock
  <2>1. /\ pc = "clock" /\ pc' = "load" /\ fatal_err' \in {fatal_err, TRUE}
        /\ UNCHANGED <<silent, lba, high_capacity, width, done, mem, card>>
    BY <1>5 DEF SetClock, loading
  <2>2. card.state = "tran" /\ (fatal_err \/ width = card.bus)
    BY <2>1 DEF Believed, Staged, Aligned
  <2>3. Staged' /\ Addressed' /\ Filled'
    BY <2>1, <2>2 DEF Believed, Staged, Addressed, Filled
  <2>4. fatal_err' \/ width' = card'.bus
    <3>1. CASE fatal_err' = TRUE
      BY <3>1
    <3>2. CASE fatal_err' = fatal_err
      BY <2>1, <2>2, <3>2
    <3> QED  BY <2>1, <3>1, <3>2
  <2>5. Aligned'
    BY <2>1, <2>4 DEF Aligned
  <2> QED  BY <2>3, <2>5 DEF Believed
<1> QED  BY <1>1, <1>2, <1>3, <1>4, <1>5

LEMMA BelievedLoad ==
  ASSUME TypeOK, Believed, ~silent, LoadImage
  PROVE  Believed'
<1> USE DEF Before, Found, Selected, AtLoad
<1>1. /\ pc = "load" /\ UNCHANGED <<silent, lba, high_capacity, width, fatal_err, has_init, done, mem>>
  BY DEF LoadImage, loading
<1>2. CASE pc' = "hang" /\ UNCHANGED card
  BY <1>1, <1>2 DEF Believed, Staged, Addressed, Aligned, Filled
<1>3. CASE FirstSector + ImageSectors <= lba /\
           \E o \in Outcomes(IsSD /\ card.state = "tran") :
             /\ CardMoves(o, card.state)
             /\ pc' = IF o.ret = 0 THEN "read" ELSE "hang"
  <2>1. PICK o \in Outcomes(IsSD /\ card.state = "tran") :
             /\ CardMoves(o, card.state)
             /\ pc' = IF o.ret = 0 THEN "read" ELSE "hang"
    BY <1>3
  <2>2. card'.kind = card.kind /\ card'.bus = card.bus /\ card'.state = card.state
    BY <2>1, CardMovesFacts DEF TypeOK, Cards
  <2>3. lba # 0
    BY <1>3, BootAssumption
  <2>4. pc' \in {"read", "hang"} /\ (pc' = "read" => card.state = "tran")
    BY <2>1, OutcomeFacts DEF IsSD
  <2>5. Staged' /\ Addressed' /\ Aligned'
    BY <1>1, <2>2, <2>3, <2>4 DEF Believed, Staged, Addressed, Aligned
  <2>6. done = 0
    BY <1>1 DEF Believed, Filled
  <2>7. Filled'
    BY <1>1, <2>4, <2>6 DEF Filled
  <2> QED  BY <2>5, <2>7 DEF Believed
<1> QED  BY <1>2, <1>3 DEF LoadImage

(* A chunk: all of it was moved, each block from its own sector.           *)
LEMMA BelievedRead ==
  ASSUME TypeOK, Believed, ~silent, ReadBlocks
  PROVE  Believed'
<1> USE DEF Before, Found, Selected, AtLoad
<1>1. PICK o \in Outcomes(IsSD /\ DataLegal), moved \in 0 .. Chunk :
        /\ o.fresh => moved = Chunk
        /\ CardMoves(o, card.state)
        /\ IF o.ret = 0
           THEN /\ mem' = [i \in Image |-> IF i \in done .. done + moved - 1
                                           THEN SectorRead(i) ELSE mem[i]]
                /\ done' = done + Chunk
                /\ pc' = IF done + Chunk = ImageSectors THEN "jumped" ELSE "read"
           ELSE pc' = "hang" /\ UNCHANGED loading
  BY DEF ReadBlocks
<1>2. pc = "read" /\ UNCHANGED <<silent, lba, high_capacity, width, fatal_err, has_init>>
  BY DEF ReadBlocks
<1>3. card'.kind = card.kind /\ card'.bus = card.bus /\ card'.state = card.state
  BY <1>1, CardMovesFacts DEF TypeOK, Cards
<1>4. pc' \in {"hang", "jumped", "read"}
  BY <1>1
<1>5. lba # 0 /\ card.state = "tran" /\ (high_capacity <=> card.kind = "sdhc")
  BY <1>2 DEF Believed, Staged, Addressed
<1>6. Staged' /\ Addressed' /\ Aligned'
  BY <1>2, <1>3, <1>4, <1>5 DEF Believed, Staged, Addressed, Aligned
<1>7. CASE o.ret # 0
  <2>1. pc' = "hang"
    BY <1>1, <1>7
  <2> QED  BY <1>6, <2>1 DEF Believed, Filled
<1>8. CASE o.ret = 0
  <2>1. moved = Chunk
    BY <1>1, <1>8, OutcomeFacts, LegalBool DEF IsSD
  <2>2. \A i : SectorRead(i) = FirstSector + i
    <3>1. high_capacity = (card.kind = "sdhc")
      BY <1>5 DEF TypeOK
    <3> QED  BY <3>1 DEF SectorRead
  <2>3. /\ done \in Nat /\ Chunk \in Nat /\ done + Chunk <= ImageSectors /\ ImageSectors \in Nat
    BY ChunkFacts, BootAssumption DEF TypeOK
  <2>4. \A i \in 0 .. done - 1 : mem[i] = FirstSector + i
    BY <1>2 DEF Believed, Filled
  <2>5. \A i \in 0 .. done' - 1 : mem'[i] = FirstSector + i
    <3> SUFFICES ASSUME NEW i \in 0 .. (done + Chunk) - 1 PROVE mem'[i] = FirstSector + i
      BY <1>1, <1>8
    <3>1. i \in Image /\ (i \in done .. done + moved - 1 \/ i \in 0 .. done - 1)
      BY <2>1, <2>3 DEF Image
    <3>2. mem'[i] = IF i \in done .. done + moved - 1 THEN SectorRead(i) ELSE mem[i]
      BY <1>1, <1>8, <3>1
    <3> QED  BY <2>2, <2>4, <3>1, <3>2
  <2>6. pc' = "jumped" => done' = ImageSectors
    BY <1>1, <1>8
  <2>7. Filled'
    BY <1>4, <2>5, <2>6 DEF Filled
  <2> QED  BY <1>6, <2>7 DEF Believed
<1> QED  BY <1>7, <1>8

LEMMA BelievedStep == TypeOK /\ Believed /\ [Next]_vars => Believed'
<1> SUFFICES ASSUME TypeOK, Believed, [Next]_vars PROVE Believed'  OBVIOUS
<1>1. silent' = silent
  BY DEF Next, vars, drv, Start, GoIdle, SendIfCond, AppOpCond, SendOpCond, SendCid, SendRca, SendCsd,
     Select, AppScr, SendScr, SwitchCheck, Switch, AppBus, SetBusWidth, SetClock, LoadImage, ReadBlocks,
     Command, AppCmd
<1>2. CASE silent
  BY <1>1, <1>2 DEF Believed
<1>3. CASE ~silent /\ UNCHANGED vars
  BY <1>3 DEF Believed, Staged, Addressed, Aligned, Filled, vars, drv
<1>4. CASE ~silent /\ Next
  BY <1>4, BelievedIdentify, BelievedStartup, BelievedSwitch, BelievedLoad, BelievedRead DEF Next
<1> QED  BY <1>2, <1>3, <1>4

LEMMA Invariant == Spec => [](TypeOK /\ Believed)
<1>1. Init => TypeOK /\ Believed
  BY TypeInit, BelievedInit
<1>2. TypeOK /\ Believed /\ [Next]_vars => (TypeOK /\ Believed)'
  BY TypeStep, BelievedStep
<1> QED  BY <1>1, <1>2, PTL DEF Spec

(***************************************************************************)
(* The properties.                                                         *)
(***************************************************************************)
(* The SPL jumps only into an image that is all there.                     *)
THEOREM JumpMeansLoadedHolds == Spec => []JumpMeansLoaded
<1>1. TypeOK /\ Believed => JumpMeansLoaded
  <2> SUFFICES ASSUME Believed, pc = "jumped", ~silent, NEW i \in Image
               PROVE  mem[i] = FirstSector + i
    BY DEF JumpMeansLoaded
  <2>1. done = ImageSectors /\ \A j \in 0 .. done - 1 : mem[j] = FirstSector + j
    BY DEF Believed, Filled
  <2> QED  BY <2>1 DEF Image
<1> QED  BY <1>1, Invariant, PTL

(* What the driver takes the card for is what it is.                       *)
THEOREM CardIsAsBelievedHolds == Spec => []CardIsAsBelieved
<1>1. TypeOK /\ Believed => CardIsAsBelieved
  <2> SUFFICES ASSUME TypeOK, Believed, ~silent
               PROVE  /\ pc = "read" => /\ card.state = "tran" /\ lba = CardSectors
                                        /\ high_capacity = (card.kind = "sdhc")
                      /\ has_init /\ ~fatal_err => width = card.bus /\ card.state = "tran"
    BY DEF CardIsAsBelieved
  <2>1. ASSUME pc = "read"
        PROVE  /\ card.state = "tran" /\ lba = CardSectors
               /\ high_capacity <=> card.kind = "sdhc"
    BY <2>1 DEF Believed, Staged, Addressed
  <2>2. (high_capacity <=> card.kind = "sdhc") => high_capacity = (card.kind = "sdhc")
    BY DEF TypeOK
  <2>3. has_init /\ ~fatal_err => width = card.bus /\ card.state = "tran"
    BY DEF Believed, Staged, Aligned
  <2> QED  BY <2>1, <2>2, <2>3
<1> QED  BY <1>1, Invariant, PTL

(***************************************************************************)
(* How long the boot may take: each step is one command (or the setting of *)
(* the clock), and each loop of the initialisation counts its turns.  A    *)
(* stage stands for the steps that may follow it, the retries included;    *)
(* the loop of ACMD41 takes two commands a turn.                           *)
(***************************************************************************)
StepsOf(stage, turns, read) ==
  CASE stage \in {"jumped", "hang"} -> 0
    [] stage = "read"    -> ImageSectors - read
    [] stage = "load"    -> ImageSectors + 1
    [] stage = "clock"   -> ImageSectors + 2
    [] stage = "bus"     -> ImageSectors + 3
    [] stage = "app_bus" -> ImageSectors + 4
    [] stage = "switch"  -> ImageSectors + 5
    [] stage = "check"   -> ImageSectors + 5 + turns
    [] stage = "scr"     -> ImageSectors + 10 + turns
    [] stage = "app_scr" -> ImageSectors + 14
    [] stage = "select"  -> ImageSectors + 15
    [] stage = "csd"     -> ImageSectors + 16
    [] stage = "rca"     -> ImageSectors + 17
    [] stage = "cid"     -> ImageSectors + 18
    [] stage = "op_cond" -> ImageSectors + 19 + 2 * turns
    [] stage = "app_op"  -> ImageSectors + 20 + 2 * turns
    [] stage = "if_cond" -> ImageSectors + 21 + 2 * OpTries
    [] stage = "idle"    -> ImageSectors + 22 + 2 * OpTries
    [] stage = "start"   -> ImageSectors + 23 + 2 * OpTries

StepsLeft == StepsOf(pc, tries, done)

(* The boot ends after a bounded number of steps, however the card and the *)
(* controller answer: two commands for each turn of the ACMD41 loop, one   *)
(* for each block of the image, and 23 more.                               *)
StepsCounted ==
  /\ StepsLeft \in 0 .. ImageSectors + 2 * OpTries + 23
  /\ StepsLeft = 0 <=> pc \in {"jumped", "hang"}

(* Every step brings the end nearer.                                       *)
BootRunsOut == [][StepsLeft' < StepsLeft]_vars

(* What the counters of the loops are worth where they are tested.         *)
Counters ==
  /\ pc \in {"app_op", "op_cond"} => tries <= OpTries
  /\ pc = "scr" => tries <= 3
  /\ pc = "check" => tries > 0 /\ tries <= 4
  /\ pc \notin {"read", "jumped", "hang"} => done = 0
  /\ pc = "read" => done < ImageSectors

LEMMA Sizes == OpTries \in Nat /\ ImageSectors \in Nat /\ ImageSectors > 0 /\ BMax \in Nat /\ BMax > 0
BY BootAssumption

LEMMA CommandStages ==
  ASSUME NEW at, NEW legal \in BOOLEAN, NEW state, NEW next, Command(at, legal, state, next)
  PROVE  pc = at /\ pc' \in {next, "load"} /\ tries' = tries /\ done' = done
BY DEF Command, Continue, InitFails, loading

LEMMA AppStages ==
  ASSUME NEW at, NEW legal \in BOOLEAN, NEW next, NEW turns, AppCmd(at, legal, next, turns)
  PROVE  pc = at /\ pc' \in {next, "load"} /\ tries' = turns /\ done' = done
BY DEF AppCmd, Continue, InitFails, loading

(* From which stage to which, with which counters.                         *)
Moves ==
  \/ pc = "start" /\ pc' = "idle" /\ UNCHANGED <<tries, done>>
  \/ pc = "idle" /\ pc' \in {"if_cond", "load"} /\ UNCHANGED <<tries, done>>
  \/ pc = "if_cond" /\ pc' = "app_op" /\ tries' = OpTries /\ UNCHANGED done
  \/ pc = "app_op" /\ pc' \in {"op_cond", "load"} /\ UNCHANGED <<tries, done>>
  \/ pc = "op_cond" /\ pc' \in {"cid", "load"} /\ UNCHANGED <<tries, done>>
  \/ pc = "op_cond" /\ pc' = "app_op" /\ tries > 0 /\ tries' = tries - 1 /\ UNCHANGED done
  \/ pc = "cid" /\ pc' \in {"rca", "load"} /\ UNCHANGED <<tries, done>>
  \/ pc = "rca" /\ pc' \in {"csd", "load"} /\ UNCHANGED <<tries, done>>
  \/ pc = "csd" /\ pc' \in {"select", "load"} /\ UNCHANGED <<tries, done>>
  \/ pc = "select" /\ pc' \in {"app_scr", "load"} /\ UNCHANGED <<tries, done>>
  \/ pc = "app_scr" /\ pc' \in {"scr", "load"} /\ tries' = 3 /\ UNCHANGED done
  \/ pc = "scr" /\ pc' = "scr" /\ tries > 0 /\ tries' = tries - 1 /\ UNCHANGED done
  \/ pc = "scr" /\ pc' = "load" /\ UNCHANGED <<tries, done>>
  \/ pc = "scr" /\ pc' \in {"check", "app_bus", "clock"} /\ tries' = 4 /\ UNCHANGED done
  \/ pc = "check" /\ pc' \in {"switch", "app_bus", "clock", "load"} /\ UNCHANGED <<tries, done>>
  \/ pc = "check" /\ pc' = "check" /\ tries > 1 /\ tries' = tries - 1 /\ UNCHANGED done
  \/ pc = "switch" /\ pc' \in {"app_bus", "clock", "load"} /\ UNCHANGED <<tries, done>>
  \/ pc = "app_bus" /\ pc' \in {"bus", "load"} /\ tries' = 0 /\ UNCHANGED done
  \/ pc = "bus" /\ pc' \in {"clock", "load"} /\ UNCHANGED <<tries, done>>
  \/ pc = "clock" /\ pc' = "load" /\ UNCHANGED <<tries, done>>
  \/ pc = "load" /\ pc' \in {"read", "hang"} /\ UNCHANGED <<tries, done>>
  \/ pc = "read" /\ pc' = "hang" /\ UNCHANGED <<tries, done>>
  \/ /\ pc = "read" /\ tries' = tries
     /\ pc' = IF done + Chunk = ImageSectors THEN "jumped" ELSE "read"
     /\ done' = done + Chunk

LEMMA NextMoves ==
  ASSUME TypeOK, Next
  PROVE  Moves
<1> USE LegalBool
<1>0. (IsSD /\ card.state = "ready") \in BOOLEAN /\ (IsSD /\ card.state = "ident") \in BOOLEAN
      /\ (IsSD /\ card.state = "stby") \in BOOLEAN /\ (IsSD /\ card.state = "tran") \in BOOLEAN
  BY DEF IsSD
<1>1. CASE Start
  BY <1>1 DEF Start, Moves, loading
<1>2. CASE GoIdle
  BY <1>2 DEF GoIdle, Continue, InitFails, Moves, loading
<1>3. CASE SendIfCond
  BY <1>3 DEF SendIfCond, Moves, loading
<1>4. CASE AppOpCond
  BY <1>4 DEF AppOpCond, OpCondFails, InitFails, Moves, loading
<1>5. CASE SendOpCond
  BY <1>5 DEF SendOpCond, OpCondFails, InitFails, Moves, loading
<1>6. CASE SendCid
  BY <1>0, <1>6, CommandStages DEF SendCid, Moves
<1>7. CASE SendRca
  BY <1>0, <1>7, CommandStages DEF SendRca, Moves
<1>8. CASE SendCsd
  BY <1>0, <1>8, CommandStages DEF SendCsd, Moves
<1>9. CASE Select
  BY <1>9 DEF Select, Continue, InitFails, Moves, loading
<1>10. CASE AppScr
  BY <1>0, <1>10, AppStages DEF AppScr, Moves
<1>11. CASE SendScr
  <2>1. PICK o \in Outcomes(IsSD /\ card.app /\ DataLegal) :
          \/ o.ret # 0 /\ tries > 0 /\ tries' = tries - 1 /\ UNCHANGED pc
          \/ InitFails /\ UNCHANGED tries
          \/ /\ tries' = 4
             /\ pc' \in IF ~o.fresh THEN {"check", AfterChangeFreq(wide')}
                        ELSE IF card.kind = "sd1" THEN {AfterChangeFreq(wide')}
                        ELSE {"check"}
    BY <1>11 DEF SendScr
  <2>2. pc = "scr" /\ UNCHANGED done
    BY <1>11 DEF SendScr, loading
  <2>3. AfterChangeFreq(wide') \in {"app_bus", "clock"}
    BY DEF AfterChangeFreq
  <2> QED  BY <2>1, <2>2, <2>3 DEF InitFails, Moves
<1>12. CASE SwitchCheck
  <2>1. AfterChangeFreq(wide) \in {"app_bus", "clock"}
    BY DEF AfterChangeFreq
  <2>2. pc = "check" /\ UNCHANGED done
    BY <1>12 DEF SwitchCheck, loading
  <2>3. \/ pc' = "load" /\ UNCHANGED tries
        \/ tries > 1 /\ tries' = tries - 1 /\ UNCHANGED pc
        \/ pc' \in {"switch", AfterChangeFreq(wide)} /\ UNCHANGED tries
    BY <1>12 DEF SwitchCheck, InitFails
  <2> QED  BY <2>1, <2>2, <2>3 DEF Moves
<1>13. CASE Switch
  <2>1. AfterChangeFreq(wide) \in {"app_bus", "clock"}
    BY DEF AfterChangeFreq
  <2>2. pc = "switch" /\ pc' \in {AfterChangeFreq(wide), "load"} /\ UNCHANGED <<tries, done>>
    BY <1>13, CommandStages DEF Switch
  <2> QED  BY <2>1, <2>2 DEF Moves
<1>14. CASE AppBus
  BY <1>0, <1>14, AppStages DEF AppBus, Moves
<1>15. CASE SetBusWidth
  BY <1>15 DEF SetBusWidth, Continue, InitFails, Moves, loading
<1>16. CASE SetClock
  BY <1>16 DEF SetClock, Moves, loading
<1>17. CASE LoadImage
  BY <1>17 DEF LoadImage, Moves, loading
<1>18. CASE ReadBlocks
  BY <1>18 DEF ReadBlocks, Moves, loading
<1> QED  BY <1>1, <1>2, <1>3, <1>4, <1>5, <1>6, <1>7, <1>8, <1>9, <1>10, <1>11, <1>12, <1>13,
            <1>14, <1>15, <1>16, <1>17, <1>18 DEF Next

LEMMA CountersStep ==
  ASSUME TypeOK, Counters, Moves
  PROVE  Counters'
<1>1. tries \in Nat /\ done \in 0 .. ImageSectors /\ OpTries \in Nat /\ ImageSectors \in Nat
      /\ ImageSectors > 0
  BY Sizes DEF TypeOK
<1>2. CASE pc = "read" /\ done' = done + Chunk
  <2>1. /\ Chunk \in Nat /\ Chunk > 0 /\ done + Chunk <= ImageSectors
        /\ pc' = IF done + Chunk = ImageSectors THEN "jumped" ELSE "read"
    <3>1. done < ImageSectors
      BY <1>2 DEF Counters
    <3>2. Chunk \in Nat /\ Chunk > 0 /\ done + Chunk <= ImageSectors
      BY <1>1, <3>1, ChunkFacts
    <3> QED  BY <1>1, <1>2, <3>1, <3>2 DEF Moves
  <2> QED  BY <1>1, <1>2, <2>1 DEF Counters
<1>3. CASE ~(pc = "read" /\ done' = done + Chunk)
  <2>1. (pc' \in {"app_op", "op_cond"} => tries' <= OpTries)
    BY <1>1, <1>3 DEF Moves, Counters
  <2>2. pc' = "scr" => tries' <= 3
    BY <1>1, <1>3 DEF Moves, Counters
  <2>3. pc' = "check" => tries' > 0 /\ tries' <= 4
    <3>1. pc' = "check" => tries' = 4 \/ (pc = "check" /\ tries > 1 /\ tries' = tries - 1)
      BY DEF Moves
    <3> QED  BY <1>1, <3>1 DEF Counters
  <2>4. /\ pc' \notin {"read", "jumped", "hang"} => done' = 0
        /\ pc' = "read" => done' < ImageSectors
    BY <1>1, <1>3 DEF Moves, Counters
  <2> QED  BY <2>1, <2>2, <2>3, <2>4 DEF Counters
<1> QED  BY <1>2, <1>3

(* The worth of each stage, one equation each.                             *)
LEMMA Worth ==
  ASSUME NEW turns, NEW read
  PROVE  /\ StepsOf("jumped", turns, read) = 0
         /\ StepsOf("hang", turns, read) = 0
         /\ StepsOf("read", turns, read) = ImageSectors - read
         /\ StepsOf("load", turns, read) = ImageSectors + 1
         /\ StepsOf("clock", turns, read) = ImageSectors + 2
         /\ StepsOf("bus", turns, read) = ImageSectors + 3
         /\ StepsOf("app_bus", turns, read) = ImageSectors + 4
         /\ StepsOf("switch", turns, read) = ImageSectors + 5
         /\ StepsOf("check", turns, read) = ImageSectors + 5 + turns
         /\ StepsOf("scr", turns, read) = ImageSectors + 10 + turns
         /\ StepsOf("app_scr", turns, read) = ImageSectors + 14
         /\ StepsOf("select", turns, read) = ImageSectors + 15
         /\ StepsOf("csd", turns, read) = ImageSectors + 16
         /\ StepsOf("rca", turns, read) = ImageSectors + 17
         /\ StepsOf("cid", turns, read) = ImageSectors + 18
         /\ StepsOf("op_cond", turns, read) = ImageSectors + 19 + 2 * turns
         /\ StepsOf("app_op", turns, read) = ImageSectors + 20 + 2 * turns
         /\ StepsOf("if_cond", turns, read) = ImageSectors + 21 + 2 * OpTries
         /\ StepsOf("idle", turns, read) = ImageSectors + 22 + 2 * OpTries
         /\ StepsOf("start", turns, read) = ImageSectors + 23 + 2 * OpTries
BY DEF StepsOf

LEMMA MovesLower ==
  ASSUME TypeOK, Counters, Moves
  PROVE  StepsOf(pc', tries', done') < StepsOf(pc, tries, done)
<1>1. tries \in Nat /\ done \in 0 .. ImageSectors /\ OpTries \in Nat /\ ImageSectors \in Nat
      /\ ImageSectors > 0
  BY Sizes DEF TypeOK
<1>2. \A turns, read :
         /\ StepsOf("jumped", turns, read) = 0
         /\ StepsOf("hang", turns, read) = 0
         /\ StepsOf("read", turns, read) = ImageSectors - read
         /\ StepsOf("load", turns, read) = ImageSectors + 1
         /\ StepsOf("clock", turns, read) = ImageSectors + 2
         /\ StepsOf("app_bus", turns, read) = ImageSectors + 4
  BY Worth
<1>3. CASE pc = "read"
  <2>1. CASE pc' = "hang"
    BY <1>1, <1>2, <1>3, <2>1 DEF Counters
  <2>2. CASE pc' \in {"jumped", "read"} /\ done' = done + Chunk
    <3>1. Chunk \in Nat /\ Chunk > 0 /\ done + Chunk <= ImageSectors
      <4>1. done < ImageSectors
        BY <1>3 DEF Counters
      <4> QED  BY <1>1, <4>1, ChunkFacts
    <3>2. StepsOf(pc, tries, done) = ImageSectors - done
      BY <1>2, <1>3
    <3>3. StepsOf(pc', tries', done') \in {0, ImageSectors - done'}
      BY <1>2, <2>2
    <3> QED  BY <1>1, <1>3, <2>2, <3>1, <3>2, <3>3 DEF Counters
  <2> QED  BY <1>3, <2>1, <2>2 DEF Moves
<1>4. CASE pc # "read" /\ pc' = "hang"
  BY <1>1, <1>4, Worth DEF Moves
<1>5. CASE pc # "read" /\ pc' = "read"
  <2>1. pc = "load" /\ done' = done
    BY <1>5 DEF Moves
  <2> QED  BY <1>1, <1>2, <1>5, <2>1
<1>6. CASE pc \in {"app_op", "op_cond"}
  <2>1. /\ StepsOf("app_op", tries, done) = ImageSectors + 20 + 2 * tries
        /\ StepsOf("op_cond", tries, done) = ImageSectors + 19 + 2 * tries
        /\ StepsOf("op_cond", tries', done') = ImageSectors + 19 + 2 * tries'
        /\ StepsOf("app_op", tries', done') = ImageSectors + 20 + 2 * tries'
        /\ StepsOf("cid", tries', done') = ImageSectors + 18
    BY Worth
  <2> QED  BY <1>1, <1>2, <1>6, <2>1 DEF Moves
<1>7. CASE pc \in {"scr", "check", "app_scr", "switch"} /\ pc' # "load"
  <2>1. /\ StepsOf("scr", tries, done) = ImageSectors + 10 + tries
        /\ StepsOf("check", tries, done) = ImageSectors + 5 + tries
        /\ StepsOf("app_scr", tries, done) = ImageSectors + 14
        /\ StepsOf("switch", tries, done) = ImageSectors + 5
        /\ StepsOf("scr", tries', done') = ImageSectors + 10 + tries'
        /\ StepsOf("check", tries', done') = ImageSectors + 5 + tries'
        /\ StepsOf("switch", tries', done') = ImageSectors + 5
    BY Worth
  <2> QED  BY <1>1, <1>2, <1>7, <2>1 DEF Moves, Counters
<1>8. CASE pc \in {"scr", "check", "app_scr", "switch"} /\ pc' = "load"
  <2>1. /\ StepsOf("scr", tries, done) = ImageSectors + 10 + tries
        /\ StepsOf("check", tries, done) = ImageSectors + 5 + tries
        /\ StepsOf("app_scr", tries, done) = ImageSectors + 14
        /\ StepsOf("switch", tries, done) = ImageSectors + 5
    BY Worth
  <2> QED  BY <1>1, <1>2, <1>8, <2>1
<1>9. CASE pc = "if_cond"
  <2>1. /\ StepsOf("if_cond", tries, done) = ImageSectors + 21 + 2 * OpTries
        /\ StepsOf("app_op", tries', done') = ImageSectors + 20 + 2 * tries'
    BY Worth
  <2> QED  BY <1>1, <1>9, <2>1 DEF Moves
<1>10. CASE pc \in {"start", "idle", "cid", "rca"}
  <2>1. /\ StepsOf("start", tries, done) = ImageSectors + 23 + 2 * OpTries
        /\ StepsOf("idle", tries, done) = ImageSectors + 22 + 2 * OpTries
        /\ StepsOf("cid", tries, done) = ImageSectors + 18
        /\ StepsOf("rca", tries, done) = ImageSectors + 17
        /\ StepsOf("idle", tries', done') = ImageSectors + 22 + 2 * OpTries
        /\ StepsOf("if_cond", tries', done') = ImageSectors + 21 + 2 * OpTries
        /\ StepsOf("rca", tries', done') = ImageSectors + 17
        /\ StepsOf("csd", tries', done') = ImageSectors + 16
    BY Worth
  <2> QED  BY <1>1, <1>2, <1>10, <2>1 DEF Moves
<1>11. CASE pc \in {"csd", "select", "app_bus", "bus", "clock"}
  <2>1. /\ StepsOf("csd", tries, done) = ImageSectors + 16
        /\ StepsOf("select", tries, done) = ImageSectors + 15
        /\ StepsOf("bus", tries, done) = ImageSectors + 3
        /\ StepsOf("select", tries', done') = ImageSectors + 15
        /\ StepsOf("app_scr", tries', done') = ImageSectors + 14
        /\ StepsOf("bus", tries', done') = ImageSectors + 3
    BY Worth
  <2> QED  BY <1>1, <1>2, <1>11, <2>1 DEF Moves
<1>12. pc \in {"load", "read", "start", "idle", "if_cond", "app_op", "op_cond", "cid", "rca", "csd",
               "select", "app_scr", "scr", "check", "switch", "app_bus", "bus", "clock"}
  BY DEF Moves
<1>13. pc = "load" => pc' \in {"read", "hang"}
  BY DEF Moves
<1> QED  BY <1>3, <1>4, <1>5, <1>6, <1>7, <1>8, <1>9, <1>10, <1>11, <1>12, <1>13

LEMMA StepsType ==
  ASSUME TypeOK, Counters
  PROVE  StepsCounted
<1>1. tries \in Nat /\ done \in 0 .. ImageSectors /\ OpTries \in Nat /\ ImageSectors \in Nat
      /\ ImageSectors > 0
  BY Sizes DEF TypeOK
<1>2. CASE pc \in {"jumped", "hang", "read", "load", "clock", "bus", "app_bus", "switch", "check", "scr"}
  <2>1. StepsLeft \in 0 .. ImageSectors + 13 /\ (StepsLeft = 0 <=> pc \in {"jumped", "hang"})
    BY <1>1, <1>2, Worth DEF StepsLeft, Counters
  <2> QED  BY <1>1, <2>1 DEF StepsCounted
<1>3. CASE pc \in {"app_scr", "select", "csd", "rca", "cid", "if_cond", "idle", "start"}
  <2>1. StepsLeft \in 14 .. ImageSectors + 2 * OpTries + 23
    BY <1>1, <1>3, Worth DEF StepsLeft
  <2> QED  BY <1>1, <1>3, <2>1 DEF StepsCounted
<1>4. CASE pc \in {"op_cond", "app_op"}
  <2>1. StepsLeft \in {ImageSectors + 19 + 2 * tries, ImageSectors + 20 + 2 * tries}
    BY <1>4, Worth DEF StepsLeft
  <2>2. tries <= OpTries
    BY <1>4 DEF Counters
  <2>3. StepsLeft \in 19 .. ImageSectors + 2 * OpTries + 23
    BY <1>1, <2>1, <2>2
  <2> QED  BY <1>1, <1>4, <2>3 DEF StepsCounted
<1> QED  BY <1>2, <1>3, <1>4 DEF TypeOK

(* The boot is over after at most ImageSectors + 2 * OpTries + 23 steps,   *)
(* in U-Boot or in the led loop, whatever card is in and even with a       *)
(* silent controller.  BootEnds adds only that a step is taken while there *)
(* is one.                                                                 *)
THEOREM BootRunsOutHolds == Spec => []StepsCounted /\ BootRunsOut
<1>1. Init => TypeOK /\ Counters
  <2>1. Init => Counters
    BY Sizes DEF Init, Counters
  <2> QED  BY <2>1, TypeInit
<1>2. TypeOK /\ Counters /\ [Next]_vars => TypeOK' /\ Counters'
  <2> SUFFICES ASSUME TypeOK, Counters, [Next]_vars PROVE Counters'
    BY TypeStep
  <2>1. CASE Next
    BY <2>1, NextMoves, CountersStep
  <2>2. CASE UNCHANGED vars
    BY <2>2 DEF Counters, vars, drv
  <2> QED  BY <2>1, <2>2
<1>3. TypeOK /\ Counters => StepsCounted
  BY StepsType
<1> DEFINE Step == StepsLeft' < StepsLeft
<1>4. TypeOK /\ Counters /\ [Next]_vars => [Step]_vars
  <2> SUFFICES ASSUME TypeOK, Counters, Next PROVE Step
    OBVIOUS
  <2> QED  BY NextMoves, MovesLower DEF StepsLeft, StepsOf
<1> HIDE DEF Step
<1>5. Spec => []StepsCounted /\ [][Step]_vars
  BY <1>1, <1>2, <1>3, <1>4, PTL DEF Spec
<1> QED  BY <1>5 DEF Step, BootRunsOut
==============================================================================
