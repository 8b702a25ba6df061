----------------------------- MODULE BoardInit -----------------------------
(***************************************************************************)
(* U-Boot from its entry to main_loop (crt0.S, board.c, relocate.S,        *)
(* interrupts.c, cache-cp15.c): what it finds, what it lays out in the     *)
(* RAM, and what it stores there, stage by stage.                          *)
(*                                                                         *)
(* Addresses are bytes from CONFIG_SYS_SDRAM_BASE, so that the on-chip RAM *)
(* below has negative ones.  The program is linked at CONFIG_SYS_TEXT_BASE *)
(* with no relocation entries: its copy is made but never run, but for the *)
(* few instructions after the label "here".                                *)
(***************************************************************************)
EXTENDS MemSize

CONSTANTS
  Images,      \* records [copy, bss, common]: bytes that are loaded, of
               \* .bss, and of the data the linker puts after __bss_end
  StackDepth   \* bytes the stack may grow to

Kib == 1024
Mib == 1024 * Kib

(* One bank of at most 1 GiB, where no RAM does not read as 0; an image    *)
(* the SPL reads whole (CONFIG_SYS_MONITOR_LEN) and less than 1 MiB with   *)
(* its data; a stack of CONFIG_STACKSIZE.                                  *)
BoardAssumption ==
  /\ MaxWords \in Powers /\ MaxWords <= 256 * Mib
  /\ Floating \in Int \ {0}
  /\ \A fill \in Fills : \A w \in Addresses : fill[w] \in Int
  /\ StackDepth \in Nat /\ StackDepth <= 256 * Kib
  /\ \A i \in Images :
       /\ i.copy \in Nat /\ i.copy <= 512 * Kib
       /\ i.bss \in Nat /\ i.common \in Nat
       /\ i.copy + i.bss + i.common <= Mib
ASSUME BoardAssumption

VARIABLES
  pc,       \* stage
  image,    \* the program: a member of Images
  gd,       \* the fields of the global data that hold addresses and sizes
  stores,   \* regions the last step has stored to
  IRQ_STACK_START_IN   \* where an exception stores lr and spsr

boardVars == <<pc, image, gd, stores, IRQ_STACK_START_IN>>
vars      == <<memVars, boardVars>>

SdramBase    == 1024 * Mib
TextBase     == 160 * Mib
BdSize       == 32
GdSize       == 152
TlbSize      == 16 * Kib
MallocLen    == 128 * Kib + Mib

Down(addr, unit) == addr - (addr % unit)

Region(name, from, bytes) == [name |-> name, lo |-> from, hi |-> from + bytes]
Apart(r, s) == r.hi <= s.lo \/ s.hi <= r.lo

(* The image in its place, its BSS, and mmc_dev and mmc_host behind them.  *)
MonLen  == image.copy + image.bss
Program == Region("program", TextBase, image.copy)
Bss     == Region("bss", TextBase + image.copy, image.bss)
Common  == Region("common", TextBase + MonLen, image.common)

NoGd == [ram_size |-> 0, tlb_addr |-> 0, relocaddr |-> 0, bd |-> 0, id |-> 0,
         irq_sp |-> 0, start_addr_sp |-> 0, reloc_off |-> 0]

Init ==
  /\ MemInit({0} \cup {w \in Powers : w <= MaxWords})
  /\ image \in Images
  /\ pc = "dramc_init"
  /\ gd = NoGd
  /\ stores = {}
  /\ IRQ_STACK_START_IN = 195936478 - SdramBase   \* 0x0badc0de

(* The SPL's dramc_init: the controller is trained, then the RAM measured. *)
(* Nobody looks at the result: without RAM, U-Boot is loaded nowhere.      *)
DramcInit ==
  /\ pc = "dramc_init"
  /\ \/ GetRamSize /\ UNCHANGED pc
     \/ step = "done" /\ ram # 0 /\ pc' = "dram_init" /\ CallAgain
     \/ step = "done" /\ ram = 0 /\ pc' = "lost" /\ UNCHANGED memVars
     \/ step = "down" /\ save = <<>> /\ pc' = "lost" /\ UNCHANGED memVars
  /\ UNCHANGED <<image, gd, stores, IRQ_STACK_START_IN>>

(* U-Boot's dram_init, the last function of init_sequence.                 *)
DramInit ==
  /\ pc = "dram_init"
  /\ \/ GetRamSize /\ UNCHANGED <<pc, gd>>
     \/ /\ step = "done"
        /\ pc' = "reserve"
        /\ gd' = [gd EXCEPT !.ram_size = 4 * size]
        /\ UNCHANGED memVars
  /\ UNCHANGED <<image, stores, IRQ_STACK_START_IN>>

BdAddrInHeap(reloc) == reloc - BdSize

(* board_init_f: from the end of the RAM down.                             *)
TlbAddr(top) == Down(top - TlbSize, 64 * Kib)
RelocAddr(tlb) == Down(Down(tlb, 4 * Kib) - MonLen, 4 * Kib)
BdAddr(reloc) == reloc - MallocLen - BdSize
StackTop(irq) == Down(irq - 12, 8)

Reserve ==
  /\ pc = "reserve"
  /\ LET tlb   == TlbAddr(gd.ram_size)
         reloc == RelocAddr(tlb)
         bd    == BdAddr(reloc)
         id    == bd - GdSize
     IN /\ gd' = [gd EXCEPT !.tlb_addr = tlb, !.relocaddr = reloc, !.bd = bd, !.id = id,
                            !.irq_sp = id, !.start_addr_sp = StackTop(id),
                            !.reloc_off = reloc - TextBase]
        /\ stores' = {Region("bd", bd, BdSize), Region("gd", id, GdSize)}
  /\ pc' = "relocate_code"
  /\ UNCHANGED <<memVars, image, IRQ_STACK_START_IN>>

(* relocate_code copies eight bytes a turn, up to __image_copy_end.        *)
Copy ==
  /\ pc = "relocate_code"
  /\ IF gd.relocaddr = TextBase
     THEN pc' = "clear_bss" /\ stores' = {}
     ELSE /\ pc' = "fixloop"
          /\ stores' = {Region("copy", gd.relocaddr, image.copy + (image.copy % 8))}
  /\ UNCHANGED <<memVars, image, gd, IRQ_STACK_START_IN>>

(* The loop tests its end after its first turn, and stores whatever the    *)
(* entry is.  There are no entries: what it takes for one are the words    *)
(* behind the image, which dd.sh has set to 0.                             *)
WordAfterImage == 0

FixUpStuck ==
  /\ pc = "fixloop"
  /\ stores' = {Region("fixup", WordAfterImage + gd.reloc_off - SdramBase, 4)}
  /\ UNCHANGED <<memVars, pc, image, gd, IRQ_STACK_START_IN>>

FixUp ==
  /\ pc = "fixloop"
  /\ pc' = "clear_bss"
  /\ stores' = {Region("fixup", WordAfterImage + gd.reloc_off - SdramBase, 4)}
  /\ UNCHANGED <<memVars, image, gd, IRQ_STACK_START_IN>>

ClearBss ==
  /\ pc = "clear_bss"
  /\ pc' = "enable_caches"
  /\ stores' = {Bss}
  /\ UNCHANGED <<memVars, image, gd, IRQ_STACK_START_IN>>

(* board_init_r, first part: the translation table is filled.              *)
EnableCaches ==
  /\ pc = "enable_caches"
  /\ pc' = "mem_malloc_init"
  /\ stores' = {Region("tlb", gd.tlb_addr, TlbSize), Region("bd", gd.bd, BdSize)}
  /\ UNCHANGED <<memVars, image, gd, IRQ_STACK_START_IN>>

MemMallocInit ==
  /\ pc = "mem_malloc_init"
  /\ pc' = "interrupt_init"
  /\ stores' = {Region("heap", gd.relocaddr - MallocLen, MallocLen)}
  /\ UNCHANGED <<memVars, image, gd, IRQ_STACK_START_IN>>

(* IRQ_STACK_START_IN is a word of the program.                            *)
InterruptInit ==
  /\ pc = "interrupt_init"
  /\ pc' = "main_loop"
  /\ IRQ_STACK_START_IN' = gd.irq_sp + 8
  /\ stores' = {Region("program", TextBase, image.copy)}
  /\ UNCHANGED <<memVars, image, gd>>

(* main_loop does not return; without U-Boot in RAM nothing more is known. *)
Stays == pc \in {"main_loop", "lost"} /\ UNCHANGED vars

Boot ==
  \/ DramcInit \/ DramInit \/ Reserve \/ Copy \/ FixUp \/ ClearBss
  \/ EnableCaches \/ MemMallocInit \/ InterruptInit

Next == Boot \/ Stays
Spec == Init /\ [][Next]_vars /\ WF_vars(Boot)

(***************************************************************************)
(* Properties.                                                             *)
(***************************************************************************)
(* The stage, and the probing's counters.                                  *)
TypeOK ==
  /\ pc \in {"dramc_init", "lost", "dram_init", "reserve", "relocate_code", "fixloop", "clear_bss",
             "enable_caches", "mem_malloc_init", "interrupt_init", "main_loop"}
  /\ step \in {"down", "no_ram", "up", "restore", "done"}
  /\ cnt \in 0..MaxWords
  /\ size \in 0..MaxWords
  /\ Len(save) \in 0..31
  /\ image \in Images

(* get_ram_size tells how much RAM there is, and puts back what it found,  *)
(* but for the first word of a range that is RAM from end to end; and with *)
(* 256 MiB or more none of its probes falls on the program that runs.      *)
SizeFound ==
  /\ step = "done" =>
       /\ size = ram
       /\ memory = IF ram = MaxWords THEN [before EXCEPT ![0] = 0] ELSE before
  /\ 4 * ram >= 256 * Mib =>
       \A w \in Reached, r \in {Program, Bss, Common} : Apart(Region("probe", 4 * w, 4), r)

(* What is in use at a stage.                                              *)
Stack      == Region("stack", gd.start_addr_sp - StackDepth, StackDepth)
Sram       == Region("sram", -SdramBase, 32 * Kib)
AbortStack == Region("abort", IRQ_STACK_START_IN, 8)

From(stages, regions) == IF pc \in stages THEN regions ELSE {}

Running  == {"main_loop"}
HeapUp   == Running \cup {"interrupt_init"}
CachesUp == HeapUp \cup {"mem_malloc_init"}
BssUp    == CachesUp \cup {"enable_caches"}
LaidOut  == BssUp \cup {"relocate_code", "fixloop", "clear_bss"}

InUse ==
  {Program, Common}
  \cup From({"dram_init", "reserve"}, {Sram})
  \cup From(LaidOut, {Region("bd", gd.bd, BdSize), Region("gd", gd.id, GdSize), Stack})
  \cup From(BssUp, {Bss})
  \cup From(CachesUp, {Region("tlb", gd.tlb_addr, TlbSize)})
  \cup From(HeapUp, {Region("heap", gd.relocaddr - MallocLen, MallocLen)})
  \cup From(Running, {AbortStack})

(* The one overlap the code has: an exception stores its two words in the  *)
(* global data, not in the three words that board_init_f leaves below it.  *)
Overlapping(r, s) == {r.name, s.name} = {"abort", "gd"}

(* With 256 MiB or more, nothing that is in use shares a byte with         *)
(* anything else that is, and no store of a stage falls on it: the copy    *)
(* and the stray store of the fix-up loop included.  The abort stack alone *)
(* does lie in the global data, on the words of baudrate and cpu_clk and   *)
(* no others.  What is laid out lies in the RAM that was found.            *)
RegionsApart ==
  gd.ram_size >= 256 * Mib =>
    /\ \A r \in InUse \cup stores, s \in InUse :
         r.name = s.name \/ Overlapping(r, s) \/ Apart(r, s)
    /\ pc \in Running => gd.id + 8 <= AbortStack.lo /\ AbortStack.hi <= gd.id + 16
    /\ pc \in LaidOut => 0 <= gd.start_addr_sp - StackDepth /\ gd.tlb_addr + TlbSize <= gd.ram_size

(* The start-up comes to its end.                                          *)
Starts == <>(pc \in {"main_loop", "lost"})
=============================================================================
