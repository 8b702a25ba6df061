-------------------------------- MODULE Bootm --------------------------------
(***************************************************************************)
(* The bootm command, the only one the boot script runs: do_bootm and what *)
(* it calls in cmd_bootm.c, image.c and bootm.c, down to                   *)
(* cleanup_before_linux (cpu.c) and the cache operations under it, on a    *)
(* machine whose data cache writes lines back and prefetches when it likes *)
(* and whose RAM outlives a reset.                                         *)
(*                                                                         *)
(* Memory is made of words as big as an image header, and a cache line is  *)
(* a word.  A word's content is the part of an image it was written with.  *)
(* A CRC fits the bytes it was computed from and no others.  The caches    *)
(* hold other things besides, the stack among them; these are not here.    *)
(***************************************************************************)
EXTENDS Integers

CONSTANTS
  Words,     \* addresses 0 .. Words - 1
  Params,    \* where the parameters for the kernel go (bi_boot_params)
  LoadAddr,  \* where the image is read to: the argument of bootm
  ReadSize,  \* how many words genimg_get_image reads (5 MB in the code)
  Images,    \* the images a card may hold, with the fields of their headers
  NoImage

Addr == 0 .. Words - 1

ASSUME BootmAssumption ==
  /\ Words \in Nat /\ Params \in Addr /\ LoadAddr \in Addr
  /\ ReadSize \in Nat /\ ReadSize > 0 /\ LoadAddr + ReadSize <= Words
  /\ NoImage \notin DOMAIN Images
  /\ \A i \in DOMAIN Images :
       LET h == Images[i]
       IN  /\ h.arch \in BOOLEAN           \* the header names this architecture
           /\ h.type \in {"kernel", "noload", "other"}
           /\ h.comp \in {"none", "gzip", "other"}
           /\ h.load \in Addr              \* where the data is to run
           /\ h.ep \in Nat                 \* the entry point
           /\ h.size \in Nat               \* words of data

(* Nothing in the code keeps an image off the parameters, whose place is   *)
(* below the one the kernel is linked for.                                 *)
ASSUME ParamsAssumption ==
  /\ Params < LoadAddr
  /\ \A i \in DOMAIN Images :
       LET h == Images[i]
       IN  Params < h.load /\ h.load + h.size <= Words /\ LoadAddr + h.size < Words

(* An image is built with an entry point in its own data: counted from the *)
(* data if it may run anywhere, an address where it is to run if not.      *)
RunsAt(h) == IF h.load \in {LoadAddr, LoadAddr + 1} THEN LoadAddr + 1 ELSE h.load

ASSUME EntryAssumption ==
  \A i \in DOMAIN Images :
    LET h     == Images[i]
        first == IF h.type = "noload" THEN 0 ELSE RunsAt(h)
    IN  h.size > 0 => h.ep \in first .. first + h.size - 1

MemoryWord == [img : DOMAIN Images \cup {NoImage}, off : Nat]
Junk  == [img |-> NoImage, off |-> 0]
Tags  == [img |-> NoImage, off |-> 1]
NoLine == [img |-> NoImage, off |-> 2]

VARIABLES
  func,    \* the function about to run
  ram,     \* the contents of the RAM
  cached,  \* the data cache: each address's line, or NoLine
  dcache, icache,  \* the enable bits, CR_C and CR_I
  ilines,  \* whether the instruction cache may hold lines of the kernel
  os       \* images.os: its image, the address to load and the one of the data;
           \* and images.ep

vars == <<func, ram, cached, dcache, icache, ilines, os>>

machine == <<ram, cached, dcache, icache, ilines>>

TypeOK ==
  /\ func \in {"bootm", "get_kernel", "load_os", "flush", "prep", "icache_disable",
             "icache_inval", "dcache_flush", "dcache_off", "dcache_inval", "jump",
             "kernel", "spinning"}
  /\ \A a \in Addr : ram[a] \in MemoryWord /\ cached[a] \in MemoryWord
  /\ dcache \in BOOLEAN /\ icache \in BOOLEAN /\ ilines \in BOOLEAN
  /\ os.img \in DOMAIN Images \cup {NoImage} /\ os.load \in Addr /\ os.start \in Addr
  /\ os.ep \in Addr

NoOs == [img |-> NoImage, load |-> 0, start |-> 0, ep |-> 0]

(* board_init_r has invalidated the data cache and enabled it; start.S the *)
(* instruction cache.                                                      *)
CachesOn ==
  /\ cached = [a \in Addr |-> NoLine]
  /\ dcache = TRUE /\ icache = TRUE /\ ilines = FALSE

(* Power on: the RAM holds nothing of use.                                 *)
Init ==
  /\ func = "bootm" /\ os = NoOs
  /\ ram = [a \in Addr |-> Junk]
  /\ CachesOn

-----------------------------------------------------------------------------
(* The caches.                                                             *)

(* Dirty lines; while the cache is on nothing but the CPU writes to RAM.   *)
Dirty == {a \in Addr : cached[a] # NoLine /\ cached[a] # ram[a]}

(* What the CPU reads.                                                     *)
Seen(a) == IF dcache /\ cached[a] # NoLine THEN cached[a] ELSE ram[a]

(* The CPU writes words: a function from addresses.                        *)
Over(old, new) == [a \in Addr |-> IF a \in DOMAIN new THEN new[a] ELSE old[a]]

Write(new) ==
  IF dcache THEN cached' = Over(cached, new) /\ UNCHANGED ram
            ELSE ram' = Over(ram, new) /\ UNCHANGED cached

(* Clean and invalidate lines.                                             *)
CleanInval(at) ==
  /\ ram' = [a \in Addr |-> IF a \in at /\ cached[a] # NoLine THEN cached[a] ELSE ram[a]]
  /\ cached' = [a \in Addr |-> IF a \in at THEN NoLine ELSE cached[a]]

(* What the hardware does by itself while the caches are on: write a line  *)
(* back, drop a clean one, fetch one, fetch instructions ahead.            *)
WriteBack ==
  /\ dcache
  /\ \E a \in Dirty : ram' = [ram EXCEPT ![a] = cached[a]]
  /\ UNCHANGED <<func, cached, dcache, icache, ilines, os>>

Drop ==
  /\ dcache
  /\ \E a \in Addr \ Dirty : cached[a] # NoLine /\ cached' = [cached EXCEPT ![a] = NoLine]
  /\ UNCHANGED <<func, ram, dcache, icache, ilines, os>>

Fetch ==
  /\ dcache
  /\ \E a \in Addr : cached[a] = NoLine /\ cached' = [cached EXCEPT ![a] = ram[a]]
  /\ UNCHANGED <<func, ram, dcache, icache, ilines, os>>

FetchInstructions ==
  /\ icache /\ ~ilines /\ ilines' = TRUE
  /\ UNCHANGED <<func, ram, cached, dcache, icache, os>>

-----------------------------------------------------------------------------
(* bootm_start.                                                            *)

(* Mutant: the read starts a word early on the card.                      *)
OnCardEarly(c, o) == IF c = NoImage THEN Junk ELSE [img |-> c, off |-> o - 1]

OnCard(c, o) == IF c = NoImage THEN Junk ELSE [img |-> c, off |-> o]

(* genimg_get_image.  What mmc_bread returns is only printed: any part of  *)
(* the image may have come from the card, which is any card, or none, and  *)
(* the rest be what was there.                                             *)
GetImage ==
  /\ func = "bootm" /\ func' = "get_kernel"
  /\ \E card \in DOMAIN Images \cup {NoImage},
        got \in SUBSET (LoadAddr .. LoadAddr + ReadSize - 1) :
       Write([a \in got |-> OnCard(card, a - LoadAddr)])
  /\ UNCHANGED <<dcache, icache, ilines, os>>

(* Mutant: the data CRC covers the first word only.                        *)
DataCrcShort(i) ==
  Seen(LoadAddr + 1) = [img |-> i, off |-> 1]

(* image_check_dcrc: the environment has no "verify", so it is never left  *)
(* out.                                                                    *)
DataCrc(i) ==
  \A o \in 1 .. Images[i].size : Seen(LoadAddr + o) = [img |-> i, off |-> o]

(* boot_get_kernel: the image whose header is in memory, if it is one that *)
(* can be started.  Magic number and header CRC say that there is one.     *)
Kernel(i) ==
  /\ i # NoImage /\ Seen(LoadAddr).off = 0
  /\ DataCrc(i) /\ Images[i].arch
  /\ Images[i].type \in {"kernel", "noload"}
  /\ Images[i].size > 0

(* The entry point of an image that runs where it was read counts from its *)
(* data.                                                                   *)
EntryPoint(i) ==
  IF Images[i].type = "noload" THEN Images[i].ep + LoadAddr + 1 ELSE Images[i].ep

(* The rest of bootm_start fills in images.os and images.ep.               *)
GetKernel ==
  /\ func = "get_kernel"
  /\ LET i    == Seen(LoadAddr).img
         load == IF Images[i].type = "noload" THEN LoadAddr + 1 ELSE Images[i].load
     IN  IF Kernel(i)
           THEN /\ os' = [img |-> i, load |-> load, start |-> LoadAddr + 1, ep |-> EntryPoint(i)]
                /\ func' = "load_os"
           ELSE func' = "spinning" /\ UNCHANGED os
  /\ UNCHANGED machine

-----------------------------------------------------------------------------
(* bootm_load_os.                                                          *)

Size == Images[os.img].size

(* Executed where it is.                                                   *)
InPlace == os.load \in {LoadAddr, os.start}

(* Where the data is when bootm_load_os has returned.                      *)
Place == IF InPlace THEN os.start ELSE os.load

(* memmove_wd: right also where the two overlap.                           *)
Move ==
  Write([a \in os.load .. os.load + Size - 1 |-> Seen(a - os.load + os.start)])

(* The check for an overlap comes after the data was moved.                *)
LoadOs ==
  /\ func = "load_os"
  /\ IF Images[os.img].comp # "none"
       THEN func' = "spinning" /\ UNCHANGED <<ram, cached>>
       ELSE /\ IF InPlace THEN UNCHANGED <<ram, cached>> ELSE Move
            /\ func' = "flush"
  /\ UNCHANGED <<dcache, icache, ilines, os>>

(* load < blob_end && *load_end > blob_start                               *)
Overlaps ==
  ~InPlace /\ os.load < LoadAddr + 1 + Size /\ os.load + Size > LoadAddr

(* flush_cache takes a length in words for one in bytes, and flushes four  *)
(* times as much.                                                          *)
FlushLoaded ==
  /\ func = "flush"
  /\ CleanInval(os.load .. os.load + 4 * Size - 1)
  /\ func' = IF Overlaps THEN "spinning" ELSE "prep"
  /\ UNCHANGED <<dcache, icache, ilines, os>>

-----------------------------------------------------------------------------
(* do_bootm_linux.                                                         *)

(* The parameters are written after the flush.                             *)
PrepLinux ==
  /\ func = "prep" /\ func' = "icache_disable"
  /\ Write([a \in {Params} |-> Tags])
  /\ UNCHANGED <<dcache, icache, ilines, os>>

IcacheDisable ==
  /\ func = "icache_disable" /\ func' = "icache_inval"
  /\ icache' = FALSE
  /\ UNCHANGED <<ram, cached, dcache, ilines, os>>

(* Mutant: nothing is invalidated.                                         *)
InvalidateIcacheNot ==
  /\ func = "icache_inval" /\ func' = "dcache_flush"
  /\ UNCHANGED <<machine, os>>

InvalidateIcache ==
  /\ func = "icache_inval" /\ func' = "dcache_flush"
  /\ ilines' = FALSE
  /\ UNCHANGED <<ram, cached, dcache, icache, os>>

(* Mutant: the cache is turned off and not flushed.                        *)
FlushDcacheNot ==
  /\ func = "dcache_flush" /\ func' = "dcache_off"
  /\ UNCHANGED <<machine, os>>

(* dcache_disable: flush_dcache_all, then CR_C and CR_M are cleared.       *)
FlushDcache ==
  /\ func = "dcache_flush" /\ func' = "dcache_off"
  /\ CleanInval(Addr)
  /\ UNCHANGED <<dcache, icache, ilines, os>>

DcacheOff ==
  /\ func = "dcache_off" /\ func' = "dcache_inval"
  /\ dcache' = FALSE
  /\ UNCHANGED <<ram, cached, icache, ilines, os>>

(* invalidate_dcache_all.                                                  *)
InvalidateDcache ==
  /\ func = "dcache_inval" /\ func' = "jump"
  /\ cached' = [a \in Addr |-> NoLine]
  /\ UNCHANGED <<ram, dcache, icache, ilines, os>>

(* boot_jump_linux: the CPU goes to images.ep.                             *)
Jump ==
  /\ func = "jump" /\ func' = "kernel"
  /\ UNCHANGED <<machine, os>>

-----------------------------------------------------------------------------
(* The board is reset, at any time: SPL and U-Boot start again, and what   *)
(* the RAM holds stays.                                                    *)
BoardReset ==
  /\ func' = "bootm" /\ os' = NoOs
  /\ UNCHANGED ram
  /\ cached' = [a \in Addr |-> NoLine]
  /\ dcache' = TRUE /\ icache' = TRUE /\ ilines' = FALSE

Next ==
  \/ GetImage \/ GetKernel \/ LoadOs \/ FlushLoaded \/ PrepLinux
  \/ IcacheDisable \/ InvalidateIcache
  \/ FlushDcache \/ DcacheOff \/ InvalidateDcache \/ Jump
  \/ WriteBack \/ Drop \/ Fetch \/ FetchInstructions
  \/ BoardReset

Spec == Init /\ [][Next]_vars

-----------------------------------------------------------------------------
(* Properties.                                                             *)

(* The kernel starts with the whole of one image in RAM, at the place it   *)
(* runs from, and in that image's data; with a header fit to be started,   *)
(* and with its parameters.  Mixed from two images, half read or half      *)
(* written back it is never, although a failed read goes unnoticed and the *)
(* RAM is full of old images.                                              *)
KernelIntact ==
  func = "kernel" =>
    LET h == Images[os.img]
    IN  /\ \A o \in 1 .. Size : ram[Place + o - 1] = [img |-> os.img, off |-> o]
        /\ h.arch /\ h.type # "other" /\ h.comp = "none"
        /\ os.ep \in Place .. Place + Size - 1
        /\ ram[Params] = Tags

(* The kernel starts with the caches off and empty, as Linux demands.      *)
CleanHandover ==
  func = "kernel" =>
    ~dcache /\ ~icache /\ ~ilines /\ \A a \in Addr : cached[a] = NoLine

(* "We are sure that these lines are not dirty": the last invalidation of  *)
(* the data cache throws nothing away.                                     *)
NothingDiscarded == [][InvalidateDcache => Dirty = {}]_vars
=============================================================================
