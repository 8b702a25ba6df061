------------------------------ MODULE MemSize ------------------------------
(***************************************************************************)
(* get_ram_size (memsize.c): how much RAM there is, found by writing words *)
(* at every power of two and looking which of them are still there.        *)
(*                                                                         *)
(* Addresses and sizes are in words (sizeof(long) bytes).  RAM answers at  *)
(* every address of the range, the addresses beyond its size being aliases *)
(* of lower ones; a range without RAM answers Floating and keeps nothing.  *)
(***************************************************************************)
EXTENDS Integers, Sequences, SequencesExt

CONSTANTS
  MaxWords,   \* maxsize / sizeof(long), a power of two
  Floating,   \* what is read where there is no RAM
  Fills       \* what the RAM may hold at first: functions from Addresses

VARIABLES
  ram,      \* words of RAM there are: a power of two, or 0
  before,   \* what the words held when it was called
  memory,   \* contents of the words that the probing can reach
  step,     \* where get_ram_size is
  cnt,
  save,     \* words saved, the last one first to be put back
  base,     \* save[i]: the word saved from the start of the RAM
  size      \* the result

memVars == <<ram, before, memory, step, cnt, save, base, size>>

Not(x) == -x - 1

Powers    == {2^k : k \in 0..29}
Addresses == {0} \cup Powers
Reached == {w \in Powers : w < ram} \cup (IF ram = 0 THEN {} ELSE {0})

(* An address of the range, 0 or a power of two, in a RAM of ram words.    *)
Cell(addr) == IF addr < ram THEN addr ELSE 0

At(addr)          == IF ram = 0 THEN Floating ELSE memory[Cell(addr)]
Put(addr, word)   == memory' = IF ram = 0 THEN memory ELSE [memory EXCEPT ![Cell(addr)] = word]
PutBack(addr)     == Put(addr, Last(save)) /\ save' = Front(save)

(* The first call, on a RAM that holds whatever a power-up leaves there.   *)
MemInit(sizes) ==
  /\ ram \in sizes
  /\ \E fill \in Fills : memory = [w \in Reached |-> fill[w]]
  /\ before = memory
  /\ step = "down"
  /\ cnt = MaxWords \div 2
  /\ save = <<>>
  /\ base = 0
  /\ size = 0

CallAgain ==
  /\ before' = memory
  /\ step' = "down"
  /\ cnt' = MaxWords \div 2
  /\ save' = <<>>
  /\ size' = 0
  /\ UNCHANGED <<ram, memory, base>>

ProbeDownTooFar ==
  /\ step = "down"
  /\ save' = Append(save, At(cnt))
  /\ Put(cnt, Not(cnt))
  /\ cnt' = cnt \div 2
  /\ UNCHANGED <<ram, before, step, base, size>>

(* Each word is saved and overwritten, the highest first.                  *)
ProbeDown ==
  /\ step = "down" /\ cnt > 0
  /\ save' = Append(save, At(cnt))
  /\ Put(cnt, Not(cnt))
  /\ cnt' = cnt \div 2
  /\ UNCHANGED <<ram, before, step, base, size>>

(* The first word must read 0 after 0 is written: else there is no RAM.    *)
ProbeBase ==
  /\ step = "down" /\ cnt = 0
  /\ UNCHANGED <<ram, before, save, size>>
  /\ base' = At(0)
  /\ Put(0, 0)
  /\ IF At(0)' # 0 THEN step' = "no_ram" /\ cnt' = 0 ELSE step' = "up" /\ cnt' = 1

(* No RAM: the words are put back, the first one to begin with.            *)
GiveUp ==
  /\ step = "no_ram"
  /\ \/ cnt = 0 /\ Put(0, base) /\ cnt' = 1 /\ UNCHANGED <<step, save>>
     \/ cnt \in 1..(MaxWords - 1) /\ PutBack(cnt) /\ cnt' = 2 * cnt /\ UNCHANGED step
     \/ cnt >= MaxWords /\ step' = "done" /\ UNCHANGED <<memory, save, cnt>>
  /\ UNCHANGED <<ram, before, base, size>>

ProbeUpKeeping ==
  /\ step = "up" /\ cnt < MaxWords
  /\ IF At(cnt) = Not(cnt) THEN PutBack(cnt) /\ UNCHANGED <<step, size>>
     ELSE step' = "restore" /\ size' = cnt /\ save' = Front(save) /\ UNCHANGED memory
  /\ cnt' = 2 * cnt
  /\ UNCHANGED <<ram, before, base>>

(* Upwards: the first word that does not read back tells the size.         *)
ProbeUp ==
  /\ step = "up" /\ cnt < MaxWords
  /\ PutBack(cnt)
  /\ cnt' = 2 * cnt
  /\ IF At(cnt) = Not(cnt) THEN UNCHANGED <<step, size>> ELSE step' = "restore" /\ size' = cnt
  /\ UNCHANGED <<ram, before, base>>

AllThere ==
  /\ step = "up" /\ cnt >= MaxWords
  /\ step' = "done"
  /\ size' = MaxWords
  /\ UNCHANGED <<ram, before, memory, cnt, save, base>>

Restore ==
  /\ step = "restore"
  /\ \/ cnt < MaxWords /\ PutBack(cnt) /\ cnt' = 2 * cnt /\ UNCHANGED step
     \/ cnt >= MaxWords /\ step' = "done" /\ UNCHANGED <<memory, cnt, save>>
  /\ UNCHANGED <<ram, before, base, size>>

GetRamSize == ProbeDown \/ ProbeBase \/ GiveUp \/ ProbeUp \/ AllThere \/ Restore
=============================================================================
