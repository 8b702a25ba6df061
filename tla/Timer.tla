------------------------------- MODULE Timer -------------------------------
(***************************************************************************)
(* The delay loops of timer.c.  A loop polls a free-running counter and    *)
(* subtracts what it sees go by from what is left to wait, all in unsigned *)
(* words as wide as the counter.  timerN_cndelay, timerN_udelay and        *)
(* timerN_mdelay are one loop (kind "timer"); avscntN_cndelay differs in   *)
(* what it does when two reads return the same value (kind "avs").         *)
(*                                                                         *)
(* Words are 0 .. Modulus - 1.  Modulus is 2^32 in the code; nothing here  *)
(* depends on it.                                                          *)
(***************************************************************************)
EXTENDS Integers

CONSTANTS
  Modulus,   \* values of a word, and of the counter
  MinGap,    \* least number of ticks between two reads, for each kind of loop
  MaxGap,    \* greatest number of ticks between two reads
  Counts,    \* delays asked for, in ticks
  PerMsec,   \* ticks of timer 0 in a millisecond
  MaxMsec,   \* bound on what mdelay is asked for
  Kinds      \* the loops the program calls

Word == 0 .. Modulus - 1

ASSUME TimerAssumption ==
  /\ Modulus \in Nat /\ MaxGap \in Nat /\ MaxMsec \in Nat
  /\ Kinds \subseteq {"timer", "avs"} /\ MinGap \in [Kinds -> 0 .. MaxGap]
  /\ Counts \subseteq Word /\ PerMsec \in Word
  /\ \A c \in Counts \cup {PerMsec} : c + MaxGap < Modulus

VARIABLES
  loop,     \* "idle", "polling" or "returned"
  kind,     \* which loop is running
  cnt,      \* the delay asked for
  tmo,      \* what the loop still has to wait
  last,     \* the counter when the loop read it last
  msec,     \* calls mdelay has still to make
  elapsed   \* ticks that really went by since the loop's first read

timerVars == <<loop, kind, cnt, tmo, last, msec, elapsed>>

(* Words are words; and nothing is waited for longer than was asked by     *)
(* more than one turn of the loop.                                         *)
TimerTypeOK ==
  /\ loop \in {"idle", "polling", "returned"}
  /\ kind \in Kinds
  /\ cnt \in Counts \cup {PerMsec, 0} /\ tmo \in Word /\ last \in Word
  /\ msec \in 0 .. MaxMsec
  /\ elapsed \in 0 .. cnt + MaxGap

TimerInit ==
  /\ loop = "idle" /\ kind \in Kinds /\ cnt = 0 /\ tmo = 0
  /\ last = 0 /\ msec = 0 /\ elapsed = 0

-----------------------------------------------------------------------------
(* Unsigned arithmetic.                                                    *)

Plus(a, b)  == IF a + b < Modulus THEN a + b ELSE a + b - Modulus
Minus(a, b) == IF b <= a THEN a - b ELSE a - b + Modulus

-----------------------------------------------------------------------------
(* A loop starts: the counter is read, wherever it stands.                 *)
Start(k, c) ==
  /\ kind' = k /\ cnt' = c /\ tmo' = c /\ elapsed' = 0
  /\ last' \in Word
  /\ loop' = IF c > 0 THEN "polling" ELSE "returned"

Cndelay(k, c) ==
  /\ loop # "polling" /\ msec = 0 /\ k \in Kinds
  /\ Start(k, c)
  /\ UNCHANGED msec

(* mdelay: "while (msec--) timer0_udelay(1000)".                           *)
Mdelay(ms) ==
  /\ loop # "polling" /\ msec = 0 /\ "timer" \in Kinds
  /\ msec' = ms - 1
  /\ Start("timer", PerMsec)

(* Mutant: a call of mdelay is not counted.                                *)
MdelayForever ==
  /\ loop = "returned" /\ msec > 0
  /\ Start("timer", PerMsec)
  /\ UNCHANGED msec

MdelayNext ==
  /\ loop = "returned" /\ msec > 0
  /\ msec' = msec - 1
  /\ Start("timer", PerMsec)

(* Mutants: a rollover unnoticed, and every loop like the timers'.         *)
SeenNoRollover(k, now) == IF now >= last THEN now - last ELSE 0

SeenAsTimer(k, now) ==
  IF now > last THEN now - last ELSE Modulus - 1 - last + now

(* What one turn of the loop subtracts.                                    *)
Seen(k, now) ==
  IF now > last \/ (k = "avs" /\ now = last)
    THEN now - last
    ELSE Modulus - 1 - last + now

(* One turn.  An underflow of what is left ends the loop.                  *)
Poll(gap) ==
  LET now  == Plus(last, gap)
      left == Minus(tmo, Seen(kind, now))
  IN  /\ loop = "polling"
      /\ last' = now /\ tmo' = left
      /\ elapsed' = elapsed + gap
      /\ loop' = IF left > tmo \/ left = 0 THEN "returned" ELSE "polling"
      /\ UNCHANGED <<kind, cnt, msec>>

-----------------------------------------------------------------------------
Turn == \E gap \in MinGap[kind] .. MaxGap : Poll(gap)

TimerNext ==
  \/ \E k \in Kinds, c \in Counts : Cndelay(k, c)
  \/ \E ms \in 1 .. MaxMsec : Mdelay(ms)
  \/ MdelayNext
  \/ Turn

TimerSpec == TimerInit /\ [][TimerNext]_timerVars

(* The processor does nothing but poll, and the counter runs.              *)
FairTimerSpec ==
  TimerSpec /\ WF_timerVars(\E gap \in 1 .. MaxGap : Poll(gap)) /\ WF_timerVars(MdelayNext)

-----------------------------------------------------------------------------
(* Properties.                                                             *)

(* A delay is never shorter than it was asked to be, wherever the counter  *)
(* stood when it began and whenever it rolls over.                         *)
NeverShort == loop = "returned" => elapsed >= cnt

(* Every delay ends.                                                       *)
DelayEnds == loop = "polling" ~> loop # "polling" /\ msec = 0
=============================================================================
