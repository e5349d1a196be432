------------------------------ MODULE EvgDriver ------------------------------
(***************************************************************************)
(* ospreyEVG.c without the sequencer's commands: timers, triggers, the map *)
(* of the distributed bus, latency and the pattern read back.  The device  *)
(* and the driver's variables are one record d; an operator gives d after  *)
(* a call, or for a read the set of what it may return with d after it.    *)
(* One register in front of many is modelled with its selector.  A         *)
(* negative value stands for the 32-bit word of that bit pattern.          *)
(***************************************************************************)
EXTENDS Integers, FiniteSetsExt

CONSTANTS
  HwTriggerCount, TimerCount, RxCount,   \* evgInfo.conf
  SeqAddrCount,    \* addresses of the sequence memory, all banks
  DbusBits,        \* bits of the distributed bus
  IntMax,          \* the largest int
  LatencyValues,   \* what a measurement may give
  Garbage          \* what an uninitialised word may hold

ASSUME EvgAssumption ==
  /\ HwTriggerCount \in Nat \ {0} /\ TimerCount \in Nat \ {0}
  /\ RxCount \in Nat \ {0} /\ SeqAddrCount \in Nat \ {0}
  /\ DbusBits \in Nat \ {0} /\ IntMax \in Nat /\ IntMax >= 255

Timers == 0..TimerCount - 1
AsInt(word) == IF word > IntMax THEN word - 2 * (IntMax + 1) ELSE word

NOP == 0
STOP == 1
RESUME == 2
START == 3
Command(control, t) == (control \div (4 ^ t)) % 4

OutOfRange == -2
NoSuchTimer == -3
BadFace == 464386766   \* 0x1badface

\* A trigger's count is the number of its input.
EvgStart ==
  [hwEvent |-> [i \in 0..2 * HwTriggerCount - 1 |-> 0], hwSel |-> 0,
   dbus    |-> [b \in 0..DbusBits - 1 |-> 0],           dbusSel |-> DbusBits - 1,
   shadow  |-> [t \in Timers |-> [code |-> 0, divisor |-> 0]],
   timer   |-> [t \in Timers |-> [code |-> 0, initial |-> 2 * IntMax + 1,
                                  running |-> FALSE]],
   table   |-> [a \in 0..SeqAddrCount - 1 |-> [code |-> 255, delay |-> 0]],
   seqAddr |-> SeqAddrCount - 1, nextCode |-> 0]

--------------------------------------------------------------------------
(* Writes. *)

SetTimerControlResuming(d, control) ==   \* faulty: resumes any timer
  [d EXCEPT !.timer = [t \in Timers |->
     [d.timer[t] EXCEPT !.running =
        \/ Command(control, t) = RESUME
        \/ Command(control, t) = START /\ d.shadow[t].code # 0
                                       /\ d.shadow[t].divisor >= 40
        \/ @ /\ Command(control, t) # STOP]]]

\* Unreasonably configured timers are not (re)started.
SetTimerControl(d, control) ==
  LET Reasonable(t) == d.shadow[t].code # 0 /\ d.shadow[t].divisor >= 40
      Cmd(t) == IF Command(control, t) \in {RESUME, START} /\ ~Reasonable(t)
                THEN NOP ELSE Command(control, t)
  IN  [d EXCEPT !.timer = [t \in Timers |->
         [d.timer[t] EXCEPT !.running = \/ @ /\ Cmd(t) # STOP
                                        \/ Cmd(t) \in {RESUME, START}]]]

SetTimerEvent(d, t, evCode) ==
  IF AsInt(evCode) \in 1..255 /\ t < TimerCount
  THEN [d EXCEPT !.shadow[t].code = evCode, !.timer[t].code = evCode]
  ELSE d

\* Two less, since the counter's underflow is what reloads it.
SetTimerDivisor(d, t, divisor) ==
  IF divisor > 40 /\ t < TimerCount
  THEN [d EXCEPT !.shadow[t].divisor = AsInt(divisor),
                 !.timer[t].initial = divisor - 2]
  ELSE d

SetHwTriggerEvent(d, i, evCode) ==
  IF i < 2 * HwTriggerCount /\ AsInt(evCode) \in 0..255
  THEN [d EXCEPT !.hwEvent[i] = evCode, !.hwSel = i]
  ELSE d

SetDbusInputMap(d, bit, inputSel) ==
  IF inputSel <= HwTriggerCount
  THEN [d EXCEPT !.dbus[bit] = inputSel, !.dbusSel = bit]
  ELSE d

WriteCode(d, address, evCode) ==
  IF address < SeqAddrCount /\ AsInt(evCode) \in 0..255
  THEN [d EXCEPT !.table[address].code = evCode, !.seqAddr = address]
  ELSE d

WriteDelay(d, address, delay) ==
  IF address < SeqAddrCount
  THEN [d EXCEPT !.table[address].delay = delay, !.seqAddr = address]
  ELSE d

EVG_FEEDwrite(d, reg, value) ==
  LET idx == reg[2]
  IN  CASE reg[1] = "timerCsr"     -> SetTimerControl(d, value)
        [] reg[1] = "timerEvent"   -> SetTimerEvent(d, idx, value)
        [] reg[1] = "timerDivisor" -> SetTimerDivisor(d, idx, value)
        [] reg[1] = "hwEvent"      -> SetHwTriggerEvent(d, idx, value)
        [] reg[1] = "dbus"         -> SetDbusInputMap(d, idx, value)
        [] reg[1] = "patternCode"  -> WriteCode(d, idx, value)
        [] reg[1] = "patternDelay" -> WriteDelay(d, idx, value)
        [] OTHER                   -> d

--------------------------------------------------------------------------
(* Reads: the select first, then the register behind it. *)

TimerStatus(d) ==
  LET Bits(t) == IF ~d.timer[t].running THEN 0
                 ELSE IF d.timer[t].code = 0 THEN 1 ELSE 3
  IN  MapThenSumSet(LAMBDA t : (4 ^ t) * Bits(t), Timers)

GetTimerEvent(d, t) == IF t < TimerCount THEN d.timer[t].code ELSE NoSuchTimer
GetTimerDivisor(d, t) ==
  IF t < TimerCount THEN d.timer[t].initial ELSE BadFace

GetHwTriggerEventUnselected(d, i) ==   \* faulty: reads what was selected last
  [dev |-> d, value |-> IF i < 2 * HwTriggerCount THEN d.hwEvent[d.hwSel]
                        ELSE OutOfRange]

GetHwTriggerEvent(d, i) ==
  IF i < 2 * HwTriggerCount
  THEN LET s == [d EXCEPT !.hwSel = i]
       IN  [dev |-> s, value |-> s.hwEvent[s.hwSel]]
  ELSE [dev |-> d, value |-> OutOfRange]

GetHwTriggerCount(d, i) ==
  LET s == [d EXCEPT !.hwSel = 2 * i]
  IN  [dev |-> s, value |-> s.hwSel \div 2]

GetDbusInputMap(d, bit) ==
  LET s == [d EXCEPT !.dbusSel = bit]
  IN  [dev |-> s, value |-> s.dbus[s.dbusSel]]

\* The code is kept for the read that follows; out of range the delay is
\* returned uninitialised.
Readback(d, address) ==
  IF address < SeqAddrCount
  THEN LET s == [d EXCEPT !.seqAddr = address]
       IN  {[dev |-> [s EXCEPT !.nextCode = s.table[s.seqAddr].code],
             value |-> s.table[s.seqAddr].delay]}
  ELSE {[dev |-> [d EXCEPT !.nextCode = OutOfRange], value |-> g] :
          g \in Garbage}

\* The status is read until it reads twice the same: it then is still that
\* of the link selected before, or already one of this link.
LatencyReadback(d, rx) ==
  {[dev |-> d, value |-> l] :
     l \in IF rx < RxCount THEN LatencyValues \union {NoSuchTimer}
          ELSE {OutOfRange}}

EVG_FEEDread(d, reg) ==
  LET idx == reg[2]
      Plain(v) == {[dev |-> d, value |-> v]}
  IN  CASE reg[1] = "timerCsr"     -> Plain(TimerStatus(d))
        [] reg[1] = "timerEvent"   -> Plain(GetTimerEvent(d, idx))
        [] reg[1] = "timerDivisor" -> Plain(GetTimerDivisor(d, idx))
        [] reg[1] = "hwEvent"      -> {GetHwTriggerEvent(d, idx)}
        [] reg[1] = "hwCount"      -> {GetHwTriggerCount(d, idx)}
        [] reg[1] = "dbus"         -> {GetDbusInputMap(d, idx)}
        [] reg[1] = "latency"      -> LatencyReadback(d, idx)
        [] reg[1] = "patternDelay" -> Readback(d, idx)
        [] reg[1] = "patternCode"  -> Plain(d.nextCode)
=============================================================================
