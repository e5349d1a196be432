------------------------------ MODULE EvrDriver ------------------------------
(***************************************************************************)
(* ospreyEVR.c: event actions, output drivers and the log of received      *)
(* events.  The device and the driver's variables are one record d, as in  *)
(* EvgDriver; reading the time or the log of events takes several steps    *)
(* and is in LeepServer.                                                   *)
(***************************************************************************)
EXTENDS Integers, Sequences, FiniteSets

CONSTANTS
  OutputCount, SerdesFactor,   \* evrInfo, from the status register
  LastAction,                  \* actions for events 1 to LastAction (254)
  FifoDepth,                   \* entries in the log
  TicksPerSecond

ASSUME EvrAssumption ==
  /\ OutputCount \in Nat \ {0} /\ SerdesFactor \in {1, 4, 6, 8}
  /\ LastAction \in 1..254 /\ FifoDepth \in Nat \ {0}
  /\ TicksPerSecond \in Nat \ {0}

Outputs == 0..OutputCount - 1
Seconds(t) == t \div TicksPerSecond
Ticks(t) == t % TicksPerSecond
PULSE == 1   \* SRCSEL_PULSE

\* drive is what the output's registers hold: the first and the last word
\* are the sets of the bits that are on.  log has all events that the log
\* accepted, and the first taken of them have been read; latch is the time
\* of the last one.  The rest are static variables of ospreyEVR_FEEDread.
EvrStart ==
  [actions |-> [e \in 1..LastAction |-> 0],
   source  |-> [o \in Outputs |-> 0],
   delays  |-> [o \in Outputs |-> 0],
   widths  |-> [o \in Outputs |-> 0],
   drive   |-> [o \in Outputs |-> [source |-> 0, first |-> {}, last |-> {},
                                   delay |-> 0, width |-> 0]],
   log |-> <<>>, taken |-> 0, latch |-> 0,
   logSec |-> 0, logTicks |-> 0, nowTicks |-> 0]

--------------------------------------------------------------------------

setOutputLong(d, o) ==   \* faulty: the first word is not all of it lead
  LET sf        == SerdesFactor
      width     == IF d.widths[o] < sf THEN sf ELSE d.widths[o]
      leading   == d.delays[o] % sf
      remaining == width - leading
  IN  [d EXCEPT !.drive[o] =
         [source |-> d.source[o],
          first  |-> leading..sf - 1,
          last   |-> 0..(remaining % sf) - 1,
          delay  |-> d.delays[o] \div sf,
          width  |-> remaining \div sf]]

\* A delay and a width in bits become a delay in words, a first word that
\* starts in the middle, full words and a last word that ends in the middle.
setOutput(d, o) ==
  LET sf        == SerdesFactor
      width     == IF d.widths[o] < sf THEN sf ELSE d.widths[o]
      leading   == d.delays[o] % sf
      remaining == width - (sf - leading)
  IN  [d EXCEPT !.drive[o] =
         [source |-> d.source[o],
          first  |-> leading..sf - 1,
          last   |-> 0..(remaining % sf) - 1,
          delay  |-> d.delays[o] \div sf,
          width  |-> remaining \div sf]]

SetEventAction(d, event, action) ==
  IF event \in 1..LastAction THEN [d EXCEPT !.actions[event] = action] ELSE d

SelectOutputSource(d, o, source) ==
  IF o \in Outputs THEN setOutput([d EXCEPT !.source[o] = source], o) ELSE d
SetPulseDelay(d, o, delay) ==
  IF o \in Outputs THEN setOutput([d EXCEPT !.delays[o] = delay], o) ELSE d
SetPulseWidth(d, o, width) ==
  IF o \in Outputs THEN setOutput([d EXCEPT !.widths[o] = width], o) ELSE d

EVR_FEEDwrite(d, reg, value) ==
  LET idx == reg[2]
  IN  CASE reg[1] = "action" -> SetEventAction(d, idx, value)
        [] reg[1] = "source" -> SelectOutputSource(d, idx, value)
        [] reg[1] = "delay"  -> SetPulseDelay(d, idx, value)
        [] reg[1] = "width"  -> SetPulseWidth(d, idx, value)
        [] OTHER             -> d

--------------------------------------------------------------------------

\* The hardware logs an event, unless the log is full.
Logged(d, code, now) ==
  IF Len(d.log) - d.taken < FifoDepth
  THEN [d EXCEPT !.log = Append(@, [code |-> code, at |-> now])]
  ELSE d

\* What a read of the event register tells: readData is taken one clock
\* before the read is over.
FifoHead(d) == IF d.taken = Len(d.log) THEN 0 ELSE d.log[d.taken + 1].code

\* The end of the read takes an event, if there is one by then, and latches
\* its time.
FifoTaken(d) ==
  IF d.taken = Len(d.log) THEN d
  ELSE [d EXCEPT !.taken = @ + 1, !.latch = d.log[d.taken + 1].at]

\* code: what the read told.
GetFifoEvent(d, code) ==
  LET s == FifoTaken(d)
  IN  IF code = 0 THEN [s EXCEPT !.logSec = 0, !.logTicks = 0]
      ELSE [s EXCEPT !.logSec = Seconds(s.latch), !.logTicks = Ticks(s.latch)]

EVR_FEEDread(d, reg) ==
  LET Shadow(f) == [dev |-> d,
                    value |-> IF reg[2] \in DOMAIN f THEN f[reg[2]] ELSE 0]
  IN  CASE reg[1] = "nowTicks"   -> [dev |-> d, value |-> d.nowTicks]
        [] reg[1] = "eventSec"   -> [dev |-> d, value |-> d.logSec]
        [] reg[1] = "eventTicks" -> [dev |-> d, value |-> d.logTicks]
        [] reg[1] = "action"     -> Shadow(d.actions)
        [] reg[1] = "source"     -> Shadow(d.source)
        [] reg[1] = "delay"      -> Shadow(d.delays)
        [] reg[1] = "width"      -> Shadow(d.widths)

--------------------------------------------------------------------------

\* The bits that an output drives high after its trigger, counted from it.
Lit(r) ==
  {SerdesFactor * r.delay + b : b \in r.first}
    \union (SerdesFactor * (r.delay + 1)..SerdesFactor * (r.delay + 1 + r.width) - 1)
    \union {SerdesFactor * (r.delay + 1 + r.width) + b : b \in r.last}

\* What a pulse of an output should be.
Pulse(d, o) ==
  d.delays[o]..d.delays[o] + (IF d.widths[o] < SerdesFactor
                              THEN SerdesFactor ELSE d.widths[o]) - 1
=============================================================================
