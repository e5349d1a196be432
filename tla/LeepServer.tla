----------------------------- MODULE LeepServer -----------------------------
(***************************************************************************)
(* The register server of epics.c with the drivers behind it.  A packet of *)
(* any client is served register by register in one call of epicsHandler;  *)
(* meanwhile the hardware goes on: the time runs, events are logged, the   *)
(* receiver loses its link.  A register that takes one look at the         *)
(* hardware is one step, the others take a step per look.                  *)
(* Packets are repeated, lost and reordered by choosing any packet next.   *)
(* Not here: registers that only show a value of another part, and those   *)
(* that call ioSelect, clockAdjust, localPPS and mgtReset.                 *)
(***************************************************************************)
EXTENDS EvgDriver, EvrDriver, MpsRegisters, ReferenceClock

CONSTANTS
  LEEP_REG_CAPACITY,
  MaxPass,       \* looks at the seconds before ospreyEVRGetTime gives up, 5
  Packets,       \* bound: the packets that may come
  EventCodes,    \* bound: the events that are logged
  MaxPackets, MaxClock, MaxEvents, MaxDrops   \* bounds

ASSUME LeepAssumption == LEEP_REG_CAPACITY \in Nat \ {0} /\ MaxPass \in Nat \ {0}

EvgNames == {"timerCsr", "timerEvent", "timerDivisor", "hwEvent", "hwCount",
             "dbus", "latency", "patternDelay", "patternCode"}
EvrNames == {"nowTicks", "event", "eventSec", "eventTicks", "action",
             "source", "delay", "width"}
MpsNames == {"invert", "forceTrip", "required"}
              \union {RegSel[n] : n \in DOMAIN RegSel}
Single   == {"timerCsr", "nowTicks", "event", "eventSec", "eventTicks", "invert",
             "forceTrip", "required", "now", "powerUp", "refclk", "reboot"}
Names    == EvgNames \union EvrNames \union MpsNames \union Single \union {"si570"}

\* Registers of a name are numbered, from 0 if there is one; values are words.
ASSUME PacketsAssumption ==
  /\ Packets \subseteq Seq([reg : Names \X Nat, write : BOOLEAN, value : Nat])
  /\ \A p \in Packets : \A k \in DOMAIN p :
       p[k].reg[1] \in Single => p[k].reg[2] = 0

\* Code 0 is no event: only events 1 to 254 can be given the action of being
\* logged.
ASSUME CodesAssumption == 0 \notin EventCodes

VARIABLES
  evg, evr, mps, ref, powerUpFlag,
  clock,      \* the time that the event receiver shows, in ticks
  valid,      \* it has a link and a valid time
  request, reply,
  call,       \* where a register that takes several looks has got to
  arrived,    \* history: the time and the events told when a packet came
  told,       \* history: the events of the log that clients were told, by number
  lost,       \* history: those that a read took and told 0, and what it had seen
  packets, drops   \* bounds: how many have come, links that were lost

hw == <<clock, valid, drops>>
fate == <<told, lost>>
vars == <<evg, evr, mps, ref, powerUpFlag, clock, valid, request, reply, call,
          arrived, fate, packets, drops>>

\* seen is history: how much had been logged when the log was looked at.
Idle == [stage |-> "idle", s0 |-> 0, ticks |-> 0, pass |-> 0, seen |-> 0]
Stage(s) == [Idle EXCEPT !.stage = s]

\* The node has started, but for the transceivers' clock.
Init ==
  /\ evg = EvgStart /\ evr = EvrStart /\ mps = MpsStart /\ ref = RefStart
  /\ powerUpFlag = 1
  /\ request = <<>> /\ reply = <<>> /\ call = Stage("reconnect")
  /\ clock = 0 /\ valid = TRUE /\ packets = 0 /\ drops = 0
  /\ arrived = [clock |-> 0, told |-> 0] /\ told = <<>> /\ lost = {}

--------------------------------------------------------------------------
(* The hardware. *)

Advance ==
  /\ valid /\ clock < MaxClock
  /\ clock' = clock + 1
  /\ UNCHANGED <<evg, evr, mps, ref, powerUpFlag, valid, request, reply, call,
                 arrived, fate, packets, drops>>

Drop ==
  /\ IF valid THEN drops < MaxDrops /\ drops' = drops + 1 ELSE UNCHANGED drops
  /\ valid' = ~valid
  /\ UNCHANGED <<evg, evr, mps, ref, powerUpFlag, clock, request, reply, call,
                 arrived, fate, packets>>

LogEvent ==
  /\ valid /\ Len(evr.log) < MaxEvents
  /\ \E code \in EventCodes : evr' = Logged(evr, code, clock)
  /\ UNCHANGED <<evg, mps, ref, powerUpFlag, hw, request, reply, call,
                 arrived, fate, packets>>

--------------------------------------------------------------------------
(* A packet. *)

Receive(p) ==
  /\ request = <<>> /\ call = Idle /\ packets < MaxPackets
  /\ packets' = packets + 1
  /\ request' = IF Len(p) \in 1..LEEP_REG_CAPACITY THEN p ELSE <<>>
  /\ reply' = <<>>
  /\ arrived' = [clock |-> clock, told |-> Len(told)]
  /\ UNCHANGED <<evg, evr, mps, ref, powerUpFlag, hw, call, fate>>

Op == request[Len(reply) + 1]
Ready == Len(reply) + 1 \in DOMAIN request /\ call = Idle
Answer(v) == reply' = Append(reply, v)
Writes(names) == Ready /\ Op.write /\ Op.reg[1] \in names /\ Answer(Op.value)
Reads(names)  == Ready /\ ~Op.write /\ Op.reg[1] \in names

WriteReg ==
  \/ /\ Writes(EvgNames)
     /\ evg' = EVG_FEEDwrite(evg, Op.reg, Op.value)
     /\ UNCHANGED <<evr, mps, powerUpFlag>>
  \/ /\ Writes(EvrNames \union {"now"})
     /\ evr' = EVR_FEEDwrite(evr, Op.reg, Op.value)
     /\ UNCHANGED <<evg, mps, powerUpFlag>>
  \/ /\ Writes(MpsNames)
     /\ mps' = mpsWrite(mps, Op.reg, Op.value)
     /\ UNCHANGED <<evg, evr, powerUpFlag>>
  \/ /\ Writes({"powerUp"})
     /\ powerUpFlag' = IF Op.value = 0 THEN 0 ELSE powerUpFlag
     /\ UNCHANGED <<evg, evr, mps>>

ReadReg ==
  \/ /\ Reads(EvgNames)
     /\ \E r \in EVG_FEEDread(evg, Op.reg) : evg' = r.dev /\ Answer(r.value)
     /\ UNCHANGED <<evr, mps>>
  \/ /\ Reads(EvrNames \ {"event"})
     /\ \E r \in {EVR_FEEDread(evr, Op.reg)} : evr' = r.dev /\ Answer(r.value)
     /\ UNCHANGED <<evg, mps>>
  \/ /\ Reads(MpsNames)
     /\ \E r \in {mpsRead(mps, Op.reg)} : mps' = r.dev /\ Answer(r.value)
     /\ UNCHANGED <<evg, evr>>
  \/ Reads({"powerUp"}) /\ Answer(powerUpFlag) /\ UNCHANGED <<evg, evr, mps>>
  \/ Reads({"refclk"}) /\ Answer(ref.mgtClkSwitch0) /\ UNCHANGED <<evg, evr, mps>>
  \/ Reads({"si570"}) /\ Answer(si570Read(ref, Op.reg[2]))
                      /\ UNCHANGED <<evg, evr, mps>>
  \/ Reads({"reboot"}) /\ Answer(0) /\ UNCHANGED <<evg, evr, mps>>

\* A register that takes one look.
OneLook ==
  /\ \/ WriteReg
     \/ ReadReg /\ UNCHANGED powerUpFlag
  /\ UNCHANGED <<ref, hw, request, call, arrived, fate, packets>>

\* The reply is sent.
Send ==
  /\ request # <<>> /\ Len(reply) = Len(request) /\ call = Idle
  /\ request' = <<>> /\ reply' = <<>>
  /\ UNCHANGED <<evg, evr, mps, ref, powerUpFlag, hw, call, arrived, fate,
                 packets>>

--------------------------------------------------------------------------
(* The time of day: ospreyEVRGetTime for register REG_NOW. *)

evrOnly == <<evg, mps, ref, powerUpFlag, hw, request, arrived, packets>>
nowOnly == <<evrOnly, fate>>

ReadNow ==
  /\ Reads({"now"})
  /\ evr' = [evr EXCEPT !.nowTicks = 0]
  /\ IF valid
     THEN call' = [Stage("ticks") EXCEPT !.s0 = Seconds(clock)] /\ UNCHANGED reply
     ELSE Answer(0) /\ UNCHANGED call
  /\ UNCHANGED nowOnly

ReadTicks ==
  /\ call.stage = "ticks"
  /\ call' = [call EXCEPT !.stage = "seconds", !.ticks = Ticks(clock)]
  /\ UNCHANGED <<evr, reply, nowOnly>>

ReadSecondsOnce ==   \* faulty: takes the ticks for those of the seconds read
  /\ call.stage = "seconds"
  /\ evr' = [evr EXCEPT !.nowTicks = call.ticks]
  /\ Answer(call.s0) /\ call' = Idle
  /\ UNCHANGED nowOnly

ReadSecondsAgain ==
  /\ call.stage = "seconds"
  /\ \/ /\ Seconds(clock) = call.s0
        /\ evr' = [evr EXCEPT !.nowTicks = call.ticks]
        /\ Answer(Seconds(clock)) /\ call' = Idle
     \/ /\ Seconds(clock) # call.s0 /\ call.pass + 1 = MaxPass
        /\ Answer(0) /\ call' = Idle /\ UNCHANGED evr
     \/ /\ Seconds(clock) # call.s0 /\ call.pass + 1 # MaxPass
        /\ call' = [call EXCEPT !.stage = "ticks", !.s0 = Seconds(clock),
                                !.pass = @ + 1]
        /\ UNCHANGED <<evr, reply>>
  /\ UNCHANGED nowOnly

GetTime == ReadNow \/ ReadTicks \/ ReadSecondsAgain

--------------------------------------------------------------------------
(* The log of events.  What a read tells was looked up one clock before    *)
(* the read takes the event: one that is logged in between is taken and    *)
(* told as 0, "not pending".                                               *)

LookForEvent ==
  /\ Reads({"event"})
  /\ call' = [Stage("event") EXCEPT !.s0 = FifoHead(evr), !.seen = Len(evr.log)]
  /\ UNCHANGED <<evr, reply, fate, evrOnly>>

TakeEvent ==
  /\ call.stage = "event"
  /\ evr' = GetFifoEvent(evr, call.s0)
  /\ Answer(call.s0) /\ call' = Idle
  /\ told' = IF call.s0 = 0 THEN told ELSE Append(told, evr'.taken)
  /\ lost' = IF call.s0 # 0 \/ evr'.taken = evr.taken THEN lost
             ELSE lost \union {[event |-> evr'.taken, seen |-> call.seen]}
  /\ UNCHANGED evrOnly

GetEvent == LookForEvent \/ TakeEvent

--------------------------------------------------------------------------
(* The transceivers' reference clock. *)

refOnly == <<evg, evr, mps, powerUpFlag, hw, request, arrived, fate, packets>>

\* setMgtClkSwitch0: off, and then on again from the new input.
SetMgtClkSwitch0 ==
  /\ Ready /\ Op.write /\ Op.reg[1] = "refclk"
  /\ IF Op.value <= DISABLE_OUTPUT /\ Op.value # ref.mgtClkSwitch0
     THEN /\ ref' = ConnectOutputToInput(ref, DISABLE_OUTPUT)
          /\ call' = Stage("connect") /\ UNCHANGED reply
     ELSE Answer(Op.value) /\ UNCHANGED <<ref, call>>
  /\ UNCHANGED refOnly

Connect ==
  /\ call.stage = "connect"
  /\ ref' = [ConnectOutputToInput(ref, Op.value) EXCEPT
               !.mgtClkSwitch0 = Op.value]
  /\ Answer(Op.value) /\ call' = Idle
  /\ UNCHANGED refOnly

WriteSi570First ==   \* faulty: takes the first word for the one that programs
  /\ Ready /\ Op.write /\ Op.reg[1] = "si570"
  /\ IF ref.mgtClkSwitch0 = SI570_CLK /\ Op.reg[2] = 0
     THEN /\ ref' = ConnectOutputToInput(ref, DISABLE_OUTPUT)
          /\ call' = Stage("program") /\ UNCHANGED reply
     ELSE /\ ref' = si570Write(ref, Op.reg[2], Op.value)
          /\ Answer(Op.value) /\ UNCHANGED call
  /\ UNCHANGED refOnly

\* The oscillator is programmed, with the clock off if it is the source.
WriteSi570 ==
  /\ Ready /\ Op.write /\ Op.reg[1] = "si570"
  /\ IF ref.mgtClkSwitch0 = SI570_CLK /\ Op.reg[2] = 1
     THEN /\ ref' = ConnectOutputToInput(ref, DISABLE_OUTPUT)
          /\ call' = Stage("program") /\ UNCHANGED reply
     ELSE /\ ref' = si570Write(ref, Op.reg[2], Op.value)
          /\ Answer(Op.value) /\ UNCHANGED call
  /\ UNCHANGED refOnly

Program ==
  /\ call.stage = "program"
  /\ ref' = si570Write(ref, Op.reg[2], Op.value)
  /\ Answer(Op.value) /\ call' = Stage("reconnect")
  /\ UNCHANGED refOnly

Reconnect ==
  /\ call.stage = "reconnect"
  /\ ref' = ConnectOutputToInput(ref, ref.mgtClkSwitch0)
  /\ call' = Idle
  /\ UNCHANGED <<reply, refOnly>>

SetReference ==
  SetMgtClkSwitch0 \/ Connect \/ WriteSi570 \/ Program \/ Reconnect

\* A written 100 restarts the node and its clock; the reply is never sent.
Reboot ==
  /\ Ready /\ Op.write /\ Op.reg[1] = "reboot"
  /\ IF Op.value = 100
     THEN /\ evg' = EvgStart /\ evr' = EvrStart /\ mps' = MpsStart
          /\ ref' = RefStart /\ powerUpFlag' = 1
          /\ request' = <<>> /\ reply' = <<>> /\ call' = Stage("reconnect")
          /\ told' = <<>> /\ lost' = {}
          /\ UNCHANGED <<hw, arrived, packets>>
     ELSE /\ Answer(Op.value)
          /\ UNCHANGED <<evg, evr, mps, ref, powerUpFlag, hw, request, call,
                         arrived, fate, packets>>

Serve == OneLook \/ GetTime \/ GetEvent \/ SetReference \/ Reboot \/ Send
Hardware == Advance \/ Drop \/ LogEvent
Next == (\E p \in Packets : Receive(p)) \/ Serve \/ Hardware

Spec == Init /\ [][Next]_vars

--------------------------------------------------------------------------
(* Properties. *)

\* The registers that store, and what each is told to hold.  A trigger or a
\* timer that does not exist tells an error.
Stored ==
  ({"hwEvent"} \X (0..2 * HwTriggerCount))
    \union ({"timerEvent", "timerDivisor"} \X (0..TimerCount))
    \union ({"hwCount"} \X (0..HwTriggerCount - 1))
    \union ({"dbus"} \X (0..DbusBits - 1))
    \union ({"patternDelay", "patternCode"} \X (0..SeqAddrCount - 1))
    \union ({"next", "outOfRange", "powerUp", "refclk", "invert", "forceTrip",
             "required"} \X {0})
    \union ({"action"} \X (1..LastAction))
    \union ({"source", "delay", "width"} \X Outputs)
    \union ({"important", "goodState", "firstFault", "faultSeconds",
             "faultTicks", "mpsStatus"} \X (0..MpsOutputs - 1))

Holds(g, r, p, c, flag, cell) ==
  LET n == cell[1]   i == cell[2]
  IN  CASE n = "hwEvent" -> IF i \in DOMAIN g.hwEvent THEN g.hwEvent[i]
                            ELSE OutOfRange
        [] n = "timerEvent" -> IF i \in Timers THEN g.timer[i].code
                               ELSE NoSuchTimer
        [] n = "timerDivisor" -> IF i \in Timers THEN g.timer[i].initial
                                 ELSE BadFace
        [] n = "hwCount" -> i
        [] n = "dbus" -> g.dbus[i]
        [] n = "patternDelay" -> g.table[i].delay
        [] n = "patternCode" -> g.table[i].code
        [] n = "next" -> g.nextCode
        [] n = "outOfRange" -> OutOfRange
        [] n = "powerUp" -> flag
        [] n = "refclk" -> c.mgtClkSwitch0
        [] n = "action" -> r.actions[i]
        [] n = "source" -> r.source[i]
        [] n = "delay" -> r.delays[i]
        [] n = "width" -> r.widths[i]
        [] n = "invert" -> p.invert
        [] n = "forceTrip" -> p.forceTrip
        [] n = "required" -> p.required
        [] OTHER -> p.reg[<<Select(n), i>>]

Adjusted(reg, v) ==
  CASE reg[1] = "timerDivisor" -> v - 2
    [] reg[1] \in {"invert", "important", "goodState"} -> v % 2 ^ MpsInputs
    [] reg[1] = "forceTrip" -> v % 2 ^ MpsOutputs
    [] reg[1] = "required" -> (v % 2 ^ MgtCount) - (v % 2)
    [] OTHER -> v

\* The code of a pattern is the one beside the delay that was read last.
Shows(reg) == IF reg[1] = "patternCode" THEN <<"next", 0>> ELSE reg
Along(reg) ==
  IF reg[1] # "patternDelay" THEN {}
  ELSE {<< <<"next", 0>>,
           IF reg \in Stored THEN <<"patternCode", reg[2]>>
           ELSE <<"outOfRange", 0>> >>}

Memory == [cell \in Stored |-> Holds(evg, evr, mps, ref, powerUpFlag, cell)]
AtPowerUp ==
  [cell \in Stored |-> Holds(EvgStart, EvrStart, MpsStart, RefStart, 1, cell)]

\* Behind selectors, shadow copies and shared static variables the clients
\* see one register file: a read tells what the last accepted write of that
\* register left, whoever wrote it and whatever was accessed in between.
RF == INSTANCE RegisterFile WITH mem <- Memory, PowerUp <- AtPowerUp
ReadsBack == RF!Spec

\* The times in a reply are true.  The time of day, seconds and ticks read
\* one after the other, was the time while the packet was served, although
\* it is read in parts that run on in between.  An event's three registers
\* are all of one event, the next one told; over all packets, events are
\* told in the order of the log, none twice, and the only ones that are not
\* told are those logged while a read that told 0 was under way.
Told(k, name) == ~request[k].write /\ request[k].reg[1] = name
EventsTold(k) == {j \in 1..k : Told(j, "event") /\ reply[j] # 0}
TimeOfDay(k) ==
  k > 1 /\ Told(k - 1, "now") /\ Told(k, "nowTicks") =>
    \/ reply[k - 1] = 0 /\ reply[k] = 0
    \/ \E t \in arrived.clock..clock :
         Seconds(t) = reply[k - 1] /\ Ticks(t) = reply[k]
TimeOfEvent(k) ==
  k > 2 /\ Told(k - 2, "event") /\ Told(k - 1, "eventSec")
        /\ Told(k, "eventTicks") =>
    IF reply[k - 2] = 0 THEN reply[k - 1] = 0 /\ reply[k] = 0
    ELSE LET e == evr.log[told[arrived.told + Cardinality(EventsTold(k))]]
         IN  /\ reply[k - 2] = e.code /\ reply[k - 1] = Seconds(e.at)
             /\ reply[k] = Ticks(e.at)
EventsInOrder ==
  /\ \A i, j \in DOMAIN told : i < j => told[i] < told[j]
  /\ 1..evr.taken = {told[i] : i \in DOMAIN told} \union {l.event : l \in lost}
  /\ \A l \in lost : l.event > l.seen
TrueTimes ==
  (\A k \in DOMAIN reply : TimeOfDay(k) /\ TimeOfEvent(k)) /\ EventsInOrder

\* No order of commands, from any number of clients, leaves a timer running
\* that has no event code or a period of 40 ticks or less.
TimersReasonable ==
  \A t \in Timers : evg.timer[t].running =>
    evg.timer[t].code # 0 /\ evg.timer[t].initial + 2 > 40

\* However its delay, width and source were set, an output in pulse mode is
\* high for exactly the asked bits: from the delay, for the width, and at
\* least one word.
PulseAsAsked ==
  \A o \in Outputs :
    /\ evr.drive[o].source = evr.source[o]
    /\ evr.source[o] = PULSE => Lit(evr.drive[o]) = Pulse(evr, o)

\* The transceivers get stuck when their reference changes under them: it
\* never goes from one running clock to another without having been off.
QuietReference ==
  [][MgtClock(ref)' # MgtClock(ref) =>
       MgtClock(ref) = Off \/ MgtClock(ref)' = Off]_vars
=============================================================================
