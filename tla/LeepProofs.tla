------------------------------ MODULE LeepProofs -----------------------------
(***************************************************************************)
(* Proofs about the register server and the drivers behind it, for any     *)
(* numbers of timers, outputs and links, and any packets.                  *)
(***************************************************************************)
EXTENDS LeepServer, SequenceTheorems, FiniteSetTheorems, TLAPS

\* What is accessed is a register with a number, and a written value a word.
RequestInv == request \in Packets \union {<<>>}

LEMMA OpIsNumbered ==
  ASSUME RequestInv, Ready
  PROVE  /\ Op \in [reg : Names \X Nat, write : BOOLEAN, value : Nat]
         /\ Op.reg[2] \in Nat /\ Op.value \in Nat
         /\ Op.reg[1] \in Single => Op.reg[2] = 0
<1> DEFINE Access == [reg : Names \X Nat, write : BOOLEAN, value : Nat]
<1>1. request \in Packets /\ Len(reply) + 1 \in DOMAIN request
  BY DEF RequestInv, Ready
<1>2. request \in Seq(Access)
  BY <1>1, PacketsAssumption
<1>3. Op \in Access
  <2> HIDE DEF Access
  <2> QED
    BY <1>1, <1>2, LenProperties, ElementOfSeq DEF Op
<1>4. Op.reg[1] \in Single => Op.reg[2] = 0
  BY <1>1, PacketsAssumption DEF Op
<1>5. Op.reg[2] \in Nat /\ Op.value \in Nat
  BY <1>3
<1> QED
  BY <1>3, <1>4, <1>5

LEMMA RequestInit == Init => RequestInv
  BY DEF Init, RequestInv

LEMMA RequestStep == RequestInv /\ [Next]_vars => RequestInv'
<1> SUFFICES ASSUME RequestInv, [Next]_vars
             PROVE  RequestInv'
  OBVIOUS
<1>1. ASSUME NEW p \in Packets, Receive(p)
      PROVE  RequestInv'
  BY <1>1 DEF Receive, RequestInv
<1>2. CASE Serve
  <2>1. request' \in {request, <<>>}
    BY <1>2 DEF Serve, OneLook, GetTime, ReadNow, ReadTicks, ReadSecondsAgain,
                nowOnly, evrOnly, GetEvent, LookForEvent, TakeEvent, SetReference,
                SetMgtClkSwitch0, Connect, WriteSi570, Program, Reconnect,
                refOnly, Reboot, Send
  <2> QED
    BY <2>1 DEF RequestInv
<1>3. CASE Hardware
  BY <1>3 DEF Hardware, Advance, Drop, LogEvent, RequestInv
<1>4. CASE UNCHANGED vars
  BY <1>4 DEF vars, RequestInv
<1> QED
  BY <1>1, <1>2, <1>3, <1>4 DEF Next

-----------------------------------------------------------------------------
(***************************************************************************)
(* The transceivers' reference.  The three calls that change it switch the *)
(* output off first and hold it off until they are through; and while it   *)
(* is on it comes from the input that mgtClkSwitch0 remembers, which is    *)
(* how si570Write knows whether it is in use.                              *)
(***************************************************************************)
ReferenceInv ==
  /\ ref = [mgtClkSwitch0 |-> ref.mgtClkSwitch0, input |-> ref.input,
            on |-> ref.on, frequency |-> ref.frequency,
            scratch7_9 |-> ref.scratch7_9]
  /\ call = [stage |-> call.stage, s0 |-> call.s0, ticks |-> call.ticks,
             pass |-> call.pass, seen |-> call.seen]
  /\ call.stage \in {"connect", "program", "reconnect"} => ~ref.on
  /\ ref.on \in BOOLEAN
  /\ ref.on => ref.input = ref.mgtClkSwitch0

Quietly ==
  MgtClock(ref)' # MgtClock(ref) =>
    MgtClock(ref) = Off \/ MgtClock(ref)' = Off

LEMMA ReferenceInit == Init => ReferenceInv
  BY DEF Init, ReferenceInv, RefStart, Stage, Idle

\* Switching off.
LEMMA SwitchOff ==
  ASSUME ReferenceInv, ref' = ConnectOutputToInput(ref, DISABLE_OUTPUT),
         NEW s, call' = Stage(s)
  PROVE  ReferenceInv' /\ Quietly
<1>1. ref' = [mgtClkSwitch0 |-> ref.mgtClkSwitch0, input |-> ref.input,
              on |-> FALSE, frequency |-> ref.frequency,
              scratch7_9 |-> ref.scratch7_9]
  <2>1. ref' = [ref EXCEPT !.on = FALSE]
    BY DEF ConnectOutputToInput, DISABLE_OUTPUT
  <2> QED
    BY <2>1 DEF ReferenceInv
<1>2. call' = [stage |-> s, s0 |-> 0, ticks |-> 0, pass |-> 0, seen |-> 0]
  BY DEF Stage, Idle
<1>3. MgtClock(ref)' = Off
  BY <1>1 DEF MgtClock
<1> QED
  BY <1>1, <1>2, <1>3 DEF ReferenceInv, Quietly

LEMMA ReferenceStep ==
  ASSUME ReferenceInv, [Next]_vars
  PROVE  ReferenceInv' /\ Quietly
<1>1. ASSUME UNCHANGED ref,
             call' \in {call, Idle, Stage("ticks")}
               \/ \E s0, ticks, pass, seen : call' \in {
                    [Stage("ticks") EXCEPT !.s0 = s0],
                    [Stage("event") EXCEPT !.s0 = s0, !.seen = seen],
                    [call EXCEPT !.stage = "seconds", !.ticks = ticks],
                    [call EXCEPT !.stage = "ticks", !.s0 = s0, !.pass = pass]}
      PROVE  ReferenceInv' /\ Quietly
  <2>1. \/ call' = call
        \/ \E s \in {"idle", "ticks", "seconds", "event"} :
             \E s0, ticks, pass, seen :
               call' = [stage |-> s, s0 |-> s0, ticks |-> ticks, pass |-> pass,
                        seen |-> seen]
    <3>1. CASE call' \in {call, Idle, Stage("ticks")}
      BY <3>1 DEF Idle, Stage
    <3>2. ASSUME NEW s0, call' = [Stage("ticks") EXCEPT !.s0 = s0]
          PROVE  call' = [stage |-> "ticks", s0 |-> s0, ticks |-> 0, pass |-> 0,
                          seen |-> 0]
      BY <3>2 DEF Idle, Stage
    <3>3. ASSUME NEW ticks,
                 call' = [call EXCEPT !.stage = "seconds", !.ticks = ticks]
          PROVE  call' = [stage |-> "seconds", s0 |-> call.s0, ticks |-> ticks,
                          pass |-> call.pass, seen |-> call.seen]
      BY <3>3 DEF ReferenceInv
    <3>4. ASSUME NEW s0, NEW pass,
                 call' = [call EXCEPT !.stage = "ticks", !.s0 = s0, !.pass = pass]
          PROVE  call' = [stage |-> "ticks", s0 |-> s0, ticks |-> call.ticks,
                          pass |-> pass, seen |-> call.seen]
      BY <3>4 DEF ReferenceInv
    <3>5. ASSUME NEW s0, NEW seen,
                 call' = [Stage("event") EXCEPT !.s0 = s0, !.seen = seen]
          PROVE  call' = [stage |-> "event", s0 |-> s0, ticks |-> 0, pass |-> 0,
                          seen |-> seen]
      BY <3>5 DEF Idle, Stage
    <3>6. CASE call' \notin {call, Idle, Stage("ticks")}
      <4>0. PICK s0, ticks, pass, seen :
              call' \in {[Stage("ticks") EXCEPT !.s0 = s0],
                        [Stage("event") EXCEPT !.s0 = s0, !.seen = seen],
                        [call EXCEPT !.stage = "seconds", !.ticks = ticks],
                        [call EXCEPT !.stage = "ticks", !.s0 = s0, !.pass = pass]}
        BY <1>1, <3>6, Zenon
      <4>1. CASE call' = [Stage("ticks") EXCEPT !.s0 = s0]
        BY <3>2, <4>1
      <4>2. CASE call' = [Stage("event") EXCEPT !.s0 = s0, !.seen = seen]
        BY <3>5, <4>2
      <4>3. CASE call' = [call EXCEPT !.stage = "seconds", !.ticks = ticks]
        BY <3>3, <4>3
      <4>4. CASE call' = [call EXCEPT !.stage = "ticks", !.s0 = s0, !.pass = pass]
        BY <3>4, <4>4
      <4> QED
        BY <4>0, <4>1, <4>2, <4>3, <4>4
    <3> QED
      BY <3>1, <3>6
  <2>2. /\ call' = [stage |-> call'.stage, s0 |-> call'.s0, ticks |-> call'.ticks,
                    pass |-> call'.pass, seen |-> call'.seen]
        /\ call' = call \/ call'.stage \notin {"connect", "program", "reconnect"}
    BY <2>1 DEF ReferenceInv
  <2>3. MgtClock(ref)' = MgtClock(ref)
    BY <1>1 DEF MgtClock
  <2> QED
    BY <1>1, <2>2, <2>3 DEF ReferenceInv, Quietly
<1>2. ASSUME NEW p \in Packets, Receive(p)
      PROVE  ReferenceInv' /\ Quietly
  BY <1>1, <1>2 DEF Receive
<1>3. CASE OneLook \/ Send \/ Hardware \/ UNCHANGED vars
  BY <1>1, <1>3 DEF OneLook, Send, Hardware, Advance, Drop, LogEvent, vars
<1>4. CASE GetTime
  BY <1>1, <1>4 DEF GetTime, ReadNow, ReadTicks, ReadSecondsAgain, nowOnly, evrOnly
<1>5. CASE GetEvent
  BY <1>1, <1>5 DEF GetEvent, LookForEvent, TakeEvent, evrOnly
<1>6. CASE SetReference
  <2>1. CASE SetMgtClkSwitch0
    <3>1. CASE /\ ref' = ConnectOutputToInput(ref, DISABLE_OUTPUT)
               /\ \E s \in {"connect", "program"} : call' = Stage(s)
      BY <3>1, SwitchOff
    <3>2. CASE UNCHANGED <<ref, call>>
      BY <1>1, <3>2
    <3> QED
      BY <2>1, <3>1, <3>2 DEF SetMgtClkSwitch0
  <2>2. CASE Connect
    BY <2>2 DEF Connect, ReferenceInv, Quietly, ConnectOutputToInput,
                DISABLE_OUTPUT, MgtClock, Off, Idle
  <2>3. CASE WriteSi570
    <3>1. CASE /\ ref' = ConnectOutputToInput(ref, DISABLE_OUTPUT)
               /\ \E s \in {"connect", "program"} : call' = Stage(s)
      BY <3>1, SwitchOff
    <3>2. CASE /\ ref' = si570Write(ref, Op.reg[2], Op.value)
               /\ UNCHANGED call
               /\ ~(ref.mgtClkSwitch0 = SI570_CLK /\ Op.reg[2] = 1)
      BY <3>2 DEF ReferenceInv, Quietly, si570Write, MgtClock
    <3> QED
      BY <2>3, <3>1, <3>2 DEF WriteSi570
  <2>4. CASE Program
    BY <2>4 DEF Program, ReferenceInv, Quietly, si570Write, MgtClock, Off, Stage,
                Idle
  <2>5. CASE Reconnect
    BY <2>5 DEF Reconnect, ReferenceInv, Quietly, ConnectOutputToInput,
                DISABLE_OUTPUT, MgtClock, Off, Idle
  <2> QED
    BY <1>6, <2>1, <2>2, <2>3, <2>4, <2>5 DEF SetReference
<1>7. CASE Reboot
  <2>1. CASE ref' = RefStart
    BY <1>7, <2>1 DEF Reboot, ReferenceInv, Quietly, RefStart, MgtClock, Off, Stage,
                      Idle
  <2>2. CASE UNCHANGED <<ref, call>>
    BY <1>1, <2>2
  <2> QED
    BY <1>7, <2>1, <2>2 DEF Reboot
<1> QED
  BY <1>2, <1>3, <1>4, <1>5, <1>6, <1>7 DEF Next, Serve

\* The reference never goes from one running clock to another without
\* having been off, whichever registers are written in whatever order.
THEOREM ReferenceIsQuiet == Spec => QuietReference
<1>1. ReferenceInv /\ [Next]_vars => ReferenceInv'
  BY ReferenceStep
<1>2. ReferenceInv /\ [Next]_vars => [Quietly]_vars
  BY ReferenceStep
<1> QED
  BY ReferenceInit, <1>1, <1>2, PTL DEF Spec, QuietReference, Quietly

-----------------------------------------------------------------------------
(***************************************************************************)
(* Timers.  A command looks at the driver's shadow copies, not at the      *)
(* timer, so these must agree as far as they count: the code is the same,  *)
(* and a divisor that the shadow takes for one of 40 or more was accepted, *)
(* although the shadow shows a large one as a negative number.             *)
(***************************************************************************)
TimersOf(d) ==
  /\ d = [hwEvent |-> d.hwEvent, hwSel |-> d.hwSel, dbus |-> d.dbus,
          dbusSel |-> d.dbusSel, shadow |-> d.shadow, timer |-> d.timer,
          table |-> d.table, seqAddr |-> d.seqAddr, nextCode |-> d.nextCode]
  /\ d.shadow \in [Timers -> [code : Int, divisor : Int]]
  /\ d.timer \in [Timers -> [code : Int, initial : Int, running : BOOLEAN]]

Accepted(d) ==
  \A t \in Timers : /\ d.timer[t].code = d.shadow[t].code
                    /\ d.shadow[t].divisor # 0 => d.timer[t].initial + 2 > 40

Reasonably(d) ==
  \A t \in Timers : d.timer[t].running =>
    d.timer[t].code # 0 /\ d.timer[t].initial + 2 > 40

TimerInv(d) == TimersOf(d) /\ Accepted(d) /\ Reasonably(d)

LEMMA TimersAtStart == TimerInv(EvgStart)
  BY EvgAssumption DEF TimerInv, TimersOf, Accepted, Reasonably, EvgStart

LEMMA ControlKeeps ==
  ASSUME NEW d, TimerInv(d), NEW control
  PROVE  TimerInv(SetTimerControl(d, control))
<1> DEFINE e == SetTimerControl(d, control)
           Reasonable(t) == d.shadow[t].code # 0 /\ d.shadow[t].divisor >= 40
           Cmd(t) == IF Command(control, t) \in {RESUME, START} /\ ~Reasonable(t)
                     THEN NOP ELSE Command(control, t)
           run(t) == (d.timer[t].running /\ Cmd(t) # STOP)
                       \/ Cmd(t) \in {RESUME, START}
           timer == [t \in Timers |-> [code |-> d.timer[t].code,
                                      initial |-> d.timer[t].initial,
                                      running |-> run(t)]]
<1>1. e = [d EXCEPT !.timer =
             [t \in Timers |-> [d.timer[t] EXCEPT !.running = run(t)]]]
  BY DEF SetTimerControl, TimerInv, TimersOf
<1>2. \A t \in Timers : [d.timer[t] EXCEPT !.running = run(t)] = timer[t]
  BY DEF TimerInv, TimersOf
<1>3. e = [d EXCEPT !.timer = timer]
  BY <1>1, <1>2
<1>4. \A t \in Timers : run(t) => d.timer[t].running \/ Reasonable(t)
  BY DEF NOP, RESUME, START
<1>5. \A t \in Timers : run(t) \in BOOLEAN
  OBVIOUS
<1>6. /\ e = [hwEvent |-> d.hwEvent, hwSel |-> d.hwSel, dbus |-> d.dbus,
              dbusSel |-> d.dbusSel, shadow |-> d.shadow, timer |-> timer,
              table |-> d.table, seqAddr |-> d.seqAddr, nextCode |-> d.nextCode]
      /\ timer \in [Timers -> [code : Int, initial : Int, running : BOOLEAN]]
  BY <1>3, <1>5 DEF TimerInv, TimersOf
<1>7. \A t \in Timers : Reasonable(t) =>
        d.timer[t].code # 0 /\ d.timer[t].initial + 2 > 40
  BY DEF TimerInv, TimersOf, Accepted
<1>8. \A t \in Timers : run(t) => d.timer[t].code # 0 /\ d.timer[t].initial + 2 > 40
  BY <1>4, <1>7 DEF TimerInv, Reasonably
<1> QED
  <2> HIDE DEF e, run, Reasonable
  <2>1. TimersOf(e)
    BY <1>6 DEF TimerInv, TimersOf
  <2>2. Accepted(e)
    BY <1>6 DEF TimerInv, Accepted
  <2>3. Reasonably(e)
    BY <1>6, <1>8 DEF Reasonably
  <2> QED
    BY <2>1, <2>2, <2>3 DEF TimerInv, e

LEMMA EventKeeps ==
  ASSUME NEW d, TimerInv(d), NEW t \in Nat, NEW code \in Nat
  PROVE  TimerInv(SetTimerEvent(d, t, code))
<1> DEFINE e == SetTimerEvent(d, t, code)
<1>1. CASE AsInt(code) \in 1..255 /\ t < TimerCount
  <2>1. t \in Timers /\ code \in Int /\ code # 0
    BY <1>1, EvgAssumption DEF Timers, AsInt
  <2>2. e = [d EXCEPT !.shadow[t].code = code, !.timer[t].code = code]
    BY <1>1 DEF SetTimerEvent
  <2>3. /\ e.shadow = [d.shadow EXCEPT ![t].code = code]
        /\ e.timer = [d.timer EXCEPT ![t].code = code]
        /\ e = [hwEvent |-> d.hwEvent, hwSel |-> d.hwSel, dbus |-> d.dbus,
                dbusSel |-> d.dbusSel, shadow |-> e.shadow, timer |-> e.timer,
                table |-> d.table, seqAddr |-> d.seqAddr, nextCode |-> d.nextCode]
    BY <2>2 DEF TimerInv, TimersOf
  <2> HIDE DEF e
  <2>4. TimersOf(e)
    BY <2>1, <2>3 DEF TimerInv, TimersOf
  <2>5. Accepted(e) /\ Reasonably(e)
    BY <2>1, <2>3 DEF TimerInv, TimersOf, Accepted, Reasonably
  <2> QED
    BY <2>4, <2>5 DEF TimerInv, e
<1> QED
  BY <1>1 DEF SetTimerEvent

LEMMA DivisorKeeps ==
  ASSUME NEW d, TimerInv(d), NEW t \in Nat, NEW divisor \in Nat
  PROVE  TimerInv(SetTimerDivisor(d, t, divisor))
<1> DEFINE e == SetTimerDivisor(d, t, divisor)
<1>1. CASE divisor > 40 /\ t < TimerCount
  <2>1. t \in Timers /\ AsInt(divisor) \in Int
    BY <1>1, EvgAssumption DEF Timers, AsInt
  <2>2. e = [d EXCEPT !.shadow[t].divisor = AsInt(divisor),
                      !.timer[t].initial = divisor - 2]
    BY <1>1 DEF SetTimerDivisor
  <2>3. /\ e.shadow = [d.shadow EXCEPT ![t].divisor = AsInt(divisor)]
        /\ e.timer = [d.timer EXCEPT ![t].initial = divisor - 2]
        /\ e = [hwEvent |-> d.hwEvent, hwSel |-> d.hwSel, dbus |-> d.dbus,
                dbusSel |-> d.dbusSel, shadow |-> e.shadow, timer |-> e.timer,
                table |-> d.table, seqAddr |-> d.seqAddr, nextCode |-> d.nextCode]
    BY <2>2 DEF TimerInv, TimersOf
  <2> HIDE DEF e
  <2>4. TimersOf(e)
    BY <2>1, <2>3 DEF TimerInv, TimersOf
  <2>5. Accepted(e) /\ Reasonably(e)
    BY <1>1, <2>1, <2>3 DEF TimerInv, TimersOf, Accepted, Reasonably
  <2> QED
    BY <2>4, <2>5 DEF TimerInv, e
<1> QED
  BY <1>1 DEF SetTimerDivisor

\* f has the timers of d.
Beside(d, f) ==
  f = [hwEvent |-> f.hwEvent, hwSel |-> f.hwSel, dbus |-> f.dbus,
       dbusSel |-> f.dbusSel, shadow |-> d.shadow, timer |-> d.timer,
       table |-> f.table, seqAddr |-> f.seqAddr, nextCode |-> f.nextCode]

LEMMA OthersKeep ==
  ASSUME NEW d, TimerInv(d), NEW f, Beside(d, f)
  PROVE  TimerInv(f)
<1>1. f.shadow = d.shadow /\ f.timer = d.timer
  BY DEF Beside
<1> QED
  BY <1>1 DEF Beside, TimerInv, TimersOf, Accepted, Reasonably

LEMMA WriteKeeps ==
  ASSUME NEW d, TimerInv(d), NEW reg, reg[2] \in Nat, NEW value \in Nat
  PROVE  TimerInv(EVG_FEEDwrite(d, reg, value))
<1> DEFINE e == EVG_FEEDwrite(d, reg, value)
<1>1. \/ e = SetTimerControl(d, value)
      \/ e = SetTimerEvent(d, reg[2], value)
      \/ e = SetTimerDivisor(d, reg[2], value)
      \/ e = SetHwTriggerEvent(d, reg[2], value)
      \/ e = SetDbusInputMap(d, reg[2], value)
      \/ e = WriteCode(d, reg[2], value)
      \/ e = WriteDelay(d, reg[2], value)
      \/ e = d
  BY DEF EVG_FEEDwrite
<1>2. Beside(d, d)
  BY DEF Beside, TimerInv, TimersOf
<1>3. Beside(d, SetHwTriggerEvent(d, reg[2], value))
  BY DEF SetHwTriggerEvent, Beside, TimerInv, TimersOf
<1>4. Beside(d, SetDbusInputMap(d, reg[2], value))
  BY DEF SetDbusInputMap, Beside, TimerInv, TimersOf
<1>5. Beside(d, WriteCode(d, reg[2], value))
  BY DEF WriteCode, Beside, TimerInv, TimersOf
<1>6. Beside(d, WriteDelay(d, reg[2], value))
  BY DEF WriteDelay, Beside, TimerInv, TimersOf
<1>7. ASSUME NEW f, Beside(d, f)
      PROVE  TimerInv(f)
  BY <1>7, OthersKeep
<1> HIDE DEF e
<1> QED
  BY <1>1, <1>3, <1>4, <1>5, <1>6, <1>7, ControlKeeps, EventKeeps, DivisorKeeps
     DEF e

LEMMA ReadKeeps ==
  ASSUME NEW d, TimerInv(d), NEW reg, reg[1] \in EvgNames,
         NEW r \in EVG_FEEDread(d, reg)
  PROVE  TimerInv(r.dev)
<1>1. \/ r.dev = d
      \/ r = GetHwTriggerEvent(d, reg[2])
      \/ r = GetHwTriggerCount(d, reg[2])
      \/ r = GetDbusInputMap(d, reg[2])
      \/ r \in LatencyReadback(d, reg[2])
      \/ r \in Readback(d, reg[2])
  BY DEF EVG_FEEDread, EvgNames
<1>2. Beside(d, d)
  BY DEF Beside, TimerInv, TimersOf
<1>3. Beside(d, GetHwTriggerEvent(d, reg[2]).dev)
  BY DEF GetHwTriggerEvent, Beside, TimerInv, TimersOf
<1>4. Beside(d, GetHwTriggerCount(d, reg[2]).dev)
  BY DEF GetHwTriggerCount, Beside, TimerInv, TimersOf
<1>5. Beside(d, GetDbusInputMap(d, reg[2]).dev)
  BY DEF GetDbusInputMap, Beside, TimerInv, TimersOf
<1>6. \A q \in LatencyReadback(d, reg[2]) : q.dev = d
  BY DEF LatencyReadback
<1>7. ASSUME NEW q \in Readback(d, reg[2])
      PROVE  Beside(d, q.dev)
  <2>1. ASSUME NEW f, Beside(d, f), NEW v
        PROVE  Beside(d, [f EXCEPT !.nextCode = v])
    BY <2>1 DEF Beside
  <2> DEFINE s == [d EXCEPT !.seqAddr = reg[2]]
  <2>2. Beside(d, s)
    BY DEF Beside, TimerInv, TimersOf
  <2>3. CASE reg[2] < SeqAddrCount
    <3> DEFINE v == s.table[s.seqAddr].code
    <3>1. q.dev = [s EXCEPT !.nextCode = v]
      BY <2>3 DEF Readback
    <3> HIDE DEF s, v
    <3> QED
      BY <2>1, <2>2, <3>1
  <2>4. CASE ~(reg[2] < SeqAddrCount)
    <3>1. q.dev = [d EXCEPT !.nextCode = OutOfRange]
      BY <2>4 DEF Readback
    <3> QED
      BY <1>2, <2>1, <3>1
  <2> QED
    BY <2>3, <2>4
<1>8. ASSUME NEW f, Beside(d, f)
      PROVE  TimerInv(f)
  BY <1>8, OthersKeep
<1> QED
  BY <1>1, <1>2, <1>3, <1>4, <1>5, <1>6, <1>7, <1>8

LEMMA TimerStep ==
  ASSUME RequestInv, TimerInv(evg), [Next]_vars
  PROVE  TimerInv(evg)'
<1>1. UNCHANGED evg => TimerInv(evg)'
  BY DEF TimerInv, TimersOf, Accepted, Reasonably
<1>2. CASE WriteReg /\ Writes(EvgNames) /\ evg' = EVG_FEEDwrite(evg, Op.reg, Op.value)
  <2>1. Op.reg[2] \in Nat /\ Op.value \in Nat
    BY <1>2, OpIsNumbered DEF Writes
  <2>2. TimerInv(EVG_FEEDwrite(evg, Op.reg, Op.value))
    BY <2>1, WriteKeeps
  <2>3. evg' = EVG_FEEDwrite(evg, Op.reg, Op.value)
    BY <1>2
  <2> QED
    BY <2>2, <2>3 DEF TimerInv, TimersOf, Accepted, Reasonably
<1>3. CASE Reads(EvgNames) /\ \E r \in EVG_FEEDread(evg, Op.reg) : evg' = r.dev
  <2>1. PICK r \in EVG_FEEDread(evg, Op.reg) : evg' = r.dev
    BY <1>3
  <2>2. TimerInv(r.dev)
    BY <1>3, ReadKeeps DEF Reads
  <2> QED
    BY <2>1, <2>2 DEF TimerInv, TimersOf, Accepted, Reasonably
<1>4. CASE evg' = EvgStart
  BY <1>4, TimersAtStart DEF TimerInv, TimersOf, Accepted, Reasonably
<1>5. CASE OneLook
  BY <1>1, <1>2, <1>3, <1>5 DEF OneLook, WriteReg, ReadReg
<1>6. CASE Next /\ ~OneLook
  <2>1. evg' \in {evg, EvgStart}
    BY <1>6 DEF Next, Receive, Serve, GetTime, ReadNow, ReadTicks,
                ReadSecondsAgain, nowOnly, evrOnly, GetEvent, LookForEvent,
                TakeEvent, SetReference, SetMgtClkSwitch0, Connect, WriteSi570,
                Program, Reconnect, refOnly, Reboot, Send, Hardware, Advance,
                Drop, LogEvent
  <2> QED
    BY <1>1, <1>4, <2>1
<1>7. CASE UNCHANGED vars
  BY <1>1, <1>7 DEF vars
<1> QED
  BY <1>5, <1>6, <1>7

\* No order of writes leaves a timer running that has no event code or too
\* short a period.
THEOREM TimersAreReasonable == Spec => []TimersReasonable
<1>1. Init => TimerInv(evg)
  BY TimersAtStart DEF Init
<1>2. RequestInv /\ TimerInv(evg) /\ [Next]_vars => TimerInv(evg)'
  BY TimerStep
<1>3. TimerInv(evg) => TimersReasonable
  BY DEF TimerInv, Reasonably, TimersReasonable
<1> QED
  BY RequestInit, RequestStep, <1>1, <1>2, <1>3, PTL DEF Spec

-----------------------------------------------------------------------------
(***************************************************************************)
(* Outputs.  setOutput runs again after each of the three settings, so the *)
(* registers always follow them; what remains is its arithmetic: the first *)
(* word, the full words and the last word, put end to end, are the pulse.  *)
(***************************************************************************)
Factors == {1, 4, 6, 8}   \* SerdesFactor is one of them

LEMMA Words ==
  ASSUME NEW sf \in Factors, NEW n \in Nat
  PROVE  /\ n \div sf \in Nat /\ n % sf \in 0..sf - 1
         /\ n = sf * (n \div sf) + (n % sf)
<1>1. CASE sf = 1
  BY <1>1
<1>2. CASE sf = 4
  BY <1>2
<1>3. CASE sf = 6
  BY <1>3
<1>4. CASE sf = 8
  BY <1>4
<1> QED
  BY <1>1, <1>2, <1>3, <1>4 DEF Factors

LEMMA Distribute ==
  ASSUME NEW sf \in Factors, NEW q \in Nat, NEW w \in Nat
  PROVE  /\ sf * (q + 1) = sf * q + sf
         /\ sf * (q + 1 + w) = sf * q + sf + sf * w
         /\ sf * q \in Nat /\ sf * w \in Nat
<1>1. CASE sf = 1
  BY <1>1
<1>2. CASE sf = 4
  BY <1>2
<1>3. CASE sf = 6
  BY <1>3
<1>4. CASE sf = 8
  BY <1>4
<1> QED
  BY <1>1, <1>2, <1>3, <1>4 DEF Factors

\* A first word from lead on, w full words and a last word up to r.
Bits(sf, q, w, lead, r) ==
  {sf * q + b : b \in lead..sf - 1}
    \union (sf * (q + 1)..sf * (q + 1 + w) - 1)
    \union {sf * (q + 1 + w) + b : b \in 0..r - 1}

LEMMA EndToEnd ==
  \A sf \in Factors, q, w \in Nat :
    \A lead, r \in 0..sf - 1 :
      Bits(sf, q, w, lead, r) = sf * q + lead..sf * q + sf + sf * w + r - 1
<1> SUFFICES ASSUME NEW sf \in Factors, NEW q \in Nat, NEW w \in Nat,
                    NEW lead \in 0..sf - 1, NEW r \in 0..sf - 1
             PROVE  Bits(sf, q, w, lead, r) =
                      sf * q + lead..sf * q + sf + sf * w + r - 1
  OBVIOUS
<1> DEFINE x == sf * q
           y == sf * w
           A == {x + b : b \in lead..sf - 1}
           C == {x + sf + y + b : b \in 0..r - 1}
<1>1. /\ sf * (q + 1) = x + sf /\ sf * (q + 1 + w) = x + sf + y
      /\ x \in Nat /\ y \in Nat /\ sf \in Nat /\ sf > 0
      /\ lead \in Nat /\ r \in Nat /\ lead < sf
  BY Distribute DEF Factors
<1> HIDE DEF x, y
<1>2. A = x + lead..x + sf - 1
  <2>1. \A n \in x + lead..x + sf - 1 : n - x \in lead..sf - 1 /\ n = x + (n - x)
    BY <1>1
  <2> QED
    BY <1>1, <2>1
<1>3. C = x + sf + y..x + sf + y + r - 1
  <2> DEFINE z == x + sf + y
  <2>1. z \in Nat /\ C = {z + b : b \in 0..r - 1}
    BY <1>1
  <2> HIDE DEF z, C
  <2>2. \A n \in z..z + r - 1 : n - z \in 0..r - 1 /\ n = z + (n - z)
    BY <1>1, <2>1
  <2>3. C = z..z + r - 1
    BY <1>1, <2>1, <2>2
  <2> QED
    BY <2>3 DEF z
<1>4. (x + lead..x + sf - 1) \union (x + sf..x + sf + y - 1)
        \union (x + sf + y..x + sf + y + r - 1)
      = x + lead..x + sf + y + r - 1
  BY <1>1
<1>5. /\ {sf * q + b : b \in lead..sf - 1} = A
      /\ {sf * (q + 1 + w) + b : b \in 0..r - 1} = C
      /\ sf * (q + 1)..sf * (q + 1 + w) - 1 = x + sf..x + sf + y - 1
      /\ sf * q + lead..sf * q + sf + sf * w + r - 1 = x + lead..x + sf + y + r - 1
  BY <1>1 DEF x, y
<1> HIDE DEF A, C
<1> QED
  BY <1>2, <1>3, <1>4, <1>5 DEF Bits

OutputsOf(d) ==
  /\ d = [actions |-> d.actions, source |-> d.source, delays |-> d.delays,
          widths |-> d.widths, drive |-> d.drive, log |-> d.log,
          taken |-> d.taken, latch |-> d.latch, logSec |-> d.logSec,
          logTicks |-> d.logTicks, nowTicks |-> d.nowTicks]
  /\ d.source \in [Outputs -> Nat] /\ d.delays \in [Outputs -> Nat]
  /\ d.widths \in [Outputs -> Nat] /\ DOMAIN d.drive = Outputs

Driven(d, o) ==
  /\ d.drive[o].source = d.source[o]
  /\ d.source[o] = PULSE => Lit(d.drive[o]) = Pulse(d, o)

OutputInv(d) == OutputsOf(d) /\ \A o \in Outputs : Driven(d, o)

\* The pulse of the settings, whatever the registers hold.
LEMMA SetOutputDrives ==
  ASSUME NEW d, OutputsOf(d), NEW o \in Outputs
  PROVE  Driven(setOutput(d, o), o)
<1> DEFINE e == setOutput(d, o)
           sf == SerdesFactor
           D == d.delays[o]
           W == IF d.widths[o] < sf THEN sf ELSE d.widths[o]
           lead == D % sf
           rem == W - (sf - lead)
           reg == [source |-> d.source[o],
                   first  |-> lead..sf - 1,
                   last   |-> 0..(rem % sf) - 1,
                   delay  |-> D \div sf,
                   width  |-> rem \div sf]
<1>1. sf \in Factors /\ D \in Nat /\ W \in Nat /\ W >= sf
  BY EvrAssumption DEF OutputsOf, Factors
<1>2. /\ e.drive[o] = reg /\ e.source = d.source /\ e.delays = d.delays
      /\ e.widths = d.widths
  BY DEF setOutput, OutputsOf
<1>3. /\ D \div sf \in Nat /\ lead \in 0..sf - 1
      /\ D = sf * (D \div sf) + lead
  BY <1>1, Words
<1>4. rem \in Nat /\ sf \in Nat
  <2> HIDE DEF lead, W, sf
  <2> QED
    BY <1>1, <1>3 DEF Factors
<1>5. /\ rem \div sf \in Nat /\ rem % sf \in 0..sf - 1
      /\ rem = sf * (rem \div sf) + (rem % sf)
  <2> HIDE DEF rem, sf
  <2> QED
    BY <1>1, <1>4, Words
<1>6. Lit(reg) = sf * (D \div sf) + lead..
                   sf * (D \div sf) + sf + sf * (rem \div sf) + (rem % sf) - 1
  <2> DEFINE q == D \div sf
             w == rem \div sf
             r == rem % sf
  <2>1. Lit(reg) = Bits(sf, q, w, lead, r)
    BY DEF Lit, Bits
  <2> HIDE DEF q, w, r, lead, sf, rem, reg
  <2>2. /\ q \in Nat /\ w \in Nat /\ lead \in 0..sf - 1 /\ r \in 0..sf - 1
        /\ sf \in Factors
    BY <1>1, <1>3, <1>5 DEF q, w, r
  <2>3. Lit(reg) = sf * q + lead..sf * q + sf + sf * w + r - 1
    BY <2>1, <2>2, EndToEnd
  <2> QED
    BY <2>3 DEF q, w, r
<1>7. Lit(reg) = D..D + W - 1
  <2> DEFINE x == sf * (D \div sf)
             y == sf * (rem \div sf)
             r == rem % sf
  <2>1. rem = W - (sf - lead)
    OBVIOUS
  <2>2. D = x + lead /\ rem = y + r /\ x \in Nat /\ y \in Nat /\ r \in Nat
    BY <1>1, <1>3, <1>5, Distribute
  <2>3. Lit(reg) = x + lead..x + sf + y + r - 1
    BY <1>6
  <2> HIDE DEF x, y, r, rem, lead, D, W, sf, reg
  <2>4. x + sf + y + r - 1 = D + W - 1
    BY <1>1, <1>3, <1>4, <2>1, <2>2
  <2> QED
    BY <2>2, <2>3, <2>4
<1>8. Pulse(e, o) = D..D + W - 1
  BY <1>2 DEF Pulse
<1>9. reg.source = d.source[o]
  OBVIOUS
<1> HIDE DEF reg, e
<1> QED
  BY <1>2, <1>7, <1>8, <1>9 DEF Driven, e

\* One setting of output o has changed.
LEMMA SetOutputKeeps ==
  ASSUME NEW d, OutputInv(d), NEW o \in Outputs,
         NEW e, OutputsOf(e), e.drive = d.drive,
         \A p \in Outputs \ {o} : /\ e.source[p] = d.source[p]
                                  /\ e.delays[p] = d.delays[p]
                                  /\ e.widths[p] = d.widths[p]
  PROVE  OutputInv(setOutput(e, o))
<1> DEFINE f == setOutput(e, o)
<1>1. PICK reg : f = [e EXCEPT !.drive[o] = reg]
  BY DEF setOutput
<1>2. /\ f.drive = [e.drive EXCEPT ![o] = reg]
      /\ f.source = e.source /\ f.delays = e.delays /\ f.widths = e.widths
      /\ OutputsOf(f)
  <2> HIDE DEF f
  <2> QED
    BY <1>1 DEF OutputsOf
<1>3. Driven(f, o)
  BY SetOutputDrives
<1>4. ASSUME NEW p \in Outputs, p # o
      PROVE  Driven(f, p)
  <2> HIDE DEF f
  <2>1. /\ f.drive[p] = d.drive[p] /\ f.source[p] = d.source[p]
        /\ f.delays[p] = d.delays[p] /\ f.widths[p] = d.widths[p]
    BY <1>2, <1>4 DEF OutputsOf
  <2> QED
    BY <2>1 DEF OutputInv, Driven, Pulse
<1> HIDE DEF f
<1> QED
  BY <1>2, <1>3, <1>4 DEF OutputInv, f

\* f has the outputs of d.
Besides(d, f) ==
  f = [actions |-> f.actions, source |-> d.source, delays |-> d.delays,
       widths |-> d.widths, drive |-> d.drive, log |-> f.log,
       taken |-> f.taken, latch |-> f.latch, logSec |-> f.logSec,
       logTicks |-> f.logTicks, nowTicks |-> f.nowTicks]

LEMMA OtherOutputsKeep ==
  ASSUME NEW d, OutputInv(d), NEW f, Besides(d, f)
  PROVE  OutputInv(f)
<1>1. /\ f.source = d.source /\ f.delays = d.delays /\ f.widths = d.widths
      /\ f.drive = d.drive
  BY DEF Besides
<1>2. OutputsOf(f)
  BY <1>1 DEF Besides, OutputInv, OutputsOf
<1>3. \A o \in Outputs : Driven(f, o)
  BY <1>1 DEF OutputInv, Driven, Pulse
<1> QED
  BY <1>2, <1>3 DEF OutputInv

LEMMA OutputsAtStart == OutputInv(EvrStart)
<1>1. OutputsOf(EvrStart)
  BY DEF OutputsOf, EvrStart
<1>2. \A o \in Outputs : /\ EvrStart.source[o] = 0
                         /\ EvrStart.drive[o].source = 0
  BY DEF EvrStart
<1> QED
  BY <1>1, <1>2 DEF OutputInv, Driven, PULSE

LEMMA OutputWriteKeeps ==
  ASSUME NEW d, OutputInv(d), NEW reg, NEW value \in Nat
  PROVE  OutputInv(EVR_FEEDwrite(d, reg, value))
<1> DEFINE o == reg[2]
<1>1. OutputInv(SetEventAction(d, o, value))
  <2>1. Besides(d, SetEventAction(d, o, value))
    BY DEF SetEventAction, Besides, OutputInv, OutputsOf
  <2> QED
    BY <2>1, OtherOutputsKeep
<1>2. OutputInv(SelectOutputSource(d, o, value))
  <2>1. CASE o \in Outputs
    <3> DEFINE e == [d EXCEPT !.source[o] = value]
    <3>1. e.source = [d.source EXCEPT ![o] = value] /\ OutputsOf(e)
          /\ e.delays = d.delays /\ e.widths = d.widths /\ e.drive = d.drive
      BY <2>1 DEF OutputInv, OutputsOf
    <3>2. SelectOutputSource(d, o, value) = setOutput(e, o)
      BY <2>1 DEF SelectOutputSource
    <3> HIDE DEF e
    <3> QED
      BY <2>1, <3>1, <3>2, SetOutputKeeps DEF OutputInv, OutputsOf
  <2> QED
    BY <2>1 DEF SelectOutputSource
<1>3. OutputInv(SetPulseDelay(d, o, value))
  <2>1. CASE o \in Outputs
    <3> DEFINE e == [d EXCEPT !.delays[o] = value]
    <3>1. e.delays = [d.delays EXCEPT ![o] = value] /\ OutputsOf(e)
          /\ e.source = d.source /\ e.widths = d.widths /\ e.drive = d.drive
      BY <2>1 DEF OutputInv, OutputsOf
    <3>2. SetPulseDelay(d, o, value) = setOutput(e, o)
      BY <2>1 DEF SetPulseDelay
    <3> HIDE DEF e
    <3> QED
      BY <2>1, <3>1, <3>2, SetOutputKeeps DEF OutputInv, OutputsOf
  <2> QED
    BY <2>1 DEF SetPulseDelay
<1>4. OutputInv(SetPulseWidth(d, o, value))
  <2>1. CASE o \in Outputs
    <3> DEFINE e == [d EXCEPT !.widths[o] = value]
    <3>1. e.widths = [d.widths EXCEPT ![o] = value] /\ OutputsOf(e)
          /\ e.delays = d.delays /\ e.source = d.source /\ e.drive = d.drive
      BY <2>1 DEF OutputInv, OutputsOf
    <3>2. SetPulseWidth(d, o, value) = setOutput(e, o)
      BY <2>1 DEF SetPulseWidth
    <3> HIDE DEF e
    <3> QED
      BY <2>1, <3>1, <3>2, SetOutputKeeps DEF OutputInv, OutputsOf
  <2> QED
    BY <2>1 DEF SetPulseWidth
<1> QED
  BY <1>1, <1>2, <1>3, <1>4 DEF EVR_FEEDwrite

LEMMA ReadOnlyLooks ==
  ASSUME NEW d, NEW reg, reg[1] \in EvrNames \ {"event"}
  PROVE  EVR_FEEDread(d, reg).dev = d
  BY DEF EVR_FEEDread, EvrNames

\* The end of a read of the log takes the next event, if there is one, and
\* shows its time, unless the read tells none.
LEMMA EventTaken ==
  ASSUME NEW d, OutputsOf(d), NEW code, NEW e, e = GetFifoEvent(d, code)
  PROVE  /\ Besides(d, e)
         /\ e.actions = d.actions /\ e.log = d.log /\ e.nowTicks = d.nowTicks
         /\ e.taken = IF d.taken = Len(d.log) THEN d.taken ELSE d.taken + 1
         /\ code = 0 => e.logSec = 0 /\ e.logTicks = 0
         /\ code # 0 /\ d.taken # Len(d.log) =>
              /\ e.logSec = Seconds(d.log[d.taken + 1].at)
              /\ e.logTicks = Ticks(d.log[d.taken + 1].at)
<1> DEFINE s == FifoTaken(d)
           sec == IF code = 0 THEN 0 ELSE Seconds(s.latch)
           ticks == IF code = 0 THEN 0 ELSE Ticks(s.latch)
<1>1. PICK a, o, t, w, v, l, n, m, c, k, i :
        d = [actions |-> a, source |-> o, delays |-> t, widths |-> w,
             drive |-> v, log |-> l, taken |-> n, latch |-> m,
             logSec |-> c, logTicks |-> k, nowTicks |-> i]
  BY DEF OutputsOf
<1>2. PICK y, z :
        /\ s = [actions |-> a, source |-> o, delays |-> t, widths |-> w,
                drive |-> v, log |-> l, taken |-> y, latch |-> z,
                logSec |-> c, logTicks |-> k, nowTicks |-> i]
        /\ y = IF n = Len(l) THEN n ELSE n + 1
        /\ n # Len(l) => z = l[n + 1].at
  <2>1. CASE n = Len(l)
    <3>1. s = d
      BY <1>1, <2>1 DEF FifoTaken
    <3> HIDE DEF s
    <3> QED
      BY <1>1, <2>1, <3>1
  <2>2. CASE n # Len(l)
    <3>1. d.taken = n /\ d.log = l
      BY <1>1
    <3>2. s = [d EXCEPT !.taken = @ + 1, !.latch = d.log[d.taken + 1].at]
      BY <2>2, <3>1 DEF FifoTaken
    <3> HIDE DEF s
    <3>3. s = [d EXCEPT !.taken = n + 1, !.latch = l[n + 1].at]
      BY <3>1, <3>2
    <3> QED
      BY <1>1, <2>2, <3>3
  <2> QED
    BY <2>1, <2>2
<1>3. s.latch = z
  BY <1>2
<1>4. e = [s EXCEPT !.logSec = sec, !.logTicks = ticks]
  BY DEF GetFifoEvent
<1> HIDE DEF s, sec, ticks
<1>5. e = [actions |-> a, source |-> o, delays |-> t, widths |-> w,
           drive |-> v, log |-> l, taken |-> y, latch |-> z,
           logSec |-> sec, logTicks |-> ticks, nowTicks |-> i]
  BY <1>2, <1>4
<1>6. d.taken = n /\ d.log = l
  BY <1>1
<1>7. Besides(d, e)
  BY <1>1, <1>5 DEF Besides
<1>8. code = 0 => e.logSec = 0 /\ e.logTicks = 0
  BY <1>5 DEF sec, ticks
<1>9. code # 0 => e.logSec = Seconds(z) /\ e.logTicks = Ticks(z)
  BY <1>3, <1>5 DEF sec, ticks
<1>10. /\ e.actions = d.actions /\ e.log = d.log /\ e.nowTicks = d.nowTicks
       /\ e.taken = y
  BY <1>1, <1>5
<1> QED
  BY <1>2, <1>6, <1>7, <1>8, <1>9, <1>10

LEMMA OutputStep ==
  ASSUME RequestInv, OutputInv(evr), [Next]_vars
  PROVE  OutputInv(evr)'
<1>1. ASSUME NEW f, OutputInv(f), evr' = f
      PROVE  OutputInv(evr)'
  BY <1>1 DEF OutputInv, OutputsOf, Driven, Pulse
<1>2. ASSUME NEW f, Besides(evr, f), evr' = f
      PROVE  OutputInv(evr)'
  BY <1>1, <1>2, OtherOutputsKeep
<1>3. CASE /\ Ready /\ evr' = EVR_FEEDwrite(evr, Op.reg, Op.value)
  <2>1. OutputInv(EVR_FEEDwrite(evr, Op.reg, Op.value))
    BY <1>3, OpIsNumbered, OutputWriteKeeps
  <2> QED
    BY <1>1, <1>3, <2>1
<1>4. CASE /\ Reads(EvrNames \ {"event"}) /\ evr' = EVR_FEEDread(evr, Op.reg).dev
  <2>1. EVR_FEEDread(evr, Op.reg).dev = evr
    BY <1>4, ReadOnlyLooks DEF Reads
  <2> QED
    BY <1>1, <1>4, <2>1
<1>5. CASE OneLook
  BY <1>1, <1>3, <1>4, <1>5 DEF OneLook, WriteReg, ReadReg, Writes
<1>6. CASE LogEvent
  <2>1. PICK code : evr' = Logged(evr, code, clock)
    BY <1>6 DEF LogEvent
  <2>2. Besides(evr, Logged(evr, code, clock))
    BY DEF Logged, Besides, OutputInv, OutputsOf
  <2> QED
    BY <1>2, <2>1, <2>2
<1>7. ASSUME NEW t, evr' = [evr EXCEPT !.nowTicks = t]
      PROVE  OutputInv(evr)'
  <2>1. Besides(evr, [evr EXCEPT !.nowTicks = t])
    BY DEF Besides, OutputInv, OutputsOf
  <2> QED
    BY <1>2, <1>7, <2>1
<1>8. CASE GetTime
  BY <1>1, <1>7, <1>8 DEF GetTime, ReadNow, ReadTicks, ReadSecondsAgain
<1>9. CASE GetEvent
  <2>1. CASE UNCHANGED evr
    BY <1>1, <2>1
  <2>2. CASE evr' = GetFifoEvent(evr, call.s0)
    <3>1. Besides(evr, GetFifoEvent(evr, call.s0))
      BY EventTaken DEF OutputInv
    <3> QED
      BY <1>2, <2>2, <3>1
  <2> QED
    BY <1>9, <2>1, <2>2 DEF GetEvent, LookForEvent, TakeEvent
<1>10. CASE Next /\ ~OneLook /\ ~LogEvent /\ ~GetTime /\ ~GetEvent
  <2>1. evr' \in {evr, EvrStart}
    BY <1>10 DEF Next, Receive, Serve, SetReference, SetMgtClkSwitch0,
                Connect, WriteSi570, Program, Reconnect, refOnly, Reboot, Send,
                Hardware, Advance, Drop
  <2> QED
    BY <1>1, <2>1, OutputsAtStart
<1>11. CASE UNCHANGED vars
  BY <1>1, <1>11 DEF vars
<1> QED
  BY <1>5, <1>6, <1>8, <1>9, <1>10, <1>11

\* An output in pulse mode is high for exactly the bits asked for.
THEOREM PulsesAreAsAsked == Spec => []PulseAsAsked
<1>1. Init => OutputInv(evr)
  BY OutputsAtStart DEF Init
<1>2. RequestInv /\ OutputInv(evr) /\ [Next]_vars => OutputInv(evr)'
  BY OutputStep
<1>3. OutputInv(evr) => PulseAsAsked
  BY DEF OutputInv, Driven, PulseAsAsked
<1> QED
  BY RequestInit, RequestStep, <1>1, <1>2, <1>3, PTL DEF Spec

-----------------------------------------------------------------------------
(***************************************************************************)
(* Times.  The reply holds what was read, the driver's static variables    *)
(* what the next register will show: the invariant relates the two for the *)
(* register that was read last, and the ticks and seconds of a read of the *)
(* time that is under way to moments in between, in the right order.       *)
(***************************************************************************)
NowIs(from, to, s, t) ==
  \/ s = 0 /\ t = 0
  \/ \E u \in from..to : Seconds(u) = s /\ Ticks(u) = t

EventIs(log, h, n, code, s, t) ==
  IF code = 0 THEN s = 0 /\ t = 0
  ELSE /\ n \in 1..Len(h) /\ h[n] \in 1..Len(log) /\ code = log[h[n]].code
       /\ s = Seconds(log[h[n]].at) /\ t = Ticks(log[h[n]].at)

\* The events told, up to the answer to register k.
Nth(k) == arrived.told + Cardinality(EventsTold(k))

Looking  == {"ticks", "seconds"}
UnderWay == Looking \cup {"event", "connect", "program"}

LogInv ==
  /\ evr.log \in Seq([code : EventCodes, at : Nat])
  /\ evr.taken \in 0..Len(evr.log)
  /\ clock \in Nat /\ arrived.clock \in 0..clock /\ arrived.told \in Nat
  /\ told \in Seq(Nat)
  /\ \E S : reply \in Seq(S)

Answered ==
  /\ \A k \in 2..Len(reply) :
       Told(k - 1, "now") /\ Told(k, "nowTicks") =>
         NowIs(arrived.clock, clock, reply[k - 1], reply[k])
  /\ \A k \in 3..Len(reply) :
       Told(k - 2, "event") /\ Told(k - 1, "eventSec") /\ Told(k, "eventTicks") =>
         EventIs(evr.log, told, Nth(k), reply[k - 2], reply[k - 1], reply[k])

Prepared ==
  /\ Len(reply) > 0 /\ Told(Len(reply), "now") /\ call.stage \notin Looking =>
       NowIs(arrived.clock, clock, reply[Len(reply)], evr.nowTicks)
  /\ Len(reply) > 0 /\ Told(Len(reply), "event") =>
       EventIs(evr.log, told, Nth(Len(reply)), reply[Len(reply)], evr.logSec,
               evr.logTicks)
  /\ Len(reply) > 1 /\ Told(Len(reply) - 1, "event")
                    /\ Told(Len(reply), "eventSec") =>
       EventIs(evr.log, told, Nth(Len(reply)), reply[Len(reply) - 1],
               reply[Len(reply)], evr.logTicks)
  /\ request # <<>> => Len(told) = Nth(Len(reply))

Reading ==
  /\ call.stage \in Looking =>
       /\ request # <<>> /\ Told(Len(reply) + 1, "now") /\ evr.nowTicks = 0
       /\ \E u \in arrived.clock..clock :
            /\ call.s0 = Seconds(u)
            /\ call.stage = "seconds" => \E v \in u..clock : call.ticks = Ticks(v)
  /\ call.stage \in {"connect", "program"} => request # <<>> /\ Op.write
  /\ call.stage = "event" =>
       /\ request # <<>> /\ Told(Len(reply) + 1, "event")
       /\ call.s0 = 0 => call.seen = evr.taken
       /\ call.s0 # 0 => /\ evr.taken < Len(evr.log)
                         /\ call.s0 = evr.log[evr.taken + 1].code

TimesInv == LogInv /\ Answered /\ Prepared /\ Reading

\* Time goes on, and the log grows.
Onward ==
  /\ UNCHANGED <<request, arrived>>
  /\ clock' \in Nat /\ clock <= clock'
  /\ evr'.log \in Seq([code : EventCodes, at : Nat])
  /\ Len(evr.log) <= Len(evr'.log)
  /\ \A i \in 1..Len(evr.log) : evr'.log[i] = evr.log[i]
  /\ told' \in Seq(Nat) /\ Len(told) <= Len(told')
  /\ \A i \in 1..Len(told) : told'[i] = told[i]

LEMMA NowGoesOn ==
  ASSUME NEW f \in Nat, NEW c \in Nat, NEW d \in Nat, c <= d,
         NEW s, NEW t, NowIs(f, c, s, t)
  PROVE  NowIs(f, d, s, t)
<1>1. f..c \subseteq f..d
  OBVIOUS
<1> QED
  BY <1>1 DEF NowIs

LEMMA EventGoesOn ==
  ASSUME NEW l, NEW m, Len(l) \in Nat, Len(m) \in Nat, Len(l) <= Len(m),
         \A i \in 1..Len(l) : m[i] = l[i],
         NEW h, NEW g, Len(h) \in Nat, Len(g) \in Nat, Len(h) <= Len(g),
         \A i \in 1..Len(h) : g[i] = h[i],
         NEW n, NEW code, NEW s, NEW t, EventIs(l, h, n, code, s, t)
  PROVE  EventIs(m, g, n, code, s, t)
<1>1. 1..Len(l) \subseteq 1..Len(m) /\ 1..Len(h) \subseteq 1..Len(g)
  OBVIOUS
<1> QED
  BY <1>1 DEF EventIs

\* A second that has begun and not ended at two moments is that of every
\* moment in between.
LEMMA SecondsRise ==
  ASSUME NEW u \in Nat, NEW v \in Nat, u <= v
  PROVE  Seconds(u) \in Nat /\ Seconds(v) \in Nat /\ Seconds(u) <= Seconds(v)
<1> DEFINE d == TicksPerSecond
           p == u \div d
           q == v \div d
<1>1. d \in Nat \ {0}
  BY EvrAssumption
<1>2. /\ p \in Nat /\ q \in Nat
      /\ u = d * p + (u % d) /\ u % d \in 0..d - 1
      /\ v = d * q + (v % d) /\ v % d \in 0..d - 1
  <2> HIDE DEF d
  <2> QED
    BY <1>1, Z3
<1> HIDE DEF d, p, q
<1>3. SUFFICES ASSUME q < p PROVE FALSE
  BY <1>2 DEF p, q, d, Seconds
<1>4. PICK k \in Nat : p = q + 1 + k
  <2>1. p - q - 1 \in Nat /\ p = q + 1 + (p - q - 1)
    BY <1>2, <1>3
  <2> QED
    BY <2>1
<1>5. d * p = d * q + d + d * k /\ d * k \in Nat /\ d * q \in Nat
  BY <1>1, <1>2, <1>4
<1> QED
  BY <1>1, <1>2, <1>5

LEMMA LogGoesOn ==
  ASSUME LogInv, Onward
  PROVE  /\ Len(evr.log) \in Nat /\ Len(evr'.log) \in Nat /\ Len(reply) \in Nat
         /\ Len(told) \in Nat /\ Len(told') \in Nat
         /\ arrived' = arrived /\ arrived'.clock \in 0..clock'
         /\ arrived.clock \in Nat /\ clock \in Nat /\ clock' \in Nat
<1>1. /\ Len(evr.log) \in Nat /\ Len(evr'.log) \in Nat /\ Len(reply) \in Nat
      /\ Len(told) \in Nat /\ Len(told') \in Nat
  BY LenProperties DEF LogInv, Onward
<1>2. arrived' = arrived /\ arrived.clock \in 0..clock /\ clock \in Nat
      /\ clock' \in Nat /\ clock <= clock'
  BY DEF LogInv, Onward
<1>3. arrived.clock \in Nat /\ arrived.clock \in 0..clock'
  BY <1>2
<1> QED
  BY <1>1, <1>2, <1>3

\* A step that answers nothing.
LEMMA StillKeeps ==
  ASSUME TimesInv, Onward, UNCHANGED <<reply, told>>, evr'.taken = evr.taken,
         evr'.logSec = evr.logSec, evr'.logTicks = evr.logTicks,
         \/ call'.stage \in Looking
         \/ evr'.nowTicks = evr.nowTicks /\ call.stage \notin Looking,
         Reading'
  PROVE  TimesInv'
<1>0. LogInv /\ Answered /\ Prepared
  BY DEF TimesInv
<1>1. /\ Len(evr.log) \in Nat /\ Len(evr'.log) \in Nat /\ Len(reply) \in Nat
      /\ Len(told) \in Nat /\ Len(told') \in Nat
      /\ arrived' = arrived /\ arrived'.clock \in 0..clock'
      /\ arrived.clock \in Nat /\ clock \in Nat /\ clock' \in Nat
  BY <1>0, LogGoesOn
<1>2. LogInv'
  <2>1. evr'.taken \in 0..Len(evr'.log)
    BY <1>0, <1>1 DEF LogInv, Onward
  <2> QED
    BY <1>0, <1>1, <2>1 DEF LogInv, Onward
<1>3. ASSUME NEW k PROVE Nth(k)' = Nth(k)
  BY DEF Nth, EventsTold, Told, Onward
<1>4. ASSUME NEW k, NEW x PROVE Told(k, x)' <=> Told(k, x)
  BY DEF Told, Onward
<1>5. ASSUME NEW s, NEW t, NowIs(arrived.clock, clock, s, t)
      PROVE  NowIs(arrived'.clock, clock', s, t)
  BY <1>1, <1>5, NowGoesOn DEF Onward
<1>6. ASSUME NEW i, NEW code, NEW s, NEW t, EventIs(evr.log, told, i, code, s, t)
      PROVE  EventIs(evr'.log, told', i, code, s, t)
  BY <1>1, <1>6, EventGoesOn DEF Onward
<1>7. Answered'
  <2>1. ASSUME NEW k \in 2..Len(reply)', (Told(k - 1, "now") /\ Told(k, "nowTicks"))'
        PROVE  NowIs(arrived.clock, clock, reply[k - 1], reply[k])'
    BY <1>0, <1>4, <1>5, <2>1 DEF Answered
  <2>2. ASSUME NEW k \in 3..Len(reply)',
               (Told(k - 2, "event") /\ Told(k - 1, "eventSec")
                 /\ Told(k, "eventTicks"))'
        PROVE  EventIs(evr.log, told, Nth(k), reply[k - 2], reply[k - 1], reply[k])'
    <3>1. EventIs(evr.log, told, Nth(k), reply[k - 2], reply[k - 1], reply[k])
      BY <1>0, <1>4, <2>2 DEF Answered
    <3> QED
      BY <1>3, <1>6, <3>1
  <2> QED
    BY <2>1, <2>2 DEF Answered
<1>8. Prepared'
  <2>1. ASSUME (Len(reply) > 0 /\ Told(Len(reply), "now") /\ call.stage \notin Looking)'
        PROVE  NowIs(arrived.clock, clock, reply[Len(reply)], evr.nowTicks)'
    <3>1. NowIs(arrived.clock, clock, reply[Len(reply)], evr.nowTicks)
      BY <1>0, <1>4, <2>1 DEF Prepared, Looking
    <3> QED
      BY <1>5, <2>1, <3>1 DEF Looking
  <2>2. ASSUME (Len(reply) > 0 /\ Told(Len(reply), "event"))'
        PROVE  EventIs(evr.log, told, Nth(Len(reply)), reply[Len(reply)], evr.logSec,
                       evr.logTicks)'
    <3>1. EventIs(evr.log, told, Nth(Len(reply)), reply[Len(reply)], evr.logSec, evr.logTicks)
      BY <1>0, <1>4, <2>2 DEF Prepared
    <3> QED
      BY <1>3, <1>6, <3>1
  <2>3. ASSUME (Len(reply) > 1 /\ Told(Len(reply) - 1, "event")
                 /\ Told(Len(reply), "eventSec"))'
        PROVE  EventIs(evr.log, told, Nth(Len(reply)), reply[Len(reply) - 1],
                       reply[Len(reply)], evr.logTicks)'
    <3>1. EventIs(evr.log, told, Nth(Len(reply)), reply[Len(reply) - 1], reply[Len(reply)],
                  evr.logTicks)
      BY <1>0, <1>4, <2>3 DEF Prepared
    <3> QED
      BY <1>3, <1>6, <3>1
  <2>4. (request # <<>>)' => Len(told)' = Nth(Len(reply))'
    BY <1>0, <1>3 DEF Prepared, Onward
  <2> QED
    BY <2>1, <2>2, <2>3, <2>4 DEF Prepared
<1> QED
  BY <1>2, <1>7, <1>8 DEF TimesInv

\* The events told, with one more answer.
LEMMA OneMore ==
  ASSUME LogInv, Onward, NEW v, Answer(v)
  PROVE  /\ Len(reply') = Len(reply) + 1 /\ reply'[Len(reply) + 1] = v
         /\ \A k \in 1..Len(reply) : reply'[k] = reply[k]
         /\ \E S : reply' \in Seq(S)
         /\ \A k \in 0..Len(reply) : Nth(k)' = Nth(k)
         /\ Nth(Len(reply)) \in Nat
         /\ Nth(Len(reply))' =
              IF Told(Len(reply) + 1, "event") /\ v # 0 THEN Nth(Len(reply)) + 1
              ELSE Nth(Len(reply))
<1>1. PICK S : reply \in Seq(S)
  BY DEF LogInv
<1>2. PICK n \in Nat : n = Len(reply)
  BY <1>1, LenProperties
<1>3. /\ Len(reply') = n + 1 /\ reply'[n + 1] = v
      /\ \A k \in 1..n : reply'[k] = reply[k]
      /\ reply' \in Seq(S \cup {v})
  <2>1. reply \in Seq(S \cup {v}) /\ v \in S \cup {v}
    BY <1>1, SeqMonotonic
  <2> QED
    BY <1>2, <2>1, AppendProperties DEF Answer
<1>4. ASSUME NEW k \in 0..n
      PROVE  EventsTold(k)' = EventsTold(k)
  <2>1. 1..k \subseteq 1..n
    BY <1>2
  <2> QED
    BY <1>3, <2>1 DEF EventsTold, Told, Onward
<1>5. EventsTold(n + 1)' = IF Told(n + 1, "event") /\ v # 0
                           THEN EventsTold(n) \cup {n + 1} ELSE EventsTold(n)
  <2>1. 1..n + 1 = 1..n \cup {n + 1}
    BY <1>2
  <2>2. EventsTold(n + 1)' = {j \in 1..n + 1 : Told(j, "event") /\ reply'[j] # 0}
    BY DEF EventsTold, Told, Onward
  <2>3. EventsTold(n) = {j \in 1..n : Told(j, "event") /\ reply'[j] # 0}
    BY <1>3 DEF EventsTold
  <2> QED
    BY <1>3, <2>1, <2>2, <2>3
<1>6. IsFiniteSet(EventsTold(n)) /\ n + 1 \notin EventsTold(n)
  <2>1. EventsTold(n) \in SUBSET (1..n)
    BY DEF EventsTold
  <2>2. IsFiniteSet(1..n)
    BY <1>2, FS_Interval
  <2>3. n + 1 \notin 1..n
    BY <1>2
  <2> QED
    BY <2>1, <2>2, <2>3, FS_Subset
<1>7. Cardinality(EventsTold(n)) \in Nat /\ arrived.told \in Nat /\ arrived' = arrived
  BY <1>6, FS_CardinalityType DEF LogInv, Onward
<1>8. Nth(n) \in Nat
  BY <1>7 DEF Nth
<1>9. Nth(n + 1)' = arrived.told + Cardinality(EventsTold(n + 1)')
  BY <1>7 DEF Nth
<1>10. Nth(n + 1)' = IF Told(n + 1, "event") /\ v # 0 THEN Nth(n) + 1 ELSE Nth(n)
  <2>1. CASE Told(n + 1, "event") /\ v # 0
    <3>1. Cardinality(EventsTold(n + 1)') = Cardinality(EventsTold(n)) + 1
      BY <1>5, <1>6, <2>1, FS_AddElement
    <3> QED
      BY <1>7, <1>9, <2>1, <3>1 DEF Nth
  <2>2. CASE ~(Told(n + 1, "event") /\ v # 0)
    BY <1>5, <1>9, <2>2 DEF Nth
  <2> QED
    BY <2>1, <2>2
<1>11. ASSUME NEW k \in 0..n PROVE Nth(k)' = Nth(k)
  BY <1>4, <1>7 DEF Nth
<1>12. Nth(Len(reply))' = Nth(n + 1)'
  BY <1>3
<1> QED
  BY <1>2, <1>3, <1>8, <1>10, <1>11, <1>12

\* A register is answered.
LEMMA AnswerKeeps ==
  ASSUME TimesInv, Onward, NEW v, Answer(v), request # <<>>,
         evr'.taken \in 0..Len(evr'.log),
         call'.stage \notin UnderWay,
         NEW n \in Nat, n = Len(reply) + 1,
         Told(n, "nowTicks") => v = evr.nowTicks /\ call.stage \notin Looking,
         Told(n, "now") => NowIs(arrived.clock, clock', v, evr'.nowTicks),
         Told(n, "event") =>
           /\ EventIs(evr'.log, told', Len(told'), v, evr'.logSec, evr'.logTicks)
           /\ Len(told') = IF v = 0 THEN Len(told) ELSE Len(told) + 1,
         ~Told(n, "event") => told' = told,
         Told(n, "eventSec") => v = evr.logSec /\ evr'.logTicks = evr.logTicks,
         Told(n, "eventTicks") => v = evr.logTicks
  PROVE  TimesInv'
<1>0. LogInv /\ Answered /\ Prepared
  BY DEF TimesInv
<1>1. /\ Len(evr.log) \in Nat /\ Len(evr'.log) \in Nat /\ Len(reply) \in Nat
      /\ Len(told) \in Nat /\ Len(told') \in Nat
      /\ arrived' = arrived /\ arrived'.clock \in 0..clock'
      /\ arrived.clock \in Nat /\ clock \in Nat /\ clock' \in Nat
  BY <1>0, LogGoesOn
<1>2. /\ Len(reply') = n /\ reply'[n] = v
      /\ \A k \in 1..n - 1 : reply'[k] = reply[k]
      /\ \E S : reply' \in Seq(S)
      /\ \A k \in 0..n - 1 : Nth(k)' = Nth(k)
      /\ Nth(n - 1) \in Nat /\ n - 1 = Len(reply) /\ n - 1 \in Nat
      /\ Nth(n)' = IF Told(n, "event") /\ v # 0 THEN Nth(n - 1) + 1 ELSE Nth(n - 1)
  <2>1. n - 1 = Len(reply)
    BY <1>1
  <2>2. /\ Len(reply') = n /\ reply'[n] = v
        /\ \A k \in 1..Len(reply) : reply'[k] = reply[k]
        /\ \E S : reply' \in Seq(S)
        /\ \A k \in 0..Len(reply) : Nth(k)' = Nth(k)
        /\ Nth(Len(reply)) \in Nat
        /\ Nth(Len(reply))' = IF Told(n, "event") /\ v # 0 THEN Nth(Len(reply)) + 1
                              ELSE Nth(Len(reply))
    BY <1>0, OneMore
  <2>3. Nth(Len(reply))' = Nth(n)'
    BY <2>2
  <2> QED
    BY <1>1, <2>1, <2>2, <2>3
<1>3. LogInv'
  BY <1>0, <1>1, <1>2 DEF LogInv, Onward
<1>4. ASSUME NEW k, NEW x PROVE Told(k, x)' <=> Told(k, x)
  BY DEF Told, Onward
<1>5. ASSUME NEW s, NEW t, NowIs(arrived.clock, clock, s, t)
      PROVE  NowIs(arrived.clock, clock', s, t)
  BY <1>1, <1>5, NowGoesOn DEF Onward
<1>6. ASSUME NEW i, NEW code, NEW s, NEW t, EventIs(evr.log, told, i, code, s, t)
      PROVE  EventIs(evr'.log, told', i, code, s, t)
  BY <1>1, <1>6, EventGoesOn DEF Onward
<1>7. Len(told) = Nth(n - 1) /\ Len(told') = Nth(n)'
  <2>1. Len(told) = Nth(n - 1)
    BY <1>0, <1>2 DEF Prepared
  <2> QED
    BY <1>2, <2>1
<1>8. ASSUME ~Told(n, "event") PROVE Nth(n)' = Nth(n - 1)
  BY <1>2, <1>8
<1>9. ASSUME NEW x \in {"now", "nowTicks", "eventSec", "eventTicks"}, Told(n, x)
      PROVE  ~Told(n, "event") /\ (x # "now" => ~Told(n, "now"))
  BY <1>9 DEF Told
<1>10. ASSUME NEW k \in 2..n, Told(k - 1, "now"), Told(k, "nowTicks")
       PROVE  NowIs(arrived.clock, clock', reply'[k - 1], reply'[k])
  <2>1. CASE k < n
    <3>1. k \in 2..n - 1 /\ k \in 1..n - 1 /\ k - 1 \in 1..n - 1
      BY <2>1
    <3>2. NowIs(arrived.clock, clock, reply[k - 1], reply[k])
      BY <1>0, <1>2, <1>10, <3>1 DEF Answered
    <3> QED
      BY <1>2, <1>5, <3>1, <3>2
  <2>2. CASE k = n
    <3>1. k - 1 = Len(reply) /\ Len(reply) > 0 /\ n - 1 \in 1..n - 1
      BY <1>2, <2>2
    <3>2. NowIs(arrived.clock, clock, reply[n - 1], evr.nowTicks)
      BY <1>0, <1>10, <2>2, <3>1 DEF Prepared
    <3>3. reply'[n - 1] = reply[n - 1] /\ reply'[n] = evr.nowTicks
      BY <1>2, <1>10, <2>2, <3>1
    <3> QED
      BY <1>5, <2>2, <3>2, <3>3
  <2> QED
    BY <2>1, <2>2
<1>11. ASSUME NEW k \in 3..n, Told(k - 2, "event"), Told(k - 1, "eventSec"),
              Told(k, "eventTicks")
       PROVE  EventIs(evr'.log, told', Nth(k)', reply'[k - 2], reply'[k - 1], reply'[k])
  <2>1. CASE k < n
    <3>1. k \in 3..n - 1 /\ k \in 0..n - 1 /\ k - 2 \in 1..n - 1 /\ k - 1 \in 1..n - 1
          /\ k \in 1..n - 1
      BY <2>1
    <3>2. EventIs(evr.log, told, Nth(k), reply[k - 2], reply[k - 1], reply[k])
      BY <1>0, <1>2, <1>11, <3>1 DEF Answered
    <3>3. EventIs(evr'.log, told', Nth(k), reply[k - 2], reply[k - 1], reply[k])
      BY <1>6, <3>2
    <3> QED
      BY <1>2, <3>1, <3>3
  <2>2. CASE k = n
    <3>1. n - 1 \in 1..n - 1 /\ n - 2 \in 1..n - 1 /\ Len(reply) > 1
          /\ n - 2 = Len(reply) - 1
      BY <1>2, <2>2
    <3>2. EventIs(evr.log, told, Nth(n - 1), reply[n - 2], reply[n - 1], evr.logTicks)
      BY <1>0, <1>2, <1>11, <2>2, <3>1 DEF Prepared
    <3>3. reply'[n - 2] = reply[n - 2] /\ reply'[n - 1] = reply[n - 1]
          /\ reply'[n] = evr.logTicks
      BY <1>2, <1>11, <2>2, <3>1
    <3>4. Nth(n)' = Nth(n - 1)
      BY <1>8, <1>9, <1>11, <2>2
    <3> QED
      BY <1>6, <2>2, <3>2, <3>3, <3>4
  <2> QED
    BY <2>1, <2>2
<1>12. Answered'
  BY <1>1, <1>2, <1>4, <1>10, <1>11 DEF Answered
<1>13. Prepared'
  <2>1. ASSUME Told(n, "now")
        PROVE  NowIs(arrived.clock, clock', reply'[n], evr'.nowTicks)
    BY <1>2, <2>1
  <2>2. ASSUME Told(n, "event")
        PROVE  EventIs(evr'.log, told', Nth(n)', reply'[n], evr'.logSec, evr'.logTicks)
    BY <1>2, <1>7, <2>2
  <2>3. ASSUME n > 1, Told(n - 1, "event"), Told(n, "eventSec")
        PROVE  EventIs(evr'.log, told', Nth(n)', reply'[n - 1], reply'[n], evr'.logTicks)
    <3>1. n - 1 \in 1..n - 1 /\ Len(reply) > 0
      BY <1>2, <2>3
    <3>2. EventIs(evr.log, told, Nth(n - 1), reply[n - 1], evr.logSec, evr.logTicks)
      BY <1>0, <1>2, <2>3, <3>1 DEF Prepared
    <3>3. reply'[n - 1] = reply[n - 1] /\ reply'[n] = evr.logSec
          /\ evr'.logTicks = evr.logTicks
      BY <1>2, <2>3, <3>1
    <3>4. Nth(n)' = Nth(n - 1)
      BY <1>8, <1>9, <2>3
    <3> QED
      BY <1>6, <3>2, <3>3, <3>4
  <2>4. Nth(Len(reply))' = Nth(n)'
    BY <1>2
  <2> QED
    BY <1>1, <1>2, <1>4, <1>7, <2>1, <2>2, <2>3, <2>4 DEF Prepared
<1>14. Reading'
  BY DEF Reading, UnderWay, Looking
<1> QED
  BY <1>3, <1>12, <1>13, <1>14 DEF TimesInv

\* Writing changes nothing that a read of a time tells.
SameLog(d, e) ==
  /\ e.log = d.log /\ e.taken = d.taken /\ e.nowTicks = d.nowTicks
  /\ e.logSec = d.logSec /\ e.logTicks = d.logTicks

LEMMA WriteIsSameLog ==
  ASSUME NEW d, OutputsOf(d), NEW reg, NEW value
  PROVE  SameLog(d, EVR_FEEDwrite(d, reg, value))
<1> DEFINE o == reg[2]
<1>1. ASSUME NEW e, OutputsOf(e), SameLog(d, e)
      PROVE  SameLog(d, setOutput(e, o))
  <2>1. PICK r : setOutput(e, o) = [e EXCEPT !.drive[o] = r]
    BY DEF setOutput
  <2> DEFINE f == setOutput(e, o)
  <2>2. /\ f.log = e.log /\ f.taken = e.taken /\ f.nowTicks = e.nowTicks
        /\ f.logSec = e.logSec /\ f.logTicks = e.logTicks
    <3> HIDE DEF f
    <3> QED
      BY <1>1, <2>1 DEF OutputsOf, f
  <2> QED
    BY <1>1, <2>2 DEF SameLog
<1>2. SameLog(d, d)
  BY DEF SameLog
<1>3. SameLog(d, SetEventAction(d, o, value))
  BY DEF SetEventAction, SameLog, OutputsOf
<1>4. SameLog(d, SelectOutputSource(d, o, value))
  <2> DEFINE e == [d EXCEPT !.source[o] = value]
  <2>1. SameLog(d, e)
    BY DEF SameLog, OutputsOf
  <2> QED
    BY <1>2, <2>1 DEF SelectOutputSource, setOutput, SameLog, OutputsOf
<1>5. SameLog(d, SetPulseDelay(d, o, value))
  BY <1>2 DEF SetPulseDelay, setOutput, SameLog, OutputsOf
<1>6. SameLog(d, SetPulseWidth(d, o, value))
  BY <1>2 DEF SetPulseWidth, setOutput, SameLog, OutputsOf
<1> QED
  BY <1>2, <1>3, <1>4, <1>5, <1>6 DEF EVR_FEEDwrite

\* No register is answered.
Fresh ==
  /\ evr.log \in Seq([code : EventCodes, at : Nat])
  /\ evr.taken \in 0..Len(evr.log)
  /\ clock \in Nat /\ arrived.clock \in 0..clock /\ arrived.told \in Nat
  /\ told \in Seq(Nat)
  /\ reply = <<>> /\ (request # <<>> => Len(told) = arrived.told)
  /\ call.stage \notin UnderWay

LEMMA FreshTimes == Fresh => TimesInv
<1> SUFFICES ASSUME Fresh PROVE TimesInv
  OBVIOUS
<1>1. reply \in Seq({}) /\ Len(reply) = 0
  BY DEF Fresh
<1>2. LogInv
  BY <1>1 DEF Fresh, LogInv
<1>3. Nth(0) = arrived.told
  <2>1. EventsTold(0) = {}
    BY DEF EventsTold
  <2>2. Cardinality(EventsTold(0)) = 0
    BY <2>1, FS_EmptySet
  <2>3. arrived.told \in Nat
    BY DEF Fresh
  <2> QED
    BY <2>2, <2>3 DEF Nth
<1>4. Answered /\ Prepared
  BY <1>1, <1>3 DEF Answered, Prepared, Fresh
<1>5. Reading
  BY DEF Reading, Fresh, UnderWay, Looking
<1> QED
  BY <1>2, <1>4, <1>5 DEF TimesInv

\* Every step of the server and of the hardware.
LEMMA SameLogGoesOn ==
  ASSUME LogInv, UNCHANGED <<request, arrived, told, clock>>, evr'.log = evr.log
  PROVE  Onward
<1>1. /\ clock \in Nat /\ clock <= clock /\ Len(evr.log) \in Nat
      /\ Len(told) \in Nat
  BY LenProperties DEF LogInv
<1> QED
  BY <1>1 DEF LogInv, Onward

LEMMA ReadyFacts ==
  ASSUME Ready
  PROVE  request # <<>> /\ call.stage = "idle" /\ call.stage \notin Looking
  BY DEF Ready, Idle, Looking

LEMMA NextTold ==
  ASSUME LogInv
  PROVE  \E n \in Nat : /\ n = Len(reply) + 1
                       /\ \A x : Told(n, x) <=> ~Op.write /\ Op.reg[1] = x
<1>1. Len(reply) \in Nat
  BY LenProperties DEF LogInv
<1> QED
  BY <1>1 DEF Told, Op

\* A register written, or read from another part of the node.
LEMMA OtherAnswer ==
  ASSUME TimesInv, request # <<>>, call.stage \notin Looking,
         NEW v, Answer(v), SameLog(evr, evr'),
         UNCHANGED <<request, arrived, told, clock>>,
         call'.stage \notin UnderWay,
         \/ Op.write
         \/ Op.reg[1] \notin {"now", "nowTicks", "event", "eventSec", "eventTicks"}
         \/ Op.reg[1] = "nowTicks" /\ v = evr.nowTicks
         \/ Op.reg[1] = "eventSec" /\ v = evr.logSec
         \/ Op.reg[1] = "eventTicks" /\ v = evr.logTicks
  PROVE  TimesInv'
<1>1. LogInv
  BY DEF TimesInv
<1>2. PICK n \in Nat : /\ n = Len(reply) + 1
                      /\ \A x : Told(n, x) <=> ~Op.write /\ Op.reg[1] = x
  BY <1>1, NextTold
<1>3. \A x : Told(n, x) <=> ~Op.write /\ Op.reg[1] = x
  BY <1>2
<1>4. Onward /\ evr'.taken \in 0..Len(evr'.log)
  BY <1>1, SameLogGoesOn DEF SameLog, LogInv
<1>5. ~Told(n, "now") /\ ~Told(n, "event")
  BY <1>3
<1>6. /\ Told(n, "nowTicks") => v = evr.nowTicks
      /\ Told(n, "eventSec") => v = evr.logSec
      /\ Told(n, "eventTicks") => v = evr.logTicks
  BY <1>3
<1> QED
  BY <1>2, <1>4, <1>5, <1>6, AnswerKeeps DEF SameLog

LEMMA LookKeeps ==
  ASSUME TimesInv, OutputInv(evr), OneLook
  PROVE  TimesInv'
<1>1. /\ UNCHANGED <<request, arrived, told, clock, call>> /\ Ready
      /\ request # <<>> /\ call.stage \notin Looking
  BY ReadyFacts DEF OneLook, WriteReg, ReadReg, Writes, Reads, hw, fate
<1>2. LogInv /\ OutputsOf(evr)
  BY DEF TimesInv, OutputInv
<1>3. call'.stage \notin UnderWay
  BY <1>1, <1>2, ReadyFacts DEF UnderWay, Looking
<1>4. SameLog(evr, evr)
  BY DEF SameLog
<1>5. CASE WriteReg
  <2>1. Op.write /\ Answer(Op.value)
    BY <1>5 DEF WriteReg, Writes
  <2>2. SameLog(evr, evr')
    <3>1. SameLog(evr, EVR_FEEDwrite(evr, Op.reg, Op.value))
      BY <1>2, WriteIsSameLog
    <3>2. evr' = evr \/ evr' = EVR_FEEDwrite(evr, Op.reg, Op.value)
      BY <1>5 DEF WriteReg
    <3> QED
      BY <1>4, <3>1, <3>2
  <2> QED
    BY <1>1, <1>3, <2>1, <2>2, OtherAnswer
<1>6. CASE /\ UNCHANGED evr /\ \E v : Answer(v)
           /\ Reads(EvgNames \cup MpsNames \cup {"powerUp", "refclk", "si570", "reboot"})
  <2>1. PICK v : Answer(v)
    BY <1>6
  <2>2. UNCHANGED evr
    BY <1>6
  <2>3. Op.reg[1] \notin {"now", "nowTicks", "event", "eventSec", "eventTicks"}
    BY <1>6 DEF Reads, EvgNames, MpsNames, RegSel
  <2> QED
    BY <1>1, <1>3, <1>4, <2>1, <2>2, <2>3, OtherAnswer
<1>7. CASE Reads(EvrNames \ {"event"}) /\ \E r \in {EVR_FEEDread(evr, Op.reg)} :
                                             evr' = r.dev /\ Answer(r.value)
  <2>1. PICK v : /\ v = EVR_FEEDread(evr, Op.reg).value /\ Answer(v)
                 /\ evr' = EVR_FEEDread(evr, Op.reg).dev
    BY <1>7
  <2>2. Op.reg[1] \in EvrNames \ {"event"} /\ ~Op.write
    BY <1>7 DEF Reads
  <2>3. evr' = evr
    BY <2>1, <2>2, ReadOnlyLooks
  <2>4. /\ Op.reg[1] = "nowTicks" => v = evr.nowTicks
        /\ Op.reg[1] = "eventSec" => v = evr.logSec
        /\ Op.reg[1] = "eventTicks" => v = evr.logTicks
    BY <2>1 DEF EVR_FEEDread
  <2>5. Op.reg[1] \notin {"now", "event"}
    BY <2>2 DEF EvrNames
  <2> QED
    BY <1>1, <1>3, <1>4, <2>1, <2>3, <2>4, <2>5, OtherAnswer
<1>8. CASE ReadReg
  BY <1>6, <1>7, <1>8 DEF ReadReg, Reads
<1> QED
  BY <1>5, <1>8 DEF OneLook

LEMMA GetTimeKeeps ==
  ASSUME TimesInv, ReferenceInv, OutputInv(evr), GetTime
  PROVE  TimesInv'
<1>1. LogInv /\ OutputsOf(evr) /\ UNCHANGED <<request, arrived, told, clock>>
  BY DEF TimesInv, OutputInv, GetTime, ReadNow, ReadTicks, ReadSecondsAgain,
         nowOnly, evrOnly, fate, hw
<1>2. PICK n \in Nat : /\ n = Len(reply) + 1
                       /\ \A x : Told(n, x) <=> ~Op.write /\ Op.reg[1] = x
  BY <1>1, NextTold
<1>3. /\ evr'.log = evr.log /\ evr'.taken = evr.taken
      /\ evr'.logSec = evr.logSec /\ evr'.logTicks = evr.logTicks
  <2>1. evr' = evr \/ \E t : evr' = [evr EXCEPT !.nowTicks = t]
    BY DEF GetTime, ReadNow, ReadTicks, ReadSecondsAgain
  <2> QED
    BY <1>1, <2>1 DEF OutputsOf
<1>4. Onward /\ evr'.taken \in 0..Len(evr'.log)
  BY <1>1, <1>3, SameLogGoesOn DEF LogInv
<1>5. /\ clock \in Nat /\ arrived.clock \in Nat
      /\ clock \in arrived.clock..clock
  BY <1>1 DEF LogInv
\* The answer to a read of the time.
<1>6. ASSUME NEW v, Answer(v), Told(n, "now"), request # <<>>, call' = Idle,
             NowIs(arrived.clock, clock, v, evr'.nowTicks)
      PROVE  TimesInv'
  <2>1. call'.stage \notin UnderWay
    BY <1>6 DEF Idle, UnderWay, Looking
  <2>2. /\ ~Told(n, "event") /\ ~Told(n, "nowTicks") /\ ~Told(n, "eventSec")
        /\ ~Told(n, "eventTicks")
    BY <1>2, <1>6
  <2> QED
    BY <1>1, <1>2, <1>3, <1>4, <1>6, <2>1, <2>2, AnswerKeeps
\* A step of one, which ends in another look.
<1>7. ASSUME UNCHANGED reply, Told(n, "now"), request # <<>>, evr'.nowTicks = 0,
             call'.stage \in Looking,
             NEW u \in arrived.clock..clock, call'.s0 = Seconds(u),
             call'.stage = "seconds" => \E v \in u..clock : call'.ticks = Ticks(v)
      PROVE  TimesInv'
  <2>1. (Told(Len(reply) + 1, "now"))'
    BY <1>1, <1>2, <1>7 DEF Told
  <2>2. Reading'
    BY <1>1, <1>7, <2>1 DEF Reading, Looking
  <2> QED
    BY <1>1, <1>3, <1>4, <1>7, <2>2, StillKeeps
<1>8. CASE ReadNow
  <2>1. Told(n, "now") /\ request # <<>> /\ call = Idle
    BY <1>2, <1>8, ReadyFacts DEF ReadNow, Reads, Ready
  <2>2. evr'.nowTicks = 0
    BY <1>1, <1>8 DEF ReadNow, OutputsOf
  <2>3. CASE valid
    <3>1. /\ UNCHANGED reply
          /\ call' = [stage |-> "ticks", s0 |-> Seconds(clock), ticks |-> 0,
                      pass |-> 0, seen |-> 0]
      BY <1>8, <2>3 DEF ReadNow, Stage, Idle
    <3>2. call'.stage = "ticks" /\ call'.s0 = Seconds(clock)
      BY <3>1
    <3> QED
      BY <1>5, <1>7, <2>1, <2>2, <3>1, <3>2 DEF Looking
  <2>4. CASE ~valid
    <3>1. Answer(0) /\ call' = Idle
      BY <1>8, <2>1, <2>4 DEF ReadNow
    <3> QED
      BY <1>6, <2>1, <2>2, <3>1 DEF NowIs
  <2> QED
    BY <2>3, <2>4
<1>9. ASSUME call.stage \in Looking
      PROVE  /\ Told(n, "now") /\ request # <<>> /\ evr.nowTicks = 0
             /\ \E u \in arrived.clock..clock :
                  /\ call.s0 = Seconds(u)
                  /\ call.stage = "seconds" =>
                       \E v \in u..clock : call.ticks = Ticks(v)
  BY <1>2, <1>9 DEF TimesInv, Reading
<1>10. CASE ReadTicks
  <2>1. call.stage = "ticks" /\ UNCHANGED <<evr, reply>>
    BY <1>10 DEF ReadTicks
  <2>2. call' = [stage |-> "seconds", s0 |-> call.s0, ticks |-> Ticks(clock),
                 pass |-> call.pass, seen |-> call.seen]
    BY <1>10 DEF ReadTicks, ReferenceInv
  <2>3. PICK u \in arrived.clock..clock : call.s0 = Seconds(u)
    BY <1>9, <2>1 DEF Looking
  <2>4. call'.stage = "seconds" /\ call'.s0 = Seconds(u) /\ call'.ticks = Ticks(clock)
    BY <2>2, <2>3
  <2>5. clock \in u..clock
    BY <1>5
  <2>6. Told(n, "now") /\ request # <<>> /\ evr'.nowTicks = 0
    BY <1>9, <2>1 DEF Looking
  <2> QED
    BY <1>7, <2>1, <2>4, <2>5, <2>6 DEF Looking
<1>11. CASE ReadSecondsAgain
  <2>1. call.stage = "seconds"
    BY <1>11 DEF ReadSecondsAgain
  <2>2. Told(n, "now") /\ request # <<>> /\ evr.nowTicks = 0
    BY <1>9, <2>1 DEF Looking
  <2>3. PICK u \in arrived.clock..clock :
          /\ call.s0 = Seconds(u)
          /\ call.stage = "seconds" => \E v \in u..clock : call.ticks = Ticks(v)
    BY <1>9, <2>1 DEF Looking
  <2>4. PICK v \in u..clock : call.ticks = Ticks(v)
    BY <2>1, <2>3
  <2>5. CASE /\ Seconds(clock) = call.s0
             /\ evr' = [evr EXCEPT !.nowTicks = call.ticks]
             /\ Answer(Seconds(clock)) /\ call' = Idle
    <3>1. u \in Nat /\ v \in Nat /\ u <= v /\ v <= clock /\ v \in arrived.clock..clock
      BY <1>5, <2>3, <2>4
    <3>2. Seconds(v) = Seconds(clock)
      <4>1. /\ Seconds(u) \in Nat /\ Seconds(v) \in Nat /\ Seconds(clock) \in Nat
            /\ Seconds(u) <= Seconds(v) /\ Seconds(v) <= Seconds(clock)
        BY <1>5, <3>1, SecondsRise
      <4> QED
        BY <2>3, <2>5, <4>1
    <3>3. evr'.nowTicks = Ticks(v)
      BY <1>1, <2>4, <2>5 DEF OutputsOf
    <3>4. NowIs(arrived.clock, clock, Seconds(clock), evr'.nowTicks)
      BY <3>1, <3>2, <3>3 DEF NowIs
    <3> QED
      BY <1>6, <2>2, <2>5, <3>4
  <2>6. CASE Answer(0) /\ call' = Idle /\ UNCHANGED evr
    BY <1>6, <2>2, <2>6 DEF NowIs
  <2>7. CASE /\ call' = [call EXCEPT !.stage = "ticks", !.s0 = Seconds(clock),
                                     !.pass = @ + 1]
             /\ UNCHANGED <<evr, reply>>
    <3>1. call'.stage = "ticks" /\ call'.s0 = Seconds(clock)
      BY <2>7 DEF ReferenceInv
    <3> QED
      BY <1>5, <1>7, <2>2, <2>7, <3>1 DEF Looking
  <2> QED
    BY <1>11, <2>5, <2>6, <2>7 DEF ReadSecondsAgain
<1> QED
  BY <1>8, <1>10, <1>11 DEF GetTime

LEMMA LookForEventKeeps ==
  ASSUME TimesInv, LookForEvent
  PROVE  TimesInv'
<1>1. /\ LogInv /\ UNCHANGED <<evr, reply, request, arrived, told, clock>>
      /\ Ready /\ ~Op.write /\ Op.reg[1] = "event"
  BY DEF TimesInv, LookForEvent, Reads, evrOnly, fate, hw
<1>2. request # <<>> /\ call.stage \notin Looking
  BY <1>1, ReadyFacts
<1>3. /\ call'.stage = "event" /\ call'.s0 = FifoHead(evr)
      /\ call'.seen = Len(evr.log)
  BY DEF LookForEvent, Stage, Idle
<1>4. Told(Len(reply) + 1, "event")
  BY <1>1 DEF Told, Op
<1>5. /\ call'.s0 = 0 => call'.seen = evr.taken
      /\ call'.s0 # 0 => /\ evr.taken < Len(evr.log)
                         /\ call'.s0 = evr.log[evr.taken + 1].code
  <2>1. CASE evr.taken = Len(evr.log)
    BY <1>3, <2>1 DEF FifoHead
  <2>2. CASE evr.taken # Len(evr.log)
    <3>1. evr.taken + 1 \in 1..Len(evr.log) /\ evr.taken < Len(evr.log)
      BY <1>1, <2>2, LenProperties DEF LogInv
    <3>2. evr.log[evr.taken + 1] \in [code : EventCodes, at : Nat]
      BY <1>1, <3>1, ElementOfSeq DEF LogInv
    <3> QED
      BY <1>3, <2>2, <3>1, <3>2, CodesAssumption DEF FifoHead
  <2> QED
    BY <2>1, <2>2
<1>6. Reading'
  BY <1>1, <1>2, <1>3, <1>4, <1>5 DEF Reading, Told, Looking
<1>7. Onward
  BY <1>1, SameLogGoesOn
<1> QED
  BY <1>1, <1>2, <1>6, <1>7, StillKeeps

\* The event taken is the next one told, if the read saw it.
LEMMA TakeEventKeeps ==
  ASSUME TimesInv, OutputInv(evr), TakeEvent
  PROVE  TimesInv'
<1>1. /\ LogInv /\ OutputsOf(evr) /\ UNCHANGED <<request, arrived, clock>>
      /\ call.stage = "event" /\ Answer(call.s0) /\ call' = Idle
  BY DEF TimesInv, OutputInv, TakeEvent, evrOnly, hw
<1>2. /\ request # <<>> /\ Told(Len(reply) + 1, "event")
      /\ call.s0 # 0 => /\ evr.taken < Len(evr.log)
                        /\ call.s0 = evr.log[evr.taken + 1].code
  BY <1>1 DEF TimesInv, Reading
<1>3. PICK n \in Nat : /\ n = Len(reply) + 1
                       /\ \A x : Told(n, x) <=> ~Op.write /\ Op.reg[1] = x
  BY <1>1, NextTold
<1>4. /\ Told(n, "event") /\ ~Told(n, "now") /\ ~Told(n, "nowTicks")
      /\ ~Told(n, "eventSec") /\ ~Told(n, "eventTicks")
  BY <1>2, <1>3
<1>5. PICK t \in Nat, m \in Nat : t = evr.taken /\ m = Len(evr.log) /\ t <= m
  BY <1>1, LenProperties DEF LogInv
<1>6. /\ evr'.log = evr.log
      /\ evr'.taken = IF t = m THEN t ELSE t + 1
      /\ call.s0 = 0 => evr'.logSec = 0 /\ evr'.logTicks = 0
      /\ call.s0 # 0 /\ t # m => /\ evr'.logSec = Seconds(evr.log[t + 1].at)
                                 /\ evr'.logTicks = Ticks(evr.log[t + 1].at)
  BY <1>1, <1>5, EventTaken DEF TakeEvent
<1>7. evr'.taken \in 0..Len(evr'.log) /\ evr'.taken \in Nat
  BY <1>5, <1>6
<1>8. Len(told) \in Nat /\ told \in Seq(Nat)
  BY <1>1, LenProperties DEF LogInv
<1>9. /\ told' \in Seq(Nat) /\ Len(told) <= Len(told')
      /\ \A i \in 1..Len(told) : told'[i] = told[i]
      /\ Len(told') = IF call.s0 = 0 THEN Len(told) ELSE Len(told) + 1
      /\ call.s0 # 0 => told'[Len(told) + 1] = evr'.taken
  <2>1. CASE call.s0 = 0
    BY <1>8, <2>1 DEF TakeEvent
  <2>2. CASE call.s0 # 0
    <3>1. told' = Append(told, evr'.taken)
      BY <2>2 DEF TakeEvent
    <3> QED
      BY <1>7, <1>8, <2>2, <3>1, AppendProperties
  <2> QED
    BY <2>1, <2>2
<1>10. EventIs(evr'.log, told', Len(told'), call.s0, evr'.logSec, evr'.logTicks)
  <2>1. CASE call.s0 = 0
    BY <1>6, <2>1 DEF EventIs
  <2>2. CASE call.s0 # 0
    <3>1. t # m /\ evr'.taken = t + 1 /\ t + 1 \in 1..m
      BY <1>2, <1>5, <1>6, <2>2
    <3>2. Len(told') \in 1..Len(told') /\ told'[Len(told')] = t + 1
      BY <1>8, <1>9, <2>2, <3>1
    <3>3. /\ call.s0 = evr'.log[t + 1].code /\ t + 1 \in 1..Len(evr'.log)
          /\ evr'.logSec = Seconds(evr'.log[t + 1].at)
          /\ evr'.logTicks = Ticks(evr'.log[t + 1].at)
      BY <1>2, <1>5, <1>6, <2>2, <3>1
    <3> QED
      BY <2>2, <3>2, <3>3 DEF EventIs
  <2> QED
    BY <2>1, <2>2
<1>11. Onward
  <2>1. clock \in Nat /\ clock <= clock
    BY <1>1 DEF LogInv
  <2> QED
    BY <1>1, <1>5, <1>6, <1>9, <2>1 DEF Onward, LogInv
<1>12. call'.stage \notin UnderWay
  BY <1>1 DEF Idle, UnderWay, Looking
<1> QED
  BY <1>1, <1>2, <1>3, <1>4, <1>7, <1>9, <1>10, <1>11, <1>12, AnswerKeeps

LEMMA SetReferenceKeeps ==
  ASSUME TimesInv, SetReference
  PROVE  TimesInv'
<1>1. UNCHANGED <<evr, request, arrived, told, clock>> /\ LogInv /\ Reading
  BY DEF SetReference, SetMgtClkSwitch0, Connect, WriteSi570, Program, Reconnect,
         refOnly, hw, fate, TimesInv
<1>2. Onward /\ SameLog(evr, evr')
  BY <1>1, SameLogGoesOn DEF SameLog
\* A register written.
<1>3. ASSUME request # <<>>, Op.write, Answer(Op.value), call.stage \notin Looking,
             call'.stage \notin UnderWay
      PROVE  TimesInv'
  BY <1>1, <1>2, <1>3, OtherAnswer
\* The first or the last step of a call that takes several.
<1>4. ASSUME UNCHANGED reply, call.stage \notin Looking, call'.stage \notin Looking,
             call'.stage # "event",
             call'.stage \in {"connect", "program"} => request # <<>> /\ Op.write
      PROVE  TimesInv'
  <2>1. Op' = Op
    BY <1>1, <1>4 DEF Op
  <2>2. Reading'
    BY <1>1, <1>4, <2>1 DEF Reading, Looking
  <2> QED
    BY <1>1, <1>2, <1>4, <2>2, StillKeeps
<1>5. ASSUME Ready, Op.write, UNCHANGED reply,
             NEW s \in {"connect", "program"}, call' = Stage(s)
      PROVE  TimesInv'
  <2>1. call'.stage = s
    BY <1>5 DEF Stage, Idle
  <2> QED
    BY <1>4, <1>5, <2>1, ReadyFacts DEF Looking
<1>6. ASSUME Ready, Op.write, Answer(Op.value), UNCHANGED call
      PROVE  TimesInv'
  <2>1. call'.stage \notin UnderWay
    BY <1>6, ReadyFacts DEF UnderWay, Looking
  <2> QED
    BY <1>3, <1>6, <2>1, ReadyFacts
<1>7. CASE SetMgtClkSwitch0 \/ WriteSi570
  BY <1>5, <1>6, <1>7 DEF SetMgtClkSwitch0, WriteSi570
<1>8. CASE Connect \/ Program
  <2>1. call.stage \in {"connect", "program"} /\ Answer(Op.value)
    BY <1>8 DEF Connect, Program
  <2>2. call'.stage \in {"idle", "reconnect"}
    BY <1>8 DEF Connect, Program, Stage, Idle
  <2> QED
    BY <1>1, <1>3, <2>1, <2>2 DEF Reading, UnderWay, Looking
<1>9. CASE Reconnect
  <2>1. call.stage = "reconnect" /\ call'.stage = "idle" /\ UNCHANGED reply
    BY <1>9 DEF Reconnect, Idle
  <2> QED
    BY <1>4, <2>1 DEF Looking
<1> QED
  BY <1>7, <1>8, <1>9 DEF SetReference

LEMMA HardwareKeeps ==
  ASSUME TimesInv, OutputInv(evr), Hardware \/ UNCHANGED vars
  PROVE  TimesInv'
<1>1. LogInv /\ OutputsOf(evr) /\ UNCHANGED <<request, arrived, told, call, reply>>
  BY DEF TimesInv, OutputInv, Hardware, Advance, Drop, LogEvent, vars, fate
<1>2. clock \in Nat /\ Len(evr.log) \in Nat
  BY <1>1, LenProperties DEF LogInv
<1>3. clock' \in Nat /\ clock <= clock'
  <2>1. clock' \in {clock, clock + 1}
    BY DEF Hardware, Advance, Drop, LogEvent, vars, hw
  <2> QED
    BY <1>2, <2>1
<1>4. /\ evr'.log \in Seq([code : EventCodes, at : Nat])
      /\ Len(evr.log) <= Len(evr'.log)
      /\ \A i \in 1..Len(evr.log) : evr'.log[i] = evr.log[i]
      /\ evr'.taken = evr.taken /\ evr'.nowTicks = evr.nowTicks
      /\ evr'.logSec = evr.logSec /\ evr'.logTicks = evr.logTicks
  <2>1. CASE UNCHANGED evr
    BY <1>1, <1>2, <2>1 DEF LogInv
  <2>2. ASSUME NEW code \in EventCodes,
               evr' = [evr EXCEPT !.log = Append(@, [code |-> code, at |-> clock])]
        PROVE  <1>4!:
    <3> DEFINE e == [code |-> code, at |-> clock]
    <3>1. e \in [code : EventCodes, at : Nat]
      BY <1>2
    <3> HIDE DEF e
    <3>2. /\ Append(evr.log, e) \in Seq([code : EventCodes, at : Nat])
          /\ Len(Append(evr.log, e)) = Len(evr.log) + 1
          /\ \A i \in 1..Len(evr.log) : Append(evr.log, e)[i] = evr.log[i]
      BY <1>1, <3>1, AppendProperties DEF LogInv
    <3>3. /\ evr'.log = Append(evr.log, e) /\ evr'.taken = evr.taken
          /\ evr'.nowTicks = evr.nowTicks /\ evr'.logSec = evr.logSec
          /\ evr'.logTicks = evr.logTicks
      BY <1>1, <2>2 DEF OutputsOf, e
    <3> QED
      BY <1>2, <3>2, <3>3
  <2> QED
    BY <2>1, <2>2 DEF Hardware, Advance, Drop, LogEvent, Logged, vars
<1>5. Onward
  <2>1. told \in Seq(Nat) /\ Len(told) \in Nat
    BY <1>1, LenProperties DEF LogInv
  <2> QED
    BY <1>1, <1>3, <1>4, <2>1 DEF Onward
<1>6. Reading'
  <2>1. call.stage \in Looking =>
          \E u \in arrived.clock..clock' :
            /\ call.s0 = Seconds(u)
            /\ call.stage = "seconds" => \E v \in u..clock' : call.ticks = Ticks(v)
    <3> SUFFICES ASSUME call.stage \in Looking
                 PROVE  \E u \in arrived.clock..clock' :
                          /\ call.s0 = Seconds(u)
                          /\ call.stage = "seconds" =>
                               \E v \in u..clock' : call.ticks = Ticks(v)
      OBVIOUS
    <3>1. PICK u \in arrived.clock..clock :
            /\ call.s0 = Seconds(u)
            /\ call.stage = "seconds" => \E v \in u..clock : call.ticks = Ticks(v)
      BY DEF TimesInv, Reading
    <3>2. u \in arrived.clock..clock' /\ u..clock \subseteq u..clock'
      <4>1. arrived.clock \in Nat
        BY <1>1 DEF LogInv
      <4> QED
        BY <1>2, <1>3, <3>1, <4>1
    <3> QED
      BY <3>1, <3>2
  <2>2. /\ call.stage \in Looking =>
             request # <<>> /\ Told(Len(reply) + 1, "now") /\ evr.nowTicks = 0
        /\ call.stage \in {"connect", "program"} => request # <<>> /\ Op.write
    BY DEF TimesInv, Reading
  <2>3. call.stage = "event" =>
          /\ request # <<>> /\ Told(Len(reply) + 1, "event")
          /\ call.s0 = 0 => call.seen = evr'.taken
          /\ call.s0 # 0 => /\ evr'.taken < Len(evr'.log)
                            /\ call.s0 = evr'.log[evr'.taken + 1].code
    <3> SUFFICES ASSUME call.stage = "event" PROVE <2>3!2
      OBVIOUS
    <3>1. /\ request # <<>> /\ Told(Len(reply) + 1, "event")
          /\ call.s0 = 0 => call.seen = evr.taken
          /\ call.s0 # 0 => /\ evr.taken < Len(evr.log)
                            /\ call.s0 = evr.log[evr.taken + 1].code
      BY DEF TimesInv, Reading
    <3>2. evr.taken \in Nat /\ Len(evr'.log) \in Nat
      BY <1>1, <1>4, LenProperties DEF LogInv
    <3>3. ASSUME evr.taken < Len(evr.log)
          PROVE  /\ evr'.log[evr.taken + 1] = evr.log[evr.taken + 1]
                 /\ evr.taken < Len(evr'.log)
      BY <1>2, <1>4, <3>2, <3>3
    <3> QED
      BY <1>4, <3>1, <3>3
  <2> QED
    BY <1>1, <1>4, <2>1, <2>2, <2>3 DEF Reading, Told, Op, Looking
<1>7. call'.stage \in Looking \/ call.stage \notin Looking
  BY <1>1 DEF Looking
<1> QED
  BY <1>1, <1>4, <1>5, <1>6, <1>7, StillKeeps

LEMMA TimesStep ==
  ASSUME TimesInv, ReferenceInv, OutputInv(evr), [Next]_vars
  PROVE  TimesInv'
<1>1. LogInv
  BY DEF TimesInv
<1>2. Fresh' => TimesInv'
  BY FreshTimes, PTL
<1>3. ASSUME NEW p \in Packets, Receive(p)
      PROVE  TimesInv'
  <2>1. /\ call' = Idle /\ UNCHANGED <<evr, told, clock>> /\ reply' = <<>>
        /\ arrived' = [clock |-> clock, told |-> Len(told)]
    BY <1>3 DEF Receive, hw, fate
  <2>2. /\ clock \in 0..clock /\ Len(told) \in Nat
    BY <1>1, LenProperties DEF LogInv
  <2>3. Fresh'
    BY <1>1, <2>1, <2>2 DEF Fresh, LogInv, Idle, UnderWay, Looking
  <2> QED
    BY <1>2, <2>3
<1>4. CASE Send
  <2>1. Fresh'
    BY <1>1, <1>4 DEF Send, Fresh, LogInv, Idle, UnderWay, Looking, hw, fate
  <2> QED
    BY <1>2, <2>1
<1>5. CASE Reboot
  <2>1. CASE /\ evr' = EvrStart /\ request' = <<>> /\ reply' = <<>>
             /\ call' = Stage("reconnect") /\ told' = <<>>
             /\ UNCHANGED <<clock, arrived>>
    <3>1. evr'.log = <<>> /\ evr'.taken = 0 /\ call'.stage = "reconnect"
      BY <2>1 DEF EvrStart, Stage, Idle
    <3>2. Fresh'
      BY <1>1, <2>1, <3>1 DEF Fresh, LogInv, UnderWay, Looking
    <3> QED
      BY <1>2, <3>2
  <2>2. CASE /\ Answer(Op.value)
             /\ UNCHANGED <<evr, request, call, arrived, told, clock>>
    <3>1. Op.write /\ request # <<>> /\ call.stage = "idle"
      BY <1>5, ReadyFacts DEF Reboot
    <3>2. /\ call.stage \notin Looking /\ SameLog(evr, evr')
          /\ call'.stage \notin UnderWay
      BY <2>2, <3>1 DEF UnderWay, Looking, SameLog
    <3> QED
      BY <2>2, <3>1, <3>2, OtherAnswer
  <2> QED
    BY <1>5, <2>1, <2>2 DEF Reboot, hw, fate
<1> QED
  BY <1>3, <1>4, <1>5, LookKeeps, GetTimeKeeps, LookForEventKeeps, TakeEventKeeps,
     SetReferenceKeeps, HardwareKeeps DEF Next, Serve, GetEvent

\* Only the end of a read of the log, and a restart, settle what becomes of
\* an event.
LEMMA FateStays ==
  ASSUME OutputInv(evr), [Next]_vars, ~TakeEvent, ~Reboot
  PROVE  UNCHANGED fate /\ evr'.taken = evr.taken
<1>1. OutputsOf(evr)
  BY DEF OutputInv
<1>2. CASE OneLook
  <2>1. CASE evr' = EVR_FEEDwrite(evr, Op.reg, Op.value)
    BY <1>1, <1>2, <2>1, WriteIsSameLog DEF OneLook, SameLog
  <2>2. CASE Reads(EvrNames \ {"event"}) /\ evr' = EVR_FEEDread(evr, Op.reg).dev
    BY <1>2, <2>2, ReadOnlyLooks DEF OneLook, Reads
  <2>3. CASE UNCHANGED evr
    BY <1>2, <2>3 DEF OneLook
  <2> QED
    BY <1>2, <2>1, <2>2, <2>3 DEF OneLook, WriteReg, ReadReg
<1>3. CASE GetTime
  <2>1. UNCHANGED fate
    BY <1>3 DEF GetTime, ReadNow, ReadTicks, ReadSecondsAgain, nowOnly
  <2>2. evr' = evr \/ \E t : evr' = [evr EXCEPT !.nowTicks = t]
    BY <1>3 DEF GetTime, ReadNow, ReadTicks, ReadSecondsAgain
  <2> QED
    BY <1>1, <2>1, <2>2 DEF OutputsOf
<1>4. CASE Hardware
  <2>1. UNCHANGED fate /\ (evr' = evr \/ \E e : evr' = [evr EXCEPT !.log = Append(@, e)])
    BY <1>4 DEF Hardware, Advance, Drop, LogEvent, Logged
  <2> QED
    BY <1>1, <2>1 DEF OutputsOf
<1>5. CASE \/ \E p \in Packets : Receive(p)
           \/ LookForEvent \/ SetReference \/ Send \/ UNCHANGED vars
  BY <1>5 DEF Receive, LookForEvent, SetReference, SetMgtClkSwitch0, Connect,
              WriteSi570, Program, Reconnect, refOnly, Send, vars
<1> QED
  BY <1>2, <1>3, <1>4, <1>5 DEF Next, Serve, GetEvent

\* What is told goes up, with the log, and so does what is lost.
LEMMA OrderStep ==
  ASSUME TimesInv, OutputInv(evr), EventsInOrder, [Next]_vars
  PROVE  EventsInOrder'
<1>1. CASE UNCHANGED fate /\ evr'.taken = evr.taken
  BY <1>1 DEF EventsInOrder, fate
<1>2. CASE Reboot
  <2>1. CASE told' = <<>> /\ lost' = {} /\ evr' = EvrStart
    <3>1. DOMAIN told' = {} /\ 1..evr'.taken = {}
      BY <2>1 DEF EvrStart
    <3> QED
      BY <2>1, <3>1 DEF EventsInOrder
  <2> QED
    BY <1>1, <1>2, <2>1 DEF Reboot
<1>3. CASE TakeEvent
  <2>1. LogInv /\ OutputsOf(evr) /\ call.stage = "event"
    BY <1>3 DEF TimesInv, OutputInv, TakeEvent
  <2>2. /\ call.s0 = 0 => call.seen = evr.taken
        /\ call.s0 # 0 => evr.taken < Len(evr.log)
    BY <2>1 DEF TimesInv, Reading
  <2>3. PICK t \in Nat, m \in Nat : t = evr.taken /\ m = Len(evr.log) /\ t <= m
    BY <2>1, LenProperties DEF LogInv
  <2>4. evr'.taken = IF t = m THEN t ELSE t + 1
    BY <1>3, <2>1, <2>3, EventTaken DEF TakeEvent
  <2>5. told \in Seq(Nat) /\ Len(told) \in Nat /\ DOMAIN told = 1..Len(told)
    BY <2>1, LenProperties DEF LogInv
  <2>6. \A i \in DOMAIN told : told[i] \in 1..t
    BY <2>3 DEF EventsInOrder
  <2>7. CASE t = m
    <3>1. call.s0 = 0
      BY <2>2, <2>3, <2>7
    <3>2. UNCHANGED fate
      BY <1>3, <2>3, <2>4, <2>7, <3>1 DEF TakeEvent, fate
    <3> QED
      BY <1>1, <2>3, <2>4, <2>7, <3>2
  <2>8. CASE t # m /\ call.s0 # 0
    <3>1. told' = Append(told, t + 1) /\ lost' = lost /\ evr'.taken = t + 1
      BY <1>3, <2>4, <2>8 DEF TakeEvent
    <3>2. /\ told' \in Seq(Nat) /\ Len(told') = Len(told) + 1
          /\ \A i \in 1..Len(told) : told'[i] = told[i]
          /\ told'[Len(told) + 1] = t + 1
      BY <2>5, <3>1, AppendProperties
    <3>3. DOMAIN told' = DOMAIN told \cup {Len(told) + 1}
      BY <2>5, <3>2, LenProperties
    <3>4. {told'[i] : i \in DOMAIN told'} = {told[i] : i \in DOMAIN told} \cup {t + 1}
      BY <2>5, <3>2, <3>3
    <3>5. \A i, j \in DOMAIN told' : i < j => told'[i] < told'[j]
      <4> SUFFICES ASSUME NEW i \in DOMAIN told', NEW j \in DOMAIN told', i < j
                   PROVE  told'[i] < told'[j]
        OBVIOUS
      <4>1. i \in DOMAIN told
        BY <2>5, <3>3
      <4>2. CASE j \in DOMAIN told
        BY <2>5, <3>2, <4>1, <4>2 DEF EventsInOrder
      <4>3. CASE j = Len(told) + 1
        BY <2>3, <2>5, <2>6, <3>2, <4>1, <4>3
      <4> QED
        BY <3>3, <4>2, <4>3
    <3>6. 1..evr'.taken = {told'[i] : i \in DOMAIN told'} \cup {l.event : l \in lost'}
      <4>1. 1..t + 1 = 1..t \cup {t + 1}
        BY <2>3
      <4> QED
        BY <2>3, <3>1, <3>4, <4>1 DEF EventsInOrder
    <3> QED
      BY <3>1, <3>5, <3>6 DEF EventsInOrder
  <2>9. CASE t # m /\ call.s0 = 0
    <3> DEFINE l == [event |-> t + 1, seen |-> t]
    <3>1. told' = told /\ lost' = lost \cup {l} /\ evr'.taken = t + 1
      <4>1. evr'.taken = t + 1 /\ evr'.taken # evr.taken
        BY <2>3, <2>4, <2>9
      <4> QED
        BY <1>3, <2>2, <2>3, <2>9, <4>1 DEF TakeEvent
    <3>2. l.event = t + 1 /\ l.event > l.seen
      BY <2>3
    <3> HIDE DEF l
    <3>3. {k.event : k \in lost'} = {k.event : k \in lost} \cup {t + 1}
      BY <3>1, <3>2
    <3>4. 1..t + 1 = 1..t \cup {t + 1}
      BY <2>3
    <3>5. 1..evr'.taken = {told'[i] : i \in DOMAIN told'} \cup {k.event : k \in lost'}
      BY <2>3, <3>1, <3>3, <3>4 DEF EventsInOrder
    <3>6. \A k \in lost' : k.event > k.seen
      BY <3>1, <3>2 DEF EventsInOrder
    <3> QED
      BY <3>1, <3>5, <3>6 DEF EventsInOrder
  <2> QED
    BY <2>7, <2>8, <2>9
<1> QED
  BY <1>1, <1>2, <1>3, FateStays

\* The times in a reply are true: read in parts that run on, or taken from
\* the log, they are those of one moment and of the event beside them; and
\* of the events that reads have taken, none is told twice or out of order,
\* and those not told were logged while a read that told 0 was under way.
THEOREM TimesAreTrue == Spec => []TrueTimes
<1>1. Init => TimesInv
  <2>1. Init => Fresh
    BY DEF Init, Fresh, EvrStart, Stage, Idle, UnderWay, Looking
  <2> QED
    BY <2>1, FreshTimes
<1>2. Init => OutputInv(evr)
  BY OutputsAtStart DEF Init
<1>3. RequestInv /\ OutputInv(evr) /\ [Next]_vars => OutputInv(evr)'
  BY OutputStep
<1>4. ReferenceInv /\ [Next]_vars => ReferenceInv'
  BY ReferenceStep
<1>5. TimesInv /\ ReferenceInv /\ OutputInv(evr) /\ [Next]_vars => TimesInv'
  BY TimesStep
<1>6. Init => EventsInOrder
  <2>1. Init => DOMAIN told = {} /\ 1..evr.taken = {} /\ told = <<>> /\ lost = {}
    BY DEF Init, EvrStart
  <2> QED
    BY <2>1 DEF EventsInOrder
<1>7. TimesInv /\ OutputInv(evr) /\ EventsInOrder /\ [Next]_vars => EventsInOrder'
  BY OrderStep
<1>8. TimesInv /\ EventsInOrder => TrueTimes
  <2> SUFFICES ASSUME TimesInv, NEW k \in DOMAIN reply
               PROVE  TimeOfDay(k) /\ TimeOfEvent(k)
    BY DEF TrueTimes
  <2>1. k \in 1..Len(reply) /\ Len(reply) \in Nat
    BY LenProperties DEF TimesInv, LogInv
  <2>2. ASSUME k > 1, Told(k - 1, "now"), Told(k, "nowTicks")
        PROVE  NowIs(arrived.clock, clock, reply[k - 1], reply[k])
    <3>1. k \in 2..Len(reply)
      BY <2>1, <2>2
    <3> QED
      BY <2>2, <3>1 DEF TimesInv, Answered
  <2>3. ASSUME k > 2, Told(k - 2, "event"), Told(k - 1, "eventSec"),
               Told(k, "eventTicks")
        PROVE  EventIs(evr.log, told, Nth(k), reply[k - 2], reply[k - 1], reply[k])
    <3>1. k \in 3..Len(reply)
      BY <2>1, <2>3
    <3> QED
      BY <2>3, <3>1 DEF TimesInv, Answered
  <2>4. TimeOfDay(k)
    BY <2>2 DEF NowIs, TimeOfDay
  <2>5. TimeOfEvent(k)
    BY <2>3 DEF EventIs, Nth, TimeOfEvent
  <2> QED
    BY <2>4, <2>5
<1> QED
  BY RequestInit, RequestStep, ReferenceInit, <1>1, <1>2, <1>3, <1>4, <1>5, <1>6,
     <1>7, <1>8, PTL DEF Spec

-----------------------------------------------------------------------------
(***************************************************************************)
(* Memory.  Each cell of the register file is held by one device; what a   *)
(* write or a read makes of a device is shown cell by cell.                *)
(***************************************************************************)
EvgCells == {"hwEvent", "timerEvent", "timerDivisor", "hwCount", "dbus",
             "patternDelay", "patternCode", "next", "outOfRange"}
EvrCells == {"action", "source", "delay", "width"}
MpsCells == {"invert", "forceTrip", "required", "important", "goodState",
             "firstFault", "faultSeconds", "faultTicks", "mpsStatus"}

OfEvg(g, cell) == Holds(g, EvrStart, MpsStart, RefStart, 1, cell)
OfEvr(r, cell) == Holds(EvgStart, r, MpsStart, RefStart, 1, cell)
OfMps(p, cell) == Holds(EvgStart, EvrStart, p, RefStart, 1, cell)

Registers == Names \X Nat

LEMMA CellsAre ==
  ASSUME NEW cell \in Stored
  PROVE  /\ cell = <<cell[1], cell[2]>>
         /\ cell[1] \in EvgCells \union EvrCells \union MpsCells
                          \union {"powerUp", "refclk"}
  BY DEF Stored, EvgCells, EvrCells, MpsCells

LEMMA HoldsApart ==
  ASSUME NEW cell \in Stored, NEW g, NEW r, NEW p, NEW c, NEW flag
  PROVE  /\ cell[1] \in EvgCells => Holds(g, r, p, c, flag, cell) = OfEvg(g, cell)
         /\ cell[1] \in EvrCells => Holds(g, r, p, c, flag, cell) = OfEvr(r, cell)
         /\ cell[1] \in MpsCells => Holds(g, r, p, c, flag, cell) = OfMps(p, cell)
         /\ cell[1] = "powerUp" => Holds(g, r, p, c, flag, cell) = flag
         /\ cell[1] = "refclk" => Holds(g, r, p, c, flag, cell) = c.mgtClkSwitch0
<1>1. CASE cell[1] \in EvgCells
  BY <1>1 DEF Holds, OfEvg, EvgCells, EvrCells, MpsCells
<1>2. CASE cell[1] \in EvrCells
  BY <1>2 DEF Holds, OfEvr, EvgCells, EvrCells, MpsCells
<1>3. CASE cell[1] \in MpsCells
  BY <1>3 DEF Holds, OfMps, EvgCells, EvrCells, MpsCells
<1>4. CASE cell[1] \in {"powerUp", "refclk"}
  BY <1>4 DEF Holds, EvgCells, EvrCells, MpsCells
<1> QED
  BY <1>1, <1>2, <1>3, <1>4, CellsAre

\* The cells of a device that stay, or of which one is written.
Kept(Of(_, _), cells, d, e) ==
  \A cell \in Stored : cell[1] \in cells => Of(e, cell) = Of(d, cell)
Put(Of(_, _), cells, d, e, reg, v) ==
  /\ reg \in Stored /\ reg[1] \in cells
  /\ \A cell \in Stored : cell[1] \in cells =>
       Of(e, cell) = IF cell = reg THEN v ELSE Of(d, cell)

-----------------------------------------------------------------------------
EvgShape(d) ==
  /\ TimersOf(d)
  /\ DOMAIN d.hwEvent = 0..2 * HwTriggerCount - 1
  /\ DOMAIN d.dbus = 0..DbusBits - 1
  /\ d.hwEvent = [i \in DOMAIN d.hwEvent |-> d.hwEvent[i]]
  /\ d.dbus = [b \in DOMAIN d.dbus |-> d.dbus[b]]
  /\ d.table = [a \in 0..SeqAddrCount - 1 |->
                  [code |-> d.table[a].code, delay |-> d.table[a].delay]]

LEMMA EvgHolds ==
  ASSUME NEW d, NEW cell \in Stored
  PROVE  /\ cell[1] = "hwEvent" =>
              OfEvg(d, cell) = IF cell[2] \in DOMAIN d.hwEvent
                               THEN d.hwEvent[cell[2]] ELSE OutOfRange
         /\ cell[1] = "timerEvent" =>
              OfEvg(d, cell) = IF cell[2] \in Timers
                               THEN d.timer[cell[2]].code ELSE NoSuchTimer
         /\ cell[1] = "timerDivisor" =>
              OfEvg(d, cell) = IF cell[2] \in Timers
                               THEN d.timer[cell[2]].initial ELSE BadFace
         /\ cell[1] = "hwCount" => OfEvg(d, cell) = cell[2]
         /\ cell[1] = "dbus" => OfEvg(d, cell) = d.dbus[cell[2]]
         /\ cell[1] = "patternDelay" => OfEvg(d, cell) = d.table[cell[2]].delay
         /\ cell[1] = "patternCode" => OfEvg(d, cell) = d.table[cell[2]].code
         /\ cell[1] = "next" => OfEvg(d, cell) = d.nextCode
         /\ cell[1] = "outOfRange" => OfEvg(d, cell) = OutOfRange
  BY DEF OfEvg, Holds

LEMMA EvgStored ==
  /\ \A i : <<"hwEvent", i>> \in Stored <=> i \in 0..2 * HwTriggerCount
  /\ \A i : <<"timerEvent", i>> \in Stored <=> i \in 0..TimerCount
  /\ \A i : <<"timerDivisor", i>> \in Stored <=> i \in 0..TimerCount
  /\ \A i : <<"hwCount", i>> \in Stored <=> i \in 0..HwTriggerCount - 1
  /\ \A i : <<"dbus", i>> \in Stored <=> i \in 0..DbusBits - 1
  /\ \A i : <<"patternDelay", i>> \in Stored <=> i \in 0..SeqAddrCount - 1
  /\ \A i : <<"patternCode", i>> \in Stored <=> i \in 0..SeqAddrCount - 1
  /\ <<"next", 0>> \in Stored /\ <<"outOfRange", 0>> \in Stored
  /\ \A i : <<"next", i>> \in Stored => i = 0
  /\ \A i : <<"timerCsr", i>> \notin Stored /\ <<"latency", i>> \notin Stored
  BY DEF Stored

\* d and e differ in what is named only.
LEMMA EvgKept ==
  ASSUME NEW d, NEW e, e.hwEvent = d.hwEvent, e.dbus = d.dbus,
         e.table = d.table, e.nextCode = d.nextCode,
         \A t \in Timers : /\ e.timer[t].code = d.timer[t].code
                           /\ e.timer[t].initial = d.timer[t].initial
  PROVE  Kept(OfEvg, EvgCells, d, e)
<1> SUFFICES ASSUME NEW cell \in Stored, cell[1] \in EvgCells
             PROVE  OfEvg(e, cell) = OfEvg(d, cell)
  BY DEF Kept
<1> QED
  BY EvgHolds DEF EvgCells

EvgPut(d, e, reg, v) ==
  EvgShape(e) /\ (Kept(OfEvg, EvgCells, d, e) \/ Put(OfEvg, EvgCells, d, e, reg, v))

LEMMA EvgStays ==
  ASSUME NEW d, EvgShape(d), NEW reg, NEW v
  PROVE  EvgPut(d, d, reg, v)
  BY DEF EvgPut, Kept

LEMMA ControlPuts ==
  ASSUME NEW d, TimerInv(d), EvgShape(d), NEW control, NEW reg, NEW v
  PROVE  EvgPut(d, SetTimerControl(d, control), reg, v)
<1> DEFINE e == SetTimerControl(d, control)
<1>1. PICK timer : /\ e = [d EXCEPT !.timer = timer]
                   /\ \A t \in Timers : /\ timer[t].code = d.timer[t].code
                                        /\ timer[t].initial = d.timer[t].initial
  <2> DEFINE Reasonable(t) == d.shadow[t].code # 0 /\ d.shadow[t].divisor >= 40
             Cmd(t) == IF Command(control, t) \in {RESUME, START} /\ ~Reasonable(t)
                       THEN NOP ELSE Command(control, t)
             run(t) == \/ d.timer[t].running /\ Cmd(t) # STOP
                       \/ Cmd(t) \in {RESUME, START}
             timer == [t \in Timers |-> [d.timer[t] EXCEPT !.running = run(t)]]
  <2>1. e = [d EXCEPT !.timer = timer]
    BY DEF SetTimerControl, EvgShape, TimersOf
  <2>2. ASSUME NEW t \in Timers
        PROVE  timer[t].code = d.timer[t].code /\ timer[t].initial = d.timer[t].initial
    <3>1. d.timer[t] \in [code : Int, initial : Int, running : BOOLEAN]
      BY DEF EvgShape, TimersOf
    <3> HIDE DEF run
    <3> QED
      BY <3>1
  <2> HIDE DEF timer
  <2> QED
    BY <2>1, <2>2
<1>2. TimerInv(e)
  BY ControlKeeps
<1> HIDE DEF e
<1>3. /\ e.hwEvent = d.hwEvent /\ e.dbus = d.dbus /\ e.table = d.table
      /\ e.nextCode = d.nextCode /\ e.timer = timer
  BY <1>1 DEF EvgShape, TimersOf
<1>4. EvgShape(e)
  BY <1>2, <1>3 DEF EvgShape, TimerInv
<1>5. Kept(OfEvg, EvgCells, d, e)
  BY <1>1, <1>3, EvgKept
<1> QED
  BY <1>4, <1>5 DEF EvgPut, e

LEMMA EventPuts ==
  ASSUME NEW d, TimerInv(d), EvgShape(d), NEW t \in Nat, NEW code \in Nat
  PROVE  EvgPut(d, SetTimerEvent(d, t, code), <<"timerEvent", t>>, code)
<1> DEFINE e == SetTimerEvent(d, t, code)
<1>1. CASE AsInt(code) \in 1..255 /\ t < TimerCount
  <2>1. t \in Timers /\ t \in 0..TimerCount
    BY <1>1, EvgAssumption DEF Timers
  <2>2. e = [d EXCEPT !.shadow[t].code = code, !.timer[t].code = code]
    BY <1>1 DEF SetTimerEvent
  <2>3. /\ e.hwEvent = d.hwEvent /\ e.dbus = d.dbus /\ e.table = d.table
        /\ e.nextCode = d.nextCode /\ e.timer = [d.timer EXCEPT ![t].code = code]
    BY <2>2 DEF EvgShape, TimersOf
  <2>4. TimerInv(e)
    BY EventKeeps
  <2> HIDE DEF e
  <2>5. EvgShape(e)
    BY <2>3, <2>4 DEF EvgShape, TimerInv
  <2>6. ASSUME NEW s \in Timers
        PROVE  /\ e.timer[s].code = IF s = t THEN code ELSE d.timer[s].code
               /\ e.timer[s].initial = d.timer[s].initial
    BY <2>1, <2>3 DEF EvgShape, TimersOf
  <2>7. ASSUME NEW cell \in Stored, cell[1] \in EvgCells
        PROVE  OfEvg(e, cell) = IF cell = <<"timerEvent", t>> THEN code
                                ELSE OfEvg(d, cell)
    <3>1. CASE cell[1] = "timerEvent"
      <4>1. cell = <<"timerEvent", t>> <=> cell[2] = t
        BY <3>1, CellsAre
      <4>2. cell[2] \in Timers => e.timer[cell[2]].code =
              IF cell[2] = t THEN code ELSE d.timer[cell[2]].code
        BY <2>6
      <4>3. /\ OfEvg(e, cell) = IF cell[2] \in Timers
                                 THEN e.timer[cell[2]].code ELSE NoSuchTimer
            /\ OfEvg(d, cell) = IF cell[2] \in Timers
                                 THEN d.timer[cell[2]].code ELSE NoSuchTimer
        BY <3>1, EvgHolds
      <4>4. CASE cell[2] \in Timers
        <5>1. /\ OfEvg(e, cell) = e.timer[cell[2]].code
              /\ OfEvg(d, cell) = d.timer[cell[2]].code
          BY <4>3, <4>4
        <5>2. CASE cell[2] = t
          BY <4>1, <4>2, <4>4, <5>1, <5>2
        <5>3. CASE cell[2] # t
          BY <4>1, <4>2, <4>4, <5>1, <5>3
        <5> QED
          BY <5>2, <5>3
      <4>5. CASE cell[2] \notin Timers
        <5>1. /\ OfEvg(e, cell) = NoSuchTimer
              /\ OfEvg(d, cell) = NoSuchTimer
              /\ cell[2] # t
          BY <2>1, <4>3, <4>5
        <5> QED
          BY <4>1, <5>1
      <4> QED
        BY <4>4, <4>5
    <3>2. CASE cell[1] = "timerDivisor"
      <4>1. /\ OfEvg(e, cell) = IF cell[2] \in Timers
                                THEN e.timer[cell[2]].initial ELSE BadFace
            /\ OfEvg(d, cell) = IF cell[2] \in Timers
                                THEN d.timer[cell[2]].initial ELSE BadFace
        BY <3>2, EvgHolds
      <4>2. OfEvg(e, cell) = OfEvg(d, cell)
        BY <2>6, <4>1
      <4> QED
        BY <3>2, <4>2
    <3>3. CASE cell[1] \notin {"timerEvent", "timerDivisor"}
      BY <2>3, <2>7, <3>3, EvgHolds DEF EvgCells
    <3> QED
      BY <3>1, <3>2, <3>3
  <2>8. <<"timerEvent", t>> \in Stored
    BY <2>1, EvgStored
  <2> QED
    BY <2>5, <2>7, <2>8 DEF EvgPut, Put, EvgCells, e
<1> QED
  BY <1>1, EvgStays DEF SetTimerEvent

LEMMA DivisorPuts ==
  ASSUME NEW d, TimerInv(d), EvgShape(d), NEW t \in Nat, NEW divisor \in Nat
  PROVE  EvgPut(d, SetTimerDivisor(d, t, divisor), <<"timerDivisor", t>>, divisor - 2)
<1> DEFINE e == SetTimerDivisor(d, t, divisor)
<1>1. CASE divisor > 40 /\ t < TimerCount
  <2>1. t \in Timers /\ t \in 0..TimerCount
    BY <1>1, EvgAssumption DEF Timers
  <2>2. e = [d EXCEPT !.shadow[t].divisor = AsInt(divisor),
                      !.timer[t].initial = divisor - 2]
    BY <1>1 DEF SetTimerDivisor
  <2>3. /\ e.hwEvent = d.hwEvent /\ e.dbus = d.dbus /\ e.table = d.table
        /\ e.nextCode = d.nextCode
        /\ e.timer = [d.timer EXCEPT ![t].initial = divisor - 2]
    BY <2>2 DEF EvgShape, TimersOf
  <2>4. TimerInv(e)
    BY DivisorKeeps
  <2> HIDE DEF e
  <2>5. EvgShape(e)
    BY <2>3, <2>4 DEF EvgShape, TimerInv
  <2>6. ASSUME NEW s \in Timers
        PROVE  /\ e.timer[s].initial = IF s = t THEN divisor - 2
                                       ELSE d.timer[s].initial
               /\ e.timer[s].code = d.timer[s].code
    BY <2>1, <2>3 DEF EvgShape, TimersOf
  <2>7. ASSUME NEW cell \in Stored, cell[1] \in EvgCells
        PROVE  OfEvg(e, cell) = IF cell = <<"timerDivisor", t>> THEN divisor - 2
                                ELSE OfEvg(d, cell)
    <3>1. CASE cell[1] = "timerDivisor"
      <4>1. cell = <<"timerDivisor", t>> <=> cell[2] = t
        BY <3>1, CellsAre
      <4>2. cell[2] \in Timers => e.timer[cell[2]].initial =
              IF cell[2] = t THEN divisor - 2 ELSE d.timer[cell[2]].initial
        BY <2>6
      <4>3. /\ OfEvg(e, cell) = IF cell[2] \in Timers
                                 THEN e.timer[cell[2]].initial ELSE BadFace
            /\ OfEvg(d, cell) = IF cell[2] \in Timers
                                 THEN d.timer[cell[2]].initial ELSE BadFace
        BY <3>1, EvgHolds
      <4>4. CASE cell[2] \in Timers
        <5>1. /\ OfEvg(e, cell) = e.timer[cell[2]].initial
              /\ OfEvg(d, cell) = d.timer[cell[2]].initial
          BY <4>3, <4>4
        <5>2. CASE cell[2] = t
          BY <4>1, <4>2, <4>4, <5>1, <5>2
        <5>3. CASE cell[2] # t
          BY <4>1, <4>2, <4>4, <5>1, <5>3
        <5> QED
          BY <5>2, <5>3
      <4>5. CASE cell[2] \notin Timers
        <5>1. /\ OfEvg(e, cell) = BadFace
              /\ OfEvg(d, cell) = BadFace
              /\ cell[2] # t
          BY <2>1, <4>3, <4>5
        <5> QED
          BY <4>1, <5>1
      <4> QED
        BY <4>4, <4>5
    <3>2. CASE cell[1] = "timerEvent"
      <4>1. /\ OfEvg(e, cell) = IF cell[2] \in Timers
                                THEN e.timer[cell[2]].code ELSE NoSuchTimer
            /\ OfEvg(d, cell) = IF cell[2] \in Timers
                                THEN d.timer[cell[2]].code ELSE NoSuchTimer
        BY <3>2, EvgHolds
      <4>2. OfEvg(e, cell) = OfEvg(d, cell)
        BY <2>6, <4>1
      <4> QED
        BY <3>2, <4>2
    <3>3. CASE cell[1] \notin {"timerEvent", "timerDivisor"}
      BY <2>3, <2>7, <3>3, EvgHolds DEF EvgCells
    <3> QED
      BY <3>1, <3>2, <3>3
  <2>8. <<"timerDivisor", t>> \in Stored
    BY <2>1, EvgStored
  <2> QED
    BY <2>5, <2>7, <2>8 DEF EvgPut, Put, EvgCells, e
<1> QED
  BY <1>1, EvgStays DEF SetTimerDivisor

\* f has the timers of d and all fields.
LEMMA BesideShape ==
  ASSUME NEW d, TimerInv(d), EvgShape(d), NEW f, Beside(d, f),
         DOMAIN f.hwEvent = DOMAIN d.hwEvent, DOMAIN f.dbus = DOMAIN d.dbus,
         f.hwEvent = [i \in DOMAIN f.hwEvent |-> f.hwEvent[i]],
         f.dbus = [b \in DOMAIN f.dbus |-> f.dbus[b]],
         f.table = [a \in 0..SeqAddrCount - 1 |->
                      [code |-> f.table[a].code, delay |-> f.table[a].delay]]
  PROVE  EvgShape(f) /\ f.timer = d.timer
<1>1. TimerInv(f)
  BY OthersKeep
<1>2. f.timer = d.timer
  BY DEF Beside
<1> QED
  BY <1>1, <1>2 DEF EvgShape, TimerInv

LEMMA TriggerPuts ==
  ASSUME NEW d, TimerInv(d), EvgShape(d), NEW i \in Nat, NEW code \in Nat
  PROVE  EvgPut(d, SetHwTriggerEvent(d, i, code), <<"hwEvent", i>>, code)
<1> DEFINE e == SetHwTriggerEvent(d, i, code)
<1>1. CASE i < 2 * HwTriggerCount /\ AsInt(code) \in 0..255
  <2>1. i \in DOMAIN d.hwEvent /\ i \in 0..2 * HwTriggerCount
    BY <1>1, EvgAssumption DEF EvgShape
  <2>2. e = [d EXCEPT !.hwEvent[i] = code, !.hwSel = i]
    BY <1>1 DEF SetHwTriggerEvent
  <2>3. /\ e.hwEvent = [d.hwEvent EXCEPT ![i] = code] /\ e.dbus = d.dbus
        /\ e.table = d.table /\ e.nextCode = d.nextCode /\ Beside(d, e)
    BY <2>2 DEF EvgShape, TimersOf, Beside
  <2> HIDE DEF e
  <2>4. /\ DOMAIN e.hwEvent = DOMAIN d.hwEvent
        /\ e.hwEvent = [j \in DOMAIN e.hwEvent |-> e.hwEvent[j]]
        /\ \A j \in DOMAIN d.hwEvent :
             e.hwEvent[j] = IF j = i THEN code ELSE d.hwEvent[j]
    BY <2>1, <2>3 DEF EvgShape
  <2>5. EvgShape(e) /\ e.timer = d.timer
    <3>1. /\ DOMAIN e.dbus = DOMAIN d.dbus
          /\ e.dbus = [c \in DOMAIN e.dbus |-> e.dbus[c]]
          /\ e.table = [a \in 0..SeqAddrCount - 1 |->
                         [code |-> e.table[a].code, delay |-> e.table[a].delay]]
      BY <2>3 DEF EvgShape
    <3> QED
      BY <2>3, <2>4, <3>1, BesideShape
  <2>6. ASSUME NEW cell \in Stored, cell[1] \in EvgCells
        PROVE  OfEvg(e, cell) = IF cell = <<"hwEvent", i>> THEN code
                                ELSE OfEvg(d, cell)
    <3>1. CASE cell[1] = "hwEvent"
      BY <2>1, <2>4, <3>1, CellsAre, EvgHolds
    <3>2. CASE cell[1] # "hwEvent"
      BY <2>3, <2>5, <2>6, <3>2, EvgHolds DEF EvgCells
    <3> QED
      BY <3>1, <3>2
  <2>7. <<"hwEvent", i>> \in Stored
    BY <2>1, EvgStored
  <2> QED
    BY <2>5, <2>6, <2>7 DEF EvgPut, Put, EvgCells, e
<1> QED
  BY <1>1, EvgStays DEF SetHwTriggerEvent

LEMMA DbusPuts ==
  ASSUME NEW d, TimerInv(d), EvgShape(d), NEW b \in Nat, NEW input \in Nat
  PROVE  EvgPut(d, SetDbusInputMap(d, b, input), <<"dbus", b>>, input)
<1> DEFINE e == SetDbusInputMap(d, b, input)
<1>1. CASE input <= HwTriggerCount
  <2>1. e = [d EXCEPT !.dbus[b] = input, !.dbusSel = b]
    BY <1>1 DEF SetDbusInputMap
  <2>2. /\ e.dbus = [d.dbus EXCEPT ![b] = input] /\ e.hwEvent = d.hwEvent
        /\ e.table = d.table /\ e.nextCode = d.nextCode /\ Beside(d, e)
    BY <2>1 DEF EvgShape, TimersOf, Beside
  <2> HIDE DEF e
  <2>3. /\ DOMAIN e.dbus = DOMAIN d.dbus
        /\ e.dbus = [c \in DOMAIN e.dbus |-> e.dbus[c]]
        /\ \A c \in DOMAIN d.dbus :
             e.dbus[c] = IF c = b THEN input ELSE d.dbus[c]
    BY <2>2 DEF EvgShape
  <2>4. EvgShape(e) /\ e.timer = d.timer
    <3>1. /\ DOMAIN e.hwEvent = DOMAIN d.hwEvent
          /\ e.hwEvent = [i \in DOMAIN e.hwEvent |-> e.hwEvent[i]]
          /\ e.table = [a \in 0..SeqAddrCount - 1 |->
                         [code |-> e.table[a].code, delay |-> e.table[a].delay]]
      BY <2>2 DEF EvgShape
    <3> QED
      BY <2>2, <2>3, <3>1, BesideShape
  <2>5. ASSUME NEW cell \in Stored, cell[1] \in EvgCells
        PROVE  OfEvg(e, cell) = IF cell = <<"dbus", b>> THEN input
                                ELSE OfEvg(d, cell)
    <3>1. CASE cell[1] = "dbus"
      <4>1. cell[2] \in DOMAIN d.dbus
        BY <3>1, CellsAre, EvgStored DEF EvgShape
      <4> QED
        BY <2>3, <3>1, <4>1, CellsAre, EvgHolds
    <3>2. CASE cell[1] # "dbus"
      BY <2>2, <2>4, <2>5, <3>2, EvgHolds DEF EvgCells
    <3> QED
      BY <3>1, <3>2
  <2>6. CASE b \in DOMAIN d.dbus
    <3>1. <<"dbus", b>> \in Stored
      BY <2>6, EvgStored DEF EvgShape
    <3> QED
      BY <2>4, <2>5, <3>1 DEF EvgPut, Put, EvgCells, e
  <2>7. CASE b \notin DOMAIN d.dbus
    <3>1. <<"dbus", b>> \notin Stored
      BY <2>7, EvgStored DEF EvgShape
    <3>2. Kept(OfEvg, EvgCells, d, e)
      BY <2>5, <3>1 DEF Kept
    <3> QED
      BY <2>4, <3>2 DEF EvgPut, e
  <2> QED
    BY <2>6, <2>7
<1> QED
  BY <1>1, EvgStays DEF SetDbusInputMap

LEMMA CodePuts ==
  ASSUME NEW d, TimerInv(d), EvgShape(d), NEW a \in Nat, NEW code \in Nat
  PROVE  EvgPut(d, WriteCode(d, a, code), <<"patternCode", a>>, code)
<1> DEFINE e == WriteCode(d, a, code)
<1>1. CASE a < SeqAddrCount /\ AsInt(code) \in 0..255
  <2>1. a \in 0..SeqAddrCount - 1
    BY <1>1, EvgAssumption
  <2>2. e = [d EXCEPT !.table[a].code = code, !.seqAddr = a]
    BY <1>1 DEF WriteCode
  <2>3. /\ e.table = [d.table EXCEPT ![a].code = code] /\ e.hwEvent = d.hwEvent
        /\ e.dbus = d.dbus /\ e.nextCode = d.nextCode /\ Beside(d, e)
    BY <2>2 DEF EvgShape, TimersOf, Beside
  <2> HIDE DEF e
  <2>4. e.table = [b \in 0..SeqAddrCount - 1 |->
                     [code |-> IF b = a THEN code ELSE d.table[b].code,
                      delay |-> d.table[b].delay]]
    <3>1. ASSUME NEW b \in 0..SeqAddrCount - 1
          PROVE  /\ d.table[b] = [code |-> d.table[b].code, delay |-> d.table[b].delay]
                 /\ b \in DOMAIN d.table
      BY DEF EvgShape
    <3>2. ASSUME NEW b \in 0..SeqAddrCount - 1
          PROVE  e.table[b] = [code |-> IF b = a THEN code ELSE d.table[b].code,
                               delay |-> d.table[b].delay]
      <4>1. CASE b = a
        <5>1. e.table[b] = [d.table[b] EXCEPT !.code = code]
          BY <2>3, <3>1, <4>1
        <5> QED
          BY <3>1, <4>1, <5>1
      <4>2. CASE b # a
        BY <2>3, <3>1, <4>2
      <4> QED
        BY <4>1, <4>2
    <3>3. e.table = [b \in 0..SeqAddrCount - 1 |-> e.table[b]]
      BY <2>3 DEF EvgShape
    <3> QED
      BY <3>2, <3>3
  <2>5. EvgShape(e) /\ e.timer = d.timer
    <3>1. /\ DOMAIN e.hwEvent = DOMAIN d.hwEvent /\ DOMAIN e.dbus = DOMAIN d.dbus
          /\ e.hwEvent = [i \in DOMAIN e.hwEvent |-> e.hwEvent[i]]
          /\ e.dbus = [b \in DOMAIN e.dbus |-> e.dbus[b]]
      BY <2>3 DEF EvgShape
    <3>2. e.table = [b \in 0..SeqAddrCount - 1 |->
                       [code |-> e.table[b].code, delay |-> e.table[b].delay]]
      BY <2>4
    <3> QED
      BY <2>3, <3>1, <3>2, BesideShape
  <2>6. ASSUME NEW cell \in Stored, cell[1] \in EvgCells
        PROVE  OfEvg(e, cell) = IF cell = <<"patternCode", a>> THEN code
                                ELSE OfEvg(d, cell)
    <3>1. CASE cell[1] \in {"patternCode", "patternDelay"}
      <4>1. cell[2] \in 0..SeqAddrCount - 1
        BY <3>1, CellsAre, EvgStored
      <4>2. cell = <<"patternCode", a>> <=> cell[1] = "patternCode" /\ cell[2] = a
        BY CellsAre
      <4>3. /\ e.table[cell[2]].code = IF cell[2] = a THEN code ELSE d.table[cell[2]].code
            /\ e.table[cell[2]].delay = d.table[cell[2]].delay
        BY <2>4, <4>1
      <4>4. CASE cell[1] = "patternCode"
        <5>1. /\ OfEvg(e, cell) = e.table[cell[2]].code
              /\ OfEvg(d, cell) = d.table[cell[2]].code
          BY <4>4, EvgHolds
        <5> QED
          BY <4>2, <4>3, <4>4, <5>1
      <4>5. CASE cell[1] = "patternDelay"
        <5>1. /\ OfEvg(e, cell) = e.table[cell[2]].delay
              /\ OfEvg(d, cell) = d.table[cell[2]].delay
          BY <4>5, EvgHolds
        <5> QED
          BY <4>2, <4>3, <4>5, <5>1
      <4> QED
        BY <3>1, <4>4, <4>5
    <3>2. CASE cell[1] \notin {"patternCode", "patternDelay"}
      BY <2>3, <2>5, <2>6, <3>2, EvgHolds DEF EvgCells
    <3> QED
      BY <3>1, <3>2
  <2>7. <<"patternCode", a>> \in Stored
    BY <2>1, EvgStored
  <2> QED
    BY <2>5, <2>6, <2>7 DEF EvgPut, Put, EvgCells, e
<1> QED
  BY <1>1, EvgStays DEF WriteCode

LEMMA DelayPuts ==
  ASSUME NEW d, TimerInv(d), EvgShape(d), NEW a \in Nat, NEW delay \in Nat
  PROVE  EvgPut(d, WriteDelay(d, a, delay), <<"patternDelay", a>>, delay)
<1> DEFINE e == WriteDelay(d, a, delay)
<1>1. CASE a < SeqAddrCount
  <2>1. a \in 0..SeqAddrCount - 1
    BY <1>1, EvgAssumption
  <2>2. e = [d EXCEPT !.table[a].delay = delay, !.seqAddr = a]
    BY <1>1 DEF WriteDelay
  <2>3. /\ e.table = [d.table EXCEPT ![a].delay = delay] /\ e.hwEvent = d.hwEvent
        /\ e.dbus = d.dbus /\ e.nextCode = d.nextCode /\ Beside(d, e)
    BY <2>2 DEF EvgShape, TimersOf, Beside
  <2> HIDE DEF e
  <2>4. e.table = [b \in 0..SeqAddrCount - 1 |->
                     [code |-> d.table[b].code,
                      delay |-> IF b = a THEN delay ELSE d.table[b].delay]]
    <3>1. ASSUME NEW b \in 0..SeqAddrCount - 1
          PROVE  /\ d.table[b] = [code |-> d.table[b].code, delay |-> d.table[b].delay]
                 /\ b \in DOMAIN d.table
      BY DEF EvgShape
    <3>2. ASSUME NEW b \in 0..SeqAddrCount - 1
          PROVE  e.table[b] = [code |-> d.table[b].code,
                               delay |-> IF b = a THEN delay ELSE d.table[b].delay]
      <4>1. CASE b = a
        <5>1. e.table[b] = [d.table[b] EXCEPT !.delay = delay]
          BY <2>3, <3>1, <4>1
        <5> QED
          BY <3>1, <4>1, <5>1
      <4>2. CASE b # a
        BY <2>3, <3>1, <4>2
      <4> QED
        BY <4>1, <4>2
    <3>3. e.table = [b \in 0..SeqAddrCount - 1 |-> e.table[b]]
      BY <2>3 DEF EvgShape
    <3> QED
      BY <3>2, <3>3
  <2>5. EvgShape(e) /\ e.timer = d.timer
    <3>1. /\ DOMAIN e.hwEvent = DOMAIN d.hwEvent /\ DOMAIN e.dbus = DOMAIN d.dbus
          /\ e.hwEvent = [i \in DOMAIN e.hwEvent |-> e.hwEvent[i]]
          /\ e.dbus = [b \in DOMAIN e.dbus |-> e.dbus[b]]
      BY <2>3 DEF EvgShape
    <3>2. e.table = [b \in 0..SeqAddrCount - 1 |->
                       [code |-> e.table[b].code, delay |-> e.table[b].delay]]
      BY <2>4
    <3> QED
      BY <2>3, <3>1, <3>2, BesideShape
  <2>6. ASSUME NEW cell \in Stored, cell[1] \in EvgCells
        PROVE  OfEvg(e, cell) = IF cell = <<"patternDelay", a>> THEN delay
                                ELSE OfEvg(d, cell)
    <3>1. CASE cell[1] \in {"patternCode", "patternDelay"}
      <4>1. cell[2] \in 0..SeqAddrCount - 1
        BY <3>1, CellsAre, EvgStored
      <4>2. cell = <<"patternDelay", a>> <=> cell[1] = "patternDelay" /\ cell[2] = a
        BY CellsAre
      <4>3. /\ e.table[cell[2]].code = d.table[cell[2]].code
            /\ e.table[cell[2]].delay = IF cell[2] = a THEN delay ELSE d.table[cell[2]].delay
        BY <2>4, <4>1
      <4>4. CASE cell[1] = "patternCode"
        <5>1. /\ OfEvg(e, cell) = e.table[cell[2]].code
              /\ OfEvg(d, cell) = d.table[cell[2]].code
          BY <4>4, EvgHolds
        <5> QED
          BY <4>2, <4>3, <4>4, <5>1
      <4>5. CASE cell[1] = "patternDelay"
        <5>1. /\ OfEvg(e, cell) = e.table[cell[2]].delay
              /\ OfEvg(d, cell) = d.table[cell[2]].delay
          BY <4>5, EvgHolds
        <5> QED
          BY <4>2, <4>3, <4>5, <5>1
      <4> QED
        BY <3>1, <4>4, <4>5
    <3>2. CASE cell[1] \notin {"patternCode", "patternDelay"}
      BY <2>3, <2>5, <2>6, <3>2, EvgHolds DEF EvgCells
    <3> QED
      BY <3>1, <3>2
  <2>7. <<"patternDelay", a>> \in Stored
    BY <2>1, EvgStored
  <2> QED
    BY <2>5, <2>6, <2>7 DEF EvgPut, Put, EvgCells, e
<1> QED
  BY <1>1, EvgStays DEF WriteDelay

LEMMA EvgWritePuts ==
  ASSUME NEW d, TimerInv(d), EvgShape(d), NEW reg \in Registers, NEW v \in Nat
  PROVE  EvgPut(d, EVG_FEEDwrite(d, reg, v), reg, Adjusted(reg, v))
<1>1. reg = <<reg[1], reg[2]>> /\ reg[2] \in Nat
  BY DEF Registers
<1>2. CASE reg[1] = "timerCsr"
  BY <1>2, ControlPuts DEF EVG_FEEDwrite
<1>3. CASE reg[1] = "timerEvent"
  <2>1. Adjusted(reg, v) = v /\ reg = <<"timerEvent", reg[2]>>
    BY <1>1, <1>3 DEF Adjusted
  <2>2. EVG_FEEDwrite(d, reg, v) = SetTimerEvent(d, reg[2], v)
    BY <1>3 DEF EVG_FEEDwrite
  <2> QED
    BY <1>1, <2>1, <2>2, EventPuts
<1>4. CASE reg[1] = "timerDivisor"
  <2>1. Adjusted(reg, v) = v - 2 /\ reg = <<"timerDivisor", reg[2]>>
    BY <1>1, <1>4 DEF Adjusted
  <2>2. EVG_FEEDwrite(d, reg, v) = SetTimerDivisor(d, reg[2], v)
    BY <1>4 DEF EVG_FEEDwrite
  <2> QED
    BY <1>1, <2>1, <2>2, DivisorPuts
<1>5. CASE reg[1] = "hwEvent"
  <2>1. Adjusted(reg, v) = v /\ reg = <<"hwEvent", reg[2]>>
    BY <1>1, <1>5 DEF Adjusted
  <2>2. EVG_FEEDwrite(d, reg, v) = SetHwTriggerEvent(d, reg[2], v)
    BY <1>5 DEF EVG_FEEDwrite
  <2> QED
    BY <1>1, <2>1, <2>2, TriggerPuts
<1>6. CASE reg[1] = "dbus"
  <2>1. Adjusted(reg, v) = v /\ reg = <<"dbus", reg[2]>>
    BY <1>1, <1>6 DEF Adjusted
  <2>2. EVG_FEEDwrite(d, reg, v) = SetDbusInputMap(d, reg[2], v)
    BY <1>6 DEF EVG_FEEDwrite
  <2> QED
    BY <1>1, <2>1, <2>2, DbusPuts
<1>7. CASE reg[1] = "patternCode"
  <2>1. Adjusted(reg, v) = v /\ reg = <<"patternCode", reg[2]>>
    BY <1>1, <1>7 DEF Adjusted
  <2>2. EVG_FEEDwrite(d, reg, v) = WriteCode(d, reg[2], v)
    BY <1>7 DEF EVG_FEEDwrite
  <2> QED
    BY <1>1, <2>1, <2>2, CodePuts
<1>8. CASE reg[1] = "patternDelay"
  <2>1. Adjusted(reg, v) = v /\ reg = <<"patternDelay", reg[2]>>
    BY <1>1, <1>8 DEF Adjusted
  <2>2. EVG_FEEDwrite(d, reg, v) = WriteDelay(d, reg[2], v)
    BY <1>8 DEF EVG_FEEDwrite
  <2> QED
    BY <1>1, <2>1, <2>2, DelayPuts
<1>9. CASE reg[1] \notin {"timerCsr", "timerEvent", "timerDivisor", "hwEvent",
                         "dbus", "patternCode", "patternDelay"}
  <2>1. EVG_FEEDwrite(d, reg, v) = d
    BY <1>9 DEF EVG_FEEDwrite
  <2> QED
    BY <2>1, EvgStays
<1> QED
  BY <1>2, <1>3, <1>4, <1>5, <1>6, <1>7, <1>8, <1>9

LEMMA EvgShapeAtStart == EvgShape(EvgStart)
<1>1. TimersOf(EvgStart)
  BY TimersAtStart DEF TimerInv
<1> QED
  BY <1>1 DEF EvgShape, EvgStart

\* e is d with other selectors.
LEMMA EvgSelected ==
  ASSUME NEW d, EvgShape(d), NEW hwSel, NEW dbusSel,
         NEW e \in {[d EXCEPT !.hwSel = hwSel], [d EXCEPT !.dbusSel = dbusSel]}
  PROVE  /\ EvgShape(e) /\ Kept(OfEvg, EvgCells, d, e)
         /\ e.hwEvent = d.hwEvent /\ e.dbus = d.dbus
<1>1. /\ e.hwEvent = d.hwEvent /\ e.dbus = d.dbus /\ e.table = d.table
      /\ e.nextCode = d.nextCode /\ e.timer = d.timer /\ e.shadow = d.shadow
      /\ TimersOf(e)
  BY DEF EvgShape, TimersOf
<1>2. EvgShape(e)
  BY <1>1 DEF EvgShape
<1> QED
  BY <1>1, <1>2, EvgKept

LEMMA ReadbackReads ==
  ASSUME NEW d, EvgShape(d), NEW a \in Nat, NEW r \in Readback(d, a)
  PROVE  /\ EvgShape(r.dev)
         /\ a < SeqAddrCount => r.value = d.table[a].delay
         /\ \A cell \in Stored : cell[1] \in EvgCells =>
              OfEvg(r.dev, cell) =
                IF cell[1] # "next" THEN OfEvg(d, cell)
                ELSE IF a < SeqAddrCount THEN d.table[a].code ELSE OutOfRange
<1>1. /\ r.dev.hwEvent = d.hwEvent /\ r.dev.dbus = d.dbus
      /\ r.dev.table = d.table /\ r.dev.timer = d.timer
      /\ TimersOf(r.dev)
      /\ r.dev.nextCode = IF a < SeqAddrCount THEN d.table[a].code ELSE OutOfRange
      /\ a < SeqAddrCount => r.value = d.table[a].delay
  <2>1. CASE a < SeqAddrCount
    <3>1. r = [dev |-> [[d EXCEPT !.seqAddr = a] EXCEPT !.nextCode = d.table[a].code],
               value |-> d.table[a].delay]
      BY <2>1 DEF Readback, EvgShape, TimersOf
    <3> QED
      BY <2>1, <3>1 DEF EvgShape, TimersOf
  <2>2. CASE ~(a < SeqAddrCount)
    <3>1. r.dev = [d EXCEPT !.nextCode = OutOfRange]
      BY <2>2 DEF Readback
    <3> QED
      BY <2>2, <3>1 DEF EvgShape, TimersOf
  <2> QED
    BY <2>1, <2>2
<1>2. EvgShape(r.dev)
  BY <1>1 DEF EvgShape
<1>3. ASSUME NEW cell \in Stored, cell[1] \in EvgCells
      PROVE  OfEvg(r.dev, cell) =
               IF cell[1] # "next" THEN OfEvg(d, cell)
               ELSE IF a < SeqAddrCount THEN d.table[a].code ELSE OutOfRange
  <2>1. CASE cell[1] = "next"
    BY <1>1, <2>1, EvgHolds
  <2>2. CASE cell[1] # "next"
    BY <1>1, <1>3, <2>2, EvgHolds DEF EvgCells
  <2> QED
    BY <2>1, <2>2
<1> QED
  BY <1>1, <1>2, <1>3

\* What a read of reg copies.
EvgCopied(reg) ==
  IF reg \in Stored THEN <<"patternCode", reg[2]>> ELSE <<"outOfRange", 0>>

LEMMA EvgReads ==
  ASSUME NEW d, EvgShape(d), NEW reg \in Registers, reg[1] \in EvgNames,
         NEW r \in EVG_FEEDread(d, reg)
  PROVE  /\ EvgShape(r.dev)
         /\ reg \in Stored => r.value = OfEvg(d, Shows(reg))
         /\ reg[1] # "patternDelay" => Kept(OfEvg, EvgCells, d, r.dev)
         /\ reg[1] = "patternDelay" =>
              \A cell \in Stored : cell[1] \in EvgCells =>
                OfEvg(r.dev, cell) = IF cell[1] = "next" THEN OfEvg(d, EvgCopied(reg))
                                     ELSE OfEvg(d, cell)
<1>1. reg = <<reg[1], reg[2]>> /\ reg[2] \in Nat
  BY DEF Registers
<1>2. CASE reg[1] \in {"timerCsr", "timerEvent", "timerDivisor", "latency", "patternCode"}
  <2>1. r.dev = d
    BY <1>2 DEF EVG_FEEDread, LatencyReadback
  <2>2. Kept(OfEvg, EvgCells, d, d)
    BY DEF Kept
  <2>3. ASSUME reg \in Stored
        PROVE  r.value = OfEvg(d, Shows(reg))
    <3>1. CASE reg[1] = "timerEvent"
      <4>1. r.value = GetTimerEvent(d, reg[2])
        BY <3>1 DEF EVG_FEEDread
      <4>2. reg[2] < TimerCount <=> reg[2] \in Timers
        BY <1>1, EvgAssumption DEF Timers
      <4> QED
        BY <2>3, <3>1, <4>1, <4>2, EvgHolds DEF GetTimerEvent, Shows
    <3>2. CASE reg[1] = "timerDivisor"
      <4>1. r.value = GetTimerDivisor(d, reg[2])
        BY <3>2 DEF EVG_FEEDread
      <4>2. reg[2] < TimerCount <=> reg[2] \in Timers
        BY <1>1, EvgAssumption DEF Timers
      <4> QED
        BY <2>3, <3>2, <4>1, <4>2, EvgHolds DEF GetTimerDivisor, Shows
    <3>3. CASE reg[1] = "patternCode"
      <4>1. r.value = d.nextCode
        BY <3>3 DEF EVG_FEEDread
      <4> QED
        BY <3>3, <4>1, EvgHolds, EvgStored DEF Shows
    <3> QED
      BY <1>1, <1>2, <2>3, <3>1, <3>2, <3>3, EvgStored
  <2> QED
    BY <1>2, <2>1, <2>2, <2>3
<1>3. CASE reg[1] = "hwEvent"
  <2>1. r = GetHwTriggerEvent(d, reg[2])
    BY <1>3 DEF EVG_FEEDread
  <2>2. CASE reg[2] < 2 * HwTriggerCount
    <3>1. r = [dev |-> [d EXCEPT !.hwSel = reg[2]], value |-> d.hwEvent[reg[2]]]
      BY <2>1, <2>2 DEF GetHwTriggerEvent, EvgShape, TimersOf
    <3>2. reg[2] \in DOMAIN d.hwEvent
      BY <1>1, <2>2, EvgAssumption DEF EvgShape
    <3> QED
      BY <1>3, <3>1, <3>2, EvgSelected, EvgHolds DEF Shows
  <2>3. CASE ~(reg[2] < 2 * HwTriggerCount)
    <3>1. r = [dev |-> d, value |-> OutOfRange]
      BY <2>1, <2>3 DEF GetHwTriggerEvent
    <3>2. reg[2] \notin DOMAIN d.hwEvent
      BY <1>1, <2>3, EvgAssumption DEF EvgShape
    <3> QED
      BY <1>3, <3>1, <3>2, EvgHolds DEF Shows, Kept
  <2> QED
    BY <2>2, <2>3
<1>4. CASE reg[1] = "hwCount"
  <2>1. r = [dev |-> [d EXCEPT !.hwSel = 2 * reg[2]], value |-> (2 * reg[2]) \div 2]
    BY <1>4 DEF EVG_FEEDread, GetHwTriggerCount, EvgShape, TimersOf
  <2>2. (2 * reg[2]) \div 2 = reg[2]
    BY <1>1
  <2> QED
    BY <1>4, <2>1, <2>2, EvgSelected, EvgHolds DEF Shows
<1>5. CASE reg[1] = "dbus"
  <2>1. r = [dev |-> [d EXCEPT !.dbusSel = reg[2]], value |-> d.dbus[reg[2]]]
    BY <1>5 DEF EVG_FEEDread, GetDbusInputMap, EvgShape, TimersOf
  <2> QED
    BY <1>5, <2>1, EvgSelected, EvgHolds DEF Shows
<1>6. CASE reg[1] = "patternDelay"
  <2>1. r \in Readback(d, reg[2])
    BY <1>6 DEF EVG_FEEDread
  <2>2. reg \in Stored <=> reg[2] < SeqAddrCount
    <3>1. reg \in Stored <=> reg[2] \in 0..SeqAddrCount - 1
      BY <1>1, <1>6, EvgStored
    <3> QED
      BY <1>1, <3>1, EvgAssumption
  <2>3. reg \in Stored => r.value = OfEvg(d, Shows(reg))
    BY <1>1, <1>6, <2>1, <2>2, ReadbackReads, EvgHolds DEF Shows
  <2>4. OfEvg(d, EvgCopied(reg)) =
          IF reg[2] < SeqAddrCount THEN d.table[reg[2]].code ELSE OutOfRange
    <3>1. CASE reg \in Stored
      <4>1. <<"patternCode", reg[2]>> \in Stored
        BY <1>1, <1>6, <3>1, EvgStored
      <4> QED
        BY <2>2, <3>1, <4>1, EvgHolds DEF EvgCopied
    <3>2. CASE reg \notin Stored
      BY <2>2, <3>2, EvgStored, EvgHolds DEF EvgCopied
    <3> QED
      BY <3>1, <3>2
  <2> QED
    BY <1>1, <1>6, <2>1, <2>3, <2>4, ReadbackReads
<1> QED
  BY <1>2, <1>3, <1>4, <1>5, <1>6 DEF EvgNames

-----------------------------------------------------------------------------
EvrShape(d) == OutputInv(d) /\ DOMAIN d.actions = 1..LastAction

LEMMA EvrHolds ==
  ASSUME NEW d, NEW cell \in Stored
  PROVE  /\ cell[1] = "action" => OfEvr(d, cell) = d.actions[cell[2]]
         /\ cell[1] = "source" => OfEvr(d, cell) = d.source[cell[2]]
         /\ cell[1] = "delay" => OfEvr(d, cell) = d.delays[cell[2]]
         /\ cell[1] = "width" => OfEvr(d, cell) = d.widths[cell[2]]
  BY DEF OfEvr, Holds

LEMMA EvrStored ==
  /\ \A i : <<"action", i>> \in Stored <=> i \in 1..LastAction
  /\ \A n \in {"source", "delay", "width"} : \A i :
       <<n, i>> \in Stored <=> i \in Outputs
  /\ \A n \in {"nowTicks", "event", "eventSec", "eventTicks", "now", "si570",
               "reboot"} : \A i : <<n, i>> \notin Stored
  BY DEF Stored

LEMMA EvrKept ==
  ASSUME NEW d, NEW e, e.actions = d.actions, e.source = d.source,
         e.delays = d.delays, e.widths = d.widths
  PROVE  Kept(OfEvr, EvrCells, d, e)
<1> SUFFICES ASSUME NEW cell \in Stored, cell[1] \in EvrCells
             PROVE  OfEvr(e, cell) = OfEvr(d, cell)
  BY DEF Kept
<1> QED
  BY EvrHolds DEF EvrCells

LEMMA EvrShapeAtStart == EvrShape(EvrStart)
  BY OutputsAtStart DEF EvrShape, EvrStart

EvrPut(d, e, reg, v) ==
  EvrShape(e) /\ (Kept(OfEvr, EvrCells, d, e) \/ Put(OfEvr, EvrCells, d, e, reg, v))

LEMMA ActionPuts ==
  ASSUME NEW d, EvrShape(d), NEW i \in Nat, NEW v \in Nat,
         OutputInv(SetEventAction(d, i, v))
  PROVE  EvrPut(d, SetEventAction(d, i, v), <<"action", i>>, v)
<1> DEFINE e == SetEventAction(d, i, v)
<1>1. CASE i \in 1..LastAction
  <2>1. /\ e.actions = [d.actions EXCEPT ![i] = v] /\ e.source = d.source
        /\ e.delays = d.delays /\ e.widths = d.widths
    BY <1>1 DEF SetEventAction, EvrShape, OutputInv, OutputsOf
  <2> HIDE DEF e
  <2>2. /\ \A j \in 1..LastAction : e.actions[j] = IF j = i THEN v ELSE d.actions[j]
        /\ DOMAIN e.actions = 1..LastAction
    BY <2>1 DEF EvrShape
  <2>3. ASSUME NEW cell \in Stored, cell[1] \in EvrCells
        PROVE  OfEvr(e, cell) = IF cell = <<"action", i>> THEN v ELSE OfEvr(d, cell)
    <3>1. CASE cell[1] = "action"
      <4>1. cell[2] \in 1..LastAction
        BY <3>1, CellsAre, EvrStored
      <4> QED
        BY <2>2, <3>1, <4>1, CellsAre, EvrHolds
    <3>2. CASE cell[1] # "action"
      BY <2>1, <2>3, <3>2, EvrHolds DEF EvrCells
    <3> QED
      BY <3>1, <3>2
  <2> QED
    BY <1>1, <2>2, <2>3, EvrStored DEF EvrPut, Put, EvrShape, EvrCells, e
<1>2. CASE i \notin 1..LastAction
  <2>1. e = d
    BY <1>2 DEF SetEventAction
  <2> QED
    BY <2>1 DEF EvrPut, Kept
<1> QED
  BY <1>1, <1>2

\* The settings of d with one changed: n is the setting of output o.
LEMMA SettingPuts ==
  ASSUME NEW d, EvrShape(d), NEW o \in Outputs, NEW v, NEW e, OutputInv(e),
         NEW n \in {"source", "delay", "width"}, e.actions = d.actions,
         e.source = IF n = "source" THEN [d.source EXCEPT ![o] = v] ELSE d.source,
         e.delays = IF n = "delay" THEN [d.delays EXCEPT ![o] = v] ELSE d.delays,
         e.widths = IF n = "width" THEN [d.widths EXCEPT ![o] = v] ELSE d.widths
  PROVE  EvrPut(d, e, <<n, o>>, v)
<1>1. ASSUME NEW p \in Outputs
      PROVE  /\ e.source[p] = IF n = "source" /\ p = o THEN v ELSE d.source[p]
             /\ e.delays[p] = IF n = "delay" /\ p = o THEN v ELSE d.delays[p]
             /\ e.widths[p] = IF n = "width" /\ p = o THEN v ELSE d.widths[p]
  BY DEF EvrShape, OutputInv, OutputsOf
<1>2. ASSUME NEW cell \in Stored, cell[1] \in EvrCells
      PROVE  OfEvr(e, cell) = IF cell = <<n, o>> THEN v ELSE OfEvr(d, cell)
  <2>1. cell = <<n, o>> <=> cell[1] = n /\ cell[2] = o
    BY CellsAre
  <2>2. CASE cell[1] = "action"
    BY <2>1, <2>2, EvrHolds
  <2>3. CASE cell[1] \in {"source", "delay", "width"}
    <3>1. cell[2] \in Outputs
      BY <2>3, CellsAre, EvrStored
    <3>2. CASE cell[1] = "source"
      <4>1. OfEvr(e, cell) = e.source[cell[2]] /\ OfEvr(d, cell) = d.source[cell[2]]
        BY <3>2, EvrHolds
      <4>2. e.source[cell[2]] = IF n = "source" /\ cell[2] = o THEN v ELSE d.source[cell[2]]
        BY <1>1, <3>1
      <4>3. cell = <<n, o>> <=> n = "source" /\ cell[2] = o
        BY <2>1, <3>2
      <4> QED
        BY <4>1, <4>2, <4>3
    <3>3. CASE cell[1] = "delay"
      <4>1. OfEvr(e, cell) = e.delays[cell[2]] /\ OfEvr(d, cell) = d.delays[cell[2]]
        BY <3>3, EvrHolds
      <4>2. e.delays[cell[2]] = IF n = "delay" /\ cell[2] = o THEN v ELSE d.delays[cell[2]]
        BY <1>1, <3>1
      <4>3. cell = <<n, o>> <=> n = "delay" /\ cell[2] = o
        BY <2>1, <3>3
      <4> QED
        BY <4>1, <4>2, <4>3
    <3>4. CASE cell[1] = "width"
      <4>1. OfEvr(e, cell) = e.widths[cell[2]] /\ OfEvr(d, cell) = d.widths[cell[2]]
        BY <3>4, EvrHolds
      <4>2. e.widths[cell[2]] = IF n = "width" /\ cell[2] = o THEN v ELSE d.widths[cell[2]]
        BY <1>1, <3>1
      <4>3. cell = <<n, o>> <=> n = "width" /\ cell[2] = o
        BY <2>1, <3>4
      <4> QED
        BY <4>1, <4>2, <4>3
    <3> QED
      BY <2>3, <3>2, <3>3, <3>4
  <2> QED
    BY <1>2, <2>2, <2>3 DEF EvrCells
<1> QED
  BY <1>2, EvrStored DEF EvrPut, Put, EvrShape, EvrCells

LEMMA EvrWritePuts ==
  ASSUME NEW d, EvrShape(d), NEW reg \in Registers,
         reg[1] \in EvrNames \union {"now"}, NEW v \in Nat
  PROVE  EvrPut(d, EVR_FEEDwrite(d, reg, v), reg, Adjusted(reg, v))
<1> DEFINE n == reg[1]
           o == reg[2]
           e == EVR_FEEDwrite(d, reg, v)
<1>1. reg = <<n, o>> /\ o \in Nat
  BY DEF Registers
<1>2. Adjusted(reg, v) = v
  BY DEF Adjusted, EvrNames
<1>3. OutputInv(e)
  BY OutputWriteKeeps DEF EvrShape
<1>4. CASE n = "action"
  <2>1. e = SetEventAction(d, o, v)
    BY <1>4 DEF EVR_FEEDwrite
  <2> QED
    BY <1>1, <1>2, <1>3, <1>4, <2>1, ActionPuts
<1>5. CASE n \in {"source", "delay", "width"} /\ o \in Outputs
  <2>1. /\ e.actions = d.actions
        /\ e.source = IF n = "source" THEN [d.source EXCEPT ![o] = v] ELSE d.source
        /\ e.delays = IF n = "delay" THEN [d.delays EXCEPT ![o] = v] ELSE d.delays
        /\ e.widths = IF n = "width" THEN [d.widths EXCEPT ![o] = v] ELSE d.widths
    <3>1. PICK a, s, w, u, t :
            d = [actions |-> a, source |-> s, delays |-> w,
                 widths |-> u, drive |-> t, log |-> d.log,
                 taken |-> d.taken, latch |-> d.latch, logSec |-> d.logSec,
                 logTicks |-> d.logTicks, nowTicks |-> d.nowTicks]
      BY DEF EvrShape, OutputInv, OutputsOf
    <3>2. ASSUME NEW f, f.actions = d.actions
          PROVE  /\ setOutput(f, o).actions = f.actions
                 /\ setOutput(f, o).source = f.source
                 /\ setOutput(f, o).delays = f.delays
                 /\ setOutput(f, o).widths = f.widths
      BY DEF setOutput
    <3>3. CASE n = "source"
      <4>1. e = setOutput([d EXCEPT !.source[o] = v], o)
        BY <1>5, <3>3 DEF EVR_FEEDwrite, SelectOutputSource
      <4> QED
        BY <3>1, <3>2, <3>3, <4>1
    <3>4. CASE n = "delay"
      <4>1. e = setOutput([d EXCEPT !.delays[o] = v], o)
        BY <1>5, <3>4 DEF EVR_FEEDwrite, SetPulseDelay
      <4> QED
        BY <3>1, <3>2, <3>4, <4>1
    <3>5. CASE n = "width"
      <4>1. e = setOutput([d EXCEPT !.widths[o] = v], o)
        BY <1>5, <3>5 DEF EVR_FEEDwrite, SetPulseWidth
      <4> QED
        BY <3>1, <3>2, <3>5, <4>1
    <3> QED
      BY <1>5, <3>3, <3>4, <3>5
  <2> HIDE DEF e
  <2>2. EvrPut(d, e, <<n, o>>, v)
    BY <1>3, <1>5, <2>1, SettingPuts
  <2> QED
    BY <1>1, <1>2, <2>2 DEF e
<1>6. CASE n # "action" /\ ~(n \in {"source", "delay", "width"} /\ o \in Outputs)
  <2>1. e = d
    BY <1>6 DEF EVR_FEEDwrite, SelectOutputSource, SetPulseDelay, SetPulseWidth
  <2> QED
    BY <2>1 DEF EvrPut, Kept
<1> QED
  BY <1>4, <1>5, <1>6

LEMMA EvrReads ==
  ASSUME NEW d, EvrShape(d), NEW reg \in Registers,
         reg[1] \in EvrNames \ {"event"}
  PROVE  /\ EVR_FEEDread(d, reg).dev = d
         /\ reg \in Stored => EVR_FEEDread(d, reg).value = OfEvr(d, Shows(reg))
<1> DEFINE r == EVR_FEEDread(d, reg)
<1>3. ASSUME reg \in Stored
      PROVE  r.value = OfEvr(d, Shows(reg))
  <2>1. reg = <<reg[1], reg[2]>>
    BY DEF Registers
  <2>2. reg[1] \in {"action", "source", "delay", "width"} /\ Shows(reg) = reg
    BY <1>3, <2>1, EvrStored DEF EvrNames, Shows
  <2>3. CASE reg[1] = "action"
    <3>1. reg[2] \in DOMAIN d.actions
      BY <1>3, <2>1, <2>3, EvrStored DEF EvrShape
    <3> QED
      BY <1>3, <2>2, <2>3, <3>1, EvrHolds DEF EVR_FEEDread
  <2>4. CASE reg[1] \in {"source", "delay", "width"}
    <3>1. /\ reg[2] \in DOMAIN d.source /\ reg[2] \in DOMAIN d.delays
          /\ reg[2] \in DOMAIN d.widths
      BY <1>3, <2>1, <2>4, EvrStored DEF EvrShape, OutputInv, OutputsOf
    <3> QED
      BY <1>3, <2>2, <2>4, <3>1, EvrHolds DEF EVR_FEEDread
  <2> QED
    BY <2>2, <2>3, <2>4
<1> HIDE DEF r
<1> QED
  BY <1>3, ReadOnlyLooks DEF r

-----------------------------------------------------------------------------
Windowed == {"important", "goodState", "firstFault", "faultSeconds",
             "faultTicks", "mpsStatus"}

MpsShape(d) ==
  /\ d = [sel |-> d.sel, reg |-> d.reg, invert |-> d.invert,
          forceTrip |-> d.forceTrip, required |-> d.required]
  /\ DOMAIN d.reg = (0..5) \X (0..MpsOutputs - 1)

\* Each name has a selector of its own.
LEMMA Selectors ==
  /\ Windowed = {RegSel[n] : n \in DOMAIN RegSel}
  /\ \A n \in Windowed : Select(n) \in 0..5 /\ RegSel[Select(n) + 1] = n
  /\ \A m, n \in Windowed : Select(m) = Select(n) => m = n
<1>1. DOMAIN RegSel = 1..6
  BY DEF RegSel
<1>2. /\ RegSel[0 + 1] = "important" /\ RegSel[1 + 1] = "goodState"
      /\ RegSel[2 + 1] = "firstFault" /\ RegSel[3 + 1] = "faultSeconds"
      /\ RegSel[4 + 1] = "faultTicks" /\ RegSel[5 + 1] = "mpsStatus"
  BY DEF RegSel
<1>3. /\ RegSel[1] = "important" /\ RegSel[2] = "goodState"
      /\ RegSel[3] = "firstFault" /\ RegSel[4] = "faultSeconds"
      /\ RegSel[5] = "faultTicks" /\ RegSel[6] = "mpsStatus"
  BY DEF RegSel
<1>4. Windowed = {RegSel[n] : n \in 1..6}
  BY <1>3 DEF Windowed
<1>5. ASSUME NEW n \in Windowed
      PROVE  Select(n) \in 0..5 /\ RegSel[Select(n) + 1] = n
  <2>1. \E k \in 0..5 : RegSel[k + 1] = n
    BY <1>2 DEF Windowed
  <2> QED
    BY <2>1 DEF Select
<1> QED
  BY <1>1, <1>4, <1>5

LEMMA MpsHolds ==
  ASSUME NEW d, NEW cell \in Stored
  PROVE  /\ cell[1] = "invert" => OfMps(d, cell) = d.invert
         /\ cell[1] = "forceTrip" => OfMps(d, cell) = d.forceTrip
         /\ cell[1] = "required" => OfMps(d, cell) = d.required
         /\ cell[1] \in Windowed =>
              OfMps(d, cell) = d.reg[<<Select(cell[1]), cell[2]>>]
<1>1. cell[1] \in Windowed =>
        OfMps(d, cell) = d.reg[<<Select(cell[1]), cell[2]>>]
  BY DEF OfMps, Holds, Windowed
<1> QED
  BY <1>1 DEF OfMps, Holds

LEMMA MpsStored ==
  /\ \A n \in {"invert", "forceTrip", "required"} : \A i :
       <<n, i>> \in Stored <=> i = 0
  /\ \A n \in Windowed : \A i :
       <<n, i>> \in Stored <=> i \in 0..MpsOutputs - 1
  /\ MpsCells = {"invert", "forceTrip", "required"} \union Windowed
  BY DEF Stored, Windowed, MpsCells

LEMMA MpsKept ==
  ASSUME NEW d, NEW e, e.reg = d.reg, e.invert = d.invert,
         e.forceTrip = d.forceTrip, e.required = d.required
  PROVE  Kept(OfMps, MpsCells, d, e)
<1> SUFFICES ASSUME NEW cell \in Stored, cell[1] \in MpsCells
             PROVE  OfMps(e, cell) = OfMps(d, cell)
  BY DEF Kept
<1> QED
  BY MpsHolds, MpsStored

LEMMA MpsShapeAtStart == MpsShape(MpsStart)
  BY DEF MpsShape, MpsStart

MpsPut(d, e, reg, v) ==
  MpsShape(e) /\ (Kept(OfMps, MpsCells, d, e) \/ Put(OfMps, MpsCells, d, e, reg, v))

LEMMA WindowPuts ==
  ASSUME NEW d, MpsShape(d), NEW n \in {"important", "goodState"}, NEW i \in Nat,
         NEW v
  PROVE  MpsPut(d, mpsSetDiscrete(d, n, i, v), <<n, i>>, v % 2 ^ MpsInputs)
<1> DEFINE e == mpsSetDiscrete(d, n, i, v)
           w == v % 2 ^ MpsInputs
           at == <<Select(n), i>>
<1>1. n \in Windowed
  BY DEF Windowed
<1>2. /\ e = [sel |-> at, reg |-> [d.reg EXCEPT ![at] = w],
              invert |-> d.invert, forceTrip |-> d.forceTrip,
              required |-> d.required]
  <2>1. [d EXCEPT !.sel = at] =
          [sel |-> at, reg |-> d.reg, invert |-> d.invert,
           forceTrip |-> d.forceTrip, required |-> d.required]
    BY DEF MpsShape
  <2>2. e = [[d EXCEPT !.sel = at] EXCEPT !.reg[at] = w]
    BY <2>1 DEF mpsSetDiscrete, setReg
  <2> HIDE DEF e, w, at
  <2> QED
    BY <2>1, <2>2
<1> HIDE DEF e, w
<1>3. MpsShape(e)
  BY <1>2 DEF MpsShape
<1>4. ASSUME NEW cell \in Stored, cell[1] \in MpsCells
      PROVE  OfMps(e, cell) = IF cell = <<n, i>> THEN w ELSE OfMps(d, cell)
  <2>1. CASE cell[1] \in Windowed
    <3> DEFINE here == <<Select(cell[1]), cell[2]>>
    <3>1. here \in DOMAIN d.reg
      <4>1. cell[2] \in 0..MpsOutputs - 1
        BY <2>1, CellsAre, MpsStored
      <4> QED
        BY <2>1, <4>1, Selectors DEF MpsShape
    <3>2. here = at <=> cell = <<n, i>>
      BY <1>1, <2>1, CellsAre, Selectors
    <3>3. OfMps(e, cell) = e.reg[here] /\ OfMps(d, cell) = d.reg[here]
      BY <2>1, MpsHolds
    <3> HIDE DEF here, at
    <3>4. e.reg[here] = IF here = at THEN w ELSE d.reg[here]
      BY <1>2, <3>1
    <3> QED
      BY <3>2, <3>3, <3>4
  <2>2. CASE cell[1] \in {"invert", "forceTrip", "required"}
    <3>1. cell # <<n, i>>
      BY <2>2
    <3>2. OfMps(e, cell) = OfMps(d, cell)
      BY <1>2, <2>2, MpsHolds
    <3> QED
      BY <3>1, <3>2
  <2> QED
    BY <1>4, <2>1, <2>2, MpsStored
<1>5. CASE i \in 0..MpsOutputs - 1
  <2>1. Put(OfMps, MpsCells, d, e, <<n, i>>, w)
    BY <1>1, <1>4, <1>5, MpsStored DEF Put
  <2> QED
    BY <1>3, <2>1 DEF MpsPut, e, w
<1>6. CASE i \notin 0..MpsOutputs - 1
  <2>1. <<n, i>> \notin Stored
    BY <1>1, <1>6, MpsStored
  <2>2. Kept(OfMps, MpsCells, d, e)
    BY <1>4, <2>1 DEF Kept
  <2> QED
    BY <1>3, <2>2 DEF MpsPut, e
<1> QED
  BY <1>5, <1>6

LEMMA MpsWritePuts ==
  ASSUME NEW d, MpsShape(d), NEW reg \in Registers, reg[1] \in MpsNames,
         reg[1] \in Single => reg[2] = 0, NEW v \in Nat
  PROVE  MpsPut(d, mpsWrite(d, reg, v), reg, Adjusted(reg, v))
<1> DEFINE e == mpsWrite(d, reg, v)
           w == Adjusted(reg, v)
<1>1. reg = <<reg[1], reg[2]>> /\ reg[2] \in Nat
  BY DEF Registers
<1>2. CASE reg[1] \in {"invert", "forceTrip", "required"}
  <2>1. /\ MpsShape(e) /\ e.reg = d.reg
        /\ e.invert = IF reg[1] = "invert" THEN w ELSE d.invert
        /\ e.forceTrip = IF reg[1] = "forceTrip" THEN w ELSE d.forceTrip
        /\ e.required = IF reg[1] = "required" THEN w ELSE d.required
    <3>1. /\ reg[1] = "invert" => e = [d EXCEPT !.invert = w]
          /\ reg[1] = "forceTrip" => e = [d EXCEPT !.forceTrip = w]
          /\ reg[1] = "required" => e = [d EXCEPT !.required = w]
      BY DEF mpsWrite, Adjusted, mpsSetInvertedInputs, mpsSetForceTrip,
             mpsSetRequiredLinks
    <3> HIDE DEF e, w
    <3> QED
      BY <1>2, <3>1 DEF MpsShape
  <2>2. reg[2] = 0
    BY <1>2 DEF Single
  <2> HIDE DEF e, w
  <2>3. reg \in Stored /\ reg[1] \in MpsCells
    BY <1>1, <1>2, <2>2, MpsStored
  <2>4. ASSUME NEW cell \in Stored, cell[1] \in MpsCells
        PROVE  OfMps(e, cell) = IF cell = reg THEN w ELSE OfMps(d, cell)
    <3>1. CASE cell[1] \in Windowed
      <4>1. cell # reg
        BY <1>2, <3>1 DEF Windowed
      <4> QED
        BY <2>1, <3>1, <4>1, MpsHolds
    <3>2. CASE cell[1] \in {"invert", "forceTrip", "required"}
      <4>1. cell[2] = 0
        BY <3>2, CellsAre, MpsStored
      <4>2. cell = reg <=> cell[1] = reg[1]
        BY <1>1, <2>2, <4>1, CellsAre
      <4> QED
        BY <2>1, <3>2, <4>2, MpsHolds
    <3> QED
      BY <2>4, <3>1, <3>2, MpsStored
  <2>5. Put(OfMps, MpsCells, d, e, reg, w)
    BY <2>3, <2>4 DEF Put
  <2> QED
    BY <2>1, <2>5 DEF MpsPut, e, w
<1>3. CASE reg[1] \in {"important", "goodState"}
  <2>1. e = mpsSetDiscrete(d, reg[1], reg[2], v) /\ w = v % 2 ^ MpsInputs
    BY <1>3 DEF mpsWrite, Adjusted
  <2> HIDE DEF e, w
  <2> QED
    BY <1>1, <1>3, <2>1, WindowPuts DEF e, w
<1>4. CASE reg[1] \notin {"invert", "forceTrip", "required", "important", "goodState"}
  <2>1. e = d
    BY <1>4 DEF mpsWrite
  <2> QED
    BY <2>1 DEF MpsPut, Kept
<1> QED
  BY <1>2, <1>3, <1>4

LEMMA MpsReads ==
  ASSUME NEW d, MpsShape(d), NEW reg \in Registers, reg[1] \in MpsNames
  PROVE  /\ MpsShape(mpsRead(d, reg).dev)
         /\ reg \in Stored => mpsRead(d, reg).value = OfMps(d, Shows(reg))
         /\ Kept(OfMps, MpsCells, d, mpsRead(d, reg).dev)
<1> DEFINE r == mpsRead(d, reg)
<1>1. reg[1] \in {"invert", "forceTrip", "required"} \union Windowed
  BY Selectors DEF MpsNames
<1>2. Shows(reg) = reg
  BY <1>1 DEF Shows, Windowed
<1>3. CASE reg[1] \in {"invert", "forceTrip", "required"}
  <2>1. /\ r.dev = d
        /\ reg \in Stored => r.value = OfMps(d, reg)
    BY <1>3, MpsHolds DEF mpsRead
  <2> QED
    BY <1>2, <2>1 DEF Kept
<1>4. CASE reg[1] \in Windowed
  <2> DEFINE at == <<Select(reg[1]), reg[2]>>
  <2>1. r = getReg(d, Select(reg[1]), reg[2])
    BY <1>4 DEF mpsRead, Windowed
  <2>2. r = [dev |-> [sel |-> at, reg |-> d.reg, invert |-> d.invert,
                      forceTrip |-> d.forceTrip, required |-> d.required],
             value |-> d.reg[at]]
    BY <2>1 DEF getReg, MpsShape
  <2> HIDE DEF r
  <2>3. MpsShape(r.dev) /\ Kept(OfMps, MpsCells, d, r.dev)
    BY <2>2, MpsKept DEF MpsShape
  <2>4. reg \in Stored => r.value = OfMps(d, reg)
    BY <1>4, <2>2, MpsHolds
  <2> QED
    BY <1>2, <2>3, <2>4 DEF r
<1> QED
  BY <1>1, <1>3, <1>4

-----------------------------------------------------------------------------
(***************************************************************************)
(* Register file.  An answer is an access of it, whatever was looked at    *)
(* before; the looks before it change no cell.                             *)
(***************************************************************************)
LEMMA MemoryIs ==
  /\ \A cell \in Stored :
       /\ Memory[cell] = Holds(evg, evr, mps, ref, powerUpFlag, cell)
       /\ Memory'[cell] = Holds(evg', evr', mps', ref', powerUpFlag', cell)
  /\ Memory = [cell \in Stored |-> Memory[cell]]
  /\ Memory' = [cell \in Stored |-> Memory'[cell]]
  BY DEF Memory

LEMMA MemorySame ==
  ASSUME \A cell \in Stored : Memory'[cell] = Memory[cell]
  PROVE  Memory' = Memory
<1> DEFINE m == Memory
<1>1. /\ Memory = [cell \in Stored |-> Memory[cell]]
      /\ Memory' = [cell \in Stored |-> Memory'[cell]]
  BY MemoryIs
<1> QED
  BY <1>1

\* What devices that keep their cells make of the memory.
LEMMA MemoryApart ==
  ASSUME NEW cell \in Stored
  PROVE  /\ cell[1] \in EvgCells => Memory[cell] = OfEvg(evg, cell)
         /\ cell[1] \in EvgCells => Memory'[cell] = OfEvg(evg', cell)
         /\ cell[1] \in EvrCells => Memory[cell] = OfEvr(evr, cell)
         /\ cell[1] \in EvrCells => Memory'[cell] = OfEvr(evr', cell)
         /\ cell[1] \in MpsCells => Memory[cell] = OfMps(mps, cell)
         /\ cell[1] \in MpsCells => Memory'[cell] = OfMps(mps', cell)
         /\ cell[1] = "powerUp" => Memory[cell] = powerUpFlag
         /\ cell[1] = "powerUp" => Memory'[cell] = powerUpFlag'
         /\ cell[1] = "refclk" => Memory[cell] = ref.mgtClkSwitch0
         /\ cell[1] = "refclk" => Memory'[cell] = ref'.mgtClkSwitch0
  BY MemoryIs, HoldsApart

Held == UNCHANGED <<powerUpFlag, ref.mgtClkSwitch0>>

LEMMA MemoryStays ==
  ASSUME Held, Kept(OfEvg, EvgCells, evg, evg'), Kept(OfEvr, EvrCells, evr, evr'),
         Kept(OfMps, MpsCells, mps, mps')
  PROVE  Memory' = Memory
<1>1. ASSUME NEW cell \in Stored
      PROVE  Memory'[cell] = Memory[cell]
  <2>1. cell[1] \in EvgCells \union EvrCells \union MpsCells
                      \union {"powerUp", "refclk"}
    BY CellsAre
  <2>2. ref'.mgtClkSwitch0 = ref.mgtClkSwitch0 /\ powerUpFlag' = powerUpFlag
    BY DEF Held
  <2> QED
    BY <2>1, <2>2, MemoryApart DEF Kept
<1> QED
  BY <1>1, MemorySame

\* One cell, of one device.
Cell(reg, v) ==
  /\ reg \in Stored
  /\ \A cell \in Stored : Memory'[cell] = IF cell = reg THEN v ELSE Memory[cell]

LEMMA EvgCell ==
  ASSUME Held, UNCHANGED <<evr, mps>>, NEW reg, NEW v,
         Put(OfEvg, EvgCells, evg, evg', reg, v)
  PROVE  Cell(reg, v)
<1>1. ASSUME NEW cell \in Stored
      PROVE  Memory'[cell] = IF cell = reg THEN v ELSE Memory[cell]
  <2>1. CASE cell[1] \in EvgCells
    BY <2>1, MemoryApart DEF Put
  <2>2. CASE cell[1] \in EvrCells \union MpsCells \union {"powerUp", "refclk"}
    <3>1. cell # reg
      BY <2>2 DEF Put, EvgCells, EvrCells, MpsCells
    <3> QED
      BY <2>2, <3>1, MemoryApart DEF Held
  <2> QED
    BY <2>1, <2>2, CellsAre
<1> QED
  BY <1>1 DEF Cell, Put

LEMMA EvrCell ==
  ASSUME Held, UNCHANGED <<evg, mps>>, NEW reg, NEW v,
         Put(OfEvr, EvrCells, evr, evr', reg, v)
  PROVE  Cell(reg, v)
<1>1. ASSUME NEW cell \in Stored
      PROVE  Memory'[cell] = IF cell = reg THEN v ELSE Memory[cell]
  <2>1. CASE cell[1] \in EvrCells
    BY <2>1, MemoryApart DEF Put
  <2>2. CASE cell[1] \in EvgCells \union MpsCells \union {"powerUp", "refclk"}
    <3>1. cell # reg
      BY <2>2 DEF Put, EvgCells, EvrCells, MpsCells
    <3> QED
      BY <2>2, <3>1, MemoryApart DEF Held
  <2> QED
    BY <2>1, <2>2, CellsAre
<1> QED
  BY <1>1 DEF Cell, Put

LEMMA MpsCell ==
  ASSUME Held, UNCHANGED <<evg, evr>>, NEW reg, NEW v,
         Put(OfMps, MpsCells, mps, mps', reg, v)
  PROVE  Cell(reg, v)
<1>1. ASSUME NEW cell \in Stored
      PROVE  Memory'[cell] = IF cell = reg THEN v ELSE Memory[cell]
  <2>1. CASE cell[1] \in MpsCells
    BY <2>1, MemoryApart DEF Put
  <2>2. CASE cell[1] \in EvgCells \union EvrCells \union {"powerUp", "refclk"}
    <3>1. cell # reg
      BY <2>2 DEF Put, EvgCells, EvrCells, MpsCells
    <3> QED
      BY <2>2, <3>1, MemoryApart DEF Held
  <2> QED
    BY <2>1, <2>2, CellsAre
<1> QED
  BY <1>1 DEF Cell, Put

\* The two cells that no device holds.
LEMMA LoneCell ==
  ASSUME UNCHANGED <<evg, evr, mps>>, NEW n \in {"powerUp", "refclk"}, NEW v,
         n = "powerUp" => powerUpFlag' = v /\ UNCHANGED ref.mgtClkSwitch0,
         n = "refclk" => ref'.mgtClkSwitch0 = v /\ UNCHANGED powerUpFlag
  PROVE  Cell(<<n, 0>>, v)
<1>1. <<"powerUp", 0>> \in Stored /\ <<"refclk", 0>> \in Stored
  BY DEF Stored
<1>2. ASSUME NEW cell \in Stored
      PROVE  Memory'[cell] = IF cell = <<n, 0>> THEN v ELSE Memory[cell]
  <2>1. CASE cell[1] \in EvgCells \union EvrCells \union MpsCells
    <3>1. cell # <<n, 0>>
      BY <2>1 DEF EvgCells, EvrCells, MpsCells
    <3> QED
      BY <2>1, <3>1, MemoryApart
  <2>2. CASE cell[1] \in {"powerUp", "refclk"}
    <3>1. cell = <<n, 0>> <=> cell[1] = n
      BY <2>2, CellsAre DEF Stored
    <3>2. CASE cell[1] = "powerUp"
      <4>1. Memory[cell] = powerUpFlag /\ Memory'[cell] = powerUpFlag'
        BY <3>2, MemoryApart
      <4> QED
        BY <3>1, <3>2, <4>1
    <3>3. CASE cell[1] = "refclk"
      <4>1. Memory[cell] = ref.mgtClkSwitch0 /\ Memory'[cell] = ref'.mgtClkSwitch0
        BY <3>3, MemoryApart
      <4> QED
        BY <3>1, <3>3, <4>1
    <3> QED
      BY <2>2, <3>2, <3>3
  <2> QED
    BY <2>1, <2>2, CellsAre
<1> QED
  BY <1>1, <1>2 DEF Cell

-----------------------------------------------------------------------------
\* There is a register to answer.
Due == Len(reply) < Len(request) /\ UNCHANGED request

LEMMA WriteAnswers ==
  ASSUME Due, Op.write, Answer(Op.value),
         Memory' = Memory \/ Cell(Op.reg, Adjusted(Op.reg, Op.value))
  PROVE  RF!Access
<1>1. RF!Op = Op
  BY DEF Op, RF!Op
<1>2. ASSUME Cell(Op.reg, Adjusted(Op.reg, Op.value))
      PROVE  /\ Op.reg \in Stored
             /\ Memory' = [Memory EXCEPT ![Op.reg] = Adjusted(Op.reg, Op.value)]
  <2> DEFINE reg == Op.reg
             v == Adjusted(Op.reg, Op.value)
  <2>1. /\ Memory = [cell \in Stored |-> Memory[cell]]
        /\ Memory' = [cell \in Stored |-> Memory'[cell]]
    BY MemoryIs
  <2>2. /\ reg \in Stored
        /\ \A cell \in Stored : Memory'[cell] = IF cell = reg THEN v ELSE Memory[cell]
    BY <1>2 DEF Cell
  <2> HIDE DEF reg, v
  <2>3. Memory' = [Memory EXCEPT ![reg] = v]
    BY <2>1, <2>2
  <2> QED
    BY <2>2, <2>3 DEF reg, v
<1>3. RF!Write
  <2>1. \/ Op.reg \in Stored /\ Memory' = [Memory EXCEPT ![Op.reg] = Adjusted(Op.reg, Op.value)]
        \/ UNCHANGED Memory
    BY <1>2
  <2> QED
    BY <1>1, <2>1 DEF RF!Write, Answer
<1> QED
  BY <1>3 DEF RF!Access, Due

LEMMA ReadAnswers ==
  ASSUME Due, \E S : reply \in Seq(S), ~Op.write, NEW v, Answer(v),
         Op.reg \in Stored => v = Memory[Shows(Op.reg)],
         \A cell \in Stored :
           Memory'[cell] = IF Op.reg[1] = "patternDelay" /\ cell = <<"next", 0>>
                           THEN Memory[EvgCopied(Op.reg)] ELSE Memory[cell]
  PROVE  RF!Access
<1>1. RF!Op = Op
  BY DEF Op, RF!Op
<1>2. /\ Len(reply') = Len(reply) + 1 /\ reply'[Len(reply')] = v
      /\ \A n \in DOMAIN reply : reply'[n] = reply[n]
  <2>1. PICK S : reply \in Seq(S)
    OBVIOUS
  <2>2. reply \in Seq(S \cup {v}) /\ v \in S \cup {v}
    BY <2>1, SeqMonotonic
  <2>3. DOMAIN reply = 1..Len(reply)
    BY <2>1, LenProperties
  <2> QED
    BY <2>2, <2>3, AppendProperties DEF Answer
<1>3. Memory' = [s \in Stored |->
                   IF \E c \in Along(Op.reg) : c[1] = s
                   THEN Memory[(CHOOSE c \in Along(Op.reg) : c[1] = s)[2]]
                   ELSE Memory[s]]
  <2>1. ASSUME NEW s \in Stored
        PROVE  Memory'[s] = IF \E c \in Along(Op.reg) : c[1] = s
                            THEN Memory[(CHOOSE c \in Along(Op.reg) : c[1] = s)[2]]
                            ELSE Memory[s]
    <3>1. CASE Op.reg[1] = "patternDelay"
      <4>1. Along(Op.reg) = {<< <<"next", 0>>, EvgCopied(Op.reg) >>}
        BY <3>1 DEF Along, EvgCopied
      <4>2. (\E c \in Along(Op.reg) : c[1] = s) <=> s = <<"next", 0>>
        BY <4>1
      <4>3. s = <<"next", 0>> =>
              (CHOOSE c \in Along(Op.reg) : c[1] = s)[2] = EvgCopied(Op.reg)
        <5>1. SUFFICES ASSUME s = <<"next", 0>>
                       PROVE  (CHOOSE c \in Along(Op.reg) : c[1] = s)[2]
                                = EvgCopied(Op.reg)
          OBVIOUS
        <5> DEFINE one == CHOOSE c \in Along(Op.reg) : c[1] = s
        <5>2. one \in Along(Op.reg)
          BY <4>2, <5>1
        <5> HIDE DEF one
        <5>3. one = << <<"next", 0>>, EvgCopied(Op.reg) >>
          BY <4>1, <5>2
        <5>4. one[2] = EvgCopied(Op.reg)
          BY <5>3
        <5> QED
          BY <5>4 DEF one
      <4> QED
        BY <3>1, <4>2, <4>3
    <3>2. CASE Op.reg[1] # "patternDelay"
      BY <3>2 DEF Along
    <3> QED
      BY <3>1, <3>2
  <2>2. Memory' = [s \in Stored |-> Memory'[s]]
    BY MemoryIs
  <2> QED
    BY <2>1, <2>2
<1>4. RF!Read
  BY <1>1, <1>2, <1>3 DEF RF!Read
<1> QED
  BY <1>4 DEF RF!Access, Due

Shapes == EvgShape(evg) /\ EvrShape(evr) /\ MpsShape(mps)

LEMMA ReadyIsDue ==
  ASSUME RequestInv, Ready, \E S : reply \in Seq(S)
  PROVE  Len(reply) < Len(request)
<1>1. request \in Packets /\ Len(reply) + 1 \in DOMAIN request
  BY DEF RequestInv, Ready
<1>2. request \in Seq([reg : Names \X Nat, write : BOOLEAN, value : Nat])
  BY <1>1, PacketsAssumption
<1>3. DOMAIN request = 1..Len(request) /\ Len(request) \in Nat
  BY <1>2, LenProperties
<1>4. Len(reply) \in Nat
  BY LenProperties
<1> QED
  BY <1>1, <1>3, <1>4

LEMMA OpIsRegister ==
  ASSUME RequestInv, Ready
  PROVE  Op.reg \in Registers
<1>1. Op \in [reg : Names \X Nat, write : BOOLEAN, value : Nat]
  BY OpIsNumbered
<1> QED
  BY <1>1 DEF Registers

LEMMA WriteRegAnswers ==
  ASSUME RequestInv, Shapes, TimerInv(evg), \E S : reply \in Seq(S), WriteReg,
         UNCHANGED <<ref, request>>
  PROVE  Shapes' /\ RF!Access
<1> DEFINE reg == Op.reg
           v == Op.value
<1>1. /\ Due /\ Op.write /\ Answer(Op.value) /\ reg \in Registers /\ v \in Nat
      /\ reg[1] \in Single => reg[2] = 0
  BY ReadyIsDue, OpIsRegister, OpIsNumbered DEF WriteReg, Writes, Due
<1>2. CASE evg' = EVG_FEEDwrite(evg, reg, v) /\ UNCHANGED <<evr, mps, powerUpFlag>>
  <2>1. EvgPut(evg, evg', reg, Adjusted(reg, v))
    <3>1. EvgPut(evg, EVG_FEEDwrite(evg, reg, v), reg, Adjusted(reg, v))
      BY <1>1, EvgWritePuts DEF Shapes
    <3> QED
      BY <1>2, <3>1
  <2>2. Shapes'
    BY <1>2, <2>1 DEF Shapes, EvgPut
  <2>3. Memory' = Memory \/ Cell(reg, Adjusted(reg, v))
    <3>1. Held /\ Kept(OfEvr, EvrCells, evr, evr') /\ Kept(OfMps, MpsCells, mps, mps')
      BY <1>2 DEF Held, Kept
    <3> QED
      BY <1>2, <2>1, <3>1, MemoryStays, EvgCell DEF EvgPut
  <2> QED
    BY <1>1, <2>2, <2>3, WriteAnswers
<1>3. CASE /\ evr' = EVR_FEEDwrite(evr, reg, v) /\ reg[1] \in EvrNames \union {"now"}
           /\ UNCHANGED <<evg, mps, powerUpFlag>>
  <2>1. EvrPut(evr, evr', reg, Adjusted(reg, v))
    <3>1. EvrPut(evr, EVR_FEEDwrite(evr, reg, v), reg, Adjusted(reg, v))
      BY <1>1, <1>3, EvrWritePuts DEF Shapes
    <3> QED
      BY <1>3, <3>1
  <2>2. Shapes'
    BY <1>3, <2>1 DEF Shapes, EvrPut
  <2>3. Memory' = Memory \/ Cell(reg, Adjusted(reg, v))
    <3>1. Held /\ Kept(OfEvg, EvgCells, evg, evg') /\ Kept(OfMps, MpsCells, mps, mps')
      BY <1>3 DEF Held, Kept
    <3> QED
      BY <1>3, <2>1, <3>1, MemoryStays, EvrCell DEF EvrPut
  <2> QED
    BY <1>1, <2>2, <2>3, WriteAnswers
<1>4. CASE /\ mps' = mpsWrite(mps, reg, v) /\ reg[1] \in MpsNames
           /\ UNCHANGED <<evg, evr, powerUpFlag>>
  <2>1. MpsPut(mps, mps', reg, Adjusted(reg, v))
    <3>1. MpsPut(mps, mpsWrite(mps, reg, v), reg, Adjusted(reg, v))
      BY <1>1, <1>4, MpsWritePuts DEF Shapes
    <3> QED
      BY <1>4, <3>1
  <2>2. Shapes'
    BY <1>4, <2>1 DEF Shapes, MpsPut
  <2>3. Memory' = Memory \/ Cell(reg, Adjusted(reg, v))
    <3>1. Held /\ Kept(OfEvg, EvgCells, evg, evg') /\ Kept(OfEvr, EvrCells, evr, evr')
      BY <1>4 DEF Held, Kept
    <3> QED
      BY <1>4, <2>1, <3>1, MemoryStays, MpsCell DEF MpsPut
  <2> QED
    BY <1>1, <2>2, <2>3, WriteAnswers
<1>5. CASE /\ powerUpFlag' = (IF v = 0 THEN 0 ELSE powerUpFlag) /\ reg[1] = "powerUp"
           /\ UNCHANGED <<evg, evr, mps>>
  <2>1. Shapes'
    BY <1>5 DEF Shapes
  <2>2. reg = <<"powerUp", 0>> /\ Adjusted(reg, v) = v
    BY <1>1, <1>5 DEF Registers, Single, Adjusted
  <2>3. CASE v = 0
    <3>1. Cell(<<"powerUp", 0>>, v)
      BY <1>5, <2>3, LoneCell
    <3> QED
      BY <1>1, <2>1, <2>2, <3>1, WriteAnswers
  <2>4. CASE v # 0
    <3>1. /\ Held /\ Kept(OfEvg, EvgCells, evg, evg')
          /\ Kept(OfEvr, EvrCells, evr, evr') /\ Kept(OfMps, MpsCells, mps, mps')
      BY <1>5, <2>4 DEF Held, Kept
    <3>2. Memory' = Memory
      BY <3>1, MemoryStays
    <3> QED
      BY <1>1, <2>1, <3>2, WriteAnswers
  <2> QED
    BY <2>3, <2>4
<1> QED
  BY <1>2, <1>3, <1>4, <1>5 DEF WriteReg, Writes

LEMMA ReadRegAnswers ==
  ASSUME RequestInv, Shapes, \E S : reply \in Seq(S), ReadReg,
         UNCHANGED <<ref, request, powerUpFlag>>
  PROVE  Shapes' /\ RF!Access
<1> DEFINE reg == Op.reg
<1>1. /\ Due /\ ~Op.write /\ reg \in Registers /\ reg[1] \in Names
      /\ reg = <<reg[1], reg[2]>>
      /\ reg[1] \in Single => reg[2] = 0
  BY ReadyIsDue, OpIsRegister, OpIsNumbered DEF ReadReg, Reads, Due, Registers
<1>2. Held
  BY DEF Held
<1>3. ASSUME reg \in Stored
      PROVE  /\ Shows(reg) \in Stored
             /\ reg[1] \in EvgNames => Shows(reg)[1] \in EvgCells
             /\ reg[1] \notin EvgNames => Shows(reg) = reg
             /\ reg[1] \in EvrNames => reg[1] \in EvrCells
             /\ reg[1] \in MpsNames => reg[1] \in MpsCells
  <2>1. <<"next", 0>> \in Stored
    BY DEF Stored
  <2>2. reg[1] \in EvgCells \union EvrCells \union MpsCells
                      \union {"powerUp", "refclk"}
    BY <1>3, CellsAre
  <2>3. MpsNames = {"invert", "forceTrip", "required"} \union Windowed
    BY Selectors DEF MpsNames
  <2> HIDE DEF reg
  <2> QED
    BY <1>3, <2>1, <2>2, <2>3 DEF Shows, EvgNames, EvgCells, EvrNames, EvrCells,
                                  MpsCells, Windowed
<1>4. CASE /\ reg[1] \in EvgNames /\ UNCHANGED <<evr, mps>>
           /\ \E r \in EVG_FEEDread(evg, reg) : evg' = r.dev /\ Answer(r.value)
  <2>1. PICK r \in EVG_FEEDread(evg, reg) : evg' = r.dev /\ Answer(r.value)
    BY <1>4
  <2>2. /\ EvgShape(evg')
        /\ reg \in Stored => r.value = OfEvg(evg, Shows(reg))
        /\ reg[1] # "patternDelay" => Kept(OfEvg, EvgCells, evg, evg')
        /\ reg[1] = "patternDelay" =>
             \A cell \in Stored : cell[1] \in EvgCells =>
               OfEvg(evg', cell) = IF cell[1] = "next" THEN OfEvg(evg, EvgCopied(reg))
                                   ELSE OfEvg(evg, cell)
    <3>1. /\ EvgShape(r.dev)
          /\ reg \in Stored => r.value = OfEvg(evg, Shows(reg))
          /\ reg[1] # "patternDelay" => Kept(OfEvg, EvgCells, evg, r.dev)
          /\ reg[1] = "patternDelay" =>
               \A cell \in Stored : cell[1] \in EvgCells =>
                 OfEvg(r.dev, cell) = IF cell[1] = "next" THEN OfEvg(evg, EvgCopied(reg))
                                      ELSE OfEvg(evg, cell)
      <4> HIDE DEF reg
      <4> QED
        BY <1>1, <1>4, EvgReads DEF Shapes
    <3> QED
      BY <2>1, <3>1
  <2> HIDE DEF reg
  <2>3. Shapes'
    BY <1>4, <2>2 DEF Shapes
  <2>4. reg \in Stored => r.value = Memory[Shows(reg)]
    BY <1>3, <1>4, <2>2, MemoryApart
  <2>5. ASSUME NEW cell \in Stored
        PROVE  Memory'[cell] = IF reg[1] = "patternDelay" /\ cell = <<"next", 0>>
                               THEN Memory[EvgCopied(reg)] ELSE Memory[cell]
    <3>1. CASE reg[1] = "patternDelay"
      <4>1. cell = <<"next", 0>> <=> cell[1] = "next"
        BY CellsAre, EvgStored
      <4>2. EvgCopied(reg) \in Stored /\ EvgCopied(reg)[1] \in EvgCells
        BY <1>1, <3>1, EvgStored DEF EvgCopied, EvgCells
      <4>3. Memory[EvgCopied(reg)] = OfEvg(evg, EvgCopied(reg))
        BY <4>2, MemoryApart
      <4>4. CASE cell[1] \in EvgCells
        <5>1. Memory'[cell] = OfEvg(evg', cell) /\ Memory[cell] = OfEvg(evg, cell)
          BY <4>4, MemoryApart
        <5> QED
          BY <2>2, <3>1, <4>1, <4>3, <4>4, <5>1
      <4>5. CASE cell[1] \in EvrCells \union MpsCells \union {"powerUp", "refclk"}
        <5>1. cell[1] # "next"
          BY <4>5 DEF EvrCells, MpsCells
        <5>2. Memory'[cell] = Memory[cell]
          BY <1>2, <1>4, <4>5, MemoryApart DEF Held
        <5> QED
          BY <4>1, <5>1, <5>2
      <4> QED
        BY <4>4, <4>5, CellsAre
    <3>2. CASE reg[1] # "patternDelay"
      <4>1. Kept(OfEvr, EvrCells, evr, evr') /\ Kept(OfMps, MpsCells, mps, mps')
        BY <1>4 DEF Kept
      <4>2. Memory' = Memory
        BY <1>2, <2>2, <3>2, <4>1, MemoryStays
      <4> QED
        BY <3>2, <4>2
    <3> QED
      BY <3>1, <3>2
  <2> QED
    BY <1>1, <2>1, <2>3, <2>4, <2>5, ReadAnswers DEF reg
<1>5. ASSUME reg[1] \notin EvgNames, NEW v, Answer(v),
             reg \in Stored => v = Memory[reg],
             Kept(OfEvg, EvgCells, evg, evg'), Kept(OfEvr, EvrCells, evr, evr'),
             Kept(OfMps, MpsCells, mps, mps')
      PROVE  RF!Access
  <2>1. Memory' = Memory
    BY <1>2, <1>5, MemoryStays
  <2>2. reg \in Stored => v = Memory[Shows(reg)]
    BY <1>3, <1>5
  <2>3. reg[1] # "patternDelay"
    BY <1>5 DEF EvgNames
  <2> QED
    BY <1>1, <1>5, <2>1, <2>2, <2>3, ReadAnswers
<1>6. CASE /\ reg[1] \in EvrNames \ {"event"} /\ UNCHANGED <<evg, mps>>
           /\ \E r \in {EVR_FEEDread(evr, reg)} : evr' = r.dev /\ Answer(r.value)
  <2> DEFINE r == EVR_FEEDread(evr, reg)
  <2>1. evr' = r.dev /\ Answer(r.value)
    BY <1>6
  <2>2. /\ r.dev = evr
        /\ reg \in Stored => r.value = OfEvr(evr, Shows(reg))
    <3> HIDE DEF reg
    <3> QED
      BY <1>1, <1>6, EvrReads DEF Shapes
  <2> HIDE DEF r
  <2>3. reg[1] \notin EvgNames
    BY <1>6 DEF EvgNames, EvrNames
  <2>4. reg \in Stored => r.value = Memory[reg]
    BY <1>3, <1>6, <2>2, <2>3, MemoryApart
  <2>5. Shapes' /\ Kept(OfEvr, EvrCells, evr, evr')
    BY <1>6, <2>1, <2>2 DEF Shapes, Kept
  <2>6. Kept(OfEvg, EvgCells, evg, evg') /\ Kept(OfMps, MpsCells, mps, mps')
    BY <1>6 DEF Kept
  <2> QED
    BY <1>5, <2>1, <2>3, <2>4, <2>5, <2>6
<1>7. CASE /\ reg[1] \in MpsNames /\ UNCHANGED <<evg, evr>>
           /\ \E r \in {mpsRead(mps, reg)} : mps' = r.dev /\ Answer(r.value)
  <2> DEFINE r == mpsRead(mps, reg)
  <2>1. mps' = r.dev /\ Answer(r.value)
    BY <1>7
  <2>2. /\ MpsShape(r.dev) /\ Kept(OfMps, MpsCells, mps, r.dev)
        /\ reg \in Stored => r.value = OfMps(mps, Shows(reg))
    <3> HIDE DEF reg
    <3> QED
      BY <1>1, <1>7, MpsReads DEF Shapes
  <2> HIDE DEF r
  <2>3. reg[1] \notin EvgNames
    BY <1>7, Selectors DEF EvgNames, MpsNames, Windowed
  <2>4. reg \in Stored => r.value = Memory[reg]
    BY <1>3, <1>7, <2>2, <2>3, MemoryApart
  <2>5. Shapes' /\ Kept(OfMps, MpsCells, mps, mps')
    BY <1>7, <2>1, <2>2 DEF Shapes
  <2>6. Kept(OfEvg, EvgCells, evg, evg') /\ Kept(OfEvr, EvrCells, evr, evr')
    BY <1>7 DEF Kept
  <2> QED
    BY <1>5, <2>1, <2>3, <2>4, <2>5, <2>6
<1>8. ASSUME NEW v, Answer(v), UNCHANGED <<evg, evr, mps>>,
             \/ reg[1] = "powerUp" /\ v = powerUpFlag
             \/ reg[1] = "refclk" /\ v = ref.mgtClkSwitch0
             \/ reg[1] \in {"si570", "reboot"}
      PROVE  Shapes' /\ RF!Access
  <2>1. Shapes'
    BY <1>8 DEF Shapes
  <2>2. reg[1] \notin EvgNames
    BY <1>8 DEF EvgNames
  <2>3. reg \in Stored => v = Memory[reg]
    <3>1. CASE reg[1] \in {"si570", "reboot"}
      BY <1>1, <3>1, EvrStored
    <3>2. CASE reg[1] = "powerUp" /\ v = powerUpFlag
      BY <3>2, MemoryApart
    <3>3. CASE reg[1] = "refclk" /\ v = ref.mgtClkSwitch0
      BY <3>3, MemoryApart
    <3> QED
      BY <1>8, <3>1, <3>2, <3>3
  <2>4. /\ Kept(OfEvg, EvgCells, evg, evg') /\ Kept(OfEvr, EvrCells, evr, evr')
        /\ Kept(OfMps, MpsCells, mps, mps')
    BY <1>8 DEF Kept
  <2> QED
    BY <1>5, <1>8, <2>1, <2>2, <2>3, <2>4
<1>9. CASE Reads({"powerUp"}) /\ Answer(powerUpFlag) /\ UNCHANGED <<evg, evr, mps>>
  BY <1>8, <1>9 DEF Reads
<1>10. CASE Reads({"refclk"}) /\ Answer(ref.mgtClkSwitch0) /\ UNCHANGED <<evg, evr, mps>>
  BY <1>8, <1>10 DEF Reads
<1>11. CASE Reads({"si570"}) /\ Answer(si570Read(ref, Op.reg[2]))
                            /\ UNCHANGED <<evg, evr, mps>>
  BY <1>8, <1>11 DEF Reads
<1>12. CASE Reads({"reboot"}) /\ Answer(0) /\ UNCHANGED <<evg, evr, mps>>
  BY <1>8, <1>12 DEF Reads
<1> QED
  BY <1>4, <1>6, <1>7, <1>9, <1>10, <1>11, <1>12 DEF ReadReg, Reads

-----------------------------------------------------------------------------
\* A register under way is the one to be answered next.
CallInv ==
  /\ Len(reply) <= Len(request)
  /\ call.stage \in UnderWay =>
       /\ Len(reply) < Len(request)
       /\ call.stage \in Looking => ~Op.write /\ Op.reg[1] = "now"
       /\ call.stage = "event" => ~Op.write /\ Op.reg[1] = "event"
       /\ call.stage = "connect" => Op.write /\ Op.reg = <<"refclk", 0>>
       /\ call.stage = "program" => Op.write /\ Op.reg[1] = "si570"

FileInv == Shapes /\ CallInv

\* What the other proofs know.
Known ==
  /\ RequestInv /\ TimerInv(evg) /\ ReferenceInv
  /\ \E S : reply \in Seq(S)

LEMMA Lengths ==
  ASSUME Known
  PROVE  /\ Len(request) \in Nat /\ Len(reply) \in Nat
         /\ Len(request) = 0 <=> request = <<>>
         /\ Len(reply) = 0 <=> reply = <<>>
<1>1. request \in Seq([reg : Names \X Nat, write : BOOLEAN, value : Nat])
  <2>1. request \in Packets \union {<<>>}
    BY DEF Known, RequestInv
  <2> QED
    BY <2>1, PacketsAssumption, EmptySeq
<1>2. PICK S : reply \in Seq(S)
  BY DEF Known
<1>3. \A T : \A q \in Seq(T) : Len(q) \in Nat /\ (Len(q) = 0 <=> q = <<>>)
  BY LenProperties, EmptySeq
<1> QED
  BY <1>1, <1>2, <1>3

\* No cell changes when no device or only what no register shows does.
LEMMA AllKept ==
  ASSUME UNCHANGED <<evg, mps, powerUpFlag, ref.mgtClkSwitch0>>,
         Kept(OfEvr, EvrCells, evr, evr')
  PROVE  Memory' = Memory
<1>1. /\ Held /\ Kept(OfEvg, EvgCells, evg, evg') /\ Kept(OfMps, MpsCells, mps, mps')
  BY DEF Held, Kept
<1> QED
  BY <1>1, MemoryStays

LEMMA EvrBesides ==
  ASSUME EvrShape(evr), NEW f, Besides(evr, f), f.actions = evr.actions, evr' = f
  PROVE  EvrShape(evr)' /\ Kept(OfEvr, EvrCells, evr, evr')
<1>1. OutputInv(f)
  BY OtherOutputsKeep DEF EvrShape
<1>2. /\ f.source = evr.source /\ f.delays = evr.delays /\ f.widths = evr.widths
  BY DEF Besides
<1>3. EvrShape(f) /\ Kept(OfEvr, EvrCells, evr, f)
  BY <1>1, <1>2, EvrKept DEF EvrShape
<1> QED
  BY <1>3

LEMMA NowTicksKeep ==
  ASSUME EvrShape(evr), NEW t, evr' \in {evr, [evr EXCEPT !.nowTicks = t]}
  PROVE  EvrShape(evr)' /\ Kept(OfEvr, EvrCells, evr, evr')
<1>1. CASE evr' = evr
  BY <1>1 DEF EvrShape, OutputInv, OutputsOf, Driven, Pulse, Kept
<1>2. CASE evr' = [evr EXCEPT !.nowTicks = t]
  <2> DEFINE f == [evr EXCEPT !.nowTicks = t]
  <2>1. Besides(evr, f) /\ f.actions = evr.actions
    <3>1. Besides(evr, f)
      <4>1. OutputsOf(evr)
        BY DEF EvrShape, OutputInv
      <4> QED
        BY <4>1 DEF Besides, OutputsOf
    <3>2. f.actions = evr.actions
      OBVIOUS
    <3> QED
      BY <3>1, <3>2
  <2> HIDE DEF f
  <2>2. evr' = f
    BY <1>2 DEF f
  <2> QED
    BY <2>1, <2>2, EvrBesides
<1> QED
  BY <1>1, <1>2

LEMMA LogKeeps ==
  ASSUME EvrShape(evr), NEW code, evr' = Logged(evr, code, clock)
  PROVE  EvrShape(evr)' /\ Kept(OfEvr, EvrCells, evr, evr')
<1> DEFINE f == Logged(evr, code, clock)
<1>1. Besides(evr, f) /\ f.actions = evr.actions
  <2>1. Besides(evr, f)
    BY DEF Logged, Besides, EvrShape, OutputInv, OutputsOf
  <2>2. f.actions = evr.actions
    BY DEF Logged
  <2> QED
    BY <2>1, <2>2
<1> HIDE DEF f
<1>2. evr' = f
  BY DEF f
<1> QED
  BY <1>1, <1>2, EvrBesides

\* The register is answered, and the call over.
LEMMA CallOver ==
  ASSUME Known, Due, NEW v, Answer(v), call'.stage \in {"idle", "reconnect"}
  PROVE  CallInv'
<1>1. PICK S : reply \in Seq(S)
  BY DEF Known
<1>2. Len(reply') = Len(reply) + 1
  <2>1. reply \in Seq(S \cup {v}) /\ v \in S \cup {v}
    BY <1>1, SeqMonotonic
  <2> QED
    BY <2>1, AppendProperties DEF Answer
<1>3. /\ Len(reply) \in Nat /\ Len(request) \in Nat /\ Len(reply) < Len(request)
      /\ request' = request
  BY Lengths DEF Due
<1>4. Len(reply') <= Len(request')
  BY <1>2, <1>3
<1> QED
  BY <1>4 DEF CallInv, UnderWay, Looking

\* It is looked at once more.
LEMMA LookOnly ==
  ASSUME Shapes, UNCHANGED <<evg, mps, request, reply, powerUpFlag, ref.mgtClkSwitch0>>,
         EvrShape(evr)', Kept(OfEvr, EvrCells, evr, evr')
  PROVE  Shapes' /\ UNCHANGED <<Memory, request, reply>>
<1>1. Memory' = Memory
  BY AllKept
<1>2. Shapes'
  BY DEF Shapes
<1> QED
  BY <1>1, <1>2

Mapped == FileInv' /\ [RF!Next]_<<Memory, request, reply>>

\* A step of a read that takes several.
LEMMA PartMaps ==
  ASSUME Known, FileInv, UNCHANGED <<evg, mps, ref, powerUpFlag, request>>,
         EvrShape(evr)', Kept(OfEvr, EvrCells, evr, evr'),
         Len(reply) < Len(request), ~Op.write, Op.reg[1] \in {"now", "event"},
         \/ \E v : Answer(v) /\ call' = Idle
         \/ /\ UNCHANGED reply
            /\ call'.stage \in IF Op.reg[1] = "now" THEN Looking ELSE {"event"}
  PROVE  Mapped
<1>1. Shapes /\ CallInv
  BY DEF FileInv
<1>2. Shapes'
  BY <1>1 DEF Shapes
<1>3. Memory' = Memory
  BY AllKept
<1>4. CASE \E v : Answer(v) /\ call' = Idle
  <2>1. PICK v : Answer(v) /\ call' = Idle
    BY <1>4
  <2>2. Due
    BY DEF Due
  <2>3. Op.reg \notin Stored
    BY DEF Stored
  <2>4. RF!Access
    <3>1. \A cell \in Stored :
            Memory'[cell] = IF Op.reg[1] = "patternDelay" /\ cell = <<"next", 0>>
                            THEN Memory[EvgCopied(Op.reg)] ELSE Memory[cell]
      BY <1>3
    <3> QED
      BY <2>1, <2>2, <2>3, <3>1, ReadAnswers DEF Known
  <2>5. CallInv'
    BY <2>1, <2>2, CallOver DEF Idle
  <2> QED
    BY <1>2, <2>4, <2>5 DEF Mapped, FileInv, RF!Next
<1>5. CASE /\ UNCHANGED reply
           /\ call'.stage \in IF Op.reg[1] = "now" THEN Looking ELSE {"event"}
  <2>1. CallInv'
    <3>1. Op' = Op
      BY <1>5 DEF Op
    <3> QED
      BY <1>1, <1>5, <3>1 DEF CallInv, UnderWay, Looking
  <2> QED
    BY <1>2, <1>3, <1>5, <2>1 DEF Mapped, FileInv
<1> QED
  BY <1>4, <1>5

LEMMA GetTimeMaps ==
  ASSUME Known, FileInv, GetTime
  PROVE  Mapped
<1>1. Shapes /\ EvrShape(evr) /\ CallInv
  BY DEF FileInv, Shapes
<1>2. UNCHANGED <<evg, mps, ref, powerUpFlag, request>>
  BY DEF GetTime, ReadNow, ReadTicks, ReadSecondsAgain, nowOnly, evrOnly
<1>3. EvrShape(evr)' /\ Kept(OfEvr, EvrCells, evr, evr')
  <2>1. \E t : evr' \in {evr, [evr EXCEPT !.nowTicks = t]}
    BY DEF GetTime, ReadNow, ReadTicks, ReadSecondsAgain
  <2> QED
    BY <1>1, <2>1, NowTicksKeep
<1>4. /\ Len(reply) < Len(request) /\ ~Op.write /\ Op.reg[1] = "now"
  <2>1. CASE ReadNow
    BY <2>1, ReadyIsDue DEF ReadNow, Reads, Known
  <2>2. CASE ReadTicks \/ ReadSecondsAgain
    BY <1>1, <2>2 DEF ReadTicks, ReadSecondsAgain, CallInv, UnderWay, Looking
  <2> QED
    BY <2>1, <2>2 DEF GetTime
<1>5. \/ \E v : Answer(v) /\ call' = Idle
      \/ UNCHANGED reply /\ call'.stage \in Looking
  <2>1. CASE ReadNow
    <3>1. CASE valid
      <4>1. call' = [Stage("ticks") EXCEPT !.s0 = Seconds(clock)] /\ UNCHANGED reply
        BY <2>1, <3>1 DEF ReadNow
      <4> QED
        BY <4>1 DEF Stage, Idle, Looking
    <3>2. CASE ~valid
      BY <2>1, <3>2 DEF ReadNow, Reads, Ready
    <3> QED
      BY <3>1, <3>2
  <2>2. CASE ReadTicks
    BY <2>2 DEF ReadTicks, Known, ReferenceInv, Looking
  <2>3. CASE ReadSecondsAgain
    BY <2>3 DEF ReadSecondsAgain, Known, ReferenceInv, Looking
  <2> QED
    BY <2>1, <2>2, <2>3 DEF GetTime
<1> QED
  BY <1>2, <1>3, <1>4, <1>5, PartMaps

LEMMA GetEventMaps ==
  ASSUME Known, FileInv, GetEvent
  PROVE  Mapped
<1>1. Shapes /\ EvrShape(evr) /\ OutputsOf(evr) /\ CallInv
  BY DEF FileInv, Shapes, EvrShape, OutputInv
<1>2. UNCHANGED <<evg, mps, ref, powerUpFlag, request>>
  BY DEF GetEvent, LookForEvent, TakeEvent, evrOnly
<1>3. CASE LookForEvent
  <2>1. Len(reply) < Len(request) /\ ~Op.write /\ Op.reg[1] = "event"
    BY <1>3, ReadyIsDue DEF LookForEvent, Reads, Known
  <2>2. UNCHANGED <<evr, reply>> /\ call'.stage = "event"
    BY <1>3 DEF LookForEvent, Stage, Idle
  <2>3. EvrShape(evr)' /\ Kept(OfEvr, EvrCells, evr, evr')
    BY <1>1, <2>2, NowTicksKeep
  <2> QED
    BY <1>2, <2>1, <2>2, <2>3, PartMaps
<1>4. CASE TakeEvent
  <2>1. /\ Len(reply) < Len(request) /\ ~Op.write /\ Op.reg[1] = "event"
        /\ Answer(call.s0) /\ call' = Idle
    BY <1>1, <1>4 DEF TakeEvent, CallInv, UnderWay
  <2>2. PICK f : f = GetFifoEvent(evr, call.s0) /\ evr' = f
    BY <1>4 DEF TakeEvent
  <2>3. Besides(evr, f) /\ f.actions = evr.actions
    BY <1>1, <2>2, EventTaken
  <2>4. EvrShape(evr)' /\ Kept(OfEvr, EvrCells, evr, evr')
    BY <1>1, <2>2, <2>3, EvrBesides
  <2> QED
    BY <1>2, <2>1, <2>4, PartMaps
<1> QED
  BY <1>3, <1>4 DEF GetEvent

LEMMA SetReferenceMaps ==
  ASSUME Known, FileInv, SetReference
  PROVE  Mapped
<1>1. Shapes /\ EvrShape(evr) /\ CallInv /\ UNCHANGED <<evg, evr, mps, powerUpFlag, request>>
  BY DEF FileInv, Shapes, SetReference, SetMgtClkSwitch0, Connect, WriteSi570,
         Program, Reconnect, refOnly
<1>2. Shapes'
  BY <1>1 DEF Shapes
<1>3. Kept(OfEvr, EvrCells, evr, evr')
  BY <1>1 DEF Kept
<1>4. ASSUME ref'.mgtClkSwitch0 = ref.mgtClkSwitch0
      PROVE  Memory' = Memory
  BY <1>1, <1>3, <1>4, AllKept
\* A step that only looks, or prepares.
<1>5. ASSUME UNCHANGED reply, ref'.mgtClkSwitch0 = ref.mgtClkSwitch0, CallInv'
      PROVE  Mapped
  BY <1>1, <1>2, <1>4, <1>5 DEF Mapped, FileInv
<1>6. ASSUME Len(reply) < Len(request), Op.write, Answer(Op.value),
             call'.stage \in {"idle", "reconnect"},
             \/ ref'.mgtClkSwitch0 = ref.mgtClkSwitch0
             \/ ref'.mgtClkSwitch0 = Op.value /\ Op.reg = <<"refclk", 0>>
      PROVE  Mapped
  <2>1. Due
    BY <1>1, <1>6 DEF Due
  <2>2. Memory' = Memory \/ Cell(Op.reg, Adjusted(Op.reg, Op.value))
    <3>1. CASE ref'.mgtClkSwitch0 = ref.mgtClkSwitch0
      BY <1>4, <3>1
    <3>2. CASE ref'.mgtClkSwitch0 = Op.value /\ Op.reg = <<"refclk", 0>>
      <4>1. Cell(<<"refclk", 0>>, Op.value)
        BY <1>1, <3>2, LoneCell
      <4>2. Adjusted(Op.reg, Op.value) = Op.value
        BY <3>2 DEF Adjusted
      <4> QED
        BY <3>2, <4>1, <4>2
    <3> QED
      BY <1>6, <3>1, <3>2
  <2>3. RF!Access
    BY <1>6, <2>1, <2>2, WriteAnswers
  <2>4. CallInv'
    BY <1>6, <2>1, CallOver
  <2> QED
    BY <1>2, <2>3, <2>4 DEF Mapped, FileInv, RF!Next
<1>7. \A i : /\ ConnectOutputToInput(ref, i).mgtClkSwitch0 = ref.mgtClkSwitch0
             /\ \A w : si570Write(ref, i, w).mgtClkSwitch0 = ref.mgtClkSwitch0
  <2>1. /\ \A v : [ref EXCEPT !.on = v].mgtClkSwitch0 = ref.mgtClkSwitch0
        /\ \A v, u : [ref EXCEPT !.input = v, !.on = u].mgtClkSwitch0
                       = ref.mgtClkSwitch0
        /\ \A v : [ref EXCEPT !.scratch7_9 = v].mgtClkSwitch0 = ref.mgtClkSwitch0
        /\ \A v : [ref EXCEPT !.frequency = v].mgtClkSwitch0 = ref.mgtClkSwitch0
    OBVIOUS
  <2> QED
    BY <2>1 DEF ConnectOutputToInput, si570Write
<1>8. CASE Ready /\ (SetMgtClkSwitch0 \/ WriteSi570)
  <2>1. /\ Len(reply) < Len(request) /\ call.stage = "idle"
        /\ Op.reg \in Registers
        /\ Op.reg[1] = "refclk" => Op.reg = <<"refclk", 0>>
    <3>1. Op.reg \in Registers /\ (Op.reg[1] \in Single => Op.reg[2] = 0)
      BY <1>8, OpIsRegister, OpIsNumbered DEF Known
    <3> QED
      BY <1>8, <3>1, ReadyIsDue, ReadyFacts DEF Known, Registers, Single
  <2>2. CASE Answer(Op.value) /\ UNCHANGED call /\ Op.write
             /\ ref'.mgtClkSwitch0 = ref.mgtClkSwitch0
    BY <1>6, <2>1, <2>2
  <2>3. ASSUME NEW s \in {"connect", "program"},
               call' = Stage(s), UNCHANGED reply, Op.write,
               ref' = ConnectOutputToInput(ref, DISABLE_OUTPUT),
               Op.reg[1] = IF s = "connect" THEN "refclk" ELSE "si570"
        PROVE  Mapped
    <3>1. call'.stage = s
      BY <2>3 DEF Stage, Idle
    <3>2. Op' = Op
      BY <1>1, <2>3 DEF Op
    <3>3. CallInv'
      BY <1>1, <2>1, <2>3, <3>1, <3>2 DEF CallInv, UnderWay, Looking
    <3> QED
      BY <1>5, <1>7, <2>3, <3>3
  <2>4. CASE SetMgtClkSwitch0
    <3>1. CASE Op.value <= DISABLE_OUTPUT /\ Op.value # ref.mgtClkSwitch0
      BY <2>3, <2>4, <3>1 DEF SetMgtClkSwitch0
    <3>2. CASE ~(Op.value <= DISABLE_OUTPUT /\ Op.value # ref.mgtClkSwitch0)
      BY <2>2, <2>4, <3>2 DEF SetMgtClkSwitch0
    <3> QED
      BY <3>1, <3>2
  <2>5. CASE WriteSi570
    <3>1. CASE ref.mgtClkSwitch0 = SI570_CLK /\ Op.reg[2] = 1
      BY <2>3, <2>5, <3>1 DEF WriteSi570
    <3>2. CASE ~(ref.mgtClkSwitch0 = SI570_CLK /\ Op.reg[2] = 1)
      BY <1>7, <2>2, <2>5, <3>2 DEF WriteSi570
    <3> QED
      BY <3>1, <3>2
  <2> QED
    BY <1>8, <2>4, <2>5
<1>9. CASE Connect
  <2>1. /\ Len(reply) < Len(request) /\ Op.write /\ Op.reg = <<"refclk", 0>>
    BY <1>1, <1>9 DEF Connect, CallInv, UnderWay
  <2>2. ref'.mgtClkSwitch0 = Op.value
    BY <1>9 DEF Connect, Known, ReferenceInv, ConnectOutputToInput
  <2>3. Answer(Op.value) /\ call'.stage = "idle"
    BY <1>9 DEF Connect, Idle
  <2> QED
    BY <1>6, <2>1, <2>2, <2>3
<1>10. CASE Program
  <2>1. /\ Len(reply) < Len(request) /\ Op.write
    BY <1>1, <1>10 DEF Program, CallInv, UnderWay
  <2>2. ref'.mgtClkSwitch0 = ref.mgtClkSwitch0
    BY <1>7, <1>10 DEF Program
  <2>3. Answer(Op.value) /\ call'.stage = "reconnect"
    BY <1>10 DEF Program, Stage, Idle
  <2> QED
    BY <1>6, <2>1, <2>2, <2>3
<1>11. CASE Reconnect
  <2>1. ref'.mgtClkSwitch0 = ref.mgtClkSwitch0 /\ UNCHANGED reply /\ call' = Idle
    BY <1>7, <1>11 DEF Reconnect
  <2>2. CallInv'
    BY <1>1, <2>1 DEF CallInv, Idle, UnderWay, Looking
  <2> QED
    BY <1>5, <2>1, <2>2
<1> QED
  BY <1>8, <1>9, <1>10, <1>11 DEF SetReference, SetMgtClkSwitch0, WriteSi570

LEMMA PacketMaps ==
  ASSUME Known, FileInv, Known',
         \/ \E p \in Packets : Receive(p)
         \/ Send \/ Hardware \/ UNCHANGED vars
  PROVE  Mapped
<1>1. Shapes /\ EvrShape(evr) /\ CallInv
  BY DEF FileInv, Shapes
<1>2. EvrShape(evr)' /\ Kept(OfEvr, EvrCells, evr, evr')
  <2>1. CASE LogEvent
    <3>1. PICK code : evr' = Logged(evr, code, clock)
      BY <2>1 DEF LogEvent
    <3> QED
      BY <1>1, <3>1, LogKeeps
  <2>2. CASE ~LogEvent
    <3>1. evr' = evr
      BY <2>2 DEF Receive, Send, Hardware, Advance, Drop, vars
    <3> QED
      BY <1>1, <3>1, NowTicksKeep
  <2> QED
    BY <2>1, <2>2
<1>3. UNCHANGED <<evg, mps, ref, powerUpFlag, call>>
  BY DEF Receive, Send, Hardware, Advance, Drop, LogEvent, vars
<1>4. Memory' = Memory /\ Shapes'
  BY <1>1, <1>2, <1>3, AllKept DEF Shapes
<1>5. CASE \E p \in Packets : Receive(p)
  <2>1. request = <<>> /\ reply' = <<>> /\ call' = Idle
    BY <1>3, <1>5 DEF Receive
  <2>2. reply = <<>>
    BY <1>1, <2>1, Lengths DEF CallInv
  <2>3. CallInv'
    <3>1. request' \in Seq([reg : Names \X Nat, write : BOOLEAN, value : Nat])
      <4>1. request' \in Packets \union {<<>>}
        BY DEF Known, RequestInv
      <4> QED
        BY <4>1, PacketsAssumption, EmptySeq
    <3>2. Len(reply') = 0 /\ Len(request') \in Nat
      BY <2>1, <3>1, LenProperties, EmptySeq
    <3> QED
      BY <2>1, <3>2 DEF CallInv, Idle, UnderWay, Looking
  <2>4. RF!Arrive \/ UNCHANGED <<request, reply>>
    BY <1>4, <2>1, <2>2 DEF RF!Arrive
  <2> QED
    BY <1>4, <2>3, <2>4 DEF Mapped, FileInv, RF!Next
<1>6. CASE Send
  <2>1. /\ request # <<>> /\ Len(reply) = Len(request)
        /\ request' = <<>> /\ reply' = <<>> /\ call' = Idle
    BY <1>3, <1>6 DEF Send
  <2>2. CallInv'
    BY <2>1 DEF CallInv, Idle, UnderWay, Looking
  <2>3. RF!Send
    BY <1>4, <2>1 DEF RF!Send
  <2> QED
    BY <1>4, <2>2, <2>3 DEF Mapped, FileInv, RF!Next
<1>7. CASE Hardware \/ UNCHANGED vars
  <2>1. UNCHANGED <<request, reply, call>>
    BY <1>7 DEF Hardware, Advance, Drop, LogEvent, vars
  <2>2. Op' = Op
    BY <2>1 DEF Op
  <2>3. CallInv'
    BY <1>1, <2>1, <2>2 DEF CallInv
  <2> QED
    BY <1>4, <2>1, <2>3 DEF Mapped, FileInv
<1> QED
  BY <1>5, <1>6, <1>7

LEMMA RebootMaps ==
  ASSUME Known, FileInv, Reboot
  PROVE  Mapped
<1>1. CASE Op.value = 100
  <2>1. /\ evg' = EvgStart /\ evr' = EvrStart /\ mps' = MpsStart
        /\ ref' = RefStart /\ powerUpFlag' = 1
        /\ request' = <<>> /\ reply' = <<>> /\ call' = Stage("reconnect")
    BY <1>1 DEF Reboot
  <2>2. Shapes'
    BY <2>1, EvgShapeAtStart, EvrShapeAtStart, MpsShapeAtStart DEF Shapes
  <2>3. Memory' = AtPowerUp
    BY <2>1 DEF Memory, AtPowerUp
  <2>4. CallInv'
    BY <2>1 DEF CallInv, Stage, Idle, UnderWay, Looking
  <2>5. RF!Restart
    BY <2>1, <2>3 DEF RF!Restart
  <2> QED
    BY <2>2, <2>4, <2>5 DEF Mapped, FileInv, RF!Next
<1>2. CASE Op.value # 100
  <2>1. /\ Ready /\ Op.write /\ Answer(Op.value)
        /\ UNCHANGED <<evg, evr, mps, ref, powerUpFlag, request, call>>
    BY <1>2 DEF Reboot
  <2>2. Due /\ call'.stage = "idle"
    BY <2>1, ReadyIsDue, ReadyFacts DEF Due, Known
  <2>3. Memory' = Memory
    <3>1. Kept(OfEvr, EvrCells, evr, evr')
      BY <2>1 DEF Kept
    <3> QED
      BY <2>1, <3>1, AllKept
  <2>4. RF!Access
    BY <2>1, <2>2, <2>3, WriteAnswers
  <2>5. CallInv'
    BY <2>1, <2>2, CallOver
  <2>6. Shapes'
    BY <2>1 DEF Shapes, FileInv
  <2> QED
    BY <2>4, <2>5, <2>6 DEF Mapped, FileInv, RF!Next
<1> QED
  BY <1>1, <1>2

LEMMA FileStep ==
  ASSUME Known, FileInv, Known', [Next]_vars
  PROVE  Mapped
<1>1. CASE OneLook
  <2>1. /\ Ready /\ UNCHANGED <<ref, request, call>>
        /\ WriteReg \/ (ReadReg /\ UNCHANGED powerUpFlag)
        /\ \E v : Answer(v)
    BY <1>1 DEF OneLook, WriteReg, ReadReg, Writes, Reads
  <2>2. Shapes' /\ RF!Access
    BY <2>1, WriteRegAnswers, ReadRegAnswers DEF Known, FileInv
  <2>3. Due /\ call'.stage = "idle"
    BY <2>1, ReadyIsDue, ReadyFacts DEF Due, Known
  <2>4. CallInv'
    BY <2>1, <2>3, CallOver
  <2> QED
    BY <2>2, <2>4 DEF Mapped, FileInv, RF!Next
<1> QED
  BY <1>1, GetTimeMaps, GetEventMaps, SetReferenceMaps, RebootMaps, PacketMaps DEF Next, Serve

\* Behind selectors, shadow copies and shared static variables the clients
\* see one register file: a read tells what the last accepted write of that
\* register left, whoever wrote it and whatever was accessed in between.
THEOREM ReadsBackCorrect == Spec => ReadsBack
<1>1. Init => Known /\ FileInv /\ RF!Init
  <2> SUFFICES ASSUME Init
               PROVE  Known /\ FileInv /\ RF!Init
    OBVIOUS
  <2>1. Known
    <3>1. reply \in Seq({})
      BY EmptySeq DEF Init
    <3> QED
      BY <3>1, RequestInit, TimersAtStart, ReferenceInit DEF Known, Init
  <2>2. Shapes
    BY EvgShapeAtStart, EvrShapeAtStart, MpsShapeAtStart DEF Shapes, Init
  <2>3. CallInv
    BY DEF CallInv, Init, Stage, Idle, UnderWay, Looking
  <2>4. RF!Init
    BY DEF RF!Init, Init, Memory, AtPowerUp
  <2> QED
    BY <2>1, <2>2, <2>3, <2>4 DEF FileInv
<1>2. Spec => []Known
  <2>1. Init => TimerInv(evg) /\ OutputInv(evr)
    BY TimersAtStart, OutputsAtStart DEF Init
  <2>2. Init => TimesInv
    <3>1. Init => Fresh
      BY DEF Init, Fresh, EvrStart, Stage, Idle, UnderWay, Looking
    <3> QED
      BY <3>1, FreshTimes
  <2>3. RequestInv /\ TimerInv(evg) /\ [Next]_vars => TimerInv(evg)'
    BY TimerStep
  <2>4. RequestInv /\ OutputInv(evr) /\ [Next]_vars => OutputInv(evr)'
    BY OutputStep
  <2>5. ReferenceInv /\ [Next]_vars => ReferenceInv'
    BY ReferenceStep
  <2>6. TimesInv /\ ReferenceInv /\ OutputInv(evr) /\ [Next]_vars => TimesInv'
    BY TimesStep
  <2>7. RequestInv /\ TimerInv(evg) /\ ReferenceInv /\ TimesInv => Known
    BY DEF Known, TimesInv, LogInv
  <2> QED
    BY RequestInit, RequestStep, ReferenceInit, <2>1, <2>2, <2>3, <2>4, <2>5,
       <2>6, <2>7, PTL DEF Spec
<1>3. Known /\ Known' /\ FileInv /\ [Next]_vars => Mapped
  BY FileStep
<1> QED
  BY <1>1, <1>2, <1>3, PTL DEF Spec, ReadsBack, RF!Spec, Mapped

=============================================================================
