--------------------------- MODULE SequencerProofs --------------------------
(***************************************************************************)
(* Proofs about the event sequencer, for any number of banks, any table    *)
(* size, any trigger sources and any commands.                             *)
(***************************************************************************)
EXTENDS SequencerStarts, TLAPS, WellFoundedInduction

\* Among the triggered banks there is a highest one.
LEMMA HighestExists ==
  ASSUME NEW S \in SUBSET Banks, S # {}
  PROVE  \E b \in S : \A c \in S : c <= b
<1> DEFINE Below(b) == (NBanks - 1) - b
           T == {Below(b) : b \in S}
<1>1. T \subseteq Nat /\ T # {}
  BY NBanksAssumption DEF Banks
<1>2. PICK m \in T : \A x \in T : <<x, m>> \notin OpToRel(<, Nat)
  <2> HIDE DEF T
  <2> QED
    BY <1>1, NatLessThanWellFounded, WFMin
<1>3. \A x \in T : ~(x < m)
  BY <1>1, <1>2 DEF OpToRel
<1>4. PICK b \in S : m = Below(b)
  BY <1>2
<1>5. ASSUME NEW c \in S
      PROVE  c <= b
  <2>1. ~(Below(c) < Below(b))
    BY <1>3, <1>4
  <2>2. b \in Int /\ c \in Int /\ NBanks \in Int
    BY NBanksAssumption DEF Banks
  <2> QED
    BY <2>1, <2>2
<1> QED
  BY <1>5

LEMMA ChosenIsTriggered ==
  ASSUME evgTriggered \in SUBSET Banks, evgTriggered # {}
  PROVE  Chosen \in evgTriggered
  BY HighestExists DEF Chosen

-----------------------------------------------------------------------------
(***************************************************************************)
(* The types are not inductive by themselves.  The address counter stays   *)
(* in its range because the overflow flag tells on which side of the table *)
(* it is while a bank plays, and it rests at zero otherwise; the gap       *)
(* counter stays in its range because a gap ends below zero.               *)
(***************************************************************************)
PlayInv ==
  /\ evgStarting => evgActive
  /\ evgStart => ~evgActive
  /\ ~Playing => evgAddrCounter = 0
  /\ Playing => /\ evgAddrCounter \in 1..(Capacity + 1)
                /\ evgAddrOverflow_r <=> evgAddrCounter > Capacity
  /\ evgInGap => Playing /\ evgGapCounter >= -1

TypeInv == TypeOK /\ PlayInv

LEMMA NoneAndZero ==
  /\ NoCommand \notin AllCommands
  /\ LastEdge \in 1..WriteEdges
  /\ \A op \in {"arm", "disarm", "softTrigger", "trigMode", "cancel",
                "setTrigger"} : NoCommand.op # op
  BY WriteEdgesAssumption DEF NoCommand, AllCommands, LastEdge, SyncEdges

LEMMA InitTypeInv == Init => TypeInv
<1> SUFFICES ASSUME Init
             PROVE  TypeInv
  OBVIOUS
<1>1. [code |-> 0, gap |-> 1] \in Entry
  BY ENDAssumption, MaxGapAssumption DEF Entry, Codes
<1>2. 0 \in Banks /\ 0 \in Codes
  BY NBanksAssumption, ENDAssumption DEF Banks, Codes
<1>3. TypeOK
  <2>1. table \in [Banks -> [Addresses -> Entry]]
    BY <1>1 DEF Init
  <2>2. /\ sysCSR \in AllCommands \cup {NoCommand}
        /\ sync \in 0..WriteEdges
        /\ sync < LastEdge <=> sysCSR = NoCommand
    BY NoneAndZero, WriteEdgesAssumption DEF Init
  <2>3. /\ evgAddrCounter \in 0..(2 * Capacity - 1)
        /\ evgGapCounter \in -2..MaxGap
        /\ elapsed \in Nat
    BY CapacityAssumption, MaxGapAssumption DEF Init
  <2> QED
    BY <1>1, <1>2, <2>1, <2>2, <2>3
    DEF Init, TypeOK, RequestTypeOK, FlagsTypeOK, PlayTypeOK
<1>4. PlayInv
  BY DEF Init, PlayInv, Playing
<1> QED
  BY <1>3, <1>4 DEF TypeInv

LEMMA ReadType ==
  ASSUME TypeOK
  PROVE  table[evgActiveBankIndex][evgAddrCounter % Capacity] \in Entry
<1>1. evgAddrCounter % Capacity \in Addresses
  BY CapacityAssumption DEF TypeOK, PlayTypeOK, Addresses
<1> QED
  BY <1>1 DEF TypeOK, PlayTypeOK

\* The registers that a command loads.
LEMMA TakeCommandType ==
  ASSUME TypeOK, TakeCommand
  PROVE  RequestTypeOK'
<1>1. sysCSR' \in AllCommands \cup {NoCommand}
  BY DEF TypeOK, RequestTypeOK, TakeCommand
<1>2. /\ sync' \in 0..WriteEdges
      /\ sync' < LastEdge <=> sysCSR' = NoCommand
  BY NoneAndZero, WriteEdgesAssumption DEF TypeOK, RequestTypeOK, TakeCommand
<1>3. \A op : Arrives(op) => sysCSR \in AllCommands /\ sysCSR.op = op
  BY NoneAndZero DEF TypeOK, RequestTypeOK, Arrives
<1>4. Arrives("arm") \/ Arrives("softTrigger") => sysCSR.set \in SUBSET Banks
  BY <1>3 DEF AllCommands
<1>5. Arrives("disarm") => sysCSR.clear \in SUBSET Banks
  BY <1>3 DEF AllCommands
<1>6. Arrives("trigMode") => sysCSR.set \in SUBSET Banks
  BY <1>3 DEF AllCommands
<1>7. Arrives("setTrigger") =>
        sysCSR.bank \in Banks /\ sysCSR.enables \in SUBSET Sources
  BY <1>3 DEF AllCommands, OfKind
<1>8. enables' \in [Banks -> SUBSET Sources]
  BY <1>7 DEF TypeOK, RequestTypeOK, TakeCommand, OfKind
<1> QED
  BY <1>1, <1>2, <1>4, <1>5, <1>6, <1>8
  DEF TypeOK, RequestTypeOK, TakeCommand, Arrives

Steps == Rest \/ Begin \/ FirstRead \/ Cancel \/ Finish \/ Gap \/ Fetch

LEMMA ReadOverflow ==
  ASSUME TypeInv, ReadTable
  PROVE  /\ evgAddrOverflow_r' \in BOOLEAN
         /\ evgInGap => evgAddrOverflow_r' = evgAddrOverflow_r
         /\ ~evgInGap => (evgAddrOverflow_r' <=> evgAddrCounter >= Capacity)
<1>1. CASE evgInGap
  BY <1>1 DEF ReadTable, TypeInv, TypeOK, FlagsTypeOK
<1>2. CASE ~evgInGap
  <2>1. evgAddrOverflow_r' = (evgAddrCounter >= Capacity)
    BY <1>2 DEF ReadTable
  <2>2. evgAddrOverflow_r' \in BOOLEAN
    BY <2>1
  <2>3. evgAddrOverflow_r' <=> evgAddrCounter >= Capacity
    BY <2>1, Zenon
  <2> QED
    BY <1>2, <2>2, <2>3, Zenon
<1> QED
  BY <1>1, <1>2

LEMMA FlagsStep ==
  ASSUME TypeInv, ReadTable, Steps
  PROVE  FlagsTypeOK'
<1>1. FlagsTypeOK /\ evgAddrOverflow_r' \in BOOLEAN
  BY ReadOverflow DEF TypeInv, TypeOK
<1>2. evgStart' \in BOOLEAN
  BY <1>1
  DEF Steps, Rest, Begin, FirstRead, Cancel, Finish, Halt, Gap, Fetch, Running,
      FlagsTypeOK
<1>3. evgStarting' \in BOOLEAN /\ evgActive' \in BOOLEAN
  BY <1>1
  DEF Steps, Rest, Begin, FirstRead, Cancel, Finish, Halt, Gap, Fetch,
      FlagsTypeOK
<1>4. evgInGap' \in BOOLEAN
  BY <1>1
  DEF Steps, Rest, Begin, FirstRead, Cancel, Finish, Halt, Gap, Fetch,
      FlagsTypeOK
<1>5. evgStop' \in BOOLEAN
  BY <1>1
  DEF Steps, Rest, Begin, FirstRead, Cancel, Finish, Halt, Gap, Fetch,
      FlagsTypeOK
<1>6. evgCodeTVALID' \in BOOLEAN
  BY <1>1
  DEF Steps, Rest, Begin, FirstRead, Cancel, Finish, Halt, Gap, Fetch,
      FlagsTypeOK
<1> QED
  BY <1>1, <1>2, <1>3, <1>4, <1>5, <1>6 DEF FlagsTypeOK

LEMMA PlayStep ==
  ASSUME TypeInv, ReadTable, Steps
  PROVE  PlayTypeOK' /\ PlayInv'
<1>1. PlayTypeOK /\ PlayInv
  BY DEF TypeInv, TypeOK
<1>2. Triggers \in SUBSET Banks
  BY DEF TypeInv, TypeOK, Triggers
<1>3. evgDpramQ' \in Entry
  BY <1>1, ReadType DEF TypeInv, PlayTypeOK, ReadTable
<1>4. CASE Rest
  <2>1. CanChoose => Chosen \in Banks
    BY <1>1, ChosenIsTriggered DEF PlayTypeOK, CanChoose
  <2>2. PlayTypeOK'
    BY <1>1, <1>2, <1>3, <1>4, <2>1 DEF Rest, PlayTypeOK
  <2>3. PlayInv'
    BY <1>1, <1>4 DEF Rest, PlayInv, Playing
  <2> QED
    BY <2>2, <2>3
<1>5. CASE Begin
  <2>1. PlayTypeOK'
    BY <1>1, <1>2, <1>3, <1>5 DEF Begin, Running, PlayTypeOK
  <2>2. ~Playing /\ ~Playing'
    BY <1>1, <1>5 DEF Begin, Playing, PlayInv
  <2>3. PlayInv'
    BY <1>1, <1>5, <2>2 DEF Begin, Running, PlayInv
  <2> QED
    BY <2>1, <2>3
<1>6. CASE FirstRead
  <2>1. PlayTypeOK'
    BY <1>1, <1>2, <1>3, <1>6, CapacityAssumption
    DEF FirstRead, Running, PlayTypeOK
  <2>2. evgAddrCounter = 0 /\ ~evgInGap
    BY <1>1, <1>6 DEF FirstRead, PlayInv, Playing
  <2>3. ~evgAddrOverflow_r'
    BY <2>2, ReadOverflow, CapacityAssumption
  <2>4. PlayInv'
    BY <1>1, <1>6, <2>2, <2>3, CapacityAssumption
    DEF FirstRead, Running, PlayInv, Playing
  <2> QED
    BY <2>1, <2>4
<1>7. CASE Cancel \/ Finish
  <2>1. Halt /\ Playing
    BY <1>7 DEF Cancel, Finish
  <2>2. PlayTypeOK'
    BY <1>1, <1>2, <1>3, <2>1, CapacityAssumption
    DEF Halt, Running, PlayTypeOK
  <2>3. PlayInv'
    BY <1>1, <2>1 DEF Halt, Running, PlayInv, Playing
  <2> QED
    BY <2>2, <2>3
<1>8. CASE Gap
  <2>1. evgGapCounter >= -1 /\ evgGapCounter \in -2..MaxGap
    BY <1>1, <1>8 DEF Gap, PlayInv, PlayTypeOK
  <2>2. evgGapCounter' \in -2..MaxGap
    BY <1>8, <2>1, MaxGapAssumption DEF Gap
  <2>3. evgInGap' => evgGapCounter' >= -1
    BY <1>8, <2>1 DEF Gap
  <2>4. evgAddrOverflow_r' = evgAddrOverflow_r
    BY <1>8, ReadOverflow DEF Gap
  <2>5. PlayTypeOK'
    BY <1>1, <1>2, <1>3, <1>8, <2>2 DEF Gap, Running, PlayTypeOK
  <2>6. PlayInv'
    BY <1>1, <1>8, <2>3, <2>4 DEF Gap, Running, PlayInv, Playing
  <2> QED
    BY <2>5, <2>6
<1>9. CASE Fetch
  <2>1. evgDpramQ.gap \in 0..MaxGap /\ evgDpramQ.code \in Codes
    BY <1>1 DEF PlayTypeOK, Entry
  <2>2. evgAddrCounter \in 1..Capacity
    BY <1>1, <1>9, CapacityAssumption DEF Fetch, PlayInv
  <2>3. evgAddrCounter' \in 2..(Capacity + 1)
    BY <2>2, <1>9, CapacityAssumption DEF Fetch
  <2>4. evgAddrOverflow_r' <=> evgAddrCounter' > Capacity
    BY <2>2, <1>9, ReadOverflow, CapacityAssumption DEF Fetch
  <2>5. evgGapCounter' \in -2..MaxGap
    BY <2>1, <1>9, MaxGapAssumption DEF Fetch
  <2>6. evgInGap' => evgGapCounter' >= -1
    <3>1. evgInGap' => ~(evgDpramQ.gap - 1 < 0)
      <4>1. evgInGap' = ~NoGap
        BY <1>9 DEF Fetch
      <4>2. evgInGap' => ~NoGap
        BY <4>1, Zenon
      <4> QED
        BY <4>2 DEF NoGap
    <3>2. evgGapCounter' = evgDpramQ.gap - 2
      BY <1>9 DEF Fetch
    <3> QED
      BY <2>1, <3>1, <3>2
  <2>7. evgAddrCounter' \in 0..(2 * Capacity - 1)
    BY <2>3, CapacityAssumption
  <2>8. PlayTypeOK'
    BY <1>1, <1>2, <1>3, <1>9, <2>1, <2>5, <2>7
    DEF Fetch, Running, PlayTypeOK
  <2>9. Playing' /\ (evgStarting' => evgActive') /\ ~evgStart'
    BY <1>9 DEF Fetch, Running, Playing
  <2>10. PlayInv'
    BY <2>3, <2>4, <2>6, <2>9, CapacityAssumption DEF PlayInv
  <2> QED
    BY <2>8, <2>10
<1> QED
  BY <1>4, <1>5, <1>6, <1>7, <1>8, <1>9 DEF Steps

LEMMA TypeStep == TypeInv /\ [Next]_vars => TypeInv'
<1> SUFFICES ASSUME TypeInv, [Next]_vars
             PROVE  TypeInv'
  OBVIOUS
<1>1. ASSUME NEW c \in Commands, Command(c)
      PROVE  TypeInv'
  BY <1>1, CommandsAssumption, NoneAndZero, WriteEdgesAssumption
  DEF TypeInv, TypeOK, RequestTypeOK, FlagsTypeOK, PlayTypeOK, PlayInv, Playing, Command, evgVars, reqVars, bankVars,
      playVars
<1>2. ASSUME NEW b \in Banks, NEW i \in Addresses, NEW e \in Entries,
             \/ ospreyEVGSequencerWriteCode(b, i, e.code)
             \/ ospreyEVGSequencerWriteDelay(b, i, e.gap)
      PROVE  TypeInv'
  <2>1. e.code \in Codes /\ e.gap \in 0..MaxGap
    BY EntriesAssumption DEF Entry
  <2>2. table[b][i] \in Entry
    BY DEF TypeInv, TypeOK
  <2>3. table' \in [Banks -> [Addresses -> Entry]]
    <3>1. CASE ospreyEVGSequencerWriteCode(b, i, e.code)
      <4>1. [table[b][i] EXCEPT !.code = e.code] \in Entry
        BY <2>1, <2>2 DEF Entry
      <4> QED
        BY <3>1, <4>1 DEF TypeInv, TypeOK, ospreyEVGSequencerWriteCode
    <3>2. CASE ospreyEVGSequencerWriteDelay(b, i, e.gap)
      <4>1. [table[b][i] EXCEPT !.gap = e.gap] \in Entry
        BY <2>1, <2>2 DEF Entry
      <4> QED
        BY <3>2, <4>1 DEF TypeInv, TypeOK, ospreyEVGSequencerWriteDelay
    <3> QED
      BY <1>2, <3>1, <3>2
  <2> QED
    BY <1>2, <2>3
    DEF TypeInv, TypeOK, RequestTypeOK, FlagsTypeOK, PlayTypeOK, PlayInv, Playing,
        ospreyEVGSequencerWriteCode, ospreyEVGSequencerWriteDelay, evgVars, reqVars, bankVars, playVars
<1>3. ASSUME NEW fired \in SUBSET Sources, EvgEdge(fired)
      PROVE  TypeInv'
  <2>1. FlagsTypeOK' /\ PlayTypeOK' /\ PlayInv'
    BY <1>3, PlayStep, FlagsStep DEF EvgEdge, Steps
  <2>2. RequestTypeOK'
    BY <1>3, TakeCommandType DEF EvgEdge, TypeInv
  <2>3. evgArmed' \in SUBSET Banks
    BY <1>3 DEF TypeInv, TypeOK, RequestTypeOK, EvgEdge, Arm
  <2>4. evgHwTriggers' \in SUBSET Banks
    BY <1>3 DEF TypeInv, TypeOK, EvgEdge, HwTrigger
  <2>5. table' \in [Banks -> [Addresses -> Entry]]
    BY <1>3 DEF TypeInv, TypeOK, EvgEdge
  <2>6. TypeOK'
    BY <2>1, <2>2, <2>3, <2>4, <2>5 DEF TypeOK
  <2> QED
    BY <2>1, <2>6 DEF TypeInv
<1>4. CASE UNCHANGED vars
  BY <1>4
  DEF vars, evgVars, reqVars, bankVars, playVars, TypeInv, TypeOK,
      RequestTypeOK, FlagsTypeOK, PlayTypeOK, PlayInv, Playing
<1> QED
  BY <1>1, <1>2, <1>3, <1>4 DEF Next, DriverCall, Edge

(* Every register of the sequencer keeps a value of its width: the address *)
(* counter does not pass the end of its range, nor the gap counter below   *)
(* minus two.                                                              *)
THEOREM TypeCorrect == Spec => []TypeOK
<1>1. TypeInv => TypeOK
  BY DEF TypeInv
<1> QED
  BY InitTypeInv, TypeStep, <1>1, PTL DEF Spec

-----------------------------------------------------------------------------
(***************************************************************************)
(* Starts.  A bank that is armed and not running is licensed, and so is a  *)
(* bank whose trigger waits.                                               *)
(***************************************************************************)
LicenseInv ==
  /\ evgArmed \cap withdrawn = {}
  /\ evgArmed \ evgRunning \subseteq licensed
  /\ evgTriggered \subseteq licensed

\* The running bank is replaced only by none or, at rest, by the chosen one.
LEMMA RunningStep ==
  ASSUME TypeInv, NEW fired, EvgEdge(fired)
  PROVE  /\ evgRunning' \in {evgRunning, {}, {Chosen}}
         /\ CanChoose => evgRunning' = {Chosen}
         /\ evgTriggered' = Triggers \ Starting
<1>1. ASSUME CanChoose
      PROVE  Rest
  BY <1>1
  DEF EvgEdge, CanChoose, Begin, FirstRead, Cancel, Finish, Gap, Fetch,
      Playing, TypeInv, PlayInv
<1>2. CASE Rest
  BY <1>2 DEF Rest, Starting
<1>3. CASE ~Rest
  BY <1>1, <1>3
  DEF EvgEdge, Begin, FirstRead, Cancel, Finish, Gap, Fetch, Halt, Running,
      Starting
<1> QED
  BY <1>2, <1>3

LEMMA LicenseStep ==
  ASSUME TypeInv, LicenseInv, StartsEdge
  PROVE  LicenseInv'
<1>1. PICK fired \in SUBSET Sources : EvgEdge(fired)
  BY DEF StartsEdge, Edge
<1>2. evgArmed' =
        ((evgArmed \cup evgArm) \ evgDisarm) \ (evgRunning \ evgTrigNormal)
  BY <1>1 DEF EvgEdge, Arm
<1>3. /\ licensed' = (licensed \ (Starting \cup withdrawn))
                       \cup evgArm \cup (evgArmed \cap evgTrigNormal)
      /\ withdrawn' = evgDisarm
  BY DEF StartsEdge, Licenses
<1>4. /\ CanChoose => evgRunning' = {Chosen}
      /\ evgTriggered' = Triggers \ Starting
  BY <1>1, RunningStep
<1>5. evgArmed' \cap withdrawn' = {}
  BY <1>2, <1>3
<1>6. Starting \subseteq evgRunning'
  BY <1>4 DEF Starting
<1>7. evgArmed' \ evgRunning' \subseteq licensed'
  BY <1>2, <1>3, <1>6 DEF LicenseInv
<1>8. evgTriggered' \subseteq licensed'
  BY <1>3, <1>4 DEF LicenseInv, Triggers
<1> QED
  BY <1>5, <1>7, <1>8 DEF LicenseInv

(* A bank starts only if an arm command, or normal mode, allows it to, and *)
(* no earlier start and no disarm has used that up: for any banks, tables, *)
(* triggers and commands.                                                  *)
THEOREM StartsCorrect == StartsSpec => StartsOnlyIfArmed
<1> DEFINE Inv == TypeInv /\ LicenseInv
<1>1. StartsInit => Inv
  BY InitTypeInv DEF StartsInit, Init, LicenseInv
<1>2. StartsNext => Next
  BY DEF StartsNext, StartsEdge, Next
<1>3. Inv /\ [StartsNext]_startsVars => Inv'
  <2> SUFFICES ASSUME Inv, [StartsNext]_startsVars
               PROVE  Inv'
    OBVIOUS
  <2>1. TypeInv'
    BY <1>2, TypeStep DEF startsVars
  <2>2. CASE StartsEdge
    BY <2>1, <2>2, LicenseStep
  <2>3. CASE DriverCall /\ UNCHANGED <<licensed, withdrawn>>
    <3>1. UNCHANGED evgVars
      BY <2>3
      DEF DriverCall, Command, ospreyEVGSequencerWriteCode,
          ospreyEVGSequencerWriteDelay
    <3> QED
      BY <2>1, <2>3, <3>1
      DEF LicenseInv, evgVars, bankVars, playVars
  <2>4. CASE UNCHANGED startsVars
    BY <2>1, <2>4 DEF LicenseInv, startsVars, vars, evgVars, bankVars, playVars
  <2> QED
    BY <2>2, <2>3, <2>4 DEF StartsNext
<1>4. Inv => (StartsEdge => Starting \subseteq licensed)
  <2> SUFFICES ASSUME Inv, CanChoose
               PROVE  Chosen \in licensed
    BY DEF Starting
  <2>1. Chosen \in evgTriggered
    BY ChosenIsTriggered DEF CanChoose, TypeInv, TypeOK, PlayTypeOK
  <2> QED
    BY <2>1 DEF LicenseInv
<1> HIDE DEF Inv
<1> QED
  BY <1>1, <1>3, <1>4, PTL DEF StartsSpec, StartsOnlyIfArmed

-----------------------------------------------------------------------------
(***************************************************************************)
(* The reference.  That the recursive function of FetchTick exists, what   *)
(* its values are, and that no two entries of a table share a tick.        *)
(***************************************************************************)
LEMMA SetInduction ==
  ASSUME NEW S, 0 \in S, \A n \in Nat : n \in S => n + 1 \in S
  PROVE  Nat \subseteq S
<1> SUFFICES ASSUME Nat \ S # {} PROVE FALSE
  OBVIOUS
<1>1. PICK m \in Nat \ S : \A k \in Nat \ S : <<k, m>> \notin OpToRel(<, Nat)
  BY WFMin, NatLessThanWellFounded
<1>2. m - 1 \in Nat /\ m - 1 < m /\ (m - 1) + 1 = m
  <2>1. m \in Nat /\ m # 0
    OBVIOUS
  <2> QED
    BY <2>1
<1>3. m - 1 \in S
  BY <1>1, <1>2 DEF OpToRel
<1> QED
  BY <1>1, <1>2, <1>3

Tables == [Addresses -> Entry]

LEMMA FetchTickExists ==
  ASSUME NEW t
  PROVE  FetchTick(t) = [n \in 0..Capacity |->
           IF n = 0 THEN StartTicks ELSE FetchTick(t)[n-1] + t[n-1].gap + 1]
<1> DEFINE After(f, m) == f = [n \in 0..m |-> IF n = 0 THEN StartTicks
                                            ELSE f[n-1] + t[n-1].gap + 1]
           S == {m \in Nat : \E f : After(f, m)}
           ticks == CHOOSE f : After(f, Capacity)
<1>1. 0 \in S
  <2> DEFINE f == [n \in 0..0 |-> StartTicks]
  <2>1. After(f, 0)
    OBVIOUS
  <2> QED
    BY <2>1
<1>2. \A m \in Nat : m \in S => m + 1 \in S
  <2> SUFFICES ASSUME NEW m \in Nat, NEW f, After(f, m)
               PROVE  m + 1 \in S
    OBVIOUS
  <2> DEFINE g == [n \in 0..m + 1 |-> IF n = m + 1 THEN f[m] + t[m].gap + 1 ELSE f[n]]
             h == [n \in 0..m + 1 |-> IF n = 0 THEN StartTicks
                                     ELSE g[n-1] + t[n-1].gap + 1]
  <2>1. ASSUME NEW n \in 0..m + 1
        PROVE  g[n] = h[n]
    <3>1. CASE n = 0
      <4>1. 0 \in 0..m /\ 0 # m + 1
        OBVIOUS
      <4> QED
        BY <3>1, <4>1
    <3>2. CASE n = m + 1
      <4>1. n # 0 /\ n - 1 = m /\ m \in 0..m + 1 /\ m # m + 1
        BY <3>2
      <4>2. g[m] = f[m]
        BY <4>1
      <4> QED
        BY <3>2, <4>1, <4>2
    <3>3. CASE n # 0 /\ n # m + 1
      <4>1. n \in 0..m /\ n - 1 \in 0..m + 1 /\ n - 1 # m + 1
        BY <3>3
      <4>2. f[n] = f[n-1] + t[n-1].gap + 1
        BY <3>3, <4>1
      <4>3. g[n-1] = f[n-1]
        BY <4>1
      <4> QED
        BY <3>3, <4>1, <4>2, <4>3
    <3> QED
      BY <3>1, <3>2, <3>3
  <2>2. g = h
    BY <2>1
  <2>3. After(g, m + 1)
    BY <2>2
  <2> HIDE DEF After, g
  <2> QED
    BY <2>3
<1>3. After(ticks, Capacity)
  <2> HIDE DEF S, After
  <2>1. Capacity \in S
    BY <1>1, <1>2, SetInduction, CapacityAssumption
  <2>2. \E f : After(f, Capacity)
    BY <2>1 DEF S
  <2> QED
    BY <2>2
<1>4. FetchTick(t) = ticks
  BY DEF FetchTick
<1> HIDE DEF ticks
<1> QED
  BY <1>3, <1>4

\* An entry takes its gap and one tick more.
LEMMA FetchTicks ==
  ASSUME NEW t \in Tables
  PROVE  /\ FetchTick(t)[0] = 3
         /\ \A n \in Addresses : FetchTick(t)[n + 1] = FetchTick(t)[n] + t[n].gap + 1
         /\ \A n \in 0..Capacity : FetchTick(t)[n] \in Nat
         /\ \A n \in Addresses : t[n].gap \in Nat
<1> DEFINE F == FetchTick(t)
<1>1. F = [n \in 0..Capacity |-> IF n = 0 THEN 3 ELSE F[n-1] + t[n-1].gap + 1]
  BY FetchTickExists DEF StartTicks
<1> HIDE DEF F
<1>2. F[0] = 3
  <2>1. 0 \in 0..Capacity
    BY CapacityAssumption
  <2> QED
    BY <1>1, <2>1
<1>3. ASSUME NEW n \in Addresses
      PROVE  F[n + 1] = F[n] + t[n].gap + 1 /\ t[n].gap \in Nat
  <2>1. n + 1 \in 0..Capacity /\ n + 1 # 0 /\ (n + 1) - 1 = n
    BY CapacityAssumption DEF Addresses
  <2>2. t[n] \in Entry
    BY DEF Tables
  <2>3. t[n].gap \in Nat
    BY <2>2, MaxGapAssumption DEF Entry
  <2>4. F[n + 1] = IF n + 1 = 0 THEN 3 ELSE F[(n + 1) - 1] + t[(n + 1) - 1].gap + 1
    BY <1>1, <2>1
  <2> QED
    BY <2>1, <2>3, <2>4
<1> DEFINE S == {n \in Nat : n <= Capacity => F[n] \in Nat}
<1>4. 0 \in S
  BY <1>2
<1>5. \A n \in Nat : n \in S => n + 1 \in S
  <2> SUFFICES ASSUME NEW n \in Nat, n \in S, n + 1 <= Capacity
               PROVE  F[n + 1] \in Nat
    OBVIOUS
  <2>1. n \in Addresses /\ n <= Capacity
    BY CapacityAssumption DEF Addresses
  <2>2. F[n] \in Nat /\ t[n].gap \in Nat /\ F[n + 1] = F[n] + t[n].gap + 1
    BY <1>3, <2>1
  <2> HIDE DEF S
  <2> QED
    BY <2>2
<1>6. \A n \in 0..Capacity : F[n] \in Nat
  <2> SUFFICES ASSUME NEW n \in 0..Capacity PROVE F[n] \in Nat
    OBVIOUS
  <2>1. n \in Nat /\ n <= Capacity
    BY CapacityAssumption
  <2>2. n \in S
    <3> HIDE DEF S
    <3> QED
      BY <1>4, <1>5, <2>1, SetInduction
  <2> QED
    BY <2>1, <2>2
<1> QED
  BY <1>2, <1>3, <1>6 DEF F

\* The ticks of an entry are over when a later one is fetched.
LEMMA FetchTicksRise ==
  ASSUME NEW t \in Tables, NEW m \in Addresses
  PROVE  \A n \in 0..Capacity : m < n => FetchTick(t)[m] + t[m].gap < FetchTick(t)[n]
<1> DEFINE F == FetchTick(t)
           S == {n \in Nat : m < n /\ n <= Capacity => F[m] + t[m].gap < F[n]}
<1>1. /\ \A n \in Addresses : F[n + 1] = F[n] + t[n].gap + 1
      /\ \A n \in 0..Capacity : F[n] \in Nat
      /\ \A n \in Addresses : t[n].gap \in Nat
  BY FetchTicks
<1>2. m \in Nat /\ m \in 0..Capacity /\ Capacity \in Nat
  BY CapacityAssumption DEF Addresses
<1> HIDE DEF F
<1>3. 0 \in S
  BY <1>2
<1>4. \A n \in Nat : n \in S => n + 1 \in S
  <2> SUFFICES ASSUME NEW n \in Nat, n \in S, m < n + 1, n + 1 <= Capacity
               PROVE  F[m] + t[m].gap < F[n + 1]
    OBVIOUS
  <2>1. n \in Addresses /\ n \in 0..Capacity
    BY CapacityAssumption DEF Addresses
  <2>2. /\ F[n + 1] = F[n] + t[n].gap + 1 /\ F[n] \in Nat /\ t[n].gap \in Nat
        /\ F[m] \in Nat /\ t[m].gap \in Nat
    BY <1>1, <1>2, <2>1
  <2>3. CASE m = n
    BY <2>2, <2>3
  <2>4. CASE m # n
    <3>1. F[m] + t[m].gap < F[n]
      BY <1>2, <2>4
    <3> QED
      BY <2>2, <3>1
  <2> QED
    BY <2>3, <2>4
<1>5. ASSUME NEW n \in 0..Capacity, m < n
      PROVE  F[m] + t[m].gap < F[n]
  <2>1. n \in Nat /\ n <= Capacity
    BY <1>2
  <2>2. n \in S
    <3> HIDE DEF S
    <3> QED
      BY <1>3, <1>4, <2>1, SetInduction
  <2> QED
    BY <1>5, <2>1, <2>2
<1> QED
  BY <1>5 DEF F

\* No entry is fetched before the first one.
LEMMA FetchTicksLow ==
  ASSUME NEW t \in Tables, NEW n \in 0..Capacity
  PROVE  FetchTick(t)[n] >= 3
<1>1. 0 \in Addresses /\ 0 \in 0..Capacity /\ n \in Nat
  BY CapacityAssumption DEF Addresses
<1>2. /\ FetchTick(t)[0] = 3 /\ FetchTick(t)[n] \in Nat
      /\ t[0].gap \in Nat
  BY <1>1, FetchTicks
<1>3. 0 < n => FetchTick(t)[0] + t[0].gap < FetchTick(t)[n]
  BY <1>1, FetchTicksRise
<1> QED
  BY <1>1, <1>2, <1>3

\* A bank stops on the tick after its first end marker or its last entry.
LEMMA LastTickIs ==
  ASSUME NEW t \in Tables, NEW n \in Addresses, \A i \in 0..n - 1 : t[i].code # END
  PROVE  /\ FetchTick(t)[n] + t[n].gap < LastTick(t) /\ LastTick(t) \in Nat
         /\ t[n].code = END \/ n + 1 = Capacity => LastTick(t) = FetchTick(t)[n + 1]
<1>1. n \in Nat /\ n < Capacity /\ n + 1 \in 0..Capacity /\ Capacity \in 0..Capacity
  BY CapacityAssumption DEF Addresses
<1>2. CASE Events(t) = Addresses
  <2>1. LastTick(t) = FetchTick(t)[Capacity]
    BY <1>2 DEF LastTick
  <2>2. t[n].code # END
    <3>1. n \in Events(t) /\ n \in 0..n
      BY <1>1, <1>2
    <3> QED
      BY <3>1 DEF Events
  <2>3. FetchTick(t)[n] + t[n].gap < FetchTick(t)[Capacity]
    BY <1>1, FetchTicksRise
  <2>4. FetchTick(t)[Capacity] \in Nat
    BY <1>1, FetchTicks
  <2> QED
    BY <2>1, <2>2, <2>3, <2>4
<1>3. CASE Events(t) # Addresses
  <2> DEFINE D == Addresses \ Events(t)
             First(e) == e \in D /\ \A i \in 0..(e - 1) : i \in Events(t)
             e == CHOOSE x \in D : \A i \in 0..(x - 1) : i \in Events(t)
  <2>1. D # {} /\ D \subseteq Nat
    BY <1>3 DEF Events, Addresses
  <2>2. \E x \in D : \A i \in 0..(x - 1) : i \in Events(t)
    <3> HIDE DEF D
    <3>1. PICK x \in D : \A k \in D : <<k, x>> \notin OpToRel(<, Nat)
      BY <2>1, WFMin, NatLessThanWellFounded
    <3>2. ASSUME NEW i \in 0..(x - 1)
          PROVE  i \in Events(t)
      <4>1. x \in Addresses
        BY <3>1 DEF D
      <4>2. i \in Nat /\ i < x /\ i \in Addresses /\ x \in Nat
        BY <4>1, CapacityAssumption DEF Addresses
      <4>3. i \notin D
        BY <2>1, <3>1, <4>2 DEF OpToRel
      <4> QED
        BY <4>2, <4>3 DEF D
    <3> QED
      BY <3>2
  <2>3. e \in D /\ \A i \in 0..(e - 1) : i \in Events(t)
    BY <2>2
  <2>4. LastTick(t) = FetchTick(t)[e + 1]
    BY <1>3 DEF LastTick
  <2> HIDE DEF e
  <2>5. e \in Nat /\ e < Capacity /\ e \in Addresses /\ e + 1 \in 0..Capacity
    BY <2>3, CapacityAssumption DEF Addresses
  <2>6. t[e].code = END
    <3>1. PICK i \in 0..e : t[i].code = END
      BY <2>3 DEF Events
    <3>2. ASSUME i # e PROVE FALSE
      <4>1. i \in 0..(e - 1) /\ i \in 0..i
        BY <2>5, <3>2
      <4> QED
        BY <2>3, <3>1, <4>1 DEF Events
    <3> QED
      BY <3>1, <3>2
  <2>7. n <= e
    <3> SUFFICES ASSUME e < n PROVE FALSE
      BY <1>1, <2>5
    <3>1. e \in 0..n - 1
      BY <1>1, <2>5
    <3> QED
      BY <2>6, <3>1
  <2>8. ASSUME t[n].code = END \/ n + 1 = Capacity
        PROVE  e = n
    <3> SUFFICES ASSUME e # n PROVE FALSE
      OBVIOUS
    <3>1. n \in 0..(e - 1) /\ n \in 0..n /\ n + 1 # Capacity
      BY <1>1, <2>5, <2>7
    <3>2. n \in Events(t)
      BY <2>3, <3>1
    <3> QED
      BY <2>8, <3>1, <3>2 DEF Events
  <2>9. FetchTick(t)[n] + t[n].gap < FetchTick(t)[e + 1]
    <3>1. n < e + 1
      BY <1>1, <2>5, <2>7
    <3> QED
      BY <2>5, <3>1, FetchTicksRise
  <2>10. FetchTick(t)[e + 1] \in Nat
    BY <2>5, FetchTicks
  <2> QED
    BY <2>4, <2>8, <2>9, <2>10
<1> QED
  BY <1>2, <1>3

\* From the tick on which entry n is fetched until its gap is over.
LEMMA EventAtIs ==
  ASSUME NEW t \in Tables, NEW n \in Addresses, \A i \in 0..n - 1 : t[i].code # END,
         NEW tick \in Nat, FetchTick(t)[n] <= tick,
         tick <= FetchTick(t)[n] + t[n].gap
  PROVE  EventAt(t, tick) =
           IF tick = FetchTick(t)[n] + t[n].gap /\ t[n].code # END
           THEN t[n].code ELSE NoEvent
<1> DEFINE F == FetchTick(t)
           due == {k \in Events(t) : F[k] + t[k].gap = tick}
<1>1. n \in Nat /\ n \in 0..Capacity
  BY CapacityAssumption DEF Addresses
<1>2. ASSUME NEW k \in due PROVE k = n
  <2>1. k \in Addresses /\ k \in Nat /\ k \in 0..Capacity /\ F[k] + t[k].gap = tick
    BY CapacityAssumption DEF Events, Addresses
  <2>2. F[k] \in Nat /\ F[n] \in Nat /\ t[k].gap \in Nat /\ t[n].gap \in Nat
    BY <1>1, <2>1, FetchTicks
  <2>3. k < n => F[k] + t[k].gap < F[n]
    BY <1>1, <2>1, FetchTicksRise
  <2>4. n < k => F[n] + t[n].gap < F[k]
    BY <1>1, <2>1, FetchTicksRise
  <2> HIDE DEF F, due
  <2>5. ~(k < n)
    BY <2>1, <2>2, <2>3 DEF F
  <2>6. ~(n < k)
    BY <2>1, <2>2, <2>4 DEF F
  <2> QED
    BY <1>1, <2>1, <2>5, <2>6
<1>3. n \in Events(t) <=> t[n].code # END
  <2>1. 0..n = 0..n - 1 \cup {n}
    BY <1>1
  <2> QED
    BY <2>1 DEF Events
<1>4. n \in due <=> tick = F[n] + t[n].gap /\ t[n].code # END
  BY <1>3
<1>5. due = IF n \in due THEN {n} ELSE {}
  BY <1>2
<1>6. EventAt(t, tick) = IF due = {} THEN NoEvent ELSE t[CHOOSE k \in due : TRUE].code
  BY DEF EventAt
<1> HIDE DEF due, F
<1>7. CASE n \in due
  <2>1. due = {n} /\ due # {}
    BY <1>5, <1>7
  <2>2. (CHOOSE k \in due : TRUE) = n
    BY <2>1
  <2> QED
    BY <1>4, <1>6, <1>7, <2>1, <2>2 DEF F
<1>8. CASE n \notin due
  BY <1>4, <1>5, <1>6, <1>8 DEF F
<1> QED
  BY <1>7, <1>8

LEMMA NoEventBefore ==
  ASSUME NEW t \in Tables, NEW tick \in 0..2
  PROVE  EventAt(t, tick) = NoEvent /\ tick < LastTick(t)
<1>1. 0 \in Addresses /\ 0 \in 0..Capacity /\ 0 - 1 \in Int
  BY CapacityAssumption DEF Addresses
<1>2. /\ FetchTick(t)[0] = 3 /\ t[0].gap \in Nat
      /\ \A n \in 0..Capacity : FetchTick(t)[n] \in Nat
      /\ \A n \in Addresses : t[n].gap \in Nat
  BY <1>1, FetchTicks
<1>3. ASSUME NEW n \in Addresses PROVE FetchTick(t)[n] + t[n].gap # tick
  <2>1. n \in Nat /\ n \in 0..Capacity
    BY CapacityAssumption DEF Addresses
  <2>2. FetchTick(t)[n] \in Nat /\ t[n].gap \in Nat
    BY <1>2, <2>1
  <2>3. FetchTick(t)[n] >= 3
    BY <2>1, FetchTicksLow
  <2> QED
    BY <2>2, <2>3
<1>4. EventAt(t, tick) = NoEvent
  <2>1. {n \in Events(t) : FetchTick(t)[n] + t[n].gap = tick} = {}
    BY <1>3 DEF Events
  <2> QED
    BY <2>1 DEF EventAt
<1>5. 3 + t[0].gap < LastTick(t) /\ LastTick(t) \in Nat
  <2>1. \A i \in 0..0 - 1 : t[i].code # END
    OBVIOUS
  <2> QED
    BY <1>1, <1>2, <2>1, LastTickIs
<1>6. tick < LastTick(t)
  BY <1>2, <1>5
<1> QED
  BY <1>4, <1>6

-----------------------------------------------------------------------------
(***************************************************************************)
(* The registers.  While a bank plays, the entry fetched last is the one   *)
(* two below the address counter, the entry read from the memory the one   *)
(* after it, and the gap counter and the history agree on how much of the  *)
(* gap is over.                                                            *)
(***************************************************************************)
Ours == table[evgActiveBankIndex]

Fetched(n) ==
  /\ \A i \in 0..n - 1 : Ours[i].code # END
  /\ evgStop <=> Ours[n].code = END
  /\ evgCodeTDATA = Ours[n].code
  /\ IF evgInGap
     THEN /\ ~evgCodeTVALID /\ evgGapCounter \in -1..Ours[n].gap - 2
          /\ elapsed = FetchTick(Ours)[n] + (Ours[n].gap - 2 - evgGapCounter)
     ELSE /\ evgCodeTVALID <=> Ours[n].code # END
          /\ elapsed = FetchTick(Ours)[n] + Ours[n].gap

ServiceInv ==
  /\ ~Busy => elapsed = 0
  /\ Busy => evgRunning = {evgActiveBankIndex}
  /\ evgStart => elapsed = 0
  /\ evgStarting => elapsed = 1
  /\ ~Playing => ~evgStop /\ ~evgInGap /\ ~evgCodeTVALID
  /\ Playing =>
       /\ evgDpramQ = Ours[(evgAddrCounter - 1) % Capacity]
       /\ IF evgAddrCounter = 1
          THEN elapsed = 2 /\ ~evgStop /\ ~evgInGap /\ ~evgCodeTVALID
          ELSE Fetched(evgAddrCounter - 2)

Event == IF evgCodeTVALID THEN evgCodeTDATA ELSE NoEvent

EventIsDue == elapsed < LastTick(Ours) /\ Event = EventAt(Ours, elapsed)

\* The service's table operators are those of this module.
LEMMA ServiceTables ==
  /\ Service!NoBank = NoBank /\ Service!NoEvent = NoEvent
  /\ [Service!Banks -> [Service!Addresses -> Service!Entry]] = [Banks -> Tables]
  /\ \A t : Service!LastTick(t) = LastTick(t)
  /\ \A t, tick : Service!EventAt(t, tick) = EventAt(t, tick)
<1>1. Service!NoBank = NoBank /\ Service!NoEvent = NoEvent
  BY DEF Service!NoBank, NoBank, Service!NoEvent, NoEvent
<1>2. /\ Service!Banks = Banks /\ Service!Addresses = Addresses
      /\ Service!Entry = Entry
  BY DEF Service!Banks, Service!Addresses, Service!Entry, Service!Codes,
         Banks, Addresses, Entry, Codes
<1>3. ASSUME NEW t PROVE Service!LastTick(t) = LastTick(t)
  BY DEF Service!LastTick, LastTick, Service!Events, Events,
         Service!FetchTick, FetchTick, Service!Addresses, Addresses,
         Service!StartTicks, StartTicks
<1>4. ASSUME NEW t, NEW tick PROVE Service!EventAt(t, tick) = EventAt(t, tick)
  BY DEF Service!EventAt, EventAt, Service!Events, Events,
         Service!FetchTick, FetchTick, Service!Addresses, Addresses,
         Service!StartTicks, StartTicks, Service!NoEvent, NoEvent
<1> QED
  BY <1>1, <1>2, <1>3, <1>4 DEF Tables

LEMMA OursType ==
  ASSUME TypeInv
  PROVE  /\ Ours \in Tables /\ evgActiveBankIndex \in Banks
         /\ evgActiveBankIndex # NoBank
  BY NBanksAssumption DEF TypeInv, TypeOK, PlayTypeOK, Ours, Tables, Banks, NoBank

LEMMA InitServiceInv == Init => ServiceInv /\ Service!Init
<1> SUFFICES ASSUME Init
             PROVE  ServiceInv /\ Service!Init
  OBVIOUS
<1>1. ServiceInv
  BY DEF Init, ServiceInv, Busy, Playing
<1>2. table \in [Banks -> [Addresses -> Entry]]
  BY InitTypeInv DEF TypeInv, TypeOK
<1>3. Service!Init
  BY <1>2, ServiceTables DEF Init, Service!Init, Busy, Tables
<1> QED
  BY <1>1, <1>3

LEMMA FetchedIsDue ==
  ASSUME TypeInv, NEW n \in Addresses, Fetched(n)
  PROVE  EventIsDue
<1> DEFINE t == Ours
           f == FetchTick(t)[n]
           g == t[n].gap
<1>1. t \in Tables
  BY OursType
<1>2. f \in Nat /\ g \in Nat
  <2>1. n \in 0..Capacity
    BY CapacityAssumption DEF Addresses
  <2> QED
    BY <1>1, <2>1, FetchTicks
<1>3. \A i \in 0..n - 1 : t[i].code # END
  BY DEF Fetched
<1>4. LastTick(t) \in Nat /\ f + g < LastTick(t)
  BY <1>1, <1>3, LastTickIs
<1>5. /\ evgCodeTDATA = t[n].code
      /\ evgInGap => /\ ~evgCodeTVALID /\ evgGapCounter \in -1..g - 2
                     /\ elapsed = f + (g - 2 - evgGapCounter)
      /\ ~evgInGap => /\ evgCodeTVALID <=> t[n].code # END
                      /\ elapsed = f + g
  BY DEF Fetched
<1>6. evgGapCounter \in Int /\ elapsed \in Nat
  BY MaxGapAssumption DEF TypeInv, TypeOK, PlayTypeOK
<1>7. ASSUME NEW e \in Nat, f <= e, e <= f + g
      PROVE  EventAt(t, e) = IF e = f + g /\ t[n].code # END
                             THEN t[n].code ELSE NoEvent
  BY <1>1, <1>3, <1>7, EventAtIs
<1> HIDE DEF t, f, g
<1>8. CASE evgInGap
  <2>1. f <= elapsed /\ elapsed < f + g
    BY <1>2, <1>5, <1>6, <1>8
  <2>2. EventAt(t, elapsed) = NoEvent
    BY <1>2, <1>6, <1>7, <2>1
  <2>3. Event = NoEvent
    BY <1>5, <1>8 DEF Event
  <2>4. elapsed < LastTick(t)
    BY <1>2, <1>4, <1>6, <2>1
  <2> QED
    BY <2>2, <2>3, <2>4 DEF EventIsDue, t
<1>9. CASE ~evgInGap
  <2>1. f <= elapsed /\ elapsed = f + g
    BY <1>2, <1>5, <1>9
  <2>2. EventAt(t, elapsed) = IF t[n].code # END THEN t[n].code ELSE NoEvent
    BY <1>2, <1>6, <1>7, <2>1
  <2>3. Event = IF t[n].code # END THEN t[n].code ELSE NoEvent
    BY <1>5, <1>9 DEF Event
  <2>4. elapsed < LastTick(t)
    BY <1>2, <1>4, <1>6, <2>1
  <2> QED
    BY <2>2, <2>3, <2>4 DEF EventIsDue, t
<1> QED
  BY <1>8, <1>9

LEMMA DueWhileBusy == TypeInv /\ ServiceInv /\ Busy => EventIsDue
<1> SUFFICES ASSUME TypeInv, ServiceInv, Busy
             PROVE  EventIsDue
  OBVIOUS
<1>1. ASSUME elapsed \in 0..2, ~evgCodeTVALID
      PROVE  EventIsDue
  BY <1>1, OursType, NoEventBefore DEF EventIsDue, Event
<1>2. CASE ~Playing
  <2>1. evgStart \/ evgStarting
    BY <1>2 DEF Busy, Playing
  <2>2. elapsed \in 0..2 /\ ~evgCodeTVALID
    BY <1>2, <2>1 DEF ServiceInv
  <2> QED
    BY <1>1, <2>2
<1>3. CASE Playing /\ evgAddrCounter = 1
  <2>1. elapsed \in 0..2 /\ ~evgCodeTVALID
    BY <1>3 DEF ServiceInv
  <2> QED
    BY <1>1, <2>1
<1>4. CASE Playing /\ evgAddrCounter # 1
  <2>1. Fetched(evgAddrCounter - 2)
    BY <1>4 DEF ServiceInv
  <2>2. evgAddrCounter - 2 \in Addresses
    BY <1>4, CapacityAssumption DEF TypeInv, PlayInv, Addresses
  <2> QED
    BY <2>1, <2>2, FetchedIsDue
<1> QED
  BY <1>2, <1>3, <1>4

-----------------------------------------------------------------------------
(***************************************************************************)
(* The driver's writes leave the bank that is played alone.                *)
(***************************************************************************)
LEMMA WriteImplements ==
  ASSUME TypeInv, ServiceInv, TypeInv', UNCHANGED evgVars, NEW b \in Banks,
         Idle(b), \A c \in Banks : c # b => table'[c] = table[c]
  PROVE  ServiceInv' /\ Service!Write
<1>1. \A c \in Banks : c \in evgTriggered \cup evgRunning => table'[c] = table[c]
  BY DEF Idle
<1>2. Busy => Ours' = Ours
  BY <1>1, OursType DEF ServiceInv, Ours, evgVars, playVars
<1>3. ServiceInv'
  <2>1. Playing => Busy
    BY DEF Playing, Busy
  <2>2. UNCHANGED evgVars
    OBVIOUS
  <2> QED
    BY <1>2, <2>1, <2>2
    DEF ServiceInv, Fetched, Busy, Playing, evgVars, playVars
<1>4. table' \in [Banks -> [Addresses -> Entry]]
  BY DEF TypeInv, TypeOK
<1>5. UNCHANGED <<evgTriggered, Busy, evgActiveBankIndex, elapsed, Event>>
  BY DEF Busy, Event, evgVars, bankVars, playVars
<1>6. ASSUME NEW c \in Banks, c \in evgTriggered \cup
               {IF Busy THEN evgActiveBankIndex ELSE NoBank}
      PROVE  table'[c] = table[c]
  <2>1. NoBank \notin Banks
    BY NBanksAssumption DEF NoBank, Banks
  <2> QED
    BY <1>1, <1>6, <2>1 DEF ServiceInv
<1> QED
  BY <1>3, <1>4, <1>5, <1>6, ServiceTables
  DEF Service!Write, Event, Tables, Service!Banks, Banks

LEMMA DriverImplements ==
  ASSUME TypeInv, ServiceInv, TypeInv', DriverCall
  PROVE  /\ ServiceInv'
         /\ Service!Write \/ UNCHANGED Service!serviceVars
<1>1. ASSUME NEW c \in Commands, Command(c)
      PROVE  ServiceInv' /\ UNCHANGED Service!serviceVars
  BY <1>1
  DEF Command, ServiceInv, Fetched, Ours, Busy, Playing, evgVars, bankVars,
      playVars, Service!serviceVars
<1>2. ASSUME NEW b \in Banks, NEW i \in Addresses, NEW e \in Entries,
             \/ ospreyEVGSequencerWriteCode(b, i, e.code)
             \/ ospreyEVGSequencerWriteDelay(b, i, e.gap)
      PROVE  ServiceInv' /\ Service!Write
  <2>1. Idle(b) /\ UNCHANGED evgVars
    BY <1>2
    DEF ospreyEVGSequencerWriteCode, ospreyEVGSequencerWriteDelay
  <2>2. \A c \in Banks : c # b => table'[c] = table[c]
    BY <1>2
    DEF ospreyEVGSequencerWriteCode, ospreyEVGSequencerWriteDelay, TypeInv,
        TypeOK
  <2> QED
    BY <2>1, <2>2, WriteImplements
<1> QED
  BY <1>1, <1>2 DEF DriverCall

-----------------------------------------------------------------------------
(***************************************************************************)
(* The edges.  What an edge reads from the memory is the entry at the      *)
(* address counter, unless a gap holds the fetch back.                     *)
(***************************************************************************)
LEMMA PlayImplements ==
  ASSUME TypeInv, ServiceInv, TypeInv', ServiceInv', Busy, Busy',
         Running, table' = table, elapsed' = elapsed + 1
  PROVE  Service!Play
<1>1. EventIsDue'
  BY DueWhileBusy, PTL
<1>2. evgActiveBankIndex' = evgActiveBankIndex /\ Ours' = Ours
  BY DEF Running, Ours
<1>3. elapsed + 1 < LastTick(Ours) /\ Event' = EventAt(Ours, elapsed + 1)
  BY <1>1, <1>2 DEF EventIsDue
<1>4. evgActiveBankIndex \notin evgTriggered'
  BY DEF ServiceInv, Running, Triggers
<1> QED
  BY <1>2, <1>3, <1>4, OursType, ServiceTables
  DEF Service!Play, Event, Ours

LEMMA RestImplements ==
  ASSUME TypeInv, ServiceInv, Rest, table' = table
  PROVE  ServiceInv' /\ (Service!Wait \/ Service!Choose)
<1>1. ~Busy /\ ~Playing /\ elapsed = 0
  BY DEF Rest, Busy, Playing, ServiceInv
<1>2. ~evgStarting /\ ~evgStarting'
  BY DEF Rest, TypeInv, PlayInv
<1>3. ServiceInv'
  BY <1>1, <1>2 DEF Rest, ServiceInv, Busy, Playing
<1>4. CASE CanChoose
  <2>1. Chosen \in Banks /\ Chosen \notin evgTriggered'
    BY <1>4, ChosenIsTriggered
    DEF Rest, CanChoose, TypeInv, TypeOK, PlayTypeOK
  <2>2. Service!Choose
    BY <1>1, <1>4, <2>1, ServiceTables
    DEF Rest, CanChoose, Chosen, Busy, Service!Choose, Service!Highest
  <2> QED
    BY <1>3, <2>2
<1>5. CASE ~CanChoose
  <2>1. evgTriggered = {} /\ ~Busy'
    BY <1>5 DEF Rest, CanChoose, Busy
  <2>2. Service!Wait
    BY <1>1, <1>5, <2>1, ServiceTables DEF Rest, Service!Wait
  <2> QED
    BY <1>3, <2>2
<1> QED
  BY <1>4, <1>5

LEMMA BeginImplements ==
  ASSUME TypeInv, ServiceInv, TypeInv', Begin, table' = table
  PROVE  ServiceInv' /\ Service!Play
<1>1. Busy /\ Busy' /\ ~Playing /\ ~Playing' /\ ~evgStart'
  BY DEF Begin, Running, Busy, Playing, TypeInv, PlayInv
<1>2. elapsed = 0 /\ elapsed' = 1
  BY DEF Begin, ServiceInv
<1>3. ServiceInv'
  BY <1>1, <1>2 DEF Begin, Running, ServiceInv
<1> QED
  BY <1>1, <1>3, PlayImplements DEF Begin

LEMMA FirstReadImplements ==
  ASSUME TypeInv, ServiceInv, TypeInv', FirstRead, ReadTable, table' = table
  PROVE  ServiceInv' /\ Service!Play
<1>1. Busy /\ Busy' /\ ~Playing /\ Playing' /\ ~evgStart' /\ ~evgStarting'
  BY DEF FirstRead, Running, Busy, Playing, TypeInv, PlayInv
<1>2. elapsed = 1 /\ elapsed' = 2
  BY DEF FirstRead, ServiceInv
<1>3. evgAddrCounter = 0 /\ ~evgInGap
  BY <1>1 DEF TypeInv, PlayInv, ServiceInv
<1>4. evgDpramQ' = Ours'[(evgAddrCounter' - 1) % Capacity]
  BY <1>3 DEF FirstRead, Running, ReadTable, Ours
<1>5. ServiceInv'
  BY <1>1, <1>2, <1>4 DEF FirstRead, Running, ServiceInv
<1> QED
  BY <1>1, <1>5, PlayImplements DEF FirstRead

LEMMA GapImplements ==
  ASSUME TypeInv, ServiceInv, TypeInv', Gap, ReadTable, table' = table
  PROVE  ServiceInv' /\ Service!Play
<1>1. Busy /\ Busy' /\ Playing /\ Playing' /\ ~evgStart' /\ ~evgStarting'
  BY DEF Gap, Running, Busy, Playing
<1>2. evgAddrCounter' = evgAddrCounter /\ evgDpramQ' = evgDpramQ /\ Ours' = Ours
  BY DEF Gap, Running, ReadTable, Ours
<1>3. evgAddrCounter # 1 /\ Fetched(evgAddrCounter - 2)
  BY DEF Gap, ServiceInv
<1> DEFINE t == Ours
           n == evgAddrCounter - 2
           f == FetchTick(Ours)[n]
           g == Ours[n].gap
<1>4. f \in Nat /\ g \in Nat /\ evgGapCounter \in Int
  <2>1. n \in Addresses /\ n \in 0..Capacity
    BY <1>1, <1>3, CapacityAssumption DEF TypeInv, PlayInv, Addresses
  <2> QED
    BY <2>1, OursType, FetchTicks, MaxGapAssumption DEF TypeInv, TypeOK, PlayTypeOK
<1>5. /\ evgGapCounter \in -1..g - 2 /\ elapsed = f + (g - 2 - evgGapCounter)
      /\ ~evgCodeTVALID
      /\ evgStop <=> Ours[n].code = END
      /\ evgCodeTDATA = Ours[n].code
      /\ \A i \in 0..n - 1 : Ours[i].code # END
  BY <1>3 DEF Fetched, Gap
<1>6. evgStop' = evgStop /\ evgCodeTDATA' = evgCodeTDATA /\ elapsed' = elapsed + 1
  BY DEF Gap
<1>7. Fetched(n)'
  <2>1. CASE evgGapCounter < 0
    <3>1. elapsed + 1 = f + g
      BY <1>4, <1>5, <2>1
    <3>2. ~evgInGap' /\ elapsed' = f + g
      BY <1>6, <2>1, <3>1 DEF Gap
    <3>3. evgCodeTVALID' <=> Ours[n].code # END
      BY <1>5, <2>1, Zenon DEF Gap
    <3> QED
      BY <1>2, <1>5, <1>6, <3>2, <3>3 DEF Fetched
  <2>2. CASE ~(evgGapCounter < 0)
    <3>1. evgInGap' /\ ~evgCodeTVALID'
      BY <1>5, <2>2 DEF Gap
    <3>2. /\ evgGapCounter' \in -1..g - 2
          /\ elapsed' = f + (g - 2 - evgGapCounter')
      <4>1. evgGapCounter' = evgGapCounter - 1
        BY DEF Gap
      <4> HIDE DEF f, g
      <4> QED
        BY <1>4, <1>5, <1>6, <2>2, <4>1
    <3> QED
      BY <1>2, <1>5, <1>6, <3>1, <3>2 DEF Fetched
  <2> QED
    BY <2>1, <2>2
<1>8. ServiceInv'
  BY <1>1, <1>2, <1>3, <1>7 DEF Gap, Running, ServiceInv
<1> QED
  BY <1>1, <1>8, PlayImplements DEF Gap

LEMMA FetchImplements ==
  ASSUME TypeInv, ServiceInv, TypeInv', Fetch, ReadTable, table' = table
  PROVE  ServiceInv' /\ Service!Play
<1>0. PICK n \in Addresses : n = evgAddrCounter - 1
  BY CapacityAssumption DEF Fetch, TypeInv, PlayInv, Addresses
<1> DEFINE f == FetchTick(Ours)[n]
           g == Ours[n].gap
<1>1. Busy /\ Busy' /\ Playing /\ Playing' /\ ~evgStart' /\ ~evgStarting'
  BY DEF Fetch, Running, Busy, Playing
<1>2. /\ n % Capacity = n
      /\ evgAddrCounter' # 1 /\ evgAddrCounter' - 2 = n /\ evgAddrCounter' - 1 = n + 1
      /\ evgAddrCounter = n + 1
  BY <1>0, <1>1, CapacityAssumption DEF Fetch, TypeInv, PlayInv, Addresses
<1>3. /\ Ours' = Ours /\ evgDpramQ = Ours[n]
      /\ evgDpramQ' = Ours'[(evgAddrCounter' - 1) % Capacity]
  BY <1>1, <1>2 DEF Fetch, Running, ReadTable, Ours, ServiceInv
<1>4. f \in Nat /\ g \in Nat
  <2>1. n \in 0..Capacity
    BY <1>2, CapacityAssumption DEF Addresses
  <2> QED
    BY <1>2, <2>1, OursType, FetchTicks
<1>5. elapsed + 1 = f /\ \A i \in 0..n - 1 : Ours[i].code # END
  <2>1. CASE evgAddrCounter = 1
    <3>1. elapsed = 2 /\ n = 0
      BY <1>0, <1>1, <2>1 DEF ServiceInv
    <3> QED
      BY <3>1, OursType, FetchTicks
  <2>2. CASE evgAddrCounter # 1
    <3>1. Fetched(n - 1)
      <4>1. evgAddrCounter - 2 = n - 1
        BY <1>2 DEF Addresses
      <4> QED
        BY <1>1, <2>2, <4>1 DEF ServiceInv
    <3>2. n - 1 \in Addresses /\ (n - 1) + 1 = n /\ n - 1 \in 0..Capacity
      BY <1>2, <2>2, CapacityAssumption DEF Addresses
    <3>3. /\ f = FetchTick(Ours)[n - 1] + Ours[n - 1].gap + 1
          /\ FetchTick(Ours)[n - 1] \in Nat /\ Ours[n - 1].gap \in Nat
      BY <3>2, OursType, FetchTicks
    <3>4. elapsed = FetchTick(Ours)[n - 1] + Ours[n - 1].gap
      BY <3>1 DEF Fetched, Fetch
    <3>5. Ours[n - 1].code # END
      BY <3>1 DEF Fetched, Fetch
    <3>6. \A i \in 0..n - 1 : i \in 0..(n - 1) - 1 \/ i = n - 1
      BY <1>2 DEF Addresses
    <3> QED
      BY <3>1, <3>3, <3>4, <3>5, <3>6 DEF Fetched
  <2> QED
    BY <2>1, <2>2
<1>6. /\ evgStop' = (Ours[n].code = END) /\ evgCodeTDATA' = Ours[n].code
      /\ evgCodeTVALID' = (NoGap /\ Ours[n].code # END) /\ evgInGap' = ~NoGap
      /\ evgGapCounter' = g - 2 /\ elapsed' = f
  BY <1>3, <1>5 DEF Fetch
<1>7. NoGap <=> g = 0
  BY <1>3, <1>4 DEF NoGap
<1>8. /\ evgStop' <=> Ours[n].code = END
      /\ evgCodeTVALID' <=> NoGap /\ Ours[n].code # END
      /\ evgInGap' <=> ~NoGap
  BY <1>6, Zenon
<1>9. Fetched(n)'
  <2>1. CASE NoGap
    <3>1. f = f + g
      BY <1>4, <1>7, <2>1
    <3>2. ~evgInGap' /\ (evgCodeTVALID' <=> Ours[n].code # END) /\ elapsed' = f + g
      BY <1>6, <1>8, <2>1, <3>1
    <3> QED
      BY <1>3, <1>5, <1>6, <1>8, <3>2 DEF Fetched
  <2>2. CASE ~NoGap
    <3>1. evgInGap' /\ ~evgCodeTVALID'
      BY <1>8, <2>2
    <3>2. /\ evgGapCounter' \in -1..g - 2
          /\ elapsed' = f + (g - 2 - evgGapCounter')
      <4> HIDE DEF f, g
      <4> QED
        BY <1>4, <1>6, <1>7, <2>2
    <3> QED
      BY <1>3, <1>5, <1>6, <1>8, <3>1, <3>2 DEF Fetched
  <2> QED
    BY <2>1, <2>2
<1>10. ServiceInv'
  BY <1>1, <1>2, <1>3, <1>9 DEF Fetch, Running, ServiceInv
<1> QED
  BY <1>1, <1>10, PlayImplements DEF Fetch

LEMMA HaltImplements ==
  ASSUME TypeInv, ServiceInv, Cancel \/ Finish, table' = table
  PROVE  ServiceInv' /\ (Service!End \/ Service!Cancel)
<1>1. Playing /\ Busy /\ Halt
  BY DEF Cancel, Finish, Playing, Busy
<1>2. ~Playing' /\ ~Busy' /\ ~evgStarting'
  BY <1>1 DEF Halt, Running, Playing, Busy
<1>3. ServiceInv'
  BY <1>1, <1>2 DEF Halt, Running, ServiceInv
<1>4. Service!Stop
  <2>1. evgActiveBankIndex \notin evgTriggered'
    BY <1>1 DEF ServiceInv, Halt, Running, Triggers
  <2>2. elapsed' = 0 /\ ~evgCodeTVALID'
    BY <1>1 DEF Halt
  <2> QED
    BY <1>1, <1>2, <2>1, <2>2, OursType, ServiceTables DEF Service!Stop
<1>5. CASE Cancel
  <2>1. elapsed + 1 >= 3
    <3>1. CASE evgAddrCounter = 1
      BY <1>1, <3>1 DEF ServiceInv
    <3>2. CASE evgAddrCounter # 1
      <4>1. PICK n \in Addresses : n = evgAddrCounter - 2
        BY <1>1, <3>2, CapacityAssumption DEF TypeInv, PlayInv, Addresses
      <4>2. Fetched(n)
        BY <1>1, <3>2, <4>1 DEF ServiceInv
      <4>3. n \in 0..Capacity
        BY CapacityAssumption DEF Addresses
      <4>4. FetchTick(Ours)[n] \in Nat /\ Ours[n].gap \in Nat
        BY <4>3, OursType, FetchTicks
      <4>5. FetchTick(Ours)[n] >= 3
        BY <4>3, OursType, FetchTicksLow
      <4>6. elapsed >= FetchTick(Ours)[n]
        <5>1. evgGapCounter \in Int
          BY MaxGapAssumption DEF TypeInv, TypeOK, PlayTypeOK
        <5> QED
          BY <4>2, <4>4, <5>1 DEF Fetched
      <4>7. elapsed \in Nat
        BY DEF TypeInv, TypeOK, PlayTypeOK
      <4> QED
        BY <4>4, <4>5, <4>6, <4>7
    <3> QED
      BY <3>1, <3>2
  <2> QED
    BY <1>3, <1>4, <2>1 DEF Service!Cancel, Service!StartTicks
<1>6. CASE Finish
  <2>1. evgAddrCounter # 1
    BY <1>6, CapacityAssumption DEF Finish, TypeInv, PlayInv, ServiceInv
  <2>2. PICK n \in Addresses : n = evgAddrCounter - 2
    BY <1>1, <2>1, CapacityAssumption DEF TypeInv, PlayInv, Addresses
  <2>3. Fetched(n)
    BY <1>1, <2>1, <2>2 DEF ServiceInv
  <2>4. Ours[n].code = END \/ n + 1 = Capacity
    <3>1. evgStop => Ours[n].code = END
      BY <2>3 DEF Fetched
    <3>2. evgAddrOverflow_r => n + 1 = Capacity
      BY <1>1, <2>2, CapacityAssumption DEF TypeInv, PlayInv
    <3> QED
      BY <1>6, <3>1, <3>2 DEF Finish
  <2>5. LastTick(Ours) = FetchTick(Ours)[n + 1]
    BY <2>3, <2>4, OursType, LastTickIs DEF Fetched
  <2>6. elapsed + 1 = FetchTick(Ours)[n + 1]
    <3>1. elapsed = FetchTick(Ours)[n] + Ours[n].gap
      BY <1>6, <2>3 DEF Finish, Fetched
    <3> QED
      BY <3>1, OursType, FetchTicks
  <2> QED
    BY <1>1, <1>3, <1>4, <2>5, <2>6, ServiceTables DEF Service!End, Ours
<1> QED
  BY <1>5, <1>6

LEMMA EdgeImplements ==
  ASSUME TypeInv, ServiceInv, TypeInv', NEW fired, EvgEdge(fired)
  PROVE  ServiceInv' /\ Service!Tick
<1>1. table' = table /\ ReadTable
  BY DEF EvgEdge
<1>2. evgTriggered' \in SUBSET Banks
  BY DEF TypeInv, TypeOK, PlayTypeOK
<1>3. /\ ServiceInv'
      /\ \/ Service!Wait \/ Service!Choose \/ Service!Play
         \/ Service!End \/ Service!Cancel
  BY <1>1, RestImplements, BeginImplements, FirstReadImplements,
     GapImplements, FetchImplements, HaltImplements DEF EvgEdge
<1> QED
  BY <1>1, <1>2, <1>3 DEF Service!Tick, Service!Banks, Banks

(* The sequencer's registers play the tables as SequencerService says: for *)
(* any number of banks, tables of any size with any codes and gaps, and    *)
(* any triggers and commands, every event of the highest triggered bank    *)
(* comes out once, in order and on its tick.                               *)
THEOREM PlaysTablesCorrect == Spec => PlaysTables
<1> DEFINE Inv == TypeInv /\ ServiceInv
<1>1. Init => Inv /\ Service!Init
  BY InitTypeInv, InitServiceInv
<1>2. Inv /\ [Next]_vars => Inv' /\ [Service!Next]_Service!serviceVars
  <2> SUFFICES ASSUME Inv, [Next]_vars
               PROVE  Inv' /\ [Service!Next]_Service!serviceVars
    OBVIOUS
  <2>1. TypeInv'
    BY TypeStep
  <2>2. CASE DriverCall
    BY <2>1, <2>2, DriverImplements DEF Service!Next
  <2>3. CASE Edge
    BY <2>1, <2>3, EdgeImplements DEF Edge, Service!Next
  <2>4. CASE UNCHANGED vars
    BY <2>1, <2>4
    DEF ServiceInv, Fetched, Ours, Busy, Playing, vars, evgVars, bankVars,
        playVars, Service!serviceVars
  <2> QED
    BY <2>2, <2>3, <2>4 DEF Next
<1> HIDE DEF Inv
<1> QED
  BY <1>1, <1>2, PTL DEF Spec, PlaysTables, Service!Spec

=============================================================================
