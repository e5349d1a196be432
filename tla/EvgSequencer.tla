---------------------------- MODULE EvgSequencer ----------------------------
(***************************************************************************)
(* The event sequencer of the generator (ospreyEVGsequencer.v) and the     *)
(* driver calls that command it (ospreyEVG.c).                             *)
(*                                                                         *)
(* Two clock domains: a driver call is one action of sysClk, and EvgEdge   *)
(* is one edge of evgClk, on which all the sequencer's registers change    *)
(* together.  A command crosses from the one to the other in sysCSR, with  *)
(* a toggle that the second clock sees SyncEdges later; the wait states of *)
(* the AXI writes (ospreyEVG.v) keep the next write back at least as long. *)
(* Bit vectors over the banks are sets.                                    *)
(***************************************************************************)
EXTENDS Integers, FiniteSets, SequenceTable

CONSTANTS
  WriteEdges,  \* edges of evgClk between two register writes, at least
  Sources,     \* the edges and timers that can trigger, as <<input, kind>>
  Commands,    \* bound: the commands that are given, among AllCommands
  Entries      \* bound: the table entries that are written

SyncEdges == 3

\* The trigger sources that one register write enables or disables.
Kinds == {"rise", "fall", "timer"}
OfKind(sources, kind) == {s \in sources : s[2] = kind}

\* The writes to the control register.  Only the mode takes both masks.
AllCommands ==
  [op : {"arm", "softTrigger"}, set : SUBSET Banks]
    \cup [op : {"disarm"}, clear : SUBSET Banks]
    \cup [op : {"trigMode"}, set : SUBSET Banks, clear : SUBSET Banks]
    \cup [op : {"cancel"}]
    \cup UNION {[op : {"setTrigger"}, bank : Banks, kind : {k},
                 enables : SUBSET OfKind(Sources, k)] : k \in Kinds}

NoCommand == [op |-> "none"]

ASSUME WriteEdgesAssumption == WriteEdges \in Nat /\ WriteEdges >= SyncEdges
ASSUME CommandsAssumption == Commands \subseteq AllCommands
ASSUME EntriesAssumption  == Entries \subseteq Entry

VARIABLES
  table,          \* dpramCodes, dpramGaps: both sides of the memory
  sysCSR,         \* the command that is crossing, NoCommand if none
  sync            \* edges of evgClk until the next write

VARIABLES
  evgArm, evgDisarm,    \* banks to arm, to disarm, on the next edge
  evgSoftTriggers,      \* banks triggered by software
  evgHwTriggers,        \* banks triggered by an input or a timer
  evgSeqCancel,         \* the running bank is to be cancelled
  enables,              \* evgHwTrigRise-, FallEnables, evgTimerTriggerEnables
  evgArmed, evgTriggered, evgTrigNormal,
  evgRunning,           \* evgRunningBitmap
  evgActiveBankIndex,
  evgStart, evgStarting, evgActive,
  evgAddrCounter, evgAddrOverflow_r,
  evgDpramQ,            \* the entry last read from the memory
  evgGapCounter, evgInGap, evgStop,
  evgCodeTDATA, evgCodeTVALID

VARIABLE elapsed  \* history: edges since the running bank was chosen, else 0

reqVars  == <<evgArm, evgDisarm, evgSoftTriggers, evgHwTriggers,
              evgSeqCancel, enables>>
bankVars == <<evgArmed, evgTriggered, evgTrigNormal>>
playVars == <<evgRunning, evgActiveBankIndex, evgStart, evgStarting,
              evgActive, evgAddrCounter, evgAddrOverflow_r, evgDpramQ,
              evgGapCounter, evgInGap, evgStop, evgCodeTDATA,
              evgCodeTVALID>>
evgVars  == <<reqVars, bankVars, playVars, elapsed>>
vars     == <<table, sysCSR, sync, evgVars>>

\* The memory powers up with code 0, and stored gaps of 0, which are one.
\* The trigger enables have no initial value in the source.
Init ==
  /\ table = [b \in Banks |-> [i \in Addresses |-> [code |-> 0, gap |-> 1]]]
  /\ sysCSR = NoCommand
  /\ sync = 0
  /\ evgArm = {} /\ evgDisarm = {}
  /\ evgSoftTriggers = {} /\ evgHwTriggers = {}
  /\ evgSeqCancel = FALSE
  /\ enables \in [Banks -> SUBSET Sources]
  /\ evgArmed = {} /\ evgTriggered = {} /\ evgTrigNormal = {}
  /\ evgRunning = {}
  /\ evgActiveBankIndex = 0
  /\ evgStart = FALSE /\ evgStarting = FALSE /\ evgActive = FALSE
  /\ evgAddrCounter = 0
  /\ evgAddrOverflow_r = FALSE
  /\ evgDpramQ = [code |-> 0, gap |-> 1]
  /\ evgGapCounter = 0
  /\ evgInGap = FALSE
  /\ evgStop = FALSE
  /\ evgCodeTDATA = 0
  /\ evgCodeTVALID = FALSE
  /\ elapsed = 0

-----------------------------------------------------------------------------
(***************************************************************************)
(* sysClk: the driver calls.                                               *)
(***************************************************************************)
Command(c) ==
  /\ sync = 0
  /\ sysCSR' = c
  /\ sync' = WriteEdges
  /\ UNCHANGED <<table, evgVars>>

Idle(b) == b \notin evgArm \cup evgArmed \cup evgTriggered \cup evgRunning

\* A table is written only while its bank is idle: the client's promise.
ospreyEVGSequencerWriteCode(bank, address, evCode) ==
  /\ sync = 0 /\ Idle(bank)
  /\ table' = [table EXCEPT ![bank][address].code = evCode]
  /\ UNCHANGED <<sysCSR, sync, evgVars>>

ospreyEVGSequencerWriteDelay(bank, address, delay) ==
  /\ sync = 0 /\ Idle(bank)
  /\ table' = [table EXCEPT ![bank][address].gap = delay]
  /\ UNCHANGED <<sysCSR, sync, evgVars>>

-----------------------------------------------------------------------------
(***************************************************************************)
(* evgClk: what each group of registers does on an edge.  fired: the       *)
(* inputs with an edge and the timers that go off.                         *)
(***************************************************************************)
LastEdge    == WriteEdges - SyncEdges + 1   \* sync when the toggle is seen
Arrives(op) == sync = LastEdge /\ sysCSR.op = op

TakeCommand ==
  /\ sync' = IF sync > 0 THEN sync - 1 ELSE 0
  /\ sysCSR' = IF sync = LastEdge THEN NoCommand ELSE sysCSR
  /\ evgArm' = IF Arrives("arm") THEN sysCSR.set ELSE {}
  /\ evgDisarm' = IF Arrives("disarm") THEN sysCSR.clear ELSE {}
  /\ evgSoftTriggers' =
       IF Arrives("softTrigger") THEN sysCSR.set \cap evgArmed ELSE {}
  /\ evgSeqCancel' = Arrives("cancel")
  /\ evgTrigNormal' =
       IF Arrives("trigMode")
         THEN (evgTrigNormal \cup sysCSR.set) \ sysCSR.clear
         ELSE evgTrigNormal
  /\ enables' =
       IF Arrives("setTrigger")
         THEN [enables EXCEPT ![sysCSR.bank] =
                 (@ \ OfKind(@, sysCSR.kind)) \cup sysCSR.enables]
         ELSE enables

HwTrigger(fired) ==
  evgHwTriggers' = {b \in evgArmed : enables[b] \cap fired # {}}

\* Disarm on request, or when running in single mode.
ArmStays ==   \* faulty: a bank stays armed when it runs
  evgArmed' = (evgArmed \cup evgArm) \ evgDisarm

Arm ==
  evgArmed' = ((evgArmed \cup evgArm) \ evgDisarm)
                \ (evgRunning \ evgTrigNormal)

\* The highest-numbered triggered bank is next.
CanChoose    == ~evgStart /\ ~evgActive /\ evgTriggered # {}
LowestChosen ==   \* faulty: the lowest bank first
  CHOOSE b \in evgTriggered : \A c \in evgTriggered : b <= c
Chosen       == CHOOSE b \in evgTriggered : \A c \in evgTriggered : c <= b

\* Mask the trigger of the running bank.
TriggersOfRunning ==   \* faulty: those of the running bank count too
  (evgTriggered \cup evgHwTriggers \cup evgSoftTriggers) \cap evgArmed

Triggers ==
  ((evgTriggered \cup evgHwTriggers \cup evgSoftTriggers) \cap evgArmed)
    \ evgRunning

ReadTableWraps ==   \* faulty: the overflow is not noticed
  /\ evgDpramQ' = IF evgInGap THEN evgDpramQ
                  ELSE table[evgActiveBankIndex][evgAddrCounter % Capacity]
  /\ UNCHANGED evgAddrOverflow_r

ReadTable ==
  IF evgInGap THEN UNCHANGED <<evgDpramQ, evgAddrOverflow_r>>
  ELSE /\ evgDpramQ' = table[evgActiveBankIndex][evgAddrCounter % Capacity]
       /\ evgAddrOverflow_r' = (evgAddrCounter >= Capacity)

-----------------------------------------------------------------------------
(***************************************************************************)
(* evgClk: the state machine, one action per state.  A gap of zero is      *)
(* stored as minus one, which the hardware sees as a sign bit.             *)
(***************************************************************************)
ShortGap == evgDpramQ.gap - 1 <= 0   \* faulty: a gap of one is none
NoGap    == evgDpramQ.gap - 1 < 0

\* Nothing runs.  The bank chosen here runs from the next edge on.
Rest ==
  /\ ~evgStart /\ ~evgActive
  /\ IF CanChoose
       THEN /\ evgActiveBankIndex' = Chosen
            /\ evgRunning' = {Chosen}
            /\ evgTriggered' = Triggers \ {Chosen}
            /\ evgStart' = TRUE
       ELSE /\ evgTriggered' = Triggers
            /\ UNCHANGED <<evgActiveBankIndex, evgRunning, evgStart>>
  /\ elapsed' = 0
  /\ UNCHANGED <<evgStarting, evgActive, evgAddrCounter, evgGapCounter,
                 evgInGap, evgStop, evgCodeTDATA, evgCodeTVALID>>

\* What every state in which a bank runs has in common.
Running ==
  /\ evgTriggered' = Triggers
  /\ evgStart' = FALSE
  /\ UNCHANGED evgActiveBankIndex

Begin ==
  /\ evgStart
  /\ Running
  /\ evgStarting' = TRUE
  /\ evgActive' = TRUE
  /\ elapsed' = elapsed + 1
  /\ UNCHANGED <<evgRunning, evgAddrCounter, evgGapCounter, evgInGap,
                 evgStop, evgCodeTDATA, evgCodeTVALID>>

FirstRead ==
  /\ evgStarting
  /\ Running
  /\ evgAddrCounter' = 1
  /\ evgStarting' = FALSE
  /\ elapsed' = elapsed + 1
  /\ UNCHANGED <<evgRunning, evgActive, evgGapCounter, evgInGap, evgStop,
                 evgCodeTDATA, evgCodeTVALID>>

\* Both ways a bank stops running.
Halt ==
  /\ Running
  /\ evgInGap' = FALSE
  /\ evgStop' = FALSE
  /\ evgAddrCounter' = 0
  /\ evgCodeTVALID' = FALSE
  /\ evgActive' = FALSE
  /\ evgRunning' = {}
  /\ elapsed' = 0
  /\ UNCHANGED <<evgStarting, evgGapCounter, evgCodeTDATA>>

Playing == evgActive /\ ~evgStarting

Cancel == Playing /\ evgSeqCancel /\ Halt

Finish ==
  /\ Playing /\ ~evgSeqCancel /\ ~evgInGap
  /\ evgStop \/ evgAddrOverflow_r
  /\ Halt

\* The event being held back is valid when the gap ends.
Gap ==
  /\ Playing /\ ~evgSeqCancel /\ evgInGap
  /\ Running
  /\ evgGapCounter' = evgGapCounter - 1
  /\ IF evgGapCounter < 0
       THEN /\ evgInGap' = FALSE
            /\ evgCodeTVALID' = (~evgStop \/ evgCodeTVALID)
       ELSE UNCHANGED <<evgInGap, evgCodeTVALID>>
  /\ elapsed' = elapsed + 1
  /\ UNCHANGED <<evgRunning, evgStarting, evgActive, evgAddrCounter, evgStop,
                 evgCodeTDATA>>

Fetch ==
  /\ Playing /\ ~evgSeqCancel /\ ~evgInGap
  /\ ~evgStop /\ ~evgAddrOverflow_r
  /\ Running
  /\ evgAddrCounter' = evgAddrCounter + 1
  /\ evgGapCounter' = evgDpramQ.gap - 2
  /\ evgStop' = (evgDpramQ.code = END)
  /\ evgCodeTDATA' = evgDpramQ.code
  /\ evgCodeTVALID' = (NoGap /\ evgDpramQ.code # END)
  /\ evgInGap' = ~NoGap
  /\ elapsed' = elapsed + 1
  /\ UNCHANGED <<evgRunning, evgStarting, evgActive>>

EvgEdge(fired) ==
  /\ TakeCommand
  /\ HwTrigger(fired)
  /\ Arm
  /\ ReadTable
  /\ Rest \/ Begin \/ FirstRead \/ Cancel \/ Finish \/ Gap \/ Fetch
  /\ UNCHANGED table

-----------------------------------------------------------------------------
DriverCall ==
  \/ \E c \in Commands : Command(c)
  \/ \E b \in Banks, i \in Addresses, e \in Entries :
        \/ ospreyEVGSequencerWriteCode(b, i, e.code)
        \/ ospreyEVGSequencerWriteDelay(b, i, e.gap)

Edge == \E fired \in SUBSET Sources : EvgEdge(fired)

Next == DriverCall \/ Edge

\* The event clock runs.
Spec == Init /\ [][Next]_vars /\ WF_vars(Edge)

-----------------------------------------------------------------------------
RequestTypeOK ==
  /\ sysCSR \in AllCommands \cup {NoCommand}
  /\ sync \in 0..WriteEdges
  /\ sync < LastEdge <=> sysCSR = NoCommand
  /\ evgArm \in SUBSET Banks
  /\ evgDisarm \in SUBSET Banks
  /\ evgSoftTriggers \in SUBSET Banks
  /\ evgSeqCancel \in BOOLEAN
  /\ evgTrigNormal \in SUBSET Banks
  /\ enables \in [Banks -> SUBSET Sources]

FlagsTypeOK ==
  /\ evgStart \in BOOLEAN
  /\ evgStarting \in BOOLEAN
  /\ evgActive \in BOOLEAN
  /\ evgAddrOverflow_r \in BOOLEAN
  /\ evgInGap \in BOOLEAN
  /\ evgStop \in BOOLEAN
  /\ evgCodeTVALID \in BOOLEAN

PlayTypeOK ==
  /\ evgTriggered \in SUBSET Banks
  /\ evgRunning \in SUBSET Banks
  /\ evgActiveBankIndex \in Banks
  /\ evgAddrCounter \in 0..(2 * Capacity - 1)
  /\ evgDpramQ \in Entry
  /\ evgGapCounter \in -2..MaxGap
  /\ evgCodeTDATA \in Codes
  /\ elapsed \in Nat

(* Every register holds a value of its width. *)
TypeOK ==
  /\ table \in [Banks -> [Addresses -> Entry]]
  /\ RequestTypeOK
  /\ evgHwTriggers \in SUBSET Banks
  /\ evgArmed \in SUBSET Banks
  /\ FlagsTypeOK
  /\ PlayTypeOK

\* A bank has been chosen and has not finished.
Busy == evgStart \/ evgActive

Service == INSTANCE SequencerService WITH
  waiting <- evgTriggered,
  active  <- IF Busy THEN evgActiveBankIndex ELSE NoBank,
  event   <- IF evgCodeTVALID THEN evgCodeTDATA ELSE NoEvent

(* The registers, the prefetch from the memory and the gap counter         *)
(* together play the tables as SequencerService says: the highest          *)
(* triggered bank, without preemption, every event of its table once, in   *)
(* order and on its tick.                                                  *)
PlaysTables == Service!Spec

(* Every bank that is triggered starts or loses its trigger: what runs     *)
(* always ends, also if its table has no end.                              *)
TriggerIsServed == \A b \in Banks : b \in evgTriggered ~> b \notin evgTriggered

=============================================================================
