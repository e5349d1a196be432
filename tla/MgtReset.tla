------------------------------ MODULE MgtReset ------------------------------
(***************************************************************************)
(* The transceivers of one node: the reference clock and its switch        *)
(* (epics.c, mgtClkSwitch.c), the lost-clock latch and the resets of       *)
(* mgtWrapper.v, the reset sequence of mgt.c, and the receivers.           *)
(*                                                                         *)
(* The processor makes one register access per action, so that the         *)
(* hardware can change between any two of them; what mgtCrank and mgtInit  *)
(* do in between is in pc.  Edge is one edge of sysClk, with at most one   *)
(* edge of each recovered clock.  The PLLs, the reset machine inside each  *)
(* transceiver and the far ends of the fibers are external.                *)
(***************************************************************************)
EXTENDS MgtReceiver

CONSTANTS
  MgtCount,      \* CFG_MGT_COUNT
  Receivers,     \* the lanes whose receivers are modelled
  Inputs,        \* inputs of the clock switch
  Si570,         \* the one whose frequency the processor sets
  FirstInput,    \* the one that is selected at power-up
  Unsteady,      \* the ones whose clock may come and go
  Requested,     \* the ones that clients ask for, or Disabled
  Disabled       \* MGT_CLK_SWITCH_INPUT_DISABLE_OUTPUT

Lanes == 1..MgtCount

ASSUME LanesAssumption == MgtCount \in Nat \ {0} /\ Receivers \subseteq Lanes
ASSUME InputsAssumption ==
  /\ {Si570, FirstInput} \subseteq Inputs
  /\ Unsteady \subseteq Inputs
  /\ Disabled \notin Inputs
  /\ Requested \subseteq Inputs \cup {Disabled}

VARIABLES
  pc,              \* where the processor is in a handler
  mgtRst,          \* software: the reset sequence
  scanned,         \* software: lanes that mgtRstBusy has read
  busy,            \* software: whether one of them was busy
  mgtClkSwitch0,   \* software: the input the switch was last told to use
  target,          \* software: the input it is about to be told to use
  crosspoint,      \* the switch: what drives the transceivers
  clocks,          \* external: the inputs that have a clock
  locked,          \* external: all PLLs are locked
  pllLocked,       \* sysClk: the same, sampled
  refClkLost,      \* sysClk: the latch
  softReset,       \* sysClk: edges for which the soft resets are still held
  sysRxReset,      \* sysClk: lanes held in reset
  sysRxPowerdown,  \* sysClk: lanes without power
  fsmDone,         \* external: lanes that report their resets done
  signal,          \* external: lanes on whose fiber a partner transmits
  rx,              \* external: what each receiver makes of its fiber
  alignment,       \* sysClk: the alignment machine of each receiver
  commasNeeded     \* recovered clock: commas until the link is up

(***************************************************************************)
(* History.  clean: the PLLs have been locked since the last soft reset    *)
(* began.  struck: they have not been since the decision to apply it, up   *)
(* to the end of the sequence.  upFor: edges of sysClk on which a link has *)
(* been up, up to Settled.                                                 *)
(***************************************************************************)
VARIABLES clean, struck, upFor

softVars  == <<mgtRst, scanned, busy, mgtClkSwitch0, target>>
clockVars == <<crosspoint, clocks, locked>>
sysVars   == <<pllLocked, refClkLost, softReset, sysRxReset, sysRxPowerdown>>
laneVars  == <<signal, rx, alignment, commasNeeded>>
histVars  == <<clean, struck, upFor>>
vars      == <<pc, softVars, clockVars, sysVars, fsmDone, laneVars, histVars>>

Settled == 3

\* What a receiver makes of its fiber: nothing while it is reset; then bad
\* characters until it has locked; then one of the alignments, of which the
\* one by half a word looks good but has its commas in the wrong byte.
RxStates == {"none", "acquiring", "wrong", "swapped", "right"}

CharOf(l) ==
  CASE rx[l] = "none"                   -> "none"
    [] rx[l] \in {"acquiring", "wrong"} -> "notInTable"
    [] rx[l] = "swapped"                -> "other"
    [] rx[l] = "right"                  -> "comma"

LinkUp(l) == commasNeeded[l] = 0

RefClk == crosspoint \in clocks

refClkFault == ~pllLocked

Init ==
  /\ pc = "init" /\ mgtRst = "rstIdle" /\ scanned = 0 /\ busy = FALSE
  /\ mgtClkSwitch0 = FirstInput /\ target = FirstInput
  /\ crosspoint = FirstInput
  /\ clocks \in {c \in SUBSET Inputs : Inputs \ Unsteady \subseteq c}
  /\ locked = FALSE /\ pllLocked = FALSE /\ refClkLost = TRUE
  /\ softReset = ApplyLoad
  /\ sysRxReset = {} /\ sysRxPowerdown = Lanes \ {1}
  /\ fsmDone = {}
  /\ signal \in [Receivers -> BOOLEAN]
  /\ rx = [l \in Receivers |-> "none"]
  /\ alignment = [l \in Receivers |-> Unaligned]
  /\ commasNeeded = [l \in Receivers |-> CommasRequired]
  /\ clean = FALSE /\ struck = TRUE
  /\ upFor = [l \in Receivers |-> 0]

-----------------------------------------------------------------------------
(***************************************************************************)
(* mgtWrapper.v, one edge of sysClk.                                       *)
(***************************************************************************)
InReset(l) ==
  \/ alignment[l].pmareset \/ l \in sysRxReset \/ l \in sysRxPowerdown
  \/ softReset # 0 \/ ~locked

NextRx(l) ==
  IF InReset(l) THEN {"none"}
  ELSE IF rx[l] = "none" \/ ~signal[l] THEN {"acquiring"}
  ELSE IF rx[l] = "acquiring" THEN {"wrong", "swapped", "right"}
  ELSE {rx[l]}

\* The latch of a lost clock, which no clear can release while it is lost.
LatchNext == refClkLost \/ refClkFault

NextCommas(l) ==
  IF refClkLost' \/ l \in sysRxPowerdown THEN CommasRequired
  ELSE LinkEdge(commasNeeded[l], CharOf(l))

Edge ==
  /\ pllLocked' = locked
  /\ refClkLost' = LatchNext
  /\ softReset' = Down(softReset)
  /\ rx' \in [Receivers -> RxStates]
  /\ \A l \in Receivers : rx'[l] \in NextRx(l)
  /\ alignment' = [l \in Receivers |->
                     AlignmentEdge(alignment[l], refClkLost, LinkUp(l))]
  /\ commasNeeded' = [l \in Receivers |-> NextCommas(l)]
  /\ upFor' = [l \in Receivers |->
                 IF ~LinkUp(l) THEN 0
                 ELSE IF upFor[l] = Settled THEN Settled ELSE upFor[l] + 1]
  /\ UNCHANGED <<pc, softVars, clockVars, sysRxReset, sysRxPowerdown, fsmDone,
                 signal, clean, struck>>

-----------------------------------------------------------------------------
(***************************************************************************)
(* The reference clock.  Without it the PLLs lose lock; to lock again      *)
(* takes them longer than a period of sysClk.  A lane that has reported    *)
(* its reset done does not withdraw that: "no status indicating an issue"  *)
(* (epics.c:129).                                                          *)
(***************************************************************************)
\* The processor is in mgtInit, or in the second reset of the sequence.
LastReset ==
  \/ pc \in {"init", "initReset", "activate", "eyescan", "deassert"}
  \/ mgtRst \in {"rstAgain", "rstWait2"}

DriveClock(output, sources) ==
  /\ crosspoint' = output /\ clocks' = sources
  /\ IF output \in sources
       THEN UNCHANGED <<locked, clean, struck>>
       ELSE /\ locked' = FALSE
            /\ clean' = FALSE
            /\ struck' = (struck \/ LastReset)

ClockComesOrGoes(i) ==
  /\ DriveClock(crosspoint, IF i \in clocks THEN clocks \ {i} ELSE clocks \cup {i})
  /\ UNCHANGED <<pc, softVars, sysVars, fsmDone, laneVars, upFor>>

Lock ==
  /\ RefClk /\ ~locked /\ ~pllLocked
  /\ locked' = TRUE
  /\ UNCHANGED <<pc, softVars, crosspoint, clocks, sysVars, fsmDone, laneVars, histVars>>

\* A lane completes its reset, which it cannot without a clock.
LaneDone(l) ==
  /\ l \notin fsmDone
  /\ locked /\ softReset = 0
  /\ fsmDone' = fsmDone \cup {l}
  /\ UNCHANGED <<pc, softVars, clockVars, sysVars, laneVars, histVars>>

PartnerComesOrGoes(l) ==
  /\ signal' = [signal EXCEPT ![l] = ~@]
  /\ UNCHANGED <<pc, softVars, clockVars, sysVars, fsmDone, rx, alignment,
                 commasNeeded, histVars>>

\* The switch is told to drive the transceivers from another input, or the
\* frequency of the one in use is set: the output is disabled first.
setMgtClkSwitch0(input) ==
  /\ pc = "loop"
  /\ input # mgtClkSwitch0 \/ input = Si570
  /\ target' = input
  /\ DriveClock(Disabled, clocks)
  /\ pc' = "switch"
  /\ UNCHANGED <<mgtRst, scanned, busy, mgtClkSwitch0, sysVars, fsmDone,
                 laneVars, upFor>>

ConnectOutputToInput ==
  /\ pc = "switch"
  /\ DriveClock(target, clocks)
  /\ mgtClkSwitch0' = target
  /\ pc' = "loop"
  /\ UNCHANGED <<mgtRst, scanned, busy, target, sysVars, fsmDone, laneVars, upFor>>

-----------------------------------------------------------------------------
(***************************************************************************)
(* mgt.c.                                                                  *)
(***************************************************************************)
Waiting == mgtRst \in {"rstWait1", "rstWait2"}

\* Receivers that are reset hear nothing at once.
Silence(lanes) ==
  rx' = [l \in Receivers |-> IF l \in lanes THEN "none" ELSE rx[l]]

\* rstIdle: has the clock been lost?
SeeLostClock ==
  /\ pc = "loop" /\ mgtRst = "rstIdle" /\ refClkLost
  /\ mgtRst' = "rstApply" /\ struck' = FALSE
  /\ UNCHANGED <<pc, scanned, busy, mgtClkSwitch0, target, clockVars, sysVars,
                 fsmDone, laneVars, clean, upFor>>

\* rstApply, rstAgain and mgtInit: all receivers out of reset, with power.
\* mgtInit has waited until the PLLs were locked, or in vain for a second.
ReleaseLanes ==
  /\ \/ pc = "init" /\ (locked \/ ~RefClk)
     \/ pc = "loop" /\ mgtRst \in {"rstApply", "rstAgain"}
  /\ sysRxReset' = {} /\ sysRxPowerdown' = {}
  /\ pc' = IF pc = "init" THEN "initReset" ELSE "reset"
  /\ UNCHANGED <<softVars, clockVars, pllLocked, refClkLost, softReset, fsmDone,
                 laneVars, histVars>>

SoftReset ==
  /\ softReset' = ApplyLoad
  /\ fsmDone' = {} /\ Silence(Receivers)
  /\ clean' = locked
  /\ UNCHANGED <<scanned, busy, mgtClkSwitch0, target, clockVars, pllLocked,
                 refClkLost, sysRxReset, sysRxPowerdown, signal, alignment,
                 commasNeeded, upFor>>

CrankReset ==
  /\ pc = "reset" /\ pc' = "loop"
  /\ mgtRst' = IF mgtRst = "rstApply" THEN "rstWait1" ELSE "rstWait2"
  /\ SoftReset
  /\ UNCHANGED struck

InitReset ==
  /\ pc = "initReset" /\ pc' = "activate"
  /\ SoftReset
  /\ struck' = ~locked
  /\ UNCHANGED mgtRst

\* mgtInit: mgtSetActiveTx and mgtSetActiveRx.
Activate ==
  /\ pc = "activate" /\ pc' = "eyescan"
  /\ sysRxPowerdown' = {}
  /\ UNCHANGED <<softVars, clockVars, pllLocked, refClkLost, softReset,
                 sysRxReset, fsmDone, laneVars, histVars>>

\* Faulty: only the last lane that is read counts.
ScanLastLane ==
  /\ Waiting /\ pc \in {"loop", "scan"} /\ scanned < MgtCount
  /\ pc' = "scan"
  /\ scanned' = scanned + 1
  /\ busy' = (scanned + 1 \notin fsmDone)
  /\ UNCHANGED <<mgtRst, mgtClkSwitch0, target, clockVars, sysVars, fsmDone,
                 laneVars, histVars>>

\* rstWait1 and rstWait2: mgtRstBusy reads one lane after the other.
ScanLane ==
  /\ Waiting /\ pc \in {"loop", "scan"} /\ scanned < MgtCount
  /\ pc' = "scan"
  /\ scanned' = scanned + 1
  /\ busy' = (busy \/ scanned + 1 \notin fsmDone)
  /\ UNCHANGED <<mgtRst, mgtClkSwitch0, target, clockVars, sysVars, fsmDone,
                 laneVars, histVars>>

ScanDone(nextRst) ==
  /\ pc = "scan" /\ scanned = MgtCount
  /\ scanned' = 0 /\ busy' = FALSE
  /\ mgtRst' = nextRst
  /\ UNCHANGED <<mgtClkSwitch0, target, clockVars, sysVars, fsmDone, laneVars,
                 clean, upFor>>

StillBusy == busy /\ ScanDone(mgtRst) /\ pc' = "loop" /\ UNCHANGED struck

\* Faulty: one reset is thought to be enough.
OneResetReady ==
  /\ ~busy /\ mgtRst = "rstWait1"
  /\ ScanDone("rstWait2")
  /\ struck' = ~locked
  /\ pc' = "loop"

FirstResetReady ==
  /\ ~busy /\ mgtRst = "rstWait1"
  /\ ScanDone("rstAgain")
  /\ struck' = ~locked
  /\ pc' = "loop"

SecondResetReady ==
  /\ ~busy /\ mgtRst = "rstWait2"
  /\ ScanDone(mgtRst)
  /\ pc' = "eyescan"
  /\ UNCHANGED struck

\* Both end with eyescanInit, after which the receivers must be reset.
AssertLaneResets ==
  /\ pc = "eyescan" /\ pc' = "deassert"
  /\ sysRxReset' = Lanes /\ Silence(Lanes)
  /\ UNCHANGED <<softVars, clockVars, pllLocked, refClkLost, softReset,
                 sysRxPowerdown, fsmDone, signal, alignment, commasNeeded, histVars>>

\* Deassert the resets and attempt to clear the latch.
ClearLatch ==
  /\ pc = "deassert" /\ pc' = "loop"
  /\ sysRxReset' = {}
  /\ refClkLost' = refClkFault
  /\ mgtRst' = "rstIdle"
  /\ UNCHANGED <<scanned, busy, mgtClkSwitch0, target, clockVars, pllLocked,
                 softReset, sysRxPowerdown, fsmDone, laneVars, histVars>>

\* Requests from the console and from clients.
mgtReset ==
  /\ pc = "loop" /\ mgtRst = "rstIdle"
  /\ mgtRst' = "rstApply" /\ struck' = FALSE
  /\ UNCHANGED <<pc, scanned, busy, mgtClkSwitch0, target, clockVars, sysVars,
                 fsmDone, laneVars, clean, upFor>>

reinit ==
  /\ pc = "loop" /\ pc' = "init"
  /\ UNCHANGED <<softVars, clockVars, sysVars, fsmDone, laneVars, histVars>>

-----------------------------------------------------------------------------
\* The loop polls mgtCrank for ever and no handler stops in the middle.
Crank ==
  \/ SeeLostClock \/ ReleaseLanes \/ CrankReset \/ InitReset \/ Activate
  \/ ScanLane \/ StillBusy \/ FirstResetReady \/ SecondResetReady
  \/ AssertLaneResets \/ ClearLatch \/ ConnectOutputToInput

Requests ==
  \/ mgtReset \/ reinit
  \/ \E i \in Requested : setMgtClkSwitch0(i)

Next ==
  \/ Edge \/ Crank \/ Requests
  \/ \E i \in Unsteady : ClockComesOrGoes(i)
  \/ Lock \/ \E l \in Lanes : LaneDone(l)
  \/ \E l \in Receivers : PartnerComesOrGoes(l)

Spec == Init /\ [][Next]_vars

\* A receiver that is reset again and again starts right in the end.
StartsRight(l) == Edge /\ rx[l] = "acquiring" /\ rx'[l] = "right"

FairSpec ==
  /\ Spec
  /\ WF_vars(Edge) /\ WF_vars(Crank) /\ WF_vars(Lock)
  /\ \A l \in Lanes : WF_vars(LaneDone(l))
  /\ \A l \in Receivers : SF_vars(StartsRight(l))

-----------------------------------------------------------------------------
TypeOK ==
  /\ pc \in {"init", "initReset", "activate", "loop", "reset", "scan", "eyescan",
             "deassert", "switch"}
  /\ mgtRst \in {"rstIdle", "rstApply", "rstWait1", "rstAgain", "rstWait2"}
  /\ scanned \in 0..MgtCount /\ busy \in BOOLEAN
  /\ mgtClkSwitch0 \in Inputs \cup {Disabled}
  /\ target \in Inputs \cup {Disabled}
  /\ crosspoint \in Inputs \cup {Disabled}
  /\ clocks \subseteq Inputs
  /\ locked \in BOOLEAN /\ pllLocked \in BOOLEAN /\ refClkLost \in BOOLEAN
  /\ softReset \in 0..ApplyLoad
  /\ sysRxReset \subseteq Lanes /\ sysRxPowerdown \subseteq Lanes
  /\ fsmDone \subseteq Lanes
  /\ signal \in [Receivers -> BOOLEAN]
  /\ rx \in [Receivers -> RxStates]
  /\ alignment \in [Receivers -> Alignments]
  /\ commasNeeded \in [Receivers -> 0..CommasRequired]
  /\ clean \in BOOLEAN /\ struck \in BOOLEAN
  /\ upFor \in [Receivers -> 0..Settled]

\* The software thinks that all is well, and the clock is there.
AllWell ==
  /\ mgtRst = "rstIdle" /\ pc \in {"loop", "switch"}
  /\ ~refClkLost /\ locked /\ pllLocked

(* mgt.c:208-210 wants the second reset to have the clock from its         *)
(* beginning: if it stayed from the end of the first reset to the end of   *)
(* the second, no reset is left to stand that did not have it from its     *)
(* beginning and ever since.                                               *)
UnstruckResetIsClean == AllWell /\ ~struck => clean

(* Neither reset of the sequence is taken to be over before every lane has *)
(* completed it, whichever lane is read first and whenever each finishes.   *)
LanesWaitedFor ==
  [][pc = "scan" /\ (mgtRst' # mgtRst \/ pc' = "eyescan") => fsmDone = Lanes]_vars

(* A receiver that came up with the wrong alignment is not reported up,    *)
(* neither for the link it had before the reset nor for its good looks.    *)
MisalignedIsDown ==
  \A l \in Receivers : rx[l] \in {"wrong", "swapped"} => ~LinkUp(l)

(* The alignment machine does not reset a link that has been up for longer *)
(* than it takes to see that.                                              *)
SettledLinkIsLeft ==
  [][\A l \in Receivers :
       upFor[l] = Settled /\ LinkUp(l) /\ ~alignment[l].pmareset
         => ~alignment'[l].pmareset]_vars

(* If the clock stays and nobody asks for resets, the sequence ends, the   *)
(* latch clears, and each lane with a partner gets its link for good.      *)
LinksComeUp ==
  (<>[]RefClk /\ <>[][~mgtReset /\ ~reinit]_vars) =>
    /\ <>[](mgtRst = "rstIdle" /\ ~refClkLost)
    /\ \A l \in Receivers :
         <>[]signal[l] =>
           <>[](LinkUp(l) /\ rx[l] = "right" /\ alignment[l].rxResetState = "ALIGNED")

=============================================================================
