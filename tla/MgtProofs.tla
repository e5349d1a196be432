----------------------------- MODULE MgtProofs ------------------------------
(***************************************************************************)
(* Proofs about the transceivers, for any number of lanes and receivers,   *)
(* any clock inputs and any counter loads.                                 *)
(***************************************************************************)
EXTENDS MgtReset, TLAPS

LEMMA DownType ==
  ASSUME NEW m \in Nat, NEW n \in 0..m
  PROVE  Down(n) \in 0..m
  BY DEF Down

LEMMA LoadTypes ==
  /\ ApplyLoad \in Nat /\ AwaitLoad \in Nat
  /\ CommasRequired \in Nat /\ CommasRequired # 0
  BY LoadsAssumption

\* The alignment machine stays within its registers.
LEMMA StepAlignedType ==
  ASSUME NEW a \in Alignments
  PROVE  StepAligned(a) \in Alignments
<1>1. /\ Down(a.rxResetApplyCounter) \in 0..ApplyLoad
      /\ Down(a.rxResetAwaitCounter) \in 0..AwaitLoad
      /\ ApplyLoad \in 0..ApplyLoad /\ AwaitLoad \in 0..AwaitLoad
  BY DownType, LoadTypes DEF Alignments
<1>2. ApplyReset(a) \in Alignments
  BY <1>1 DEF ApplyReset, Alignments
<1>3. AwaitAlignment(a) \in Alignments
  BY <1>1 DEF AwaitAlignment, AfterAwait, Alignments
<1>4. StayAligned(a) \in Alignments
  BY DEF StayAligned, Alignments
<1>5. a.rxResetState \in {"APPLY_RESET", "AWAIT_ALIGNMENT", "ALIGNED"}
  BY DEF Alignments
<1> QED
  BY <1>2, <1>3, <1>4, <1>5 DEF StepAligned

LEMMA AlignmentEdgeType ==
  ASSUME NEW a \in Alignments, NEW lost \in BOOLEAN, NEW up \in BOOLEAN
  PROVE  AlignmentEdge(a, lost, up) \in Alignments
<1>1. Held(a) \in Alignments
  BY DEF Held, Alignments
<1>2. a.rxResetLinkUp_m \in BOOLEAN
  BY DEF Alignments
<1>3. ASSUME NEW b \in Alignments
      PROVE  [b EXCEPT !.rxResetLinkUp_m = up, !.rxResetLinkUp = a.rxResetLinkUp_m]
               \in Alignments
  BY <1>2 DEF Alignments
<1> QED
  BY <1>1, <1>3, StepAlignedType DEF AlignmentEdge

LEMMA LinkEdgeType ==
  ASSUME NEW n \in 0..CommasRequired,
         NEW char \in {"none", "notInTable", "other", "comma"}
  PROVE  LinkEdge(n, char) \in 0..CommasRequired
  BY DownType, LoadTypes DEF LinkEdge

LEMMA CharType ==
  ASSUME TypeOK, NEW l \in Receivers
  PROVE  CharOf(l) \in {"none", "notInTable", "other", "comma"}
<1>1. rx[l] \in RxStates
  BY DEF TypeOK
<1> QED
  BY <1>1 DEF RxStates, CharOf

-----------------------------------------------------------------------------
LEMMA InitTypeOK == Init => TypeOK
<1> SUFFICES ASSUME Init
             PROVE  TypeOK
  OBVIOUS
<1>1. /\ Unaligned \in Alignments
      /\ ApplyLoad \in 0..ApplyLoad
      /\ CommasRequired \in 0..CommasRequired
  BY LoadTypes DEF Unaligned, Alignments
<1>2. /\ 0 \in 0..MgtCount /\ 0 \in 0..Settled
      /\ FirstInput \in Inputs
      /\ Lanes \ {1} \subseteq Lanes
  BY LanesAssumption, InputsAssumption DEF Settled
<1> QED
  BY <1>1, <1>2 DEF Init, TypeOK, RxStates

LEMMA EdgeType ==
  ASSUME TypeOK, Edge
  PROVE  TypeOK'
<1>1. /\ pllLocked' \in BOOLEAN
      /\ refClkLost' \in BOOLEAN
  BY DEF TypeOK, Edge, LatchNext, refClkFault
<1>2. softReset' \in 0..ApplyLoad
  BY DownType, LoadTypes DEF TypeOK, Edge
<1>3. alignment' \in [Receivers -> Alignments]
  <2>1. ASSUME NEW l \in Receivers
        PROVE  AlignmentEdge(alignment[l], refClkLost, LinkUp(l)) \in Alignments
    BY AlignmentEdgeType DEF TypeOK, LinkUp
  <2> QED
    BY <2>1 DEF Edge
<1>4. commasNeeded' \in [Receivers -> 0..CommasRequired]
  <2>1. ASSUME NEW l \in Receivers
        PROVE  NextCommas(l) \in 0..CommasRequired
    <3>1. LinkEdge(commasNeeded[l], CharOf(l)) \in 0..CommasRequired
      BY LinkEdgeType, CharType DEF TypeOK
    <3> QED
      BY <3>1, LoadTypes DEF NextCommas
  <2> QED
    BY <2>1 DEF Edge
<1>5. upFor' \in [Receivers -> 0..Settled]
  <2>1. ASSUME NEW l \in Receivers
        PROVE  (IF ~LinkUp(l) THEN 0
                ELSE IF upFor[l] = Settled THEN Settled ELSE upFor[l] + 1)
                 \in 0..Settled
    BY DEF TypeOK, Settled
  <2> QED
    BY <2>1 DEF Edge
<1> QED
  BY <1>1, <1>2, <1>3, <1>4, <1>5 DEF TypeOK, Edge, softVars, clockVars

\* The clock and what it does to the PLLs and the history.
LEMMA DriveClockType ==
  ASSUME TypeOK, NEW out \in Inputs \cup {Disabled}, NEW s \in SUBSET Inputs,
         DriveClock(out, s)
  PROVE  /\ crosspoint' \in Inputs \cup {Disabled} /\ clocks' \subseteq Inputs
         /\ locked' \in BOOLEAN /\ clean' \in BOOLEAN /\ struck' \in BOOLEAN
  BY DEF TypeOK, DriveClock, LastReset

LEMMA CrankType ==
  ASSUME TypeOK, Crank
  PROVE  TypeOK'
<1>1. CASE SeeLostClock
  BY <1>1 DEF TypeOK, SeeLostClock, clockVars, sysVars, laneVars
<1>2. CASE ReleaseLanes
  BY <1>2 DEF TypeOK, ReleaseLanes, softVars, clockVars, laneVars, histVars
<1>3. ASSUME SoftReset
      PROVE  /\ softReset' \in 0..ApplyLoad /\ fsmDone' \subseteq Lanes
             /\ rx' \in [Receivers -> RxStates] /\ clean' \in BOOLEAN
  BY <1>3, LoadTypes DEF TypeOK, SoftReset, Silence, RxStates
<1>4. CASE CrankReset
  <2>1. mgtRst' \in {"rstWait1", "rstWait2"}
    BY <1>4 DEF CrankReset
  <2> QED
    BY <1>3, <1>4, <2>1 DEF TypeOK, CrankReset, SoftReset, clockVars
<1>5. CASE InitReset
  <2>1. struck' \in BOOLEAN
    BY <1>5 DEF InitReset
  <2> QED
    BY <1>3, <1>5, <2>1 DEF TypeOK, InitReset, SoftReset, clockVars
<1>6. CASE Activate
  BY <1>6 DEF TypeOK, Activate, softVars, clockVars, laneVars, histVars
<1>7. CASE ScanLane
  <2>1. scanned' \in 0..MgtCount
    BY <1>7, LanesAssumption DEF TypeOK, ScanLane
  <2>2. busy' \in BOOLEAN
    BY <1>7 DEF ScanLane
  <2> QED
    BY <1>7, <2>1, <2>2 DEF TypeOK, ScanLane, clockVars, sysVars, laneVars, histVars
<1>8. 0 \in 0..MgtCount
  BY LanesAssumption
<1>9. CASE StillBusy
  BY <1>8, <1>9 DEF TypeOK, StillBusy, ScanDone, clockVars, sysVars, laneVars
<1>10. CASE FirstResetReady
  <2>1. struck' \in BOOLEAN
    BY <1>10 DEF FirstResetReady
  <2> QED
    BY <1>8, <1>10, <2>1
    DEF TypeOK, FirstResetReady, ScanDone, clockVars, sysVars, laneVars
<1>11. CASE SecondResetReady
  BY <1>8, <1>11 DEF TypeOK, SecondResetReady, ScanDone, clockVars, sysVars, laneVars
<1>12. CASE AssertLaneResets
  BY <1>12 DEF TypeOK, AssertLaneResets, Silence, RxStates, softVars, clockVars, histVars
<1>13. CASE ClearLatch
  <2>1. refClkLost' \in BOOLEAN
    BY <1>13 DEF ClearLatch, refClkFault
  <2> QED
    BY <1>13, <2>1 DEF TypeOK, ClearLatch, clockVars, laneVars, histVars
<1>14. CASE ConnectOutputToInput
  <2>1. /\ crosspoint' \in Inputs \cup {Disabled} /\ clocks' \subseteq Inputs
        /\ locked' \in BOOLEAN /\ clean' \in BOOLEAN /\ struck' \in BOOLEAN
    BY <1>14, DriveClockType DEF TypeOK, ConnectOutputToInput
  <2> QED
    BY <1>14, <2>1 DEF TypeOK, ConnectOutputToInput, sysVars, laneVars
<1> QED
  BY <1>1, <1>2, <1>4, <1>5, <1>6, <1>7, <1>9, <1>10, <1>11, <1>12, <1>13, <1>14
  DEF Crank

LEMMA NextTypeOK == TypeOK /\ [Next]_vars => TypeOK'
<1> SUFFICES ASSUME TypeOK, [Next]_vars
             PROVE  TypeOK'
  OBVIOUS
<1>1. CASE Edge
  BY <1>1, EdgeType
<1>2. CASE Crank
  BY <1>2, CrankType
<1>3. CASE mgtReset
  BY <1>3 DEF TypeOK, mgtReset, clockVars, sysVars, laneVars
<1>4. CASE reinit
  BY <1>4 DEF TypeOK, reinit, softVars, clockVars, sysVars, laneVars, histVars
<1>5. ASSUME NEW i \in Requested, setMgtClkSwitch0(i)
      PROVE  TypeOK'
  <2>1. i \in Inputs \cup {Disabled}
    BY InputsAssumption
  <2>2. /\ crosspoint' \in Inputs \cup {Disabled} /\ clocks' \subseteq Inputs
        /\ locked' \in BOOLEAN /\ clean' \in BOOLEAN /\ struck' \in BOOLEAN
    BY <1>5, DriveClockType DEF TypeOK, setMgtClkSwitch0
  <2> QED
    BY <1>5, <2>1, <2>2 DEF TypeOK, setMgtClkSwitch0, sysVars, laneVars
<1>6. ASSUME NEW i \in Unsteady, ClockComesOrGoes(i)
      PROVE  TypeOK'
  <2>1. (IF i \in clocks THEN clocks \ {i} ELSE clocks \cup {i}) \in SUBSET Inputs
    BY InputsAssumption DEF TypeOK
  <2>2. /\ crosspoint' \in Inputs \cup {Disabled} /\ clocks' \subseteq Inputs
        /\ locked' \in BOOLEAN /\ clean' \in BOOLEAN /\ struck' \in BOOLEAN
    BY <1>6, <2>1, DriveClockType DEF TypeOK, ClockComesOrGoes
  <2> QED
    BY <1>6, <2>2 DEF TypeOK, ClockComesOrGoes, softVars, sysVars, laneVars
<1>7. CASE Lock
  BY <1>7 DEF TypeOK, Lock, softVars, sysVars, laneVars, histVars
<1>8. ASSUME NEW l \in Lanes, LaneDone(l)
      PROVE  TypeOK'
  BY <1>8 DEF TypeOK, LaneDone, softVars, clockVars, sysVars, laneVars, histVars
<1>9. ASSUME NEW l \in Receivers, PartnerComesOrGoes(l)
      PROVE  TypeOK'
  BY <1>9 DEF TypeOK, PartnerComesOrGoes, softVars, clockVars, sysVars, histVars
<1>10. CASE UNCHANGED vars
  BY <1>10 DEF TypeOK, vars, softVars, clockVars, sysVars, laneVars, histVars
<1> QED
  BY <1>1, <1>2, <1>3, <1>4, <1>5, <1>6, <1>7, <1>8, <1>9, <1>10 DEF Next, Requests

(* Every register stays in its range, whatever the clocks and the clients  *)
(* do.                                                                     *)
THEOREM TypeCorrect == Spec => []TypeOK
  BY InitTypeOK, NextTypeOK, PTL DEF Spec

-----------------------------------------------------------------------------
(***************************************************************************)
(* No lane is forgotten.  While mgtRstBusy reads the lanes, those it has   *)
(* read and not found busy are done, and they stay so: only a soft reset   *)
(* undoes that, and none is applied during the scan.                       *)
(***************************************************************************)
ScanInv ==
  /\ pc = "scan" => busy \/ 1..scanned \subseteq fsmDone
  /\ pc # "scan" => scanned = 0 /\ ~busy

LEMMA InitScanInv == Init => ScanInv
  BY DEF Init, ScanInv

LEMMA NextScanInv == TypeOK /\ ScanInv /\ [Next]_vars => ScanInv'
<1> SUFFICES ASSUME TypeOK, ScanInv, [Next]_vars
             PROVE  ScanInv'
  OBVIOUS
<1> USE DEF ScanInv
<1>1. CASE Edge
  BY <1>1 DEF Edge, softVars
<1>2. CASE ScanLane
  <2>1. scanned \in Nat /\ scanned' = scanned + 1 /\ pc' = "scan" /\ fsmDone' = fsmDone
    BY <1>2, LanesAssumption DEF TypeOK, ScanLane
  <2>2. pc = "loop" => 1..scanned \subseteq fsmDone
    BY <2>1
  <2>3. CASE busy
    BY <1>2, <2>1, <2>3, Zenon DEF ScanLane
  <2>4. CASE scanned + 1 \notin fsmDone
    BY <1>2, <2>1, <2>4, Zenon DEF ScanLane
  <2>5. CASE ~busy /\ scanned + 1 \in fsmDone
    <3>1. 1..scanned \subseteq fsmDone
      BY <1>2, <2>2, <2>5 DEF ScanLane
    <3> QED
      BY <2>1, <2>5, <3>1
  <2> QED
    BY <2>3, <2>4, <2>5
<1>3. CASE SeeLostClock
  BY <1>3 DEF SeeLostClock
<1>4. CASE ReleaseLanes
  BY <1>4 DEF ReleaseLanes, softVars
<1>5. CASE CrankReset \/ InitReset
  BY <1>5 DEF CrankReset, InitReset, SoftReset
<1>6. CASE Activate
  BY <1>6 DEF Activate, softVars
<1>7. CASE StillBusy \/ FirstResetReady \/ SecondResetReady
  BY <1>7 DEF StillBusy, FirstResetReady, SecondResetReady, ScanDone
<1>8. CASE AssertLaneResets
  BY <1>8 DEF AssertLaneResets, softVars
<1>9. CASE ClearLatch
  BY <1>9 DEF ClearLatch
<1>10. CASE ConnectOutputToInput
  BY <1>10 DEF ConnectOutputToInput
<1>11. CASE mgtReset \/ reinit
  BY <1>11 DEF mgtReset, reinit, softVars
<1>12. CASE \E i \in Requested : setMgtClkSwitch0(i)
  BY <1>12 DEF setMgtClkSwitch0
<1>13. CASE \E i \in Unsteady : ClockComesOrGoes(i)
  BY <1>13 DEF ClockComesOrGoes, softVars
<1>14. CASE Lock
  BY <1>14 DEF Lock, softVars
<1>15. CASE \E l \in Lanes : LaneDone(l)
  BY <1>15 DEF LaneDone, softVars
<1>16. CASE \E l \in Receivers : PartnerComesOrGoes(l)
  BY <1>16 DEF PartnerComesOrGoes, softVars
<1>17. CASE UNCHANGED vars
  BY <1>17 DEF vars, softVars
<1> QED
  BY <1>1, <1>2, <1>3, <1>4, <1>5, <1>6, <1>7, <1>8, <1>9, <1>10, <1>11, <1>12,
     <1>13, <1>14, <1>15, <1>16, <1>17
  DEF Next, Crank, Requests

LEMMA StepLanesWaitedFor ==
  ASSUME TypeOK, ScanInv, [Next]_vars,
         pc = "scan", mgtRst' # mgtRst \/ pc' = "eyescan"
  PROVE  fsmDone = Lanes
<1>1. ~busy /\ scanned = MgtCount
  BY DEF Next, Crank, Requests, vars, softVars, Edge, SeeLostClock, ReleaseLanes,
         CrankReset, InitReset, Activate, ScanLane, StillBusy, FirstResetReady,
         SecondResetReady, ScanDone, AssertLaneResets, ClearLatch,
         ConnectOutputToInput, mgtReset, reinit, setMgtClkSwitch0,
         ClockComesOrGoes, Lock, LaneDone, PartnerComesOrGoes
<1>2. 1..MgtCount \subseteq fsmDone
  BY <1>1 DEF ScanInv
<1> QED
  BY <1>2 DEF TypeOK, Lanes

(* Neither reset of the sequence is taken to be over before every lane has *)
(* completed it, for any number of lanes.                                  *)
THEOREM LanesWaitedForCorrect == Spec => LanesWaitedFor
<1>1. TypeOK /\ ScanInv /\ [Next]_vars =>
        [pc = "scan" /\ (mgtRst' # mgtRst \/ pc' = "eyescan") => fsmDone = Lanes]_vars
  BY StepLanesWaitedFor
<1> QED
  BY <1>1, InitTypeOK, NextTypeOK, InitScanInv, NextScanInv, PTL
  DEF Spec, LanesWaitedFor

-----------------------------------------------------------------------------
(***************************************************************************)
(* The lost clock is not forgotten.  Along the last reset: the decision to *)
(* apply it found the clock locked, then the reset began with it, then it  *)
(* stayed, or else the reset was struck.  After it: if the clock has been  *)
(* lost, that is in the latch, or on its way there, or still so.           *)
(***************************************************************************)
OnItsWay == refClkLost \/ ~locked \/ ~pllLocked

CleanInv ==
  /\ pc = "reset" => mgtRst \in {"rstApply", "rstAgain"}
  /\ pc = "scan" => Waiting
  /\ pc \in {"activate", "eyescan", "deassert"} => struck \/ clean
  /\ mgtRst = "rstAgain" /\ pc \in {"loop", "reset", "switch"} => struck \/ locked
  /\ mgtRst = "rstWait2" /\ pc \in {"loop", "scan", "switch"} => struck \/ clean
  /\ mgtRst = "rstIdle" /\ pc \in {"loop", "switch"} => struck \/ clean \/ OnItsWay

LEMMA InitCleanInv == Init => CleanInv
  BY DEF Init, CleanInv

LEMMA NextCleanInv == CleanInv /\ [Next]_vars => CleanInv'
<1> SUFFICES ASSUME CleanInv, [Next]_vars
             PROVE  CleanInv'
  OBVIOUS
<1> USE DEF CleanInv, OnItsWay, Waiting
<1>1. CASE Edge
  BY <1>1 DEF Edge, softVars, clockVars, LatchNext, refClkFault
<1>2. CASE ScanLane
  BY <1>2 DEF ScanLane, clockVars, sysVars, histVars
<1>3. CASE SeeLostClock
  BY <1>3 DEF SeeLostClock
<1>4. CASE ReleaseLanes
  BY <1>4 DEF ReleaseLanes, softVars, clockVars, histVars
<1>5. CASE CrankReset
  BY <1>5 DEF CrankReset, SoftReset, clockVars
<1>6. CASE InitReset
  BY <1>6 DEF InitReset, SoftReset, clockVars
<1>7. CASE Activate
  BY <1>7 DEF Activate, softVars, clockVars, histVars
<1>8. CASE StillBusy
  BY <1>8 DEF StillBusy, ScanDone, clockVars, sysVars
<1>9. CASE FirstResetReady
  BY <1>9 DEF FirstResetReady, ScanDone, clockVars, sysVars
<1>10. CASE SecondResetReady
  BY <1>10 DEF SecondResetReady, ScanDone, clockVars, sysVars
<1>11. CASE AssertLaneResets
  BY <1>11 DEF AssertLaneResets, softVars, clockVars, histVars
<1>12. CASE ClearLatch
  BY <1>12 DEF ClearLatch, clockVars, histVars
<1>13. ASSUME NEW out, NEW s, DriveClock(out, s)
       PROVE  \/ UNCHANGED <<locked, clean, struck>>
              \/ ~locked' /\ ~clean' /\ (struck' <=> struck \/ LastReset)
  BY <1>13, Zenon DEF DriveClock
<1>14. CASE ConnectOutputToInput
  BY <1>13, <1>14 DEF ConnectOutputToInput, sysVars, LastReset
<1>15. CASE \E i \in Requested : setMgtClkSwitch0(i)
  BY <1>13, <1>15 DEF setMgtClkSwitch0, sysVars, LastReset
<1>16. CASE \E i \in Unsteady : ClockComesOrGoes(i)
  BY <1>13, <1>16 DEF ClockComesOrGoes, softVars, sysVars, LastReset
<1>17. CASE mgtReset
  BY <1>17 DEF mgtReset
<1>18. CASE reinit
  BY <1>18 DEF reinit
<1>19. CASE Lock
  BY <1>19 DEF Lock, softVars, sysVars, histVars
<1>20. CASE \E l \in Lanes : LaneDone(l)
  BY <1>20 DEF LaneDone, softVars, clockVars, sysVars, histVars
<1>21. CASE \E l \in Receivers : PartnerComesOrGoes(l)
  BY <1>21 DEF PartnerComesOrGoes, softVars, clockVars, sysVars, histVars
<1>22. CASE UNCHANGED vars
  BY <1>22 DEF vars, softVars, clockVars, sysVars, histVars
<1> QED
  BY <1>1, <1>2, <1>3, <1>4, <1>5, <1>6, <1>7, <1>8, <1>9, <1>10, <1>11, <1>12,
     <1>14, <1>15, <1>16, <1>17, <1>18, <1>19, <1>20, <1>21, <1>22
  DEF Next, Crank, Requests

(* Whatever the clock does before the end of the first reset and after the *)
(* end of the second, no reset is left to stand without a clock.           *)
THEOREM UnstruckResetIsCleanCorrect == Spec => []UnstruckResetIsClean
<1>1. CleanInv => UnstruckResetIsClean
  BY DEF CleanInv, OnItsWay, UnstruckResetIsClean, AllWell
<1> QED
  BY <1>1, InitCleanInv, NextCleanInv, PTL DEF Spec

-----------------------------------------------------------------------------
(***************************************************************************)
(* The receivers.  MisalignedIsDown is inductive with the types: on its    *)
(* way to a wrong alignment a receiver brings a bad character, and a       *)
(* wrong alignment brings no comma.  A link that has been up is in the     *)
(* synchronizer; so a machine that decides on a reset has seen it down two *)
(* edges ago, and one that is held by the latch has it down on the next.   *)
(***************************************************************************)
LinkInv ==
  \A l \in Receivers :
    /\ upFor[l] >= 1 => alignment[l].rxResetLinkUp_m
    /\ upFor[l] >= 2 => alignment[l].rxResetLinkUp
    /\ /\ alignment[l].rxResetState = "APPLY_RESET"
       /\ ~alignment[l].pmareset
       /\ LinkUp(l)
       => upFor[l] <= 2

LEMMA InitLinks == Init => MisalignedIsDown /\ LinkInv
<1> SUFFICES ASSUME Init, NEW l \in Receivers
             PROVE  /\ rx[l] = "none"
                    /\ ~LinkUp(l)
                    /\ upFor[l] = 0
  BY DEF MisalignedIsDown, LinkInv
<1> QED
  BY LoadTypes DEF Init, LinkUp

\* What is left alone unless a receiver is reset or the clock runs.
LEMMA StillLinks ==
  ASSUME MisalignedIsDown, LinkInv,
         UNCHANGED <<alignment, commasNeeded, upFor>>,
         rx' = rx \/ \E S \in SUBSET Lanes : Silence(S)
  PROVE  MisalignedIsDown' /\ LinkInv'
<1>1. ASSUME NEW l \in Receivers
      PROVE  rx'[l] = rx[l] \/ rx'[l] = "none"
  BY DEF Silence
<1>2. ASSUME NEW l \in Receivers
      PROVE  LinkUp(l)' <=> LinkUp(l)
  BY DEF LinkUp
<1> QED
  BY <1>1, <1>2 DEF MisalignedIsDown, LinkInv

LEMMA EdgeMisaligned ==
  ASSUME TypeOK, MisalignedIsDown, Edge
  PROVE  MisalignedIsDown'
<1> SUFFICES ASSUME NEW l \in Receivers, rx'[l] \in {"wrong", "swapped"}
             PROVE  commasNeeded'[l] # 0
  BY DEF MisalignedIsDown, LinkUp
<1>1. rx'[l] \in NextRx(l) /\ commasNeeded'[l] = NextCommas(l)
  BY DEF Edge
<1>2. rx[l] \in {"acquiring", "wrong", "swapped"}
  BY <1>1 DEF NextRx
<1>3. CASE refClkLost' \/ l \in sysRxPowerdown
  BY <1>1, <1>3, LoadTypes DEF NextCommas
<1>4. CASE ~(refClkLost' \/ l \in sysRxPowerdown)
  <2>1. commasNeeded'[l] = LinkEdge(commasNeeded[l], CharOf(l))
    BY <1>1, <1>4 DEF NextCommas
  <2>2. CASE rx[l] \in {"acquiring", "wrong"}
    BY <2>1, <2>2, LoadTypes DEF CharOf, LinkEdge
  <2>3. CASE rx[l] = "swapped"
    BY <2>1, <2>3 DEF CharOf, LinkEdge, MisalignedIsDown, LinkUp
  <2> QED
    BY <1>2, <2>2, <2>3
<1> QED
  BY <1>3, <1>4

LEMMA EdgeLinkInv ==
  ASSUME TypeOK, LinkInv, Edge
  PROVE  LinkInv'
<1> SUFFICES ASSUME NEW l \in Receivers
             PROVE  /\ upFor'[l] >= 1 => alignment'[l].rxResetLinkUp_m
                    /\ upFor'[l] >= 2 => alignment'[l].rxResetLinkUp
                    /\ /\ alignment'[l].rxResetState = "APPLY_RESET"
                       /\ ~alignment'[l].pmareset
                       /\ commasNeeded'[l] = 0
                       => upFor'[l] <= 2
  BY DEF LinkInv, LinkUp
<1> DEFINE a == alignment[l]
           b == IF refClkLost THEN Held(a) ELSE StepAligned(a)
<1>1. /\ a \in Alignments /\ b \in Alignments
      /\ upFor[l] \in 0..3
  <2>1. a \in Alignments
    BY DEF TypeOK
  <2>2. [b EXCEPT !.rxResetLinkUp_m = LinkUp(l), !.rxResetLinkUp = a.rxResetLinkUp_m]
          = AlignmentEdge(a, refClkLost, LinkUp(l))
    BY DEF AlignmentEdge
  <2>3. b \in Alignments
    <3>1. Held(a) \in Alignments
      BY <2>1 DEF Held, Alignments
    <3>2. StepAligned(a) \in Alignments
      BY <2>1, StepAlignedType
    <3> QED
      BY <3>1, <3>2
  <2> QED
    BY <2>1, <2>3 DEF TypeOK, Settled
<1>2. alignment'[l] = [b EXCEPT !.rxResetLinkUp_m = LinkUp(l),
                                !.rxResetLinkUp = a.rxResetLinkUp_m]
  BY DEF Edge, AlignmentEdge
<1>3. /\ alignment'[l].rxResetLinkUp_m = LinkUp(l)
      /\ alignment'[l].rxResetLinkUp = a.rxResetLinkUp_m
      /\ alignment'[l].rxResetState = b.rxResetState
      /\ alignment'[l].pmareset = b.pmareset
  <2> HIDE DEF b
  <2> QED
    BY <1>1, <1>2 DEF Alignments
<1>4. /\ upFor'[l] >= 1 => LinkUp(l)
      /\ upFor'[l] >= 2 => LinkUp(l) /\ upFor[l] >= 1
      /\ upFor'[l] >= 3 => LinkUp(l) /\ upFor[l] >= 2
      /\ upFor'[l] \in 0..3
  BY <1>1 DEF Edge, Settled
<1>5. refClkLost => commasNeeded'[l] # 0
  BY LoadTypes DEF Edge, NextCommas, LatchNext
<1>6. upFor'[l] >= 2 => alignment'[l].rxResetLinkUp
  BY <1>3, <1>4 DEF LinkInv
<1>7. ASSUME alignment'[l].rxResetState = "APPLY_RESET", ~alignment'[l].pmareset,
             commasNeeded'[l] = 0
      PROVE  upFor'[l] <= 2
  <2>1. CASE refClkLost
    BY <1>5, <1>7, <2>1
  <2>2. CASE ~refClkLost
    <3>1. b = StepAligned(a) /\ b.rxResetState = "APPLY_RESET" /\ ~b.pmareset
      BY <1>3, <1>7, <2>2
    <3>2. ~a.rxResetLinkUp
      BY <1>1, <3>1 DEF StepAligned, ApplyReset, AwaitAlignment, AfterAwait,
                        StayAligned, Alignments
    <3>3. ~(upFor[l] >= 2)
      BY <3>2 DEF LinkInv
    <3> QED
      BY <1>1, <1>4, <3>3
  <2> QED
    BY <2>1, <2>2
<1> QED
  BY <1>3, <1>4, <1>6, <1>7

LEMMA NextLinks ==
  TypeOK /\ MisalignedIsDown /\ LinkInv /\ [Next]_vars => MisalignedIsDown' /\ LinkInv'
<1> SUFFICES ASSUME TypeOK, MisalignedIsDown, LinkInv, [Next]_vars
             PROVE  MisalignedIsDown' /\ LinkInv'
  OBVIOUS
<1>1. CASE Edge
  BY <1>1, EdgeMisaligned, EdgeLinkInv
<1>2. CASE ~Edge
  <2>1. UNCHANGED <<alignment, commasNeeded, upFor>>
    BY <1>2 DEF Next, Crank, Requests, vars, laneVars, histVars, SeeLostClock,
         ReleaseLanes, CrankReset, InitReset, SoftReset, Activate, ScanLane,
         StillBusy, FirstResetReady, SecondResetReady, ScanDone,
         AssertLaneResets, ClearLatch, ConnectOutputToInput, mgtReset, reinit,
         setMgtClkSwitch0, ClockComesOrGoes, Lock, LaneDone, PartnerComesOrGoes
  <2>2. rx' = rx \/ \E S \in SUBSET Lanes : Silence(S)
    BY <1>2, LanesAssumption
    DEF Next, Crank, Requests, vars, laneVars, SeeLostClock,
         ReleaseLanes, CrankReset, InitReset, SoftReset, Activate, ScanLane,
         StillBusy, FirstResetReady, SecondResetReady, ScanDone,
         AssertLaneResets, ClearLatch, ConnectOutputToInput, mgtReset, reinit,
         setMgtClkSwitch0, ClockComesOrGoes, Lock, LaneDone, PartnerComesOrGoes
  <2> QED
    BY <2>1, <2>2, StillLinks
<1> QED
  BY <1>1, <1>2

(* For any number of lanes and any number of commas, a receiver with the   *)
(* wrong alignment is not reported up.                                     *)
THEOREM MisalignedIsDownCorrect == Spec => []MisalignedIsDown
BY TypeCorrect, InitLinks, NextLinks, PTL DEF Spec

(* However long the resets and the wait for a link are, the alignment      *)
(* machine does not reset a link that has been up for three edges.         *)
THEOREM SettledLinkIsLeftCorrect == Spec => SettledLinkIsLeft
<1> DEFINE Left(l) ==
      upFor[l] = Settled /\ LinkUp(l) /\ ~alignment[l].pmareset
        => ~alignment'[l].pmareset
           Step == \A l \in Receivers : Left(l)
<1>1. TypeOK /\ LinkInv /\ [Next]_vars => Step
  <2> SUFFICES ASSUME TypeOK, LinkInv, [Next]_vars, NEW l \in Receivers,
                      upFor[l] = Settled, LinkUp(l), ~alignment[l].pmareset
               PROVE  ~alignment'[l].pmareset
    OBVIOUS
  <2>1. CASE Edge
    <3> DEFINE a == alignment[l]
               b == IF refClkLost THEN Held(a) ELSE StepAligned(a)
    <3>1. /\ a \in Alignments /\ a.rxResetState # "APPLY_RESET"
          /\ b \in Alignments
      <4>1. a \in Alignments
        BY DEF TypeOK
      <4>2. Held(a) \in Alignments
        BY <4>1 DEF Held, Alignments
      <4>3. StepAligned(a) \in Alignments
        BY <4>1, StepAlignedType
      <4>4. a.rxResetState # "APPLY_RESET"
        BY DEF LinkInv, Settled
      <4> QED
        BY <4>1, <4>2, <4>3, <4>4
    <3>2. ~b.pmareset
      BY <3>1 DEF Held, StepAligned, AwaitAlignment, StayAligned, Alignments
    <3>3. alignment'[l] = [b EXCEPT !.rxResetLinkUp_m = LinkUp(l),
                                    !.rxResetLinkUp = a.rxResetLinkUp_m]
      BY <2>1 DEF Edge, AlignmentEdge
    <3> HIDE DEF b
    <3> QED
      BY <3>1, <3>2, <3>3 DEF Alignments
  <2>2. CASE ~Edge
    <3>1. UNCHANGED alignment
      BY <2>2 DEF Next, Crank, Requests, vars, laneVars, histVars, SeeLostClock,
         ReleaseLanes, CrankReset, InitReset, SoftReset, Activate, ScanLane,
         StillBusy, FirstResetReady, SecondResetReady, ScanDone,
         AssertLaneResets, ClearLatch, ConnectOutputToInput, mgtReset, reinit,
         setMgtClkSwitch0, ClockComesOrGoes, Lock, LaneDone, PartnerComesOrGoes
    <3> QED
      BY <3>1
  <2> QED
    BY <2>1, <2>2
<1>2. TypeOK /\ LinkInv /\ [Next]_vars => [Step]_vars
  BY <1>1
<1>3. Spec => [][Step]_vars
  BY TypeCorrect, InitLinks, NextLinks, <1>2, PTL DEF Spec
<1> QED
  BY <1>3 DEF SettledLinkIsLeft

=============================================================================
