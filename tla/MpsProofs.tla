----------------------------- MODULE MpsProofs -----------------------------
(***************************************************************************)
(* Proofs about the machine protection system: of MpsChannel, for any      *)
(* inputs, outputs and timestamps, and of MpsTrip and MpsClear, for a tree *)
(* of any shape and depth, any window and any disturbance.                 *)
(***************************************************************************)
EXTENDS MpsChannel, MpsTrip, MpsClear, WellFoundedInduction, TLAPS

(***************************************************************************)
(* LastingFaultTrips is not inductive by itself: what dwell counts at the  *)
(* pins is still on its way to the latch.  The stages it has reached:      *)
(***************************************************************************)
BadAt(o, sample) == Xor(sample, goodState[o]) \cap important[o] # {}

FaultInFlight ==
  \A o \in Outputs :
    /\ dwell[o] >= 1 => BadAt(o, mpsInputs_m)
    /\ dwell[o] >= 2 => BadAt(o, mpsInputs)
    /\ dwell[o] >= 3 => faults(o) # {}
    /\ dwell[o] >= 4 => acqTripped[o]

(* Every register of a channel always holds a value of its width. *)
THEOREM TypeCorrect == Spec => []TypeOK
<1>1. Init => TypeOK
  BY StampsAssumption DEF Init, TypeOK, DetectionLatency
<1>2. TypeOK /\ [Next]_vars => TypeOK'
  <2> SUFFICES ASSUME TypeOK, [Next]_vars
               PROVE  TypeOK'
    OBVIOUS
  <2> USE DEF TypeOK, acqVars, sysVars, histVars, DetectionLatency
  <2>1. ASSUME NEW map \in SUBSET Inputs, mpsSetInvertedInputs(map)
        PROVE  TypeOK'
    BY <2>1 DEF mpsSetInvertedInputs
  <2>2. ASSUME NEW map \in SUBSET Outputs, mpsSetForceTrip(map)
        PROVE  TypeOK'
    BY <2>2 DEF mpsSetForceTrip
  <2>3. ASSUME NEW o \in Outputs, NEW map \in SUBSET Inputs,
               mpsSetDiscreteBitmap(o, map)
        PROVE  TypeOK'
    BY <2>3 DEF mpsSetDiscreteBitmap
  <2>4. ASSUME NEW o \in Outputs, NEW map \in SUBSET Inputs,
               mpsSetDiscreteGoodState(o, map)
        PROVE  TypeOK'
    BY <2>4 DEF mpsSetDiscreteGoodState
  <2>5. ASSUME NEW pins \in SUBSET Inputs, NEW clear \in BOOLEAN,
               NEW now \in Stamps, AcqEdge(pins, clear, now)
        PROVE  TypeOK'
    <3>1. \A o \in Outputs : faults(o) \in SUBSET Inputs
      BY DEF faults
    <3>2. \A o \in Outputs :
            Episode(o, clear, now)
              \in [faults : SUBSET Inputs, at : Stamps] \cup {None}
      BY <3>1 DEF Episode
    <3>3. \A o \in Outputs : Dwell(o, pins) \in 0..4
      BY DEF Dwell
    <3>4. /\ invert' \in SUBSET Inputs
          /\ sysForceTrip' \in SUBSET Outputs
          /\ important' \in [Outputs -> SUBSET Inputs]
          /\ goodState' \in [Outputs -> SUBSET Inputs]
      BY <2>5 DEF AcqEdge
    <3>5. /\ mpsInputs_m' \in SUBSET Inputs
          /\ mpsInputs' \in SUBSET Inputs
          /\ faultedInputs' \in [Outputs -> SUBSET Inputs]
          /\ forceTrip_m' \in SUBSET Outputs
          /\ forceTrip' \in SUBSET Outputs
      BY <2>5 DEF AcqEdge, Xor
    <3>6. /\ acqTripped' \in [Outputs -> BOOLEAN]
          /\ firstFault' \in [Outputs -> SUBSET Inputs]
          /\ whenFaulted' \in [Outputs -> Stamps]
      BY <2>5, <3>1 DEF AcqEdge
    <3>7. /\ episode' \in [Outputs -> [faults : SUBSET Inputs, at : Stamps]
                                        \cup {None}]
          /\ cleared' \in [Outputs -> BOOLEAN]
          /\ dwell' \in [Outputs -> 0..4]
      BY <2>5, <3>2, <3>3 DEF AcqEdge
    <3>8. QED
      BY <3>4, <3>5, <3>6, <3>7
  <2>6. CASE UNCHANGED vars
    BY <2>6 DEF vars
  <2>7. QED
    BY <2>1, <2>2, <2>3, <2>4, <2>5, <2>6 DEF Next, SysWrite
<1>3. QED
  BY <1>1, <1>2, PTL DEF Spec

(* The first-fault registers are right once a channel has been cleared,    *)
(* and until then it is tripped: the two halves need each other, because   *)
(* the first clear is what takes a channel from one to the other.          *)
LatchInv == FirstFaultIsFirst /\ TrippedUntilCleared

THEOREM LatchCorrect == Spec => [](FirstFaultIsFirst /\ TrippedUntilCleared)
<1> USE DEF LatchInv, FirstFaultIsFirst, TrippedUntilCleared
<1>1. Init => LatchInv
  BY DEF Init
<1>2. TypeOK /\ LatchInv /\ [Next]_vars => LatchInv'
  <2> SUFFICES ASSUME TypeOK, LatchInv, [Next]_vars
               PROVE  LatchInv'
    OBVIOUS
  <2>1. CASE SysWrite
    <3>1. UNCHANGED <<acqTripped, firstFault, whenFaulted, episode, cleared>>
      BY <2>1 DEF SysWrite, mpsSetInvertedInputs, mpsSetForceTrip,
                  mpsSetDiscreteBitmap, mpsSetDiscreteGoodState,
                  acqVars, histVars
    <3>2. QED
      BY <3>1
  <2>2. ASSUME NEW pins \in SUBSET Inputs, NEW clear \in BOOLEAN,
               NEW now \in Stamps, AcqEdge(pins, clear, now)
        PROVE  LatchInv'
    <3> SUFFICES ASSUME NEW o \in Outputs
                 PROVE  /\ FirstFaultIsFirst!(o)'
                        /\ TrippedUntilCleared!(o)'
      OBVIOUS
    <3> DEFINE first == [faults |-> faults(o), at |-> now]
    <3>1. first # None
      <4>1. first \in [faults : SUBSET Inputs, at : Stamps]
        BY DEF faults, TypeOK
      <4>2. QED
        BY <4>1, NoneAssumption
    <3>2. /\ acqTripped'[o] = (~Untrips(o, clear)
                                /\ (Captures(o, clear) \/ acqTripped[o]))
          /\ firstFault'[o] = IF Captures(o, clear)
                                THEN faults(o) ELSE firstFault[o]
          /\ whenFaulted'[o] = IF Captures(o, clear)
                                THEN now ELSE whenFaulted[o]
          /\ episode'[o] = Episode(o, clear, now)
          /\ cleared'[o] = (cleared[o] \/ clear)
      BY <2>2 DEF AcqEdge
    <3>3. CASE clear
      <4>1. CASE trip(o)
        <5>1. Captures(o, clear) /\ ~Untrips(o, clear)
          BY <3>3, <4>1 DEF Captures, Untrips
        <5>2. episode'[o] = first
          BY <3>2, <3>3, <4>1 DEF Episode
        <5>3. acqTripped'[o] /\ cleared'[o] /\ episode'[o] # None
          BY <3>1, <3>2, <3>3, <5>1, <5>2
        <5>4. /\ firstFault'[o] = episode'[o].faults
              /\ whenFaulted'[o] = episode'[o].at
          BY <3>2, <5>1, <5>2
        <5>5. QED
          BY <5>3, <5>4
      <4>2. CASE ~trip(o)
        <5>1. Untrips(o, clear) /\ episode'[o] = None
          BY <3>2, <3>3, <4>2 DEF Untrips, Episode
        <5>2. QED
          BY <3>2, <3>3, <5>1
      <4>3. QED
        BY <4>1, <4>2
    <3>4. CASE ~clear
      <4>1. ~Untrips(o, clear) /\ cleared'[o] = cleared[o]
        BY <3>2, <3>4 DEF Untrips, TypeOK
      <4>2. Captures(o, clear) <=> trip(o) /\ ~acqTripped[o]
        BY <3>4 DEF Captures
      <4>3. CASE ~cleared[o]
        BY <3>2, <4>1, <4>2, <4>3
      <4>4. CASE cleared[o] /\ Captures(o, clear)
        <5>1. episode'[o] = first
          BY <3>2, <3>4, <4>2, <4>4 DEF Episode
        <5>2. acqTripped'[o] /\ cleared'[o] /\ episode'[o] # None
          BY <3>1, <3>2, <4>1, <4>4, <5>1
        <5>3. /\ firstFault'[o] = episode'[o].faults
              /\ whenFaulted'[o] = episode'[o].at
          BY <3>2, <4>4, <5>1
        <5>4. QED
          BY <5>2, <5>3
      <4>5. CASE cleared[o] /\ ~Captures(o, clear)
        <5>1. episode'[o] = episode[o]
          BY <3>2, <3>4, <4>2, <4>5 DEF Episode
        <5>2. QED
          BY <3>2, <4>1, <4>5, <5>1
      <4>6. QED
        BY <4>3, <4>4, <4>5
    <3>5. QED
      BY <3>3, <3>4
  <2>3. CASE UNCHANGED vars
    BY <2>3 DEF vars, acqVars, histVars
  <2>4. QED
    BY <2>1, <2>2, <2>3 DEF Next
<1>3. QED
  BY <1>1, <1>2, TypeCorrect, PTL DEF Spec

(* Before its first clear an output is tripped and blames no input,        *)
(* whatever the processor writes: half of what LatchCorrect proves.        *)
THEOREM TrippedCorrect == Spec => []TrippedUntilCleared
  BY LatchCorrect, PTL

(* A fault that lasts as long as the pipeline is deep has tripped its      *)
(* output, by the stages FaultInFlight follows it through.                 *)
THEOREM LastingFaultCorrect == Spec => []LastingFaultTrips
<1> USE DEF FaultInFlight, BadAt, DetectionLatency
<1>1. Init => FaultInFlight
  BY DEF Init
<1>2. TypeOK /\ FaultInFlight /\ [Next]_vars => FaultInFlight'
  <2> SUFFICES ASSUME TypeOK, FaultInFlight, [Next]_vars
               PROVE  FaultInFlight'
    OBVIOUS
  <2>1. ASSUME NEW map \in SUBSET Inputs, mpsSetInvertedInputs(map)
        PROVE  FaultInFlight'
    BY <2>1 DEF mpsSetInvertedInputs
  <2>2. ASSUME NEW map \in SUBSET Outputs, mpsSetForceTrip(map)
        PROVE  FaultInFlight'
    BY <2>2 DEF mpsSetForceTrip, acqVars, histVars, faults
  <2>3. ASSUME NEW p \in Outputs, NEW map \in SUBSET Inputs,
               \/ mpsSetDiscreteBitmap(p, map)
               \/ mpsSetDiscreteGoodState(p, map)
        PROVE  FaultInFlight'
    <3> SUFFICES ASSUME NEW o \in Outputs
                 PROVE  FaultInFlight!(o)'
      OBVIOUS
    <3>1. CASE o = p
      <4>1. dwell'[o] = 0
        BY <2>3, <3>1 DEF mpsSetDiscreteBitmap, mpsSetDiscreteGoodState, TypeOK
      <4>2. QED
        BY <4>1
    <3>2. CASE o # p
      <4>1. /\ dwell'[o] = dwell[o]
            /\ important'[o] = important[o]
            /\ goodState'[o] = goodState[o]
            /\ UNCHANGED <<mpsInputs_m, mpsInputs, faultedInputs, acqTripped>>
        BY <2>3, <3>2 DEF mpsSetDiscreteBitmap, mpsSetDiscreteGoodState,
                          TypeOK, acqVars
      <4>2. QED
        BY <4>1 DEF faults
    <3>3. QED
      BY <3>1, <3>2
  <2>4. ASSUME NEW pins \in SUBSET Inputs, NEW clear \in BOOLEAN,
               NEW now \in Stamps, AcqEdge(pins, clear, now)
        PROVE  FaultInFlight'
    <3> SUFFICES ASSUME NEW o \in Outputs
                 PROVE  FaultInFlight!(o)'
      OBVIOUS
    <3>1. /\ important'[o] = important[o]
          /\ goodState'[o] = goodState[o]
          /\ mpsInputs_m' = Xor(pins, invert)
          /\ mpsInputs' = mpsInputs_m
          /\ faultedInputs'[o] = Xor(mpsInputs, goodState[o])
          /\ dwell'[o] = Dwell(o, pins)
      BY <2>4 DEF AcqEdge, sysVars
    <3>2. faults(o) # {} => acqTripped'[o]
      BY <2>4 DEF AcqEdge, Untrips, Captures, trip, TypeOK
    <3>3. /\ dwell[o] \in 0..4
          /\ dwell'[o] # 0 => /\ PinFault(o, pins)
                             /\ \/ dwell'[o] = dwell[o] + 1
                                \/ dwell'[o] = 4 /\ dwell[o] = 4
      BY <3>1 DEF Dwell, TypeOK
    <3>4. dwell'[o] >= 1 => BadAt(o, mpsInputs_m)'
      BY <3>1, <3>3 DEF PinFault
    <3>5. dwell'[o] >= 2 => BadAt(o, mpsInputs)'
      BY <3>1, <3>3
    <3>6. dwell'[o] >= 3 => faults(o)' # {}
      BY <3>1, <3>3 DEF faults
    <3>7. dwell'[o] >= 4 => acqTripped'[o]
      BY <3>2, <3>3
    <3>8. QED
      BY <3>4, <3>5, <3>6, <3>7
  <2>5. CASE UNCHANGED vars
    BY <2>5 DEF vars, sysVars, acqVars, histVars, faults
  <2>6. QED
    BY <2>1, <2>2, <2>3, <2>4, <2>5 DEF Next, SysWrite
<1>3. TypeOK /\ FaultInFlight => LastingFaultTrips
  BY DEF LastingFaultTrips, TypeOK
<1>4. QED
  BY <1>1, <1>2, <1>3, TypeCorrect, PTL DEF Spec

-----------------------------------------------------------------------------
(***************************************************************************)
(* The tree.                                                               *)
(***************************************************************************)
LEMMA DepthType == \A n \in Nodes : Depth(n) \in Nat \ {0}
  BY PathAssumption DEF Depth

(* Latches, receivers and counters keep values of their kinds. *)
THEOREM TripTypeCorrect == TripSpec => []TripTypeOK
<1>1. TripInit => TripTypeOK
  BY DepthType, WindowAssumption
  DEF TripInit, TreeInit, TripTypeOK, TreeTypeOK, RxStates, MaxAge, Hop
<1>2. TripTypeOK /\ [TripNext]_tripVars => TripTypeOK'
  <2> SUFFICES ASSUME TripTypeOK, [TripNext]_tripVars
               PROVE  TripTypeOK'
    OBVIOUS
  <2>1. CASE UNCHANGED tripVars
    BY <2>1 DEF TripTypeOK, TreeTypeOK, tripVars, treeVars
  <2>2. ASSUME NEW e \in Env, TripTick(e)
        PROVE  TripTypeOK'
    <3>1. clearCount' \in [Nodes -> 0..Window]
      BY <2>2, WindowAssumption
      DEF TripTypeOK, TreeTypeOK, TripTick, Tick, NextClearCount
    <3>2. /\ local' \in [Nodes -> BOOLEAN]
          /\ remote' \in [Nodes -> BOOLEAN]
          /\ tx' \in [Nodes -> BOOLEAN]
          /\ down' \in [Nodes -> BOOLEAN]
      <4>1. \A n \in Nodes : NextDown(n, e) \in BOOLEAN
        BY DEF NextDown
      <4> QED
        BY <2>2, <4>1
        DEF TripTypeOK, TreeTypeOK, TripTick, Tick, NextLocal, NextRemote, NextTx
    <3>3. up' \in [Nodes -> RxStates]
      BY <2>2 DEF TripTypeOK, TreeTypeOK, TripTick, Tick, NextUp, RxStates
    <3>4. age' \in [Nodes -> Nat] /\ \A n \in Nodes : age'[n] <= MaxAge(n)
      BY <2>2, DepthType DEF TripTypeOK, TripTick, MaxAge, Hop
    <3> QED
      BY <3>1, <3>2, <3>3, <3>4 DEF TripTypeOK, TreeTypeOK
  <2> QED
    BY <2>1, <2>2 DEF TripNext
<1> QED
  BY <1>1, <1>2, PTL DEF TripSpec

-----------------------------------------------------------------------------
(***************************************************************************)
(* The inductive invariant: how far a trip of a given age has come.  A     *)
(* node on the path is reached Hop ticks after the one below it, its       *)
(* transmitter one tick later, its parent's receiver one after that.       *)
(***************************************************************************)
Latched(n, i) == IF i = 1 THEN local[n] ELSE remote[Path[n][i]]

Front(n, i) ==
  /\ age[n] > Hop * (i - 1)     => Latched(n, i)
  /\ age[n] > Hop * (i - 1) + 1 => tx[Path[n][i]]
  /\ age[n] > Hop * (i - 1) + 2 => up[Path[n][i]] # "clear"

Progressed ==
  \A n \in Nodes :
    /\ \A i \in 1..Depth(n) : Front(n, i)
    /\ age[n] > Hop * Depth(n) => remote[EVG]

LEMMA PathType ==
  \A n \in Nodes : \A i \in 1..Depth(n) : Path[n][i] \in Nodes
  BY PathAssumption DEF Depth

\* A trip ages by at most one a tick, and only in ticks without a reboot.
LEMMA Aging ==
  ASSUME TripTypeOK, NEW e \in Env, TripTick(e), NEW n \in Nodes, age'[n] > 0
  PROVE  e.reboot = {} /\ local'[n] /\ age'[n] <= age[n] + 1
  BY DEF TripTypeOK, TripTick

\* Without a reboot, what a child's receiver shows is latched by its parent.
LEMMA ParentLatches ==
  ASSUME NEW e \in Env, TripTick(e), e.reboot = {},
         NEW c \in Nodes, Parent[c] \in Nodes, up[c] # "clear"
  PROVE  remote'[Parent[c]]
  BY DEF TripTick, Tick, NextRemote, mpsTripped_a, Children

LEMMA ProgressedStep ==
  ASSUME TripTypeOK, Progressed, NEW e \in Env, TripTick(e)
  PROVE  Progressed'
<1> SUFFICES ASSUME NEW n \in Nodes
             PROVE  /\ \A i \in 1..Depth(n) : Front(n, i)'
                    /\ age'[n] > Hop * Depth(n) => remote'[EVG]
  BY DEF Progressed
<1>1. age[n] \in Nat /\ age'[n] \in Nat /\ Depth(n) \in Nat \ {0}
  BY DepthType DEF TripTypeOK, TripTick
<1>2. age'[n] > 0 => e.reboot = {} /\ local'[n] /\ age'[n] <= age[n] + 1
  BY Aging
<1>3. ASSUME NEW i \in 1..Depth(n)
      PROVE  Front(n, i)'
  <2>1. Path[n][i] \in Nodes /\ Front(n, i)
    BY PathType DEF Progressed
  <2>2. age'[n] > Hop * (i - 1) => Latched(n, i)'
    <3>1. CASE i = 1
      BY <1>1, <1>2, <3>1 DEF Latched, Hop
    <3>2. CASE i # 1
      <4> DEFINE c == Path[n][i-1]
      <4>1. i - 1 \in 1..Depth(n) /\ i \in 2..Depth(n)
        BY <1>1, <3>2
      <4>2. c \in Nodes /\ Front(n, i-1)
        BY <4>1, PathType DEF Progressed
      <4>3. Parent[c] = Path[n][i]
        BY <4>1, PathAssumption DEF Depth
      <4> SUFFICES ASSUME age'[n] > Hop * (i - 1)
                   PROVE  remote'[Path[n][i]]
        BY <3>2 DEF Latched
      <4>4. age'[n] > 0 /\ age[n] > Hop * ((i - 1) - 1) + 2
        BY <1>1, <1>2, <4>1 DEF Hop
      <4>5. up[c] # "clear"
        BY <4>2, <4>4 DEF Front
      <4> QED
        BY <1>2, <2>1, <4>2, <4>3, <4>4, <4>5, ParentLatches
    <3> QED
      BY <3>1, <3>2
  <2>3. age'[n] > Hop * (i - 1) + 1 => tx'[Path[n][i]]
    <3> SUFFICES ASSUME age'[n] > Hop * (i - 1) + 1
                 PROVE  tx'[Path[n][i]]
      OBVIOUS
    <3>1. age'[n] > 0 /\ age[n] > Hop * (i - 1)
      BY <1>1, <1>2 DEF Hop
    <3>2. Latched(n, i)
      BY <2>1, <3>1 DEF Front
    <3>3. i = 1 => Path[n][i] = n
      BY PathAssumption
    <3>4. i # 1 => Path[n][i] # EVG
      BY <1>1, PathAssumption DEF Depth
    <3> QED
      BY <1>2, <2>1, <3>1, <3>2, <3>3, <3>4
      DEF Latched, TripTick, Tick, NextTx
  <2>4. age'[n] > Hop * (i - 1) + 2 => up'[Path[n][i]] # "clear"
    <3> SUFFICES ASSUME age'[n] > Hop * (i - 1) + 2
                 PROVE  up'[Path[n][i]] # "clear"
      OBVIOUS
    <3>1. age'[n] > 0 /\ age[n] > Hop * (i - 1) + 1
      BY <1>1, <1>2 DEF Hop
    <3>2. tx[Path[n][i]]
      BY <2>1, <3>1 DEF Front
    <3> QED
      BY <2>1, <3>2 DEF TripTick, Tick, NextUp
  <2> QED
    BY <2>2, <2>3, <2>4 DEF Front
<1>4. ASSUME age'[n] > Hop * Depth(n)
      PROVE  remote'[EVG]
  <2> DEFINE c == Path[n][Depth(n)]
  <2>1. Depth(n) \in 1..Depth(n)
    BY <1>1
  <2>2. c \in Nodes /\ Front(n, Depth(n))
    BY <2>1, PathType DEF Progressed
  <2>3. Parent[c] = EVG
    BY PathAssumption DEF Depth
  <2>4. age'[n] > 0 /\ age[n] > Hop * (Depth(n) - 1) + 2
    BY <1>1, <1>2, <1>4 DEF Hop
  <2>5. up[c] # "clear"
    BY <2>2, <2>4 DEF Front
  <2> QED
    BY <1>2, <2>2, <2>3, <2>4, <2>5, ParentLatches, EVGAssumption
<1> QED
  BY <1>3, <1>4

(* A trip held for Hop ticks per fiber of its path is latched at the       *)
(* generator, in every tree.                                               *)
THEOREM TripCorrect == TripSpec => []TripReachesEVG
<1>1. TripInit => Progressed
  BY DepthType
  DEF TripInit, TreeInit, Progressed, Front, Hop
<1>2. TripTypeOK /\ Progressed /\ [TripNext]_tripVars => Progressed'
  <2>1. TripTypeOK /\ Progressed /\ TripNext => Progressed'
    BY ProgressedStep DEF TripNext
  <2>2. Progressed /\ UNCHANGED tripVars => Progressed'
    BY DEF Progressed, Front, Latched, tripVars, treeVars
  <2> QED
    BY <2>1, <2>2
<1>3. Progressed => TripReachesEVG
  BY DEF Progressed, TripReachesEVG
<1> QED
  BY <1>1, <1>2, <1>3, TripTypeCorrect, PTL DEF TripSpec


-----------------------------------------------------------------------------
(***************************************************************************)
(* The shape of the tree: a node is one fiber further from the generator   *)
(* than its parent.  That the path of a node goes on as the path of its    *)
(* parent is an induction along the path.                                  *)
(***************************************************************************)
LEMMA Least ==
  ASSUME NEW S, S \subseteq Nat, S # {}
  PROVE  \E m \in S : \A k \in S : m <= k
<1>1. PICK m \in S : \A k \in S : <<k, m>> \notin OpToRel(<, Nat)
  BY WFMin, NatLessThanWellFounded
<1>2. \A k \in S : m <= k
  <2> TAKE k \in S
  <2>1. k \in Nat /\ m \in Nat
    OBVIOUS
  <2>2. ~(k < m)
    BY <1>1, <2>1 DEF OpToRel
  <2> QED
    BY <2>1, <2>2
<1> QED
  BY <1>2

LEMMA SetInduction ==
  ASSUME NEW S, 0 \in S, \A n \in Nat : n \in S => n + 1 \in S
  PROVE  Nat \subseteq S
<1> SUFFICES ASSUME Nat \ S # {} PROVE FALSE
  OBVIOUS
<1>1. PICK m \in Nat \ S : \A k \in Nat \ S : m <= k
  BY Least
<1>2. m - 1 \in Nat /\ m - 1 \in S /\ (m - 1) + 1 = m
  BY <1>1
<1> QED
  BY <1>1, <1>2

LEMMA PathOfParent ==
  ASSUME NEW n \in Nodes, Parent[n] # EVG
  PROVE  \A i \in Nat : i + 1 \in 1..Depth(Parent[n]) =>
           /\ i + 2 \in 1..Depth(n)
           /\ Path[n][i + 2] = Path[Parent[n]][i + 1]
<1> DEFINE p == Parent[n]
           S == {i \in Nat : i + 1 \in 1..Depth(p) =>
                   /\ i + 2 \in 1..Depth(n)
                   /\ Path[n][i + 2] = Path[p][i + 1]}
<1>1. p \in Nodes /\ Depth(p) \in Nat \ {0} /\ Depth(n) \in Nat \ {0}
  BY ParentAssumption, DepthType
<1>2. 0 \in S
  <2>1. Path[n][1] = n /\ Path[p][1] = p
    BY <1>1, PathAssumption
  <2>2. Depth(n) # 1
    BY <2>1, PathAssumption DEF Depth
  <2>3. 2 \in 2..Depth(n) /\ 2 - 1 = 1
    BY <1>1, <2>2
  <2>4. Path[n][2] = Parent[Path[n][1]]
    BY <2>3, PathAssumption DEF Depth
  <2> QED
    BY <1>1, <2>1, <2>3, <2>4
<1>3. \A i \in Nat : i \in S => i + 1 \in S
  <2> TAKE i \in Nat
  <2> HAVE i \in S
  <2> DEFINE j == i + 1
  <2> SUFFICES ASSUME j + 1 \in 1..Depth(p)
               PROVE  j + 2 \in 1..Depth(n) /\ Path[n][j + 2] = Path[p][j + 1]
    OBVIOUS
  <2>0. j \in Nat /\ j + 1 = i + 2 /\ (j + 1) - 1 = j /\ (j + 2) - 1 = j + 1
    OBVIOUS
  <2>1. j + 1 \in 1..Depth(n) /\ Path[n][j + 1] = Path[p][j]
    BY <1>1, <2>0
  <2> HIDE DEF j
  <2>2. j + 1 \in 2..Depth(p)
    BY <1>1, <2>0 DEF j
  <2>3. Path[p][j + 1] = Parent[Path[p][j]] /\ Path[p][j + 1] # EVG
    <3>1. Path[p][j + 1] = Parent[Path[p][(j + 1) - 1]] /\ Path[p][j + 1] # EVG
      BY <1>1, <2>2, PathAssumption DEF Depth
    <3> QED
      BY <2>0, <3>1
  <2>4. j + 1 # Depth(n)
    BY <2>1, <2>3, PathAssumption DEF Depth
  <2>5. j + 2 \in 2..Depth(n)
    BY <1>1, <2>0, <2>1, <2>4
  <2>6. Path[n][j + 2] = Parent[Path[n][j + 1]]
    BY <2>0, <2>5, PathAssumption DEF Depth
  <2>7. j + 2 \in 1..Depth(n)
    BY <1>1, <2>5
  <2> QED
    BY <2>1, <2>3, <2>6, <2>7 DEF j
<1> HIDE DEF S
<1>4. Nat \subseteq S
  BY <1>2, <1>3, SetInduction
<1> QED
  BY <1>4 DEF S

LEMMA DepthOfParent ==
  ASSUME NEW n \in Nodes
  PROVE  IF Parent[n] = EVG THEN Depth(n) = 1
                            ELSE Depth(n) = Depth(Parent[n]) + 1
<1>1. Depth(n) \in Nat \ {0} /\ Path[n][1] = n
  BY DepthType, PathAssumption
<1>2. CASE Parent[n] = EVG
  <2> SUFFICES ASSUME Depth(n) # 1 PROVE FALSE
    BY <1>2
  <2>1. 2 \in 2..Depth(n) /\ 2 - 1 = 1
    BY <1>1
  <2>2. Path[n][2] = Parent[Path[n][1]] /\ Path[n][2] # EVG
    BY <2>1, PathAssumption DEF Depth
  <2> QED
    BY <1>1, <1>2, <2>2
<1>3. CASE Parent[n] # EVG
  <2> DEFINE p == Parent[n]
             d == Depth(p)
  <2>1. p \in Nodes /\ d \in Nat \ {0}
    BY ParentAssumption, DepthType
  <2>2. d - 1 \in Nat /\ (d - 1) + 1 = d /\ (d - 1) + 2 = d + 1 /\ d \in 1..d
    BY <2>1
  <2>3. d + 1 \in 1..Depth(n) /\ Path[n][d + 1] = Path[p][d]
    BY <1>3, <2>1, <2>2, PathOfParent
  <2>4. Parent[Path[n][d + 1]] = EVG
    BY <2>1, <2>3, PathAssumption DEF Depth
  <2>5. ASSUME d + 1 # Depth(n) PROVE FALSE
    <3>1. d + 2 \in 2..Depth(n) /\ (d + 2) - 1 = d + 1
      BY <1>1, <2>1, <2>3, <2>5
    <3>2. /\ Path[n][d + 2] = Parent[Path[n][(d + 2) - 1]]
          /\ Path[n][d + 2] # EVG
      BY <3>1, PathAssumption DEF Depth
    <3> QED
      BY <2>4, <3>1, <3>2
  <2> QED
    BY <1>3, <2>5
<1> QED
  BY <1>2, <1>3

-----------------------------------------------------------------------------
(***************************************************************************)
(* The inductive invariant of a clear: in the calm since it was issued it  *)
(* has gone down one level a tick, opening the window of each node on its  *)
(* way, and the trips have been let go from the bottom up, Hop ticks a     *)
(* level, while the windows of the levels above were still open.           *)
(***************************************************************************)
Released(n) == MaxDepth + 2 + Hop * (MaxDepth - Depth(n))

ClearGoesDown(n) ==
  /\ since = Depth(n)     => down[n]
  /\ since = Depth(n) + 1 => clearCount[n] = Window
  /\ since > Depth(n) /\ since < ClearTime =>
       clearCount[n] + since >= Window + Depth(n) + 1
  /\ since >= Depth(n) + 2 => ~local[n]

TripsLetGo(n) ==
  /\ n # EVG /\ since >= Released(n) => ~remote[n]
  /\ since >= Released(n) + 1 => ~tx[n]
  /\ since >= Released(n) + 2 => up[n] = "clear"

ClearInv ==
  /\ since > 0 => \A n \in Nodes : ClearGoesDown(n)
  /\ Window >= RoundTrip =>
       /\ since > 0 => \A n \in Nodes : TripsLetGo(n)
       /\ since = ClearTime => ~remote[EVG]

LEMMA ReleasedType ==
  ASSUME NEW n \in Nodes
  PROVE  /\ Depth(n) \in 1..MaxDepth
         /\ Released(n) \in Nat
         /\ Released(n) = MaxDepth + 2 + 3 * (MaxDepth - Depth(n))
         /\ RoundTrip = 4 * MaxDepth
         /\ ClearTime = 4 * MaxDepth + 2
         /\ MaxDepth \in Nat \ {0}
  BY DepthType, MaxDepthAssumption
  DEF Released, RoundTrip, ClearTime, Hop, HopDown

LEMMA ClearTypeCorrect == ClearSpec => []ClearTypeOK
<1>1. ClearTime \in Nat \ {0}
  BY MaxDepthAssumption DEF ClearTime, RoundTrip, Hop, HopDown
<1>2. ClearInit => ClearTypeOK
  <2>1. TreeInit => TreeTypeOK
    BY WindowAssumption DEF TreeInit, TreeTypeOK, RxStates
  <2>2. 0 \in 0..ClearTime
    BY <1>1
  <2> QED
    BY <2>1, <2>2 DEF ClearInit, ClearTypeOK
<1>3. ClearTypeOK /\ [ClearNext]_clearVars => ClearTypeOK'
  <2> SUFFICES ASSUME ClearTypeOK, [ClearNext]_clearVars
               PROVE  ClearTypeOK'
    OBVIOUS
  <2>1. CASE UNCHANGED clearVars
    BY <2>1 DEF ClearTypeOK, TreeTypeOK, clearVars, treeVars
  <2>2. ASSUME NEW e \in Env, ClearTick(e)
        PROVE  ClearTypeOK'
    <3>1. Tick(e)
      BY <2>2 DEF ClearTick
    <3>2. clearCount' \in [Nodes -> 0..Window]
      BY <3>1, WindowAssumption
      DEF ClearTypeOK, TreeTypeOK, Tick, NextClearCount
    <3>3. \A n \in Nodes : NextDown(n, e) \in BOOLEAN
      BY DEF NextDown
    <3>4. /\ local' \in [Nodes -> BOOLEAN]
          /\ remote' \in [Nodes -> BOOLEAN]
          /\ tx' \in [Nodes -> BOOLEAN]
          /\ down' \in [Nodes -> BOOLEAN]
      BY <3>1, <3>3
      DEF ClearTypeOK, TreeTypeOK, Tick, NextLocal, NextRemote, NextTx
    <3>5. up' \in [Nodes -> RxStates]
      BY <3>1 DEF Tick, NextUp, RxStates
    <3>6. calm' \in BOOLEAN
      BY <2>2 DEF ClearTick, Undisturbed
    <3>7. since' \in 0..ClearTime
      BY <1>1, <2>2 DEF ClearTick, ClearTypeOK
    <3> QED
      BY <3>2, <3>4, <3>5, <3>6, <3>7 DEF ClearTypeOK, TreeTypeOK
  <2> QED
    BY <2>1, <2>2 DEF ClearNext
<1> QED
  BY <1>2, <1>3, PTL DEF ClearSpec

\* What a tick is in the calm that since counts.
LEMMA CalmTick ==
  ASSUME ClearTypeOK, NEW e \in Env, ClearTick(e), since' > 0
  PROVE  /\ since' = IF since < ClearTime THEN since + 1 ELSE since
         /\ since = 0 => e.issue
         /\ \A n \in Nodes :
              /\ clearCount'[n] = NextClearCount(n)
              /\ local'[n] = (local[n] /\ ~evrClearMPSstrobe(n))
              /\ (remote'[n] <=> NextRemote(n))
              /\ (tx'[n] <=> NextTx(n))
              /\ up'[n] = IF tx[n] THEN "tripped" ELSE "clear"
              /\ (down'[n] <=> IF Parent[n] = EVG THEN e.issue ELSE down[Parent[n]])
<1>1. calm /\ Undisturbed(e)
  BY DEF ClearTick
<1>2. /\ e.fault = {} /\ e.upBad = {} /\ e.downBad = {}
      /\ e.stalled = {} /\ e.reboot = {}
  BY <1>1 DEF Undisturbed, Quiet
<1>3. ClearTime \in Nat \ {0}
  BY MaxDepthAssumption DEF ClearTime, RoundTrip, Hop, HopDown
<1>4. /\ since' = IF since < ClearTime THEN since + 1 ELSE since
      /\ since = 0 => e.issue
  BY <1>1, <1>3 DEF ClearTick, ClearTypeOK
<1>5. ASSUME NEW n \in Nodes
      PROVE  /\ clearCount'[n] = NextClearCount(n)
             /\ local'[n] = (local[n] /\ ~evrClearMPSstrobe(n))
             /\ (remote'[n] <=> NextRemote(n))
             /\ (tx'[n] <=> NextTx(n))
             /\ up'[n] = IF tx[n] THEN "tripped" ELSE "clear"
             /\ (down'[n] <=> IF Parent[n] = EVG THEN e.issue ELSE down[Parent[n]])
  <2>1. Tick(e)
    BY DEF ClearTick
  <2>2. clearCount'[n] = NextClearCount(n) /\ up'[n] = NextUp(n, e)
    BY <1>2, <2>1 DEF Tick
  <2>3. up'[n] = IF tx[n] THEN "tripped" ELSE "clear"
    BY <1>2, <2>2 DEF NextUp
  <2>4. local'[n] = (local[n] /\ ~evrClearMPSstrobe(n))
    BY <1>2, <2>1 DEF Tick, NextLocal
  <2>5. (remote'[n] <=> NextRemote(n)) /\ (tx'[n] <=> NextTx(n))
    BY <1>2, <2>1 DEF Tick
  <2>6. (down'[n] <=> IF Parent[n] = EVG THEN e.issue ELSE down[Parent[n]])
    BY <1>2, <2>1 DEF Tick, NextDown
  <2> QED
    BY <2>2, <2>3, <2>4, <2>5, <2>6
<1> QED
  BY <1>4, <1>5

\* The clear reaches a node one tick after its parent, and lets go of its
\* own latch whatever the window.
LEMMA ClearGoesDownStep ==
  ASSUME ClearTypeOK, NEW e \in Env, ClearTick(e), since' > 0,
         since > 0 => \A n \in Nodes : ClearGoesDown(n),
         NEW n \in Nodes
  PROVE  ClearGoesDown(n)'
<1> DEFINE d == Depth(n)
<1>1. /\ d \in 1..MaxDepth /\ MaxDepth \in Nat \ {0}
      /\ ClearTime = 4 * MaxDepth + 2
  BY ReleasedType
<1>2. since \in 0..ClearTime /\ clearCount[n] \in 0..Window /\ Window \in Nat \ {0}
  BY WindowAssumption DEF ClearTypeOK, TreeTypeOK
<1>3. since' = IF since < ClearTime THEN since + 1 ELSE since
  BY CalmTick
<1>4. since' \in Nat
  BY <1>1, <1>2, <1>3
<1>5. since > 0 => ClearGoesDown(n)
  OBVIOUS
<1>6. /\ clearCount'[n] = IF down[n] THEN Window
                          ELSE IF clearCount[n] > 0 THEN clearCount[n] - 1 ELSE 0
      /\ local'[n] = (local[n] /\ clearCount[n] # Window)
      /\ (down'[n] <=> IF Parent[n] = EVG THEN e.issue ELSE down[Parent[n]])
  BY CalmTick DEF NextClearCount, evrClearMPSstrobe
<1> HIDE DEF d
<1>7. since' = d => down'[n]
  <2> SUFFICES ASSUME since' = d PROVE down'[n]
    OBVIOUS
  <2>1. since + 1 = d
    BY <1>1, <1>2, <1>3
  <2>2. CASE Parent[n] = EVG
    <3>1. d = 1
      BY <2>2, DepthOfParent DEF d
    <3>2. since = 0
      BY <1>2, <2>1, <3>1
    <3> QED
      BY <1>6, <2>2, <3>2, CalmTick
  <2>3. CASE Parent[n] # EVG
    <3>1. Parent[n] \in Nodes /\ d = Depth(Parent[n]) + 1
      BY <2>3, DepthOfParent, ParentAssumption DEF d
    <3>2. Depth(Parent[n]) \in Nat \ {0}
      BY <3>1, DepthType
    <3>3. since > 0 /\ since = Depth(Parent[n])
      BY <1>2, <2>1, <3>1, <3>2
    <3>4. down[Parent[n]]
      BY <3>1, <3>3 DEF ClearGoesDown
    <3> QED
      BY <1>6, <2>3, <3>4
  <2> QED
    BY <2>2, <2>3
<1>8. since' = d + 1 => clearCount'[n] = Window
  <2> SUFFICES ASSUME since' = d + 1 PROVE clearCount'[n] = Window
    OBVIOUS
  <2>1. since = d /\ since > 0
    BY <1>1, <1>2, <1>3
  <2> QED
    BY <1>5, <1>6, <2>1 DEF ClearGoesDown, d
<1>9. since' > d /\ since' < ClearTime =>
        clearCount'[n] + since' >= Window + d + 1
  <2> SUFFICES ASSUME since' > d, since' < ClearTime
               PROVE  clearCount'[n] + since' >= Window + d + 1
    OBVIOUS
  <2>1. since' = since + 1 /\ since > 0
    BY <1>1, <1>2, <1>3
  <2>2. CASE since = d
    BY <1>1, <1>2, <1>8, <2>1, <2>2
  <2>3. CASE since > d
    <3>1. clearCount[n] + since >= Window + d + 1
      BY <1>1, <1>2, <1>5, <2>1, <2>3 DEF ClearGoesDown, d
    <3> QED
      BY <1>1, <1>2, <1>6, <2>1, <2>3, <3>1
  <2> QED
    BY <1>1, <1>2, <2>1, <2>2, <2>3
<1>10. since' >= d + 2 => ~local'[n]
  <2> SUFFICES ASSUME since' >= d + 2 PROVE ~local'[n]
    OBVIOUS
  <2>1. since > 0 /\ (since = d + 1 \/ since >= d + 2)
    BY <1>1, <1>2, <1>3
  <2> QED
    BY <1>5, <1>6, <2>1 DEF ClearGoesDown, d
<1> QED
  BY <1>7, <1>8, <1>9, <1>10 DEF ClearGoesDown, d

\* The children of a node have been let go Hop ticks before it, while its
\* window is open; of a node without children nothing keeps the trip.
LEMMA RemoteLetGo ==
  ASSUME ClearTypeOK, NEW e \in Env, ClearTick(e), since > 0, since' > 0,
         Window >= RoundTrip,
         \A n \in Nodes : ClearGoesDown(n),
         \A n \in Nodes : TripsLetGo(n),
         NEW n \in Nodes,
         NEW r \in Nat, r <= ClearTime, r >= Depth(n) + 2,
         Window + Depth(n) + 2 > r,
         since >= r => ~remote[n],
         \A c \in Children(n) : r > Released(c) + 2,
         since' >= r
  PROVE  ~remote'[n]
<1>1. /\ Depth(n) \in 1..MaxDepth /\ MaxDepth \in Nat \ {0}
      /\ ClearTime = 4 * MaxDepth + 2
  BY ReleasedType
<1>2. since \in 0..ClearTime /\ clearCount[n] \in 0..Window /\ Window \in Nat \ {0}
  BY WindowAssumption DEF ClearTypeOK, TreeTypeOK
<1>3. since' = IF since < ClearTime THEN since + 1 ELSE since
  BY CalmTick
<1>4. since >= r \/ (since = r - 1 /\ since < ClearTime)
  BY <1>1, <1>2, <1>3
<1>5. ~mpsTripped_a(n)
  <2> SUFFICES ASSUME NEW c \in Children(n) PROVE up[c] = "clear"
    BY DEF mpsTripped_a
  <2>1. c \in Nodes
    BY DEF Children
  <2>2. Released(c) \in Nat
    BY <2>1, ReleasedType
  <2>3. since >= Released(c) + 2
    BY <1>2, <1>4, <2>2
  <2> QED
    BY <2>1, <2>3 DEF TripsLetGo
<1>6. remote'[n] <=> NextRemote(n)
  BY CalmTick
<1>7. CASE since >= r
  BY <1>5, <1>6, <1>7 DEF NextRemote
<1>8. CASE since = r - 1 /\ since < ClearTime
  <2>1. clearCount[n] + since >= Window + Depth(n) + 1
    BY <1>1, <1>2, <1>8 DEF ClearGoesDown
  <2>2. clearCount[n] > 0
    BY <1>1, <1>2, <1>8, <2>1
  <2> QED
    BY <1>5, <1>6, <2>2 DEF NextRemote, evrClearMPSstretched
<1> QED
  BY <1>4, <1>7, <1>8

LEMMA ChildReleased ==
  ASSUME NEW n \in Nodes, NEW c \in Children(n)
  PROVE  /\ n # EVG => Released(n) = Released(c) + 3
         /\ n = EVG => ClearTime = Released(c) + 3
<1>1. c \in Nodes /\ Parent[c] = n
  BY DEF Children
<1>2. n # EVG => Depth(c) = Depth(n) + 1
  BY <1>1, DepthOfParent
<1>3. n = EVG => Depth(c) = 1
  BY <1>1, DepthOfParent
<1> QED
  BY <1>1, <1>2, <1>3, ReleasedType

LEMMA TripsLetGoStep ==
  ASSUME ClearTypeOK, ClearInv, NEW e \in Env, ClearTick(e), since' > 0,
         Window >= RoundTrip
  PROVE  /\ \A n \in Nodes : TripsLetGo(n)'
         /\ since' = ClearTime => ~remote'[EVG]
<1>1. since \in 0..ClearTime /\ Window \in Nat \ {0}
  BY WindowAssumption DEF ClearTypeOK
<1>2. since' = IF since < ClearTime THEN since + 1 ELSE since
  BY CalmTick
<1>3. /\ MaxDepth \in Nat \ {0} /\ RoundTrip = 4 * MaxDepth
      /\ ClearTime = 4 * MaxDepth + 2
  BY EVGAssumption, ReleasedType
<1>4. since' \in Nat
  BY <1>1, <1>2, <1>3
<1>5. \A n \in Nodes : /\ Depth(n) \in 1..MaxDepth
                       /\ Released(n) = MaxDepth + 2 + 3 * (MaxDepth - Depth(n))
                       /\ Released(n) \in Nat
  BY ReleasedType
<1>6. CASE since = 0
  <2>1. since' = 1
    BY <1>1, <1>2, <1>3, <1>6
  <2>2. \A n \in Nodes : Released(n) >= 3
    BY <1>3, <1>5
  <2>3. \A n \in Nodes : /\ ~(since' >= Released(n))
                         /\ ~(since' >= Released(n) + 1)
                         /\ ~(since' >= Released(n) + 2)
    BY <1>5, <2>1, <2>2
  <2>4. \A n \in Nodes : Released(n)' = Released(n)
    BY DEF Released, Depth
  <2> QED
    BY <1>3, <2>1, <2>3, <2>4 DEF TripsLetGo
<1>7. CASE since > 0
  <2>1. \A n \in Nodes : ClearGoesDown(n) /\ TripsLetGo(n)
    BY <1>7 DEF ClearInv
  <2>2. ASSUME NEW n \in Nodes
        PROVE  TripsLetGo(n)'
    <3> DEFINE r == Released(n)
    <3>1. r \in Nat /\ r <= ClearTime /\ r >= Depth(n) + 2
          /\ Window + Depth(n) + 2 > r /\ Depth(n) \in Nat
      BY <1>1, <1>3, <1>5
    <3>2. \A c \in Children(n) : n # EVG => r > Released(c) + 2
      <4> TAKE c \in Children(n)
      <4>1. c \in Nodes
        BY DEF Children
      <4>2. n # EVG => r = Released(c) + 3
        BY ChildReleased
      <4> QED
        BY <1>5, <4>1, <4>2
    <3>3. /\ (tx'[n] <=> NextTx(n))
          /\ up'[n] = IF tx[n] THEN "tripped" ELSE "clear"
      BY CalmTick
    <3> HIDE DEF r
    <3>4. n # EVG /\ since >= r => ~remote[n]
      BY <2>1 DEF TripsLetGo, r
    <3>5. n # EVG /\ since' >= r => ~remote'[n]
      BY <1>7, <2>1, <3>1, <3>2, <3>4, RemoteLetGo
    <3>6. since' >= r + 1 => ~tx'[n]
      <4> SUFFICES ASSUME since' >= r + 1 PROVE ~tx'[n]
        OBVIOUS
      <4>1. since >= r /\ since >= Depth(n) + 2
        <5>1. r + 1 \in Nat /\ Depth(n) + 2 <= r
          BY <3>1
        <5> QED
          BY <1>1, <1>2, <1>3, <3>1, <5>1
      <4>2. ~local[n]
        BY <2>1, <4>1 DEF ClearGoesDown
      <4> QED
        BY <3>3, <3>4, <4>1, <4>2 DEF NextTx
    <3>7. since' >= r + 2 => up'[n] = "clear"
      <4> SUFFICES ASSUME since' >= r + 2 PROVE up'[n] = "clear"
        OBVIOUS
      <4>1. since >= r + 1
        BY <1>1, <1>2, <1>3, <3>1
      <4>2. ~tx[n]
        BY <2>1, <4>1 DEF TripsLetGo, r
      <4> QED
        BY <3>3, <4>2
    <3> QED
      BY <3>5, <3>6, <3>7 DEF TripsLetGo, r, Released, Depth
  <2>3. since' = ClearTime => ~remote'[EVG]
    <3> DEFINE r == ClearTime
    <3>1. r \in Nat /\ r <= ClearTime /\ r >= Depth(EVG) + 2
          /\ Window + Depth(EVG) + 2 > r
      <4>1. Depth(EVG) = 1
        BY EVGAssumption, ParentAssumption, DepthOfParent
      <4> QED
        BY <1>1, <1>3, <4>1
    <3>2. \A c \in Children(EVG) : r > Released(c) + 2
      <4> TAKE c \in Children(EVG)
      <4>1. c \in Nodes
        BY DEF Children
      <4>2. r = Released(c) + 3
        BY EVGAssumption, ChildReleased
      <4> QED
        BY <1>5, <4>1, <4>2
    <3>3. since >= r => ~remote[EVG]
      <4>1. since >= r => since = r
        BY <1>1, <3>1
      <4> QED
        BY <4>1 DEF ClearInv
    <3>4. since' = r => since' >= r
      BY <1>4
    <3> HIDE DEF r
    <3>5. since' >= r => ~remote'[EVG]
      BY <1>7, <2>1, <3>1, <3>2, <3>3, EVGAssumption, RemoteLetGo
    <3> QED
      BY <3>4, <3>5 DEF r
  <2> QED
    BY <2>2, <2>3
<1> QED
  BY <1>1, <1>6, <1>7

(* In every tree no deeper than MaxDepth, a clear event whose window       *)
(* outlasts the round trip releases every latch, the generator's last, if  *)
(* nothing disturbs the tree meanwhile.                                    *)
THEOREM ClearCorrect == ClearSpec => []OneClearSuffices
<1>1. ClearInit => ClearInv
  <2>1. ClearTime \in Nat \ {0}
    BY MaxDepthAssumption DEF ClearTime, RoundTrip, Hop, HopDown
  <2> QED
    BY <2>1 DEF ClearInit, ClearInv
<1>2. ClearTypeOK /\ ClearInv /\ [ClearNext]_clearVars => ClearInv'
  <2> SUFFICES ASSUME ClearTypeOK, ClearInv, [ClearNext]_clearVars
               PROVE  ClearInv'
    OBVIOUS
  <2>1. CASE UNCHANGED clearVars
    BY <2>1 DEF ClearInv, ClearGoesDown, TripsLetGo, clearVars, treeVars,
                RoundTrip, ClearTime, Released, Depth
  <2>2. ASSUME NEW e \in Env, ClearTick(e)
        PROVE  ClearInv'
    <3>1. ClearTime \in Nat \ {0}
      BY MaxDepthAssumption DEF ClearTime, RoundTrip, Hop, HopDown
    <3>2. ASSUME since' > 0
          PROVE  \A n \in Nodes : ClearGoesDown(n)'
      BY <2>2, <3>2, ClearGoesDownStep DEF ClearInv
    <3>3. ASSUME since' > 0, Window >= RoundTrip
          PROVE  /\ \A n \in Nodes : TripsLetGo(n)'
                 /\ since' = ClearTime => ~remote'[EVG]
      BY <2>2, <3>3, TripsLetGoStep
    <3>4. since' = ClearTime => since' > 0
      BY <3>1
    <3>5. RoundTrip' = RoundTrip /\ ClearTime' = ClearTime
      BY DEF RoundTrip, ClearTime, Hop, HopDown
    <3> QED
      BY <3>2, <3>3, <3>4, <3>5 DEF ClearInv
  <2> QED
    BY <2>1, <2>2 DEF ClearNext
<1>3. ClearTypeOK /\ ClearInv => OneClearSuffices
  <2> SUFFICES ASSUME ClearTypeOK, ClearInv, Window >= RoundTrip,
                      since = ClearTime, NEW n \in Nodes
               PROVE  ~local[n] /\ ~remote[n]
    BY DEF OneClearSuffices, AllClear
  <2>1. /\ Depth(n) \in 1..MaxDepth /\ ClearTime = 4 * MaxDepth + 2
        /\ Released(n) = MaxDepth + 2 + 3 * (MaxDepth - Depth(n))
        /\ MaxDepth \in Nat \ {0}
    BY ReleasedType
  <2>2. since > 0 /\ since >= Depth(n) + 2 /\ since >= Released(n)
    BY <2>1
  <2> QED
    BY <2>2 DEF ClearInv, ClearGoesDown, TripsLetGo
<1> QED
  BY <1>1, <1>2, <1>3, ClearTypeCorrect, PTL DEF ClearSpec

=============================================================================
