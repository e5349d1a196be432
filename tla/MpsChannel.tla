----------------------------- MODULE MpsChannel -----------------------------
(***************************************************************************)
(* The local half of the machine-protection system of one node:            *)
(* mpsLocal.v (one mpsLocalChannel per MPS output) and the mps.c setters   *)
(* that load its registers.                                                *)
(*                                                                         *)
(* Two clock domains run with no fixed phase between them: sysClk (the     *)
(* processor's writes) and acqClk (the clock recovered from fiber 1).  One *)
(* action is one register write or one edge of acqClk; all registers of a  *)
(* domain change together on its edge.  Bit vectors are sets of the inputs *)
(* or outputs whose bit is one.  The third domain, mgtTxClk, only carries  *)
(* the trips away; it is part of MpsTree.                                  *)
(***************************************************************************)
EXTENDS Naturals

CONSTANTS
  Inputs,    \* the MPS input pins
  Outputs,   \* the MPS outputs, each with a channel of its own
  Stamps,    \* the values the event receiver's timestamp can have
  None       \* no trip since the last clear

ASSUME StampsAssumption == Stamps # {}
ASSUME NoneAssumption == None \notin [faults : SUBSET Inputs, at : Stamps]

VARIABLES
  invert,         \* sysClk: inputs whose pin is inverted
  sysForceTrip,   \* sysClk: outputs forced to trip
  important,      \* sysClk: inputs that may trip an output
  goodState,      \* sysClk: the level at which an input is not a fault
  mpsInputs_m,    \* acqClk: first synchronizer stage of the pins
  mpsInputs,      \* acqClk: second synchronizer stage
  faultedInputs,  \* acqClk: inputs not in their good state, per output
  forceTrip_m,    \* acqClk: first synchronizer stage of sysForceTrip
  forceTrip,      \* acqClk: second synchronizer stage
  acqTripped,     \* acqClk: the latched trip of each output
  firstFault,     \* acqClk: the inputs that caused the trip
  whenFaulted     \* acqClk: when they did

(***************************************************************************)
(* History, read by no action of the hardware.  episode[o] is what first   *)
(* asked output o to trip since the last clear strobe; cleared[o] says     *)
(* that there has been a strobe since power-up; dwell[o] counts the        *)
(* successive acqClk edges on which the pins showed an important fault.    *)
(***************************************************************************)
VARIABLES episode, cleared, dwell

sysVars  == <<invert, sysForceTrip, important, goodState>>
acqVars  == <<mpsInputs_m, mpsInputs, faultedInputs, forceTrip_m, forceTrip,
              acqTripped, firstFault, whenFaulted>>
histVars == <<episode, cleared, dwell>>
vars     == <<sysVars, acqVars, histVars>>

Xor(a, b) == (a \ b) \cup (b \ a)

\* An edge on acqClk at which the pins first matter, and the edge that
\* latches the trip, are this many edges apart, both counted.
DetectionLatency == 4

faults(o) == faultedInputs[o] \cap important[o]

trip(o) == faults(o) # {} \/ o \in forceTrip

\* The pins show output o a fault on an input it holds important.
PinFault(o, pins) ==
  Xor(Xor(pins, invert), goodState[o]) \cap important[o] # {}

\* The power-up state.  forceTrip has no initial value in the source.
Init ==
  /\ invert = {}
  /\ sysForceTrip = {}
  /\ important = [o \in Outputs |-> {}]
  /\ goodState = [o \in Outputs |-> {}]
  /\ mpsInputs_m = {}
  /\ mpsInputs = {}
  /\ faultedInputs = [o \in Outputs |-> {}]
  /\ forceTrip_m = {}
  /\ forceTrip \in SUBSET Outputs
  /\ acqTripped = [o \in Outputs |-> TRUE]
  /\ firstFault = [o \in Outputs |-> {}]
  /\ whenFaulted \in {[o \in Outputs |-> t] : t \in Stamps}
  /\ episode = [o \in Outputs |-> None]
  /\ cleared = [o \in Outputs |-> FALSE]
  /\ dwell = [o \in Outputs |-> 0]

-----------------------------------------------------------------------------
(***************************************************************************)
(* sysClk: the writes of mps.c.                                            *)
(***************************************************************************)
\* Faulty: the register is wider than the pins.
WideInvertedInputs(map) ==
  /\ invert' = map \cup {None}
  /\ dwell' = [o \in Outputs |-> 0]
  /\ UNCHANGED <<sysForceTrip, important, goodState, acqVars, episode, cleared>>

mpsSetInvertedInputs(map) ==
  /\ invert' = map
  /\ dwell' = [o \in Outputs |-> 0]
  /\ UNCHANGED <<sysForceTrip, important, goodState, acqVars, episode, cleared>>

mpsSetForceTrip(mpsOutputs) ==
  /\ sysForceTrip' = mpsOutputs
  /\ UNCHANGED <<invert, important, goodState, acqVars, histVars>>

mpsSetDiscreteBitmap(outputIndex, map) ==
  /\ important' = [important EXCEPT ![outputIndex] = map]
  /\ dwell' = [dwell EXCEPT ![outputIndex] = 0]
  /\ UNCHANGED <<invert, sysForceTrip, goodState, acqVars, episode, cleared>>

mpsSetDiscreteGoodState(outputIndex, map) ==
  /\ goodState' = [goodState EXCEPT ![outputIndex] = map]
  /\ dwell' = [dwell EXCEPT ![outputIndex] = 0]
  /\ UNCHANGED <<invert, sysForceTrip, important, acqVars, episode, cleared>>

-----------------------------------------------------------------------------
(***************************************************************************)
(* acqClk: one edge, at which the pins are sampled, the clear strobe of    *)
(* mps.v is or is not up, and the receiver's timestamp is now.             *)
(***************************************************************************)

\* The trip logic of one channel.
\* Faulty: a clear that does not look at the fault, a latch that needs no
\* clear, a first fault that later faults overwrite.
UntripsBlindly(o, clear)  == clear
UntripsUncleared(o, clear) == ~trip(o)
CapturesAgain(o, clear)   == trip(o)

Untrips(o, clear)  == clear /\ ~trip(o)
Captures(o, clear) == trip(o) /\ (clear \/ ~acqTripped[o])

\* What first asked for a trip since the last clear strobe, this one counted.
Episode(o, clear, now) ==
  LET before == IF clear THEN None ELSE episode[o]
  IN  IF before = None /\ trip(o)
        THEN [faults |-> faults(o), at |-> now]
        ELSE before

Dwell(o, pins) ==
  IF ~PinFault(o, pins) THEN 0
  ELSE IF dwell[o] = DetectionLatency THEN dwell[o] ELSE dwell[o] + 1

AcqEdge(pins, clear, now) ==
  /\ mpsInputs_m' = Xor(pins, invert)
  /\ mpsInputs' = mpsInputs_m
  /\ faultedInputs' = [o \in Outputs |-> Xor(mpsInputs, goodState[o])]
  /\ forceTrip_m' = sysForceTrip
  /\ forceTrip' = forceTrip_m
  /\ acqTripped' = [o \in Outputs |->
       ~Untrips(o, clear) /\ (Captures(o, clear) \/ acqTripped[o])]
  /\ firstFault' = [o \in Outputs |->
       IF Captures(o, clear) THEN faults(o) ELSE firstFault[o]]
  /\ whenFaulted' = [o \in Outputs |->
       IF Captures(o, clear) THEN now ELSE whenFaulted[o]]
  /\ episode' = [o \in Outputs |-> Episode(o, clear, now)]
  /\ cleared' = [o \in Outputs |-> cleared[o] \/ clear]
  /\ dwell' = [o \in Outputs |-> Dwell(o, pins)]
  /\ UNCHANGED sysVars

-----------------------------------------------------------------------------
SysWrite ==
  \/ \E map \in SUBSET Inputs : mpsSetInvertedInputs(map)
  \/ \E map \in SUBSET Outputs : mpsSetForceTrip(map)
  \/ \E o \in Outputs, map \in SUBSET Inputs : mpsSetDiscreteBitmap(o, map)
  \/ \E o \in Outputs, map \in SUBSET Inputs : mpsSetDiscreteGoodState(o, map)

Next ==
  \/ SysWrite
  \/ \E pins \in SUBSET Inputs, clear \in BOOLEAN, now \in Stamps :
        AcqEdge(pins, clear, now)

Spec == Init /\ [][Next]_vars

-----------------------------------------------------------------------------
(* Every register holds a value of its width. *)
TypeOK ==
  /\ invert \in SUBSET Inputs
  /\ sysForceTrip \in SUBSET Outputs
  /\ important \in [Outputs -> SUBSET Inputs]
  /\ goodState \in [Outputs -> SUBSET Inputs]
  /\ mpsInputs_m \in SUBSET Inputs
  /\ mpsInputs \in SUBSET Inputs
  /\ faultedInputs \in [Outputs -> SUBSET Inputs]
  /\ forceTrip_m \in SUBSET Outputs
  /\ forceTrip \in SUBSET Outputs
  /\ acqTripped \in [Outputs -> BOOLEAN]
  /\ firstFault \in [Outputs -> SUBSET Inputs]
  /\ whenFaulted \in [Outputs -> Stamps]
  /\ episode \in [Outputs -> [faults : SUBSET Inputs, at : Stamps] \cup {None}]
  /\ cleared \in [Outputs -> BOOLEAN]
  /\ dwell \in [Outputs -> 0..DetectionLatency]

(* Once a clear strobe has been seen, an output is tripped exactly when    *)
(* something has asked it to trip since the last strobe, and then its      *)
(* first-fault registers name the first request and its time, whatever     *)
(* later faults, later requests and failed clears came in between.         *)
FirstFaultIsFirst ==
  \A o \in Outputs : cleared[o] =>
    /\ acqTripped[o] <=> episode[o] # None
    /\ episode[o] # None =>
         /\ firstFault[o] = episode[o].faults
         /\ whenFaulted[o] = episode[o].at

(* A node that has not been cleared since power-up is tripped, whatever    *)
(* has been written to its registers, and blames no input.                 *)
TrippedUntilCleared ==
  \A o \in Outputs : ~cleared[o] => acqTripped[o] /\ firstFault[o] = {}

(* An important input that stays bad for as many edges as the              *)
(* synchronizers and the comparison take has tripped its output: no clear, *)
(* however timed, and no write to another register hides it.               *)
LastingFaultTrips ==
  \A o \in Outputs : dwell[o] = DetectionLatency => acqTripped[o]

=============================================================================
