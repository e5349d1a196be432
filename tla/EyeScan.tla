------------------------------- MODULE EyeScan -------------------------------
(***************************************************************************)
(* The eye scan of eyescan.c: a raster of points, each measured twice (for *)
(* the two signs of the unused tap) by the scanner of one transceiver, one *)
(* step of it for every turn of the main loop.                             *)
(*                                                                         *)
(* The functions are called several times in one turn of the console, so   *)
(* they are operators from a state of the scan to the next.  A state holds *)
(* the static variables of eyescanStep and eyescanCrank, the registers of  *)
(* the transceivers they drive, and two fields of the model: what has been *)
(* plotted since the scan began, and how much was printed in this turn.    *)
(* An error count is the sequence of the measurements it adds up.  The     *)
(* prescaler and the format of the plot are data and are left out, and the *)
(* offsets of a scan that is over, which the next one sets, are put to 0.  *)
(***************************************************************************)
EXTENDS Integers, Sequences

CONSTANTS
  EYESCAN_CHANNEL_COUNT,
  HSteps, VSteps          \* HSTEPS_PER_QUADRANT, VSTEPS_PER_QUADRANT

ASSUME ChannelAssumption == EYESCAN_CHANNEL_COUNT \in Nat \ {0}
ASSUME StepsAssumption == HSteps \in Nat \ {0} /\ VSteps \in Nat \ {0}

Channels == 0..EYESCAN_CHANNEL_COUNT - 1
NoLoop   == -1
STEP     == -1
CANCEL   == -2

\* What ES_STATUS and the clock say of a measurement: nothing yet, END and
\* DONE, DONE in another state, or not DONE within 20 s.
Statuses == {"busy", "end", "other", "overdue"}

Stopped == <<>>   \* ES_CSR_CONTROL_RUN is clear

EyeInit ==
  [active |-> FALSE, acquiring |-> FALSE, mgt |-> 0,
   hOffset |-> 0, vOffset |-> 0, utFlag |-> FALSE, errorCount |-> <<>>,
   loopMGT |-> NoLoop,
   run |-> [c \in Channels |-> Stopped],   \* or ES_HORZ_OFFSET, ES_PS_VOFF
   plot |-> <<>>, prints |-> 0]

Scanning(s) == s.active \/ s.loopMGT # NoLoop

Prints(s, n) == [s EXCEPT !.prints = @ + n]

drpCLR_RUN(s) == [s EXCEPT !.run[s.mgt] = Stopped]

Ended(s) == [s EXCEPT !.active = FALSE, !.acquiring = FALSE, !.mgt = 0,
                      !.hOffset = 0, !.vOffset = 0, !.plot = <<>>]

-----------------------------------------------------------------------------
BeginKeepingCount(s, c) ==   \* faulty: keeps the count of the last scan
  Prints([s EXCEPT !.hOffset = -HSteps, !.vOffset = VSteps, !.mgt = c,
                   !.acquiring = FALSE, !.active = TRUE, !.plot = <<>>], 1)

Begin(s, c) ==
  Prints([s EXCEPT !.hOffset = -HSteps, !.vOffset = VSteps, !.mgt = c,
                   !.utFlag = FALSE, !.errorCount = <<>>,
                   !.acquiring = FALSE, !.active = TRUE, !.plot = <<>>], 1)

Cancel(s) == Prints(Ended(drpCLR_RUN(s)), 1)

\* One more measurement is in: the second of a point is plotted, and the
\* offsets move on, along the row and then down.
Accumulate(s, measured) ==
  LET count == Append(s.errorCount, measured)
      t == [s EXCEPT !.errorCount = count, !.utFlag = ~@]
      u == [t EXCEPT !.plot = Append(@, count), !.errorCount = <<>>]
  IN IF t.utFlag THEN t
     ELSE IF s.hOffset + 1 > HSteps
       THEN Prints([u EXCEPT !.hOffset = -HSteps, !.vOffset = @ - 1], 2)
     ELSE Prints([u EXCEPT !.hOffset = @ + 1], 1)

PollForever(s, status) ==   \* faulty: no limit to a measurement
  LET t == [drpCLR_RUN(s) EXCEPT !.acquiring = FALSE]
  IN CASE status \in {"busy", "overdue"} -> s
       [] status = "end"                 -> Accumulate(t, s.run[s.mgt])
       [] status = "other"               -> Prints(Ended(t), 1)

Poll(s, status) ==
  LET t == [drpCLR_RUN(s) EXCEPT !.acquiring = FALSE]
  IN CASE status = "busy"                  -> s
       [] status = "end"                   -> Accumulate(t, s.run[s.mgt])
       [] status \in {"other", "overdue"} -> Prints(Ended(t), 1)

Finish(s) == Prints(Ended(s), 1)

Measure(s) ==
  [s EXCEPT !.run[s.mgt] = <<s.hOffset, s.vOffset, s.utFlag>>,
            !.acquiring = TRUE]

eyescanStep(s, mgt, status) ==
  CASE ~s.active /\ mgt \in Channels                         -> Begin(s, mgt)
    [] ~s.active /\ mgt \notin Channels                      -> s
    [] s.active /\ mgt = CANCEL                              -> Cancel(s)
    [] s.active /\ mgt # CANCEL /\ s.acquiring               -> Poll(s, status)
    [] s.active /\ mgt # CANCEL /\ ~s.acquiring
         /\ s.vOffset < -VSteps                              -> Finish(s)
    [] s.active /\ mgt # CANCEL /\ ~s.acquiring
         /\ s.vOffset >= -VSteps                             -> Measure(s)

eyescanCrank(s, cancel, status) ==
  LET t == eyescanStep(s, IF cancel THEN CANCEL ELSE STEP, status)
  IN IF t.active \/ t.loopMGT = NoLoop THEN t
     ELSE IF cancel \/ t.loopMGT = EYESCAN_CHANNEL_COUNT - 1
       THEN [t EXCEPT !.loopMGT = NoLoop]
     ELSE eyescanStep([t EXCEPT !.loopMGT = @ + 1], t.loopMGT + 1, status)

\* The arguments are read up to the first "*", and the first bad one ends
\* the command.  name: the channel an argument names, or none.
eyescanCommand(s, args, name) ==
  LET star  == \E i \in DOMAIN args : args[i] = "*"
      last  == IF star THEN (CHOOSE i \in DOMAIN args :
                               args[i] = "*" /\ \A j \in 1..i-1 : args[j] # "*") - 1
               ELSE Len(args)
      named == {i \in 1..last : args[i] \in DOMAIN name}
      mgt   == IF star \/ named = {} THEN 0
               ELSE name[args[CHOOSE i \in named : \A j \in named : j <= i]]
      t     == IF star THEN [s EXCEPT !.loopMGT = 0] ELSE s
  IN IF \E i \in 1..last : args[i] # "-d" /\ i \notin named THEN Prints(s, 1)
     ELSE IF \E i \in 1..last : args[i] = "-d" THEN Prints(t, 1)
     ELSE eyescanStep(t, mgt, "busy")

-----------------------------------------------------------------------------
EyeTypeOK(s) ==
  /\ s.active \in BOOLEAN /\ s.acquiring \in BOOLEAN /\ s.utFlag \in BOOLEAN
  /\ s.mgt \in Channels
  /\ s.hOffset \in -HSteps..HSteps /\ s.vOffset \in -VSteps-1..VSteps
  /\ s.loopMGT \in Channels \cup {NoLoop}
  /\ \A c \in Channels :
       s.run[c] \in (-HSteps..HSteps) \X (-VSteps..VSteps) \X BOOLEAN \cup {Stopped}
  /\ s.prints = 0

\* The points of the raster in the order they are plotted.
Width  == 2 * HSteps + 1
Height == 2 * VSteps + 1
Point(i) == <<((i - 1) % Width) - HSteps, VSteps - ((i - 1) \div Width)>>

PlotsInPlace(s) ==
  /\ \A i \in DOMAIN s.plot :
       s.plot[i] = <<Point(i) \o <<FALSE>>, Point(i) \o <<TRUE>> >>
  /\ s.active => Len(s.plot) = Width * (VSteps - s.vOffset) + s.hOffset + HSteps
  /\ \A c \in Channels :
       s.run[c] # Stopped => s.active /\ s.acquiring /\ c = s.mgt

=============================================================================
