---------------------------- MODULE ConsoleProofs ----------------------------
(***************************************************************************)
(* Proofs about the console, for buffers, lines and rasters of any size,   *)
(* any commands and any number of senders.                                 *)
(***************************************************************************)
EXTENDS Console, SequenceTheorems, WellFoundedInduction, TLAPS

(***************************************************************************)
(* Questions.  The question on the screen belongs to the handler that will *)
(* take the answer, and the variables that the handler uses are still      *)
(* those that the question showed: they are set where the question is      *)
(* asked, and no command runs until it is answered.                        *)
(***************************************************************************)
QuestionInv ==
  /\ modalHandler \in {NONE, "boot", "debug", "gw"}
  /\ modalHandler = "boot"  => asked = Boots(alternate)
  /\ modalHandler = "debug" => asked = [what |-> "erase", arg |-> NONE]
  /\ modalHandler = "gw"    => asked = [what |-> "gw", arg |-> network]

DoneAsAsked == did' # Nothing => asked = did'

LEMMA QuestionInit == Init => QuestionInv
  BY DEF Init, QuestionInv, NONE

LEMMA QuietKeeps ==
  ASSUME QuestionInv, did' = Nothing, UNCHANGED dialog
  PROVE  QuestionInv' /\ DoneAsAsked
  BY DEF QuestionInv, DoneAsAsked, dialog

LEMMA ModalKeeps ==
  ASSUME QuestionInv, modalHandler # NONE,
         NEW argv, NEW s, NEW o, NEW a, Modal(argv, s, o, a)
  PROVE  QuestionInv' /\ DoneAsAsked
<1>1. CASE Shows(s, o, a, 1)
  BY <1>1, QuietKeeps DEF Shows, Ends
<1>2. CASE Answered(s, o, a, 0, Nothing)
  BY <1>2 DEF Answered, Ends, QuestionInv, DoneAsAsked, NONE
<1>3. CASE modalHandler = "boot" /\ Reboot(s, o, a)
  BY <1>3 DEF Reboot, Answered, Ends, QuestionInv, DoneAsAsked, NONE
<1>4. CASE modalHandler = "debug" /\ BulkErase(s, o, a)
  BY <1>4 DEF BulkErase, Answered, Ends, QuestionInv, DoneAsAsked, NONE
<1>5. CASE modalHandler = "gw" /\ StoreNetwork(s, o, a)
  BY <1>5 DEF StoreNetwork, Answered, Ends, QuestionInv, DoneAsAsked, NONE
<1> QED
  BY <1>1, <1>2, <1>3, <1>4, <1>5 DEF Modal

LEMMA CommandKeeps ==
  ASSUME QuestionInv, modalHandler = NONE,
         NEW argv, NEW s, NEW o, NEW a, findCommand(argv, s, o, a)
  PROVE  QuestionInv' /\ DoneAsAsked
<1>1. ASSUME NEW t, NEW n, Shows(t, o, a, n)
      PROVE  QuestionInv' /\ DoneAsAsked
  BY <1>1, QuietKeeps DEF Shows, Ends
<1>2. CASE cmdBOOT(argv, s, o, a)
  BY <1>2 DEF cmdBOOT, Asks, Ends, QuestionInv, DoneAsAsked, NONE
<1>3. CASE cmdDEBUG(argv, s, o, a)
  <2> DEFINE question == [what |-> "erase", arg |-> NONE]
  <2>1. CASE did' = Nothing /\ UNCHANGED dialog
    BY <2>1, QuietKeeps
  <2>2. CASE Asks(s, o, a, "debug", question)
    BY <2>2 DEF Asks, Ends, QuestionInv, DoneAsAsked, NONE
  <2> QED
    BY <1>1, <1>3, <2>1, <2>2 DEF cmdDEBUG, Ends
<1>4. CASE cmdGW(argv, s, o, a)
  <2>1. CASE Shows(s, o, a, 1)
    BY <1>1, <2>1
  <2>2. CASE /\ network' = NetworkOf[argv[2]]
             /\ Asks(s, o, a, "gw", [what |-> "gw", arg |-> NetworkOf[argv[2]]])
    BY <2>2 DEF Asks, Ends, QuestionInv, DoneAsAsked, NONE
  <2>3. CASE did' = Nothing /\ UNCHANGED <<modalHandler, asked, alternate>>
    BY <2>3 DEF QuestionInv, DoneAsAsked, NONE
  <2> QED
    BY <1>4, <2>1, <2>2, <2>3 DEF cmdGW, Ends
<1>5. CASE cmdLOG(s, o, a)
  BY <1>1, <1>5 DEF cmdLOG
<1>6. CASE Eye(argv, s, o, a)
  BY <1>1, <1>6 DEF Eye
<1> QED
  BY <1>1, <1>2, <1>3, <1>4, <1>5, <1>6 DEF findCommand

LEMMA EditsKeep ==
  ASSUME QuestionInv, NEW c, NEW s, NEW o, NEW a, Edits(c, s, o, a)
  PROVE  QuestionInv' /\ DoneAsAsked
<1>1. ASSUME NEW p, NEW n, Shows(s, p, a, n)
      PROVE  QuestionInv' /\ DoneAsAsked
  BY <1>1, QuietKeeps DEF Shows, Ends
<1>2. ASSUME NEW p, processLine(line, s, p, a)
      PROVE  QuestionInv' /\ DoneAsAsked
  BY <1>1, <1>2, ModalKeeps, CommandKeeps DEF processLine
<1> QED
  BY <1>1, <1>2 DEF Edits

LEMMA QuestionStep ==
  ASSUME QuestionInv, [Next]_vars
  PROVE  QuestionInv' /\ (DoneAsAsked \/ UNCHANGED vars)
<1>1. ASSUME NEW c, NEW t, NEW o, NEW a, Types(c, t, o, a)
      PROVE  QuestionInv' /\ DoneAsAsked
  BY <1>1, EditsKeep DEF Types
<1>2. ASSUME NEW status, NEW late, consoleCrank(status, late)
      PROVE  QuestionInv' /\ DoneAsAsked
  <2>1. PICK t, o : \/ \E c \in Keys : UartCrank(c, t, o)
                    \/ UdpCrank(t, o)
                    \/ IdleCrank(t, o)
    BY <1>2 DEF consoleCrank
  <2>2. CASE \E c \in Keys : UartCrank(c, t, o)
    BY <1>1, <2>2 DEF UartCrank
  <2>3. CASE UdpCrank(t, o)
    BY <1>1, <2>3 DEF UdpCrank
  <2>4. CASE IdleCrank(t, o)
    BY <2>4, QuietKeeps DEF IdleCrank
  <2> QED
    BY <2>1, <2>2, <2>3, <2>4
<1>3. ASSUME NEW c, NEW p, consoleCallback(c, p)
      PROVE  QuestionInv' /\ DoneAsAsked
  BY <1>3, QuietKeeps DEF consoleCallback
<1>4. CASE Message
  BY <1>4, QuietKeeps DEF Message
<1>5. CASE UNCHANGED vars
  BY <1>5 DEF vars, dialog, QuestionInv
<1> QED
  BY <1>2, <1>3, <1>4, <1>5 DEF Next

\* A reboot, an erasure and a new network setting happen on a yes to their
\* own question, with the settings it showed.
THEOREM ConsoleConfirms == Spec => Confirmed
<1>1. QuestionInv /\ [Next]_vars => QuestionInv'
  BY QuestionStep
<1>2. QuestionInv /\ [Next]_vars => [DoneAsAsked]_vars
  BY QuestionStep
<1> QED
  BY QuestionInit, <1>1, <1>2, PTL DEF Spec, Confirmed, DoneAsAsked

-----------------------------------------------------------------------------
(***************************************************************************)
(* Input.  The buffer with its index is the queue of what has not been     *)
(* read: the callback moves that to the front and appends, the crank steps *)
(* over one character, and the serial port gives the queue up.             *)
(***************************************************************************)
Chars == STRING \cup {NONE}

BufferInv ==
  /\ rxBuf \in Seq(Chars) /\ Len(rxBuf) <= LINE_CAPACITY
  /\ rxIndex \in 0..Len(rxBuf)

Queue == IF isActive THEN SubSeq(rxBuf, rxIndex + 1, Len(rxBuf)) ELSE <<>>

LEMMA RestOf ==
  ASSUME NEW s \in Seq(Chars), NEW i \in 0..Len(s)
  PROVE  /\ SubSeq(s, i + 1, Len(s)) \in Seq(Chars)
         /\ Len(SubSeq(s, i + 1, Len(s))) = Len(s) - i
         /\ \A k \in 1..Len(s) - i : SubSeq(s, i + 1, Len(s))[k] = s[i + k]
  OBVIOUS

LEMMA FrontOf ==
  ASSUME NEW S, NEW s \in Seq(S), NEW m \in 0..Len(s)
  PROVE  SubSeq(s, 1, m) \in Seq(S) /\ Len(SubSeq(s, 1, m)) = m
  OBVIOUS

LEMMA Replaced ==
  ASSUME NEW s \in Seq(Chars), NEW j \in 1..Len(s), NEW c \in Chars,
         NEW u, u = [s EXCEPT ![j] = c]
  PROVE  /\ u \in Seq(Chars) /\ Len(u) = Len(s)
         /\ \A k \in 1..Len(s) : k # j => u[k] = s[k]
<1>1. u \in Seq(Chars)
  BY ExceptSeq
<1>2. Len(u) = Len(s)
  BY ExceptSeq
<1>3. \A k \in 1..Len(s) : u[k] = IF k = j THEN c ELSE s[k]
  BY LenProperties
<1> QED
  BY <1>1, <1>2, <1>3, Zenon

LEMMA SizeIsNat == LINE_CAPACITY \in Nat /\ \A p \in Packets : p \in Seq(Chars)
<1>1. STRING \subseteq Chars
  BY DEF Chars
<1> QED
  BY <1>1, SizeAssumption, SeqMonotonic

LEMMA UnreadIsQueue ==
  ASSUME BufferInv
  PROVE  Unread = Queue /\ Unread \in Seq(Chars) /\ Len(Unread) <= LINE_CAPACITY
<1>1. /\ rxBuf \in Seq(Chars) /\ rxIndex \in Nat /\ Len(rxBuf) \in Nat
      /\ Len(rxBuf) <= LINE_CAPACITY /\ LINE_CAPACITY \in Nat
      /\ rxIndex <= Len(rxBuf)
  BY SizeIsNat, LenProperties DEF BufferInv
<1>2. <<>> \in Seq(Chars) /\ Len(<<>>) <= LINE_CAPACITY
  BY <1>1
<1>3. CASE ~isActive
  BY <1>2, <1>3 DEF Unread, Queue
<1>4. CASE isActive /\ rxIndex < Len(rxBuf)
  <2>1. Unread = SubSeq(rxBuf, rxIndex + 1, Len(rxBuf)) /\ Queue = Unread
    BY <1>1, <1>4 DEF Unread, Queue
  <2>2. Unread \in Seq(Chars) /\ Len(Unread) = Len(rxBuf) - rxIndex
    BY <2>1, RestOf DEF BufferInv
  <2> QED
    BY <1>1, <2>1, <2>2
<1>5. CASE isActive /\ rxIndex >= Len(rxBuf)
  <2>1. Unread = <<>> /\ Queue = SubSeq(rxBuf, rxIndex + 1, Len(rxBuf))
    BY <1>5 DEF Unread, Queue
  <2>2. SubSeq(rxBuf, rxIndex + 1, Len(rxBuf)) = <<>>
    BY <1>1, <1>5, SubSeqEmpty
  <2> QED
    BY <1>2, <2>1, <2>2
<1> QED
  BY <1>1, <1>3, <1>4, <1>5

LEMMA CallbackArrives ==
  ASSUME BufferInv, NEW c, NEW p \in Packets, consoleCallback(c, p)
  PROVE  BufferInv' /\ Input!Arrive
<1> DEFINE u == Unread
           nFree == LINE_CAPACITY - Len(u)
           fit == IF Len(p) > nFree THEN SubSeq(p, 1, nFree) ELSE p
<1>1. /\ rxBuf' = u \o fit /\ rxIndex' = 0 /\ isActive' = TRUE /\ got' = NONE
  BY DEF consoleCallback, Accepted
<1>2. u \in Seq(Chars) /\ Len(u) <= LINE_CAPACITY /\ u = Queue
  BY UnreadIsQueue
<1>3. p \in Seq(Chars) /\ LINE_CAPACITY \in Nat
  BY SizeIsNat
<1>4. fit \in Seq(Chars) /\ Len(fit) <= nFree
  <2> HIDE DEF u
  <2>1. nFree \in Nat
    BY <1>2, <1>3
  <2>2. CASE Len(p) > nFree
    <3>1. nFree \in 0..Len(p)
      BY <1>3, <2>1, <2>2
    <3> HIDE DEF nFree
    <3> QED
      BY <1>3, <2>2, <3>1, FrontOf
  <2>3. CASE ~(Len(p) > nFree)
    BY <1>3, <2>1, <2>3
  <2> QED
    BY <2>2, <2>3
<1>5. BufferInv'
  <2> HIDE DEF u, fit
  <2> QED
    BY <1>1, <1>2, <1>3, <1>4 DEF BufferInv
<1>6. Queue' = rxBuf'
  <2>1. Queue' = SubSeq(rxBuf', rxIndex' + 1, Len(rxBuf'))
    BY <1>1 DEF Queue
  <2>2. rxIndex' + 1 = 1 /\ rxBuf' \in Seq(Chars)
    BY <1>1, <1>5 DEF BufferInv
  <2>3. SubSeq(rxBuf', 1, Len(rxBuf')) = rxBuf'
    BY <2>2, SubSeqFull
  <2> QED
    BY <2>1, <2>2, <2>3
<1>7. Input!Fitting(p) = fit
  BY <1>2 DEF Input!Fitting, Queue
<1> HIDE DEF u, fit
<1> QED
  BY <1>1, <1>2, <1>5, <1>6, <1>7 DEF Input!Arrive, Queue

-----------------------------------------------------------------------------
Measured == (-HSteps..HSteps) \X (-VSteps..VSteps) \X BOOLEAN

Eyes ==
  [active : BOOLEAN, acquiring : BOOLEAN, mgt : Channels,
   hOffset : -HSteps..HSteps, vOffset : -VSteps-1..VSteps, utFlag : BOOLEAN,
   errorCount : Seq(Measured), loopMGT : Channels \cup {NoLoop},
   run : [Channels -> Measured \cup {Stopped}], plot : Seq(Seq(Measured)),
   prints : Nat]

Here(s, u) == <<s.hOffset, s.vOffset, u>>
Pixel(i)   == <<Point(i) \o <<FALSE>>, Point(i) \o <<TRUE>> >>

Placed(s) ==
  /\ \A i \in DOMAIN s.plot : s.plot[i] = Pixel(i)
  /\ \A c \in Channels : s.run[c] # Stopped => s.active /\ s.acquiring /\ c = s.mgt
  /\ s.active =>
       /\ Len(s.plot) = Width * (VSteps - s.vOffset) + s.hOffset + HSteps
       /\ s.errorCount = IF s.utFlag THEN <<Here(s, FALSE)>> ELSE <<>>
       /\ s.acquiring => s.run[s.mgt] = Here(s, s.utFlag) /\ s.vOffset >= -VSteps

EyeInv(s) == s \in Eyes /\ Placed(s)

LEMMA RasterType ==
  /\ HSteps \in Nat \ {0} /\ VSteps \in Nat \ {0}
  /\ Width \in Nat \ {0} /\ Width = 2 * HSteps + 1
  /\ 0 \in Channels
  BY StepsAssumption, ChannelAssumption DEF Width, Channels

LEMMA Product ==
  ASSUME NEW w \in Nat, NEW a \in Int, NEW b \in Int, a < b
  PROVE  w * a + w <= w * b
<1>1. a + 1 <= b
  OBVIOUS
<1>2. PICK d \in Nat : b = a + 1 + d
  <2>1. b - (a + 1) \in Nat /\ b = a + 1 + (b - (a + 1))
    BY <1>1
  <2> QED
    BY <2>1
<1>3. w * b = w * a + w + w * d
  BY <1>2
<1>4. w * d \in Nat
  OBVIOUS
<1>5. w * a \in Int
  OBVIOUS
<1> QED
  BY <1>3, <1>4, <1>5

LEMMA Division ==
  ASSUME NEW w \in Nat \ {0}, NEW q \in Nat, NEW r \in 0..w-1
  PROVE  (w * q + r) % w = r /\ (w * q + r) \div w = q
<1> DEFINE n == w * q + r
           d == n \div w
           m == n % w
<1>1. n \in Nat /\ w * q \in Nat
  OBVIOUS
<1>2. d \in Int /\ m \in 0..w-1 /\ n = w * d + m
  <2> HIDE DEF n
  <2> QED
    BY <1>1
<1>3. w * q + r = w * d + m
  BY <1>2
<1> HIDE DEF n, d, m
<1>4. w * d \in Int
  BY <1>2
<1>5. ~(q < d)
  BY <1>1, <1>2, <1>3, <1>4, Product
<1>6. ~(d < q)
  BY <1>1, <1>2, <1>3, <1>4, Product
<1>7. d = q
  BY <1>2, <1>5, <1>6
<1>8. m = r
  BY <1>1, <1>2, <1>3, <1>7
<1> QED
  BY <1>7, <1>8 DEF d, m, n


\* The fields of a state, whose types the provers take one by one.
LEMMA EyeFields ==
  ASSUME NEW s \in Eyes
  PROVE  /\ s.active \in BOOLEAN /\ s.acquiring \in BOOLEAN /\ s.mgt \in Channels
         /\ s.hOffset \in -HSteps..HSteps /\ s.vOffset \in -VSteps-1..VSteps
         /\ s.utFlag \in BOOLEAN /\ s.errorCount \in Seq(Measured)
         /\ s.loopMGT \in Channels \cup {NoLoop}
         /\ s.run \in [Channels -> Measured \cup {Stopped}]
         /\ s.plot \in Seq(Seq(Measured)) /\ s.prints \in Nat
  BY DEF Eyes

LEMMA StartsInPlace == EyeInv(EyeInit)
<1>1. EyeInit \in Eyes
  <2>1. <<>> \in Seq(Measured) /\ <<>> \in Seq(Seq(Measured))
    OBVIOUS
  <2>2. 0 \in -HSteps..HSteps /\ 0 \in -VSteps-1..VSteps
    BY RasterType
  <2> QED
    BY <2>1, <2>2, RasterType DEF Eyes, EyeInit
<1>2. Placed(EyeInit)
  BY DEF Placed, EyeInit
<1> QED
  BY <1>1, <1>2 DEF EyeInv

LEMMA PrintsKeep ==
  ASSUME NEW s, EyeInv(s), NEW n \in Nat
  PROVE  EyeInv(Prints(s, n)) /\ EyeInv([s EXCEPT !.prints = 0])
<1>1. ASSUME NEW m \in Nat
      PROVE  EyeInv([s EXCEPT !.prints = m])
  <2> DEFINE t == [s EXCEPT !.prints = m]
  <2>1. s \in Eyes
    BY DEF EyeInv
  <2>2. /\ t \in Eyes
        /\ t.active = s.active /\ t.acquiring = s.acquiring /\ t.mgt = s.mgt
        /\ t.hOffset = s.hOffset /\ t.vOffset = s.vOffset /\ t.utFlag = s.utFlag
        /\ t.errorCount = s.errorCount /\ t.run = s.run /\ t.plot = s.plot
    BY <2>1 DEF Eyes
  <2> HIDE DEF t
  <2>3. Placed(t)
    BY <2>2 DEF EyeInv, Placed, Here
  <2> QED
    BY <2>2, <2>3 DEF EyeInv, t
<1>2. s.prints + n \in Nat
  BY EyeFields DEF EyeInv
<1> QED
  BY <1>1, <1>2 DEF Prints

LEMMA LoopKeeps ==
  ASSUME NEW s, EyeInv(s), NEW c \in Channels \cup {NoLoop}
  PROVE  EyeInv([s EXCEPT !.loopMGT = c])
<1> DEFINE t == [s EXCEPT !.loopMGT = c]
<1>1. s \in Eyes
  BY DEF EyeInv
<1>2. /\ t \in Eyes
      /\ t.active = s.active /\ t.acquiring = s.acquiring /\ t.mgt = s.mgt
      /\ t.hOffset = s.hOffset /\ t.vOffset = s.vOffset /\ t.utFlag = s.utFlag
      /\ t.errorCount = s.errorCount /\ t.run = s.run /\ t.plot = s.plot
  BY <1>1 DEF Eyes
<1> HIDE DEF t
<1>3. Placed(t)
  BY <1>2 DEF EyeInv, Placed, Here
<1> QED
  BY <1>2, <1>3 DEF EyeInv, t

\* A scan begins at the corner of the raster, with a point half measured by
\* nobody.
LEMMA BeginKeeps ==
  ASSUME NEW s, EyeInv(s), ~s.active, NEW c \in Channels
  PROVE  EyeInv(Begin(s, c))
<1> DEFINE t == [s EXCEPT !.hOffset = -HSteps, !.vOffset = VSteps, !.mgt = c,
                   !.utFlag = FALSE, !.errorCount = <<>>,
                   !.acquiring = FALSE, !.active = TRUE, !.plot = <<>>]
<1>1. s \in Eyes /\ Placed(s)
  BY DEF EyeInv
<1>2. /\ -HSteps \in -HSteps..HSteps /\ VSteps \in -VSteps-1..VSteps
      /\ <<>> \in Seq(Measured) /\ <<>> \in Seq(Seq(Measured))
  BY RasterType
<1>3. /\ t \in Eyes
      /\ t.active /\ ~t.acquiring /\ t.mgt = c
      /\ t.hOffset = -HSteps /\ t.vOffset = VSteps /\ ~t.utFlag
      /\ t.errorCount = <<>> /\ t.run = s.run /\ t.plot = <<>>
  BY <1>1, <1>2 DEF Eyes
<1> HIDE DEF t
<1>4. \A k \in Channels : t.run[k] = Stopped
  BY <1>1, <1>3 DEF Placed
<1>5. Len(t.plot) = Width * (VSteps - t.vOffset) + t.hOffset + HSteps
  BY <1>3, RasterType
<1>6. Placed(t)
  BY <1>3, <1>4, <1>5 DEF Placed
<1>7. EyeInv(t)
  BY <1>3, <1>6 DEF EyeInv
<1>8. Begin(s, c) = Prints(t, 1)
  BY DEF Begin, t
<1> QED
  BY <1>7, <1>8, PrintsKeep

\* The scanner of the scan's transceiver is stopped.
LEMMA StopKeeps ==
  ASSUME NEW s, EyeInv(s),
         NEW t, t \in {drpCLR_RUN(s), [drpCLR_RUN(s) EXCEPT !.acquiring = FALSE]}
  PROVE  /\ t \in Eyes /\ \A c \in Channels : t.run[c] = Stopped
         /\ t.active = s.active /\ t.mgt = s.mgt
         /\ t.hOffset = s.hOffset /\ t.vOffset = s.vOffset /\ t.utFlag = s.utFlag
         /\ t.errorCount = s.errorCount /\ t.plot = s.plot /\ t.prints = s.prints
<1> DEFINE run == [s.run EXCEPT ![s.mgt] = Stopped]
<1>1. s \in Eyes /\ Placed(s)
  BY DEF EyeInv
<1>2. run \in [Channels -> Measured \cup {Stopped}] /\ \A c \in Channels : run[c] = Stopped
  BY <1>1, EyeFields DEF Placed
<1>3. drpCLR_RUN(s) = [s EXCEPT !.run = run]
  BY <1>1, EyeFields DEF drpCLR_RUN, Eyes
<1> HIDE DEF run
<1>4. t = [s EXCEPT !.run = run] \/ t = [s EXCEPT !.run = run, !.acquiring = FALSE]
  BY <1>1, <1>3 DEF Eyes
<1> QED
  BY <1>1, <1>2, <1>4 DEF Eyes

LEMMA EndKeeps ==
  ASSUME NEW s \in Eyes, \A c \in Channels : s.run[c] = Stopped
  PROVE  EyeInv(Prints(Ended(s), 1))
<1> DEFINE t == Ended(s)
<1>1. /\ 0 \in -HSteps..HSteps /\ 0 \in -VSteps-1..VSteps /\ 0 \in Channels
      /\ <<>> \in Seq(Seq(Measured))
  BY RasterType
<1>2. t \in Eyes /\ ~t.active /\ t.run = s.run /\ t.plot = <<>>
  BY <1>1 DEF Eyes, Ended
<1> HIDE DEF t
<1>3. Placed(t)
  BY <1>2 DEF Placed
<1>4. EyeInv(t)
  BY <1>2, <1>3 DEF EyeInv
<1> QED
  BY <1>4, PrintsKeep DEF t

LEMMA MeasureKeeps ==
  ASSUME NEW s, EyeInv(s), s.active, ~s.acquiring, s.vOffset >= -VSteps
  PROVE  EyeInv(Measure(s))
<1> DEFINE at == Here(s, s.utFlag)
           run == [s.run EXCEPT ![s.mgt] = at]
           t == [s EXCEPT !.run = run, !.acquiring = TRUE]
<1>1. s \in Eyes /\ Placed(s)
  BY DEF EyeInv
<1>2. at \in Measured
  BY <1>1, EyeFields, RasterType DEF Here, Measured
<1>3. /\ run \in [Channels -> Measured \cup {Stopped}] /\ run[s.mgt] = at
      /\ \A c \in Channels : run[c] # Stopped => c = s.mgt
  <2> HIDE DEF at
  <2> QED
    BY <1>1, <1>2, EyeFields DEF Placed
<1>4. Measure(s) = t
  BY <1>1 DEF Measure, Eyes, Here
<1>5. at = Here(s, s.utFlag)
  OBVIOUS
<1> HIDE DEF run, at
<1>6. /\ t \in Eyes
      /\ t.active /\ t.acquiring /\ t.mgt = s.mgt /\ t.run = run
      /\ t.hOffset = s.hOffset /\ t.vOffset = s.vOffset /\ t.utFlag = s.utFlag
      /\ t.errorCount = s.errorCount /\ t.plot = s.plot
  BY <1>1, <1>3 DEF Eyes
<1> HIDE DEF t
<1>7. Placed(t)
  BY <1>1, <1>3, <1>5, <1>6 DEF Placed, Here
<1> QED
  BY <1>4, <1>6, <1>7 DEF EyeInv

LEMMA Beside ==
  ASSUME NEW h, NEW v, NEW b
  PROVE  <<h, v>> \o <<b>> = <<h, v, b>>
<1> DEFINE A == {h, v, b}
           x == <<h, v>> \o <<b>>
           y == <<h, v, b>>
<1>1. <<h, v>> \in Seq(A) /\ <<b>> \in Seq(A) /\ y \in Seq(A)
  OBVIOUS
<1>2. /\ x \in Seq(A) /\ Len(x) = 3 /\ x[1] = h /\ x[2] = v /\ x[3] = b
  OBVIOUS
<1>3. Len(y) = 3 /\ y[1] = h /\ y[2] = v /\ y[3] = b
  OBVIOUS
<1> HIDE DEF x, y
<1>4. \A i \in 1..Len(x) : x[i] = y[i]
  BY <1>2, <1>3
<1>5. x = y
  BY <1>1, <1>2, <1>3, <1>4, SeqEqual
<1> QED
  BY <1>5 DEF x, y

LEMMA Appended ==
  ASSUME NEW a, NEW b
  PROVE  Append(<<a>>, b) = <<a, b>>
<1> DEFINE A == {a, b}
           x == Append(<<a>>, b)
           y == <<a, b>>
<1>1. <<a>> \in Seq(A) /\ y \in Seq(A)
  OBVIOUS
<1>2. x \in Seq(A) /\ Len(x) = 2 /\ x[1] = a /\ x[2] = b
  OBVIOUS
<1>3. Len(y) = 2 /\ y[1] = a /\ y[2] = b
  OBVIOUS
<1> HIDE DEF x, y
<1>4. \A i \in 1..Len(x) : x[i] = y[i]
  BY <1>2, <1>3
<1>5. x = y
  BY <1>1, <1>2, <1>3, <1>4, SeqEqual
<1> QED
  BY <1>5 DEF x, y

\* The offsets are those of the pixel that is due.
LEMMA DuePixel ==
  ASSUME NEW s, EyeInv(s), s.active, s.vOffset >= -VSteps
  PROVE  Pixel(Len(s.plot) + 1) = <<Here(s, FALSE), Here(s, TRUE)>>
<1> DEFINE n == Len(s.plot)
           q == VSteps - s.vOffset
           r == s.hOffset + HSteps
<1>1. /\ s.hOffset \in -HSteps..HSteps /\ s.vOffset \in -VSteps..VSteps
      /\ s.plot \in Seq(Seq(Measured))
  BY EyeFields, RasterType DEF EyeInv
<1>2. q \in Nat /\ r \in 0..Width-1
  BY <1>1, RasterType
<1>3. n = Width * q + r /\ n \in Nat
  <2>1. n = Width * q + s.hOffset + HSteps
    BY DEF EyeInv, Placed
  <2>2. Width * q \in Nat
    <3> HIDE DEF q
    <3> QED
      BY <1>2, RasterType
  <2> HIDE DEF n, q
  <2>3. n = Width * q + r
    BY <1>1, <2>1, <2>2, RasterType
  <2>4. n \in Nat
    BY <1>2, <2>2, <2>3
  <2> QED
    BY <2>3, <2>4
<1>4. n % Width = r /\ n \div Width = q
  <2> HIDE DEF n, q, r
  <2> QED
    BY <1>2, <1>3, RasterType, Division
<1>5. Point(n + 1) = <<s.hOffset, s.vOffset>>
  <2>1. (n + 1) - 1 = n
    BY <1>3
  <2>2. Point(n + 1) = <<r - HSteps, VSteps - q>>
    BY <1>4, <2>1 DEF Point
  <2>3. r - HSteps = s.hOffset /\ VSteps - q = s.vOffset
    BY <1>1, RasterType
  <2> QED
    BY <2>2, <2>3
<1>6. \A b \in BOOLEAN : Point(n + 1) \o <<b>> = Here(s, b)
  BY <1>5, Beside DEF Here
<1> QED
  BY <1>6 DEF Pixel

\* The first measurement of a point is kept, the second completes its pixel
\* and moves the scan to the next.
LEMMA AccumulateKeeps ==
  ASSUME NEW s, EyeInv(s), s.active, s.acquiring,
         NEW t, t = [drpCLR_RUN(s) EXCEPT !.acquiring = FALSE]
  PROVE  EyeInv(Accumulate(t, s.run[s.mgt]))
<1> DEFINE m == Here(s, s.utFlag)
           count == Append(s.errorCount, m)
<1>1. s \in Eyes /\ Placed(s) /\ s.run[s.mgt] = m /\ s.vOffset >= -VSteps
  BY DEF EyeInv, Placed
<1>2. /\ t \in Eyes /\ \A c \in Channels : t.run[c] = Stopped
      /\ t.active /\ ~t.acquiring /\ t.mgt = s.mgt
      /\ t.hOffset = s.hOffset /\ t.vOffset = s.vOffset /\ t.utFlag = s.utFlag
      /\ t.errorCount = s.errorCount /\ t.plot = s.plot
  <2>1. t.acquiring = FALSE
    BY <1>1 DEF drpCLR_RUN, Eyes
  <2> QED
    BY <2>1, StopKeeps
<1>3. /\ s.hOffset \in -HSteps..HSteps /\ s.vOffset \in -VSteps..VSteps
      /\ s.plot \in Seq(Seq(Measured)) /\ s.errorCount \in Seq(Measured)
      /\ s.utFlag \in BOOLEAN /\ HSteps \in Nat /\ VSteps \in Nat
  BY <1>1, EyeFields, RasterType
<1>4. \A b \in BOOLEAN : Here(s, b) \in Measured
  BY <1>3 DEF Here, Measured
<1>5. m \in Measured /\ count \in Seq(Measured)
  <2>1. m \in Measured
    BY <1>3, <1>4
  <2> HIDE DEF m
  <2> QED
    BY <1>3, <2>1
<1>6. CASE ~s.utFlag
  <2> DEFINE u == [t EXCEPT !.errorCount = count, !.utFlag = TRUE]
  <2>1. Accumulate(t, m) = u
    <3> HIDE DEF m
    <3> QED
      BY <1>2, <1>6 DEF Accumulate, Eyes
  <2>2. count = <<Here(s, FALSE)>>
    <3>1. s.errorCount = <<>> /\ m = Here(s, FALSE)
      BY <1>1, <1>3, <1>6 DEF Placed
    <3> HIDE DEF m
    <3> QED
      BY <3>1
  <2> HIDE DEF count, m
  <2>3. /\ u \in Eyes /\ \A c \in Channels : u.run[c] = Stopped
        /\ u.active /\ ~u.acquiring /\ u.utFlag = TRUE
        /\ u.hOffset = s.hOffset /\ u.vOffset = s.vOffset
        /\ u.errorCount = count /\ u.plot = s.plot
    BY <1>2, <1>5 DEF Eyes
  <2> HIDE DEF u
  <2>4. Placed(u)
    BY <1>1, <1>2, <1>6, <2>2, <2>3 DEF Placed, Here
  <2> QED
    BY <1>1, <2>1, <2>3, <2>4 DEF EyeInv
<1>7. CASE s.utFlag
  <2> DEFINE plot == Append(s.plot, count)
             n == Len(s.plot)
  <2>1. count = Pixel(n + 1)
    <3>1. s.errorCount = <<Here(s, FALSE)>> /\ m = Here(s, TRUE)
      BY <1>1, <1>3, <1>7 DEF Placed
    <3>2. count = <<Here(s, FALSE), Here(s, TRUE)>>
      <4> HIDE DEF m
      <4> QED
        BY <3>1, Appended
    <3>3. Pixel(n + 1) = <<Here(s, FALSE), Here(s, TRUE)>>
      BY <1>1, DuePixel
    <3> QED
      BY <3>2, <3>3
  <2> HIDE DEF count
  <2>2. /\ plot \in Seq(Seq(Measured)) /\ Len(plot) = n + 1 /\ n \in Nat
        /\ \A i \in 1..n : plot[i] = s.plot[i]
        /\ plot[n + 1] = count
    BY <1>3, <1>5
  <2>3. \A i \in DOMAIN plot : plot[i] = Pixel(i)
    <3>1. DOMAIN plot = 1..n + 1 /\ DOMAIN s.plot = 1..n
      BY <1>3, <2>2
    <3>2. \A i \in 1..n : s.plot[i] = Pixel(i)
      BY <1>1, <3>1 DEF Placed
    <3> HIDE DEF plot, n
    <3>3. \A i \in 1..n + 1 : i \in 1..n \/ i = n + 1
      BY <2>2
    <3> QED
      BY <2>1, <2>2, <3>1, <3>2, <3>3
  <2>4. n = Width * (VSteps - s.vOffset) + s.hOffset + HSteps
    BY <1>1 DEF Placed
  <2> HIDE DEF plot, n, m
  <2>5. ASSUME NEW h \in -HSteps..HSteps, NEW v \in -VSteps-1..VSteps, NEW k \in Nat,
               n + 1 = Width * (VSteps - v) + h + HSteps,
               NEW u, u = Prints([t EXCEPT !.errorCount = <<>>, !.utFlag = FALSE,
                                    !.plot = plot, !.hOffset = h, !.vOffset = v], k)
        PROVE  EyeInv(u)
    <3> DEFINE w == [t EXCEPT !.errorCount = <<>>, !.utFlag = FALSE,
                              !.plot = plot, !.hOffset = h, !.vOffset = v]
    <3>1. /\ w \in Eyes /\ \A c \in Channels : w.run[c] = Stopped
          /\ w.active /\ ~w.acquiring /\ ~w.utFlag
          /\ w.hOffset = h /\ w.vOffset = v
          /\ w.errorCount = <<>> /\ w.plot = plot
      <4>1. <<>> \in Seq(Measured) /\ plot \in Seq(Seq(Measured))
        BY <2>2
      <4>2. w.errorCount = <<>> /\ w.run = t.run
        BY <1>2 DEF Eyes
      <4>3. w \in Eyes
        BY <1>2, <4>1 DEF Eyes
      <4>4. /\ w.active = t.active /\ w.acquiring = t.acquiring /\ w.utFlag = FALSE
            /\ w.hOffset = h /\ w.vOffset = v /\ w.plot = plot
        BY <1>2 DEF Eyes
      <4> HIDE DEF w
      <4> QED
        BY <1>2, <4>2, <4>3, <4>4
    <3> HIDE DEF w
    <3>2. Placed(w)
      BY <2>2, <2>3, <2>5, <3>1 DEF Placed
    <3>3. EyeInv(w)
      BY <3>1, <3>2 DEF EyeInv
    <3> QED
      BY <2>5, <3>3, PrintsKeep DEF w
  <2> DEFINE x == Accumulate(t, m)
  <2>6. CASE s.hOffset + 1 > HSteps
    <3> DEFINE h == -HSteps
               v == s.vOffset - 1
    <3>1. x = Prints([t EXCEPT !.errorCount = <<>>, !.utFlag = FALSE,
                        !.plot = plot, !.hOffset = h, !.vOffset = v], 2)
      <4> DEFINE y == [t EXCEPT !.errorCount = <<>>, !.utFlag = FALSE, !.plot = plot]
                 z == [[t EXCEPT !.errorCount = count, !.utFlag = ~@]
                         EXCEPT !.plot = Append(@, count), !.errorCount = <<>>]
      <4>1. z = y
        BY <1>2, <1>7 DEF Eyes, plot
      <4>2. [t EXCEPT !.errorCount = count, !.utFlag = ~@].utFlag = FALSE
        BY <1>2, <1>7 DEF Eyes
      <4>3. x = Prints([z EXCEPT !.hOffset = -HSteps, !.vOffset = @ - 1], 2)
        BY <1>2, <2>6, <4>2 DEF Accumulate, count
      <4>4. y.vOffset = s.vOffset
        BY <1>2 DEF Eyes
      <4>5. x = Prints([y EXCEPT !.hOffset = h, !.vOffset = v], 2)
        <5> HIDE DEF x, y, z
        <5> QED
          BY <4>1, <4>3, <4>4
      <4>6. [y EXCEPT !.hOffset = h, !.vOffset = v] =
              [t EXCEPT !.errorCount = <<>>, !.utFlag = FALSE,
                        !.plot = plot, !.hOffset = h, !.vOffset = v]
        BY <1>2 DEF Eyes
      <4> HIDE DEF x, y
      <4> QED
        BY <4>5, <4>6
    <3>2. h \in -HSteps..HSteps /\ v \in -VSteps-1..VSteps
      BY <1>3
    <3>3. n + 1 = Width * (VSteps - v) + h + HSteps
      <4>1. s.hOffset = HSteps /\ VSteps - v = (VSteps - s.vOffset) + 1
        BY <1>3, <2>6
      <4>2. /\ Width * (VSteps - v) = Width * (VSteps - s.vOffset) + Width
            /\ Width * (VSteps - s.vOffset) \in Int
        BY <1>3, <4>1, RasterType
      <4> DEFINE p == Width * (VSteps - s.vOffset)
      <4>3. n = p + HSteps + HSteps /\ p \in Int
        BY <2>4, <4>1, <4>2
      <4>4. Width * (VSteps - v) + h + HSteps = p + Width + h + HSteps
        BY <4>2
      <4> HIDE DEF p, v
      <4>5. p + Width + h + HSteps = p + HSteps + HSteps + 1
        BY <1>3, <4>3, RasterType
      <4> QED
        BY <4>3, <4>4, <4>5
    <3> HIDE DEF x, h, v
    <3> QED
      BY <1>1, <2>5, <3>1, <3>2, <3>3 DEF x
  <2>7. CASE ~(s.hOffset + 1 > HSteps)
    <3> DEFINE h == s.hOffset + 1
               v == s.vOffset
    <3>1. x = Prints([t EXCEPT !.errorCount = <<>>, !.utFlag = FALSE,
                        !.plot = plot, !.hOffset = h, !.vOffset = v], 1)
      <4> DEFINE y == [t EXCEPT !.errorCount = <<>>, !.utFlag = FALSE, !.plot = plot]
                 z == [[t EXCEPT !.errorCount = count, !.utFlag = ~@]
                         EXCEPT !.plot = Append(@, count), !.errorCount = <<>>]
      <4>1. z = y
        BY <1>2, <1>7 DEF Eyes, plot
      <4>2. [t EXCEPT !.errorCount = count, !.utFlag = ~@].utFlag = FALSE
        BY <1>2, <1>7 DEF Eyes
      <4>3. x = Prints([z EXCEPT !.hOffset = @ + 1], 1)
        BY <1>2, <2>7, <4>2 DEF Accumulate, count
      <4>4. y.hOffset = s.hOffset /\ y.vOffset = s.vOffset
        BY <1>2 DEF Eyes
      <4>5. x = Prints([y EXCEPT !.hOffset = h], 1)
        <5> HIDE DEF x, y, z
        <5> QED
          BY <4>1, <4>3, <4>4
      <4>6. [y EXCEPT !.hOffset = h] =
              [t EXCEPT !.errorCount = <<>>, !.utFlag = FALSE,
                        !.plot = plot, !.hOffset = h, !.vOffset = v]
        BY <1>2 DEF Eyes
      <4> HIDE DEF x, y
      <4> QED
        BY <4>5, <4>6
    <3>2. h \in -HSteps..HSteps /\ v \in -VSteps-1..VSteps
      BY <1>3, <2>7
    <3>3. n + 1 = Width * (VSteps - v) + h + HSteps
      <4>1. Width * (VSteps - s.vOffset) \in Int
        BY <1>3, RasterType
      <4> DEFINE p == Width * (VSteps - s.vOffset)
      <4>2. n = p + s.hOffset + HSteps /\ p \in Int
        BY <2>4, <4>1
      <4>3. Width * (VSteps - v) + h + HSteps = p + (s.hOffset + 1) + HSteps
        OBVIOUS
      <4> HIDE DEF p, v, h
      <4>4. p + (s.hOffset + 1) + HSteps = n + 1
        BY <1>3, <4>2
      <4> QED
        BY <4>3, <4>4
    <3> HIDE DEF x, h, v
    <3> QED
      BY <1>1, <2>5, <3>1, <3>2, <3>3 DEF x
  <2> QED
    BY <2>6, <2>7
<1> HIDE DEF m
<1> QED
  BY <1>3, <1>6, <1>7

\* A call of eyescanStep, whatever it is asked and whatever it finds.
LEMMA StepKeeps ==
  ASSUME NEW s, EyeInv(s), NEW mgt, NEW status \in Statuses
  PROVE  EyeInv(eyescanStep(s, mgt, status))
<1> DEFINE u == eyescanStep(s, mgt, status)
           t == [drpCLR_RUN(s) EXCEPT !.acquiring = FALSE]
<1>1. s \in Eyes /\ Placed(s) /\ s.active \in BOOLEAN /\ s.acquiring \in BOOLEAN
      /\ s.vOffset \in Int /\ VSteps \in Nat
  BY EyeFields, RasterType DEF EyeInv
<1>2. CASE ~s.active /\ mgt \in Channels
  <2>1. u = Begin(s, mgt)
    BY <1>2 DEF eyescanStep
  <2> QED
    BY <1>2, <2>1, BeginKeeps
<1>3. CASE ~s.active /\ mgt \notin Channels
  <2>1. u = s
    BY <1>3 DEF eyescanStep
  <2> QED
    BY <2>1
<1>4. CASE s.active /\ mgt = CANCEL
  <2>1. u = Cancel(s)
    BY <1>4 DEF eyescanStep
  <2> DEFINE w == drpCLR_RUN(s)
  <2>2. w \in Eyes /\ \A c \in Channels : w.run[c] = Stopped
    BY StopKeeps
  <2> HIDE DEF w
  <2>3. EyeInv(Prints(Ended(w), 1))
    BY <2>2, EndKeeps
  <2> QED
    BY <2>1, <2>3 DEF Cancel, w
<1>5. CASE s.active /\ mgt # CANCEL /\ s.acquiring
  <2>1. u = Poll(s, status)
    BY <1>5 DEF eyescanStep
  <2>2. CASE status = "busy"
    <3>1. u = s
      BY <2>1, <2>2 DEF Poll
    <3> QED
      BY <3>1
  <2>3. CASE status = "end"
    <3>1. u = Accumulate(t, s.run[s.mgt])
      BY <2>1, <2>3 DEF Poll
    <3> QED
      BY <1>5, <3>1, AccumulateKeeps
  <2>4. CASE status \in {"other", "overdue"}
    <3>1. u = Prints(Ended(t), 1)
      BY <2>1, <2>4 DEF Poll
    <3>2. t \in Eyes /\ \A c \in Channels : t.run[c] = Stopped
      BY StopKeeps
    <3> HIDE DEF t
    <3> QED
      BY <3>1, <3>2, EndKeeps
  <2> QED
    BY <2>2, <2>3, <2>4 DEF Statuses
<1>6. CASE s.active /\ mgt # CANCEL /\ ~s.acquiring /\ s.vOffset < -VSteps
  <2>1. u = Finish(s)
    BY <1>1, <1>6 DEF eyescanStep
  <2>2. \A c \in Channels : s.run[c] = Stopped
    BY <1>1, <1>6 DEF Placed
  <2> QED
    BY <1>1, <2>1, <2>2, EndKeeps DEF Finish
<1>7. CASE s.active /\ mgt # CANCEL /\ ~s.acquiring /\ s.vOffset >= -VSteps
  <2>1. u = Measure(s)
    BY <1>1, <1>7 DEF eyescanStep
  <2> QED
    BY <1>7, <2>1, MeasureKeeps
<1> HIDE DEF u
<1>8. s.vOffset < -VSteps \/ s.vOffset >= -VSteps
  BY <1>1
<1> QED
  BY <1>2, <1>3, <1>4, <1>5, <1>6, <1>7, <1>8 DEF u

\* A turn of the scan, and one that cancels it: the next transceiver of a
\* loop begins in the same turn.
LEMMA CrankKeeps ==
  ASSUME NEW s, EyeInv(s), NEW cancel \in BOOLEAN, NEW status \in Statuses
  PROVE  EyeInv(eyescanCrank(s, cancel, status))
<1> DEFINE t == eyescanStep(s, IF cancel THEN CANCEL ELSE STEP, status)
           u == eyescanCrank(s, cancel, status)
<1>1. EyeInv(t)
  BY StepKeeps
<1> HIDE DEF t
<1>2. u = IF t.active \/ t.loopMGT = NoLoop THEN t
          ELSE IF cancel \/ t.loopMGT = EYESCAN_CHANNEL_COUNT - 1
            THEN [t EXCEPT !.loopMGT = NoLoop]
          ELSE eyescanStep([t EXCEPT !.loopMGT = @ + 1], t.loopMGT + 1, status)
  BY DEF eyescanCrank, t
<1>3. EyeInv([t EXCEPT !.loopMGT = NoLoop])
  BY <1>1, LoopKeeps
<1>4. ASSUME t.loopMGT # NoLoop, t.loopMGT # EYESCAN_CHANNEL_COUNT - 1
      PROVE  EyeInv([t EXCEPT !.loopMGT = @ + 1])
  <2>1. t.loopMGT \in Channels
    BY <1>1, <1>4, EyeFields DEF EyeInv
  <2>2. t.loopMGT + 1 \in Channels
    BY <1>4, <2>1, ChannelAssumption DEF Channels
  <2> QED
    BY <1>1, <2>2, LoopKeeps
<1>5. ASSUME t.loopMGT # NoLoop, t.loopMGT # EYESCAN_CHANNEL_COUNT - 1
      PROVE  EyeInv(eyescanStep([t EXCEPT !.loopMGT = @ + 1], t.loopMGT + 1, status))
  BY <1>4, <1>5, StepKeeps
<1> HIDE DEF u
<1> QED
  BY <1>1, <1>2, <1>3, <1>5 DEF u

LEMMA EyeCommandKeeps ==
  ASSUME NEW s, EyeInv(s), NEW args, NEW name
  PROVE  EyeInv(eyescanCommand(s, args, name))
<1>1. EyeInv([s EXCEPT !.loopMGT = 0])
  BY LoopKeeps, RasterType
<1>2. PICK t, mgt : /\ t = s \/ t = [s EXCEPT !.loopMGT = 0]
                    /\ \/ eyescanCommand(s, args, name) = Prints(s, 1)
                       \/ eyescanCommand(s, args, name) = Prints(t, 1)
                       \/ eyescanCommand(s, args, name) = eyescanStep(t, mgt, "busy")
  BY DEF eyescanCommand
<1>3. EyeInv(t)
  BY <1>1, <1>2
<1>4. EyeInv(Prints(s, 1)) /\ EyeInv(Prints(t, 1))
  BY <1>3, PrintsKeep
<1>5. EyeInv(eyescanStep(t, mgt, "busy"))
  BY <1>3, StepKeeps DEF Statuses
<1> QED
  BY <1>2, <1>4, <1>5

-----------------------------------------------------------------------------
(***************************************************************************)
(* Output.  Between the bytes, what is unsent is in the buffer, each byte  *)
(* once and in order, and unless an alarm without room has come, no        *)
(* datagram was jumbled and the input buffer is still that of the state    *)
(* from which the output started.                                          *)
(***************************************************************************)
Numbers(n) == [i \in 1..n |-> i]

Outputs ==
  [tx : Seq(Nat), n : Nat, rx : Seq(Chars), log : 0..STARTUP_LOG_SIZE,
   logging : BOOLEAN, jumbled : BOOLEAN, overrun : BOOLEAN]

Loose(start) ==
  {o \in Outputs : /\ o.logging => o.log < STARTUP_LOG_SIZE
                   /\ Len(o.rx) = Len(start.rx)
                   /\ start.overrun => o.overrun
                   /\ ~o.overrun => o.rx = start.rx /\ ~o.jumbled}

Orderly(start) ==
  {o \in Loose(start) : o.n < UDP_TX_BUFSIZE /\ o.tx = Numbers(o.n)}

LEMMA NumbersAre ==
  ASSUME NEW n \in Nat
  PROVE  /\ Numbers(n) \in Seq(Nat) /\ Len(Numbers(n)) = n
         /\ \A i \in 1..n : Numbers(n)[i] = i
  BY DEF Numbers

LEMMA LoggedKeeps ==
  ASSUME NEW start, NEW o \in Loose(start), NEW k \in Nat
  PROVE  /\ Logged(o, k) \in Loose(start)
         /\ Logged(o, k).tx = o.tx /\ Logged(o, k).n = o.n
         /\ Logged(o, k).rx = o.rx
<1>1. CASE ~o.logging
  BY <1>1 DEF Logged
<1>2. o.log \in 0..STARTUP_LOG_SIZE /\ STARTUP_LOG_SIZE \in Nat
  BY SizeAssumption DEF Loose, Outputs
<1>3. CASE o.logging /\ o.log + k < STARTUP_LOG_SIZE
  <2>1. o.log + k \in 0..STARTUP_LOG_SIZE
    BY <1>2, <1>3
  <2>2. Logged(o, k) = [o EXCEPT !.log = o.log + k]
    BY <1>3 DEF Logged
  <2> QED
    BY <1>3, <2>1, <2>2 DEF Loose, Outputs
<1>4. CASE o.logging /\ ~(o.log + k < STARTUP_LOG_SIZE)
  <2>1. Logged(o, k) = [o EXCEPT !.log = STARTUP_LOG_SIZE, !.logging = FALSE]
    BY <1>4 DEF Logged
  <2>2. STARTUP_LOG_SIZE \in 0..STARTUP_LOG_SIZE
    BY <1>2
  <2> QED
    BY <2>1, <2>2 DEF Loose, Outputs
<1> QED
  BY <1>1, <1>3, <1>4

LEMMA SentKeeps ==
  ASSUME NEW start, NEW o \in Loose(start), NEW bytes,
         o.overrun \/ bytes = Numbers(o.n)
  PROVE  Sent(o, bytes) \in Orderly(start) /\ Sent(o, bytes).overrun = o.overrun
<1> DEFINE p == Sent(o, bytes)
<1>1. PICK j \in BOOLEAN : /\ p = [o EXCEPT !.tx = <<>>, !.n = 0, !.jumbled = j]
                           /\ j => o.jumbled \/ bytes # Numbers(o.n)
  <2>1. CASE o.jumbled \/ bytes # Numbers(o.n)
    <3>1. p = [o EXCEPT !.tx = <<>>, !.n = 0, !.jumbled = TRUE]
      BY <2>1 DEF Sent, Numbers
    <3> QED
      BY <2>1, <3>1
  <2>2. CASE ~(o.jumbled \/ bytes # Numbers(o.n))
    <3>1. p = [o EXCEPT !.tx = <<>>, !.n = 0, !.jumbled = FALSE]
      BY <2>2 DEF Sent, Numbers
    <3> QED
      BY <3>1
  <2> QED
    BY <2>1, <2>2
<1> HIDE DEF p
<1>2. <<>> \in Seq(Nat) /\ 0 \in Nat /\ o \in Outputs
  BY DEF Loose
<1>3. /\ p \in Outputs /\ p.tx = <<>> /\ p.n = 0 /\ p.jumbled = j
      /\ p.rx = o.rx /\ p.log = o.log /\ p.logging = o.logging /\ p.overrun = o.overrun
  BY <1>1, <1>2 DEF Outputs
<1>4. p \in Loose(start)
  BY <1>1, <1>3 DEF Loose
<1>5. Numbers(0) = <<>> /\ 0 < UDP_TX_BUFSIZE
  BY SizeAssumption DEF Numbers
<1> QED
  BY <1>3, <1>4, <1>5 DEF Orderly, p


LEMMA OverrunsKeep ==
  ASSUME NEW start, NEW o \in Loose(start), NEW p \in Overruns(o)
  PROVE  p \in Loose(start) /\ p.overrun
<1> DEFINE rest == Len(Alarm) - 1
           l == Logged(o, Len(Alarm))
           q == [l EXCEPT !.overrun = TRUE]
           smudged == [i \in DOMAIN o.rx |-> IF i <= rest THEN Alarm[i + 1] ELSE o.rx[i]]
           zeroed(j) == [i \in DOMAIN o.tx |-> IF i \in j + 1..j + rest THEN 0 ELSE o.tx[i]]
<1>1. /\ Alarm \in Seq(STRING) /\ Len(Alarm) \in Nat /\ rest \in Nat
      /\ o \in Outputs /\ Len(o.rx) = Len(start.rx)
      /\ o.rx \in Seq(Chars) /\ o.tx \in Seq(Nat)
  BY SizeAssumption DEF Loose, Outputs
<1>2. l \in Loose(start) /\ l \in Outputs /\ l.rx = o.rx /\ l.tx = o.tx
  BY <1>1, LoggedKeeps DEF Loose
<1>3. /\ q \in Outputs /\ q.overrun /\ q.rx = o.rx /\ q.tx = o.tx
      /\ q.logging => q.log < STARTUP_LOG_SIZE
  <2> HIDE DEF l
  <2> QED
    BY <1>2 DEF Loose, Outputs
<1>4. CASE p = [q EXCEPT !.rx = smudged]
  <2>1. smudged \in Seq(Chars) /\ Len(smudged) = Len(o.rx)
    <3>1. DOMAIN o.rx = 1..Len(o.rx) /\ Len(o.rx) \in Nat
      BY <1>1, LenProperties
    <3>2. ASSUME NEW i \in 1..Len(o.rx)
          PROVE  (IF i <= rest THEN Alarm[i + 1] ELSE o.rx[i]) \in Chars
      <4>1. CASE i <= rest
        <5>1. i + 1 \in 1..Len(Alarm)
          BY <1>1, <3>1, <4>1
        <5>2. Alarm[i + 1] \in STRING
          BY <1>1, <5>1, ElementOfSeq
        <5> QED
          BY <4>1, <5>2 DEF Chars
      <4>2. CASE ~(i <= rest)
        BY <1>1, <3>1, <4>2, ElementOfSeq
      <4> QED
        BY <4>1, <4>2
    <3> HIDE DEF rest
    <3> QED
      BY <3>1, <3>2
  <2> HIDE DEF smudged, q
  <2>2. p \in Outputs /\ p.rx = smudged /\ p.overrun = q.overrun
        /\ p.log = q.log /\ p.logging = q.logging
    BY <1>3, <1>4, <2>1 DEF Outputs
  <2> QED
    BY <1>1, <1>3, <2>1, <2>2 DEF Loose
<1>5. ASSUME NEW j, p = [q EXCEPT !.tx = zeroed(j)]
      PROVE  p \in Loose(start) /\ p.overrun
  <2> DEFINE z == zeroed(j)
  <2>1. z \in Seq(Nat)
    <3>1. DOMAIN o.tx = 1..Len(o.tx) /\ Len(o.tx) \in Nat
      BY <1>1, LenProperties
    <3>2. ASSUME NEW i \in 1..Len(o.tx)
          PROVE  (IF i \in j + 1..j + rest THEN 0 ELSE o.tx[i]) \in Nat
      BY <1>1, ElementOfSeq
    <3> HIDE DEF rest
    <3> QED
      BY <3>1, <3>2
  <2>2. p = [q EXCEPT !.tx = z]
    BY <1>5
  <2> HIDE DEF z, q
  <2>3. p \in Outputs /\ p.rx = q.rx /\ p.overrun = q.overrun
        /\ p.log = q.log /\ p.logging = q.logging
    BY <1>3, <2>1, <2>2 DEF Outputs
  <2> QED
    BY <1>1, <1>3, <2>3 DEF Loose
<1>6. \/ p = [q EXCEPT !.rx = smudged]
      \/ \E j : p = [q EXCEPT !.tx = zeroed(j)]
  <2>1. CASE p \in {[q EXCEPT !.rx = smudged]}
    BY <2>1
  <2>2. CASE p \in {[q EXCEPT !.tx = zeroed(j)] : j \in 0..UDP_TX_BUFSIZE - Len(Alarm)}
    BY <2>2
  <2>3. \/ p \in {[q EXCEPT !.rx = smudged]}
        \/ p \in {[q EXCEPT !.tx = zeroed(j)] : j \in 0..UDP_TX_BUFSIZE - Len(Alarm)}
    BY DEF Overruns
  <2> QED
    BY <2>1, <2>2, <2>3
<1> QED
  BY <1>4, <1>5, <1>6

LEMMA SpillsKeep ==
  ASSUME NEW start, NEW o \in Loose(start), Len(o.tx) <= UDP_TX_BUFSIZE, NEW p \in Spills(o)
  PROVE  p \in Orderly(start)
<1> DEFINE room == UDP_TX_BUFSIZE - Len(o.tx)
           left == Len(Alarm) - room
           l == Logged(o, Len(Alarm))
           filled == o.tx \o [i \in 1..room |-> 0]
           full == [l EXCEPT !.tx = filled, !.overrun = TRUE]
           bytes(q) == [i \in DOMAIN o.tx |-> IF i <= left THEN 0 ELSE q.tx[i]]
<1>1. /\ Len(Alarm) \in Nat /\ o \in Outputs /\ o.tx \in Seq(Nat)
      /\ Len(o.tx) \in Nat /\ room \in Nat
  <2>1. Len(Alarm) \in Nat /\ UDP_TX_BUFSIZE \in Nat
    BY SizeAssumption
  <2>2. o \in Outputs /\ o.tx \in Seq(Nat)
    BY DEF Loose, Outputs
  <2>3. Len(o.tx) \in Nat
    BY <2>2, LenProperties
  <2> QED
    BY <2>1, <2>2, <2>3
<1>2. filled \in Seq(Nat)
  <2> HIDE DEF room
  <2>1. [i \in 1..room |-> 0] \in Seq(Nat)
    BY <1>1
  <2> QED
    BY <1>1, <2>1
<1>3. full \in Loose(start) /\ full.overrun
  <2>1. l \in Loose(start) /\ l \in Outputs
    BY <1>1, LoggedKeeps DEF Loose
  <2> HIDE DEF l, filled
  <2>2. /\ full \in Outputs /\ full.overrun /\ full.rx = l.rx
        /\ full.log = l.log /\ full.logging = l.logging
    BY <1>2, <2>1 DEF Outputs
  <2> QED
    BY <2>1, <2>2 DEF Loose
<1>4. PICK q \in {full} \cup Overruns(full) : p = Sent(Sent(q, q.tx), bytes(q))
  BY DEF Spills
<1> HIDE DEF full, bytes
<1>5. q \in Loose(start) /\ q.overrun
  BY <1>3, <1>4, OverrunsKeep
<1>6. Sent(q, q.tx) \in Loose(start) /\ Sent(q, q.tx).overrun
  BY <1>5, SentKeeps DEF Orderly
<1> QED
  BY <1>4, <1>6, SentKeeps

LEMMA DrainKeeps ==
  ASSUME NEW start, NEW o \in Loose(start), o.n <= UDP_TX_BUFSIZE, o.tx = Numbers(o.n),
         NEW p \in drainUDP(o)
  PROVE  p \in Orderly(start)
<1>1. o.n \in Nat /\ Len(Alarm) \in Nat
  BY SizeAssumption DEF Loose, Outputs
<1>2. Len(o.tx) <= UDP_TX_BUFSIZE
  BY <1>1, NumbersAre
<1>3. CASE p = Sent(o, o.tx)
  BY <1>3, SentKeeps
<1>4. CASE p \in {Sent(q, q.tx) : q \in Overruns(o)}
  <2>1. PICK q \in Overruns(o) : p = Sent(q, q.tx)
    BY <1>4
  <2> QED
    BY <2>1, OverrunsKeep, SentKeeps
<1>5. CASE p \in Spills(o)
  BY <1>2, <1>5, SpillsKeep
<1>6. CASE p = Sent(Logged(o, Len(Alarm)), o.tx)
  <2> DEFINE l == Logged(o, Len(Alarm))
  <2>1. l \in Loose(start) /\ l.n = o.n
    BY <1>1, LoggedKeeps
  <2> HIDE DEF l
  <2>2. p = Sent(l, o.tx) /\ o.tx = Numbers(l.n)
    BY <1>6, <2>1 DEF l
  <2> QED
    BY <2>1, <2>2, SentKeeps
<1> QED
  BY <1>3, <1>4, <1>5, <1>6 DEF drainUDP

LEMMA Following ==
  ASSUME NEW n \in Nat
  PROVE  Append(Numbers(n), n + 1) = Numbers(n + 1)
<1> DEFINE x == Numbers(n)
           y == Numbers(n + 1)
           z == Append(x, n + 1)
<1>1. /\ x \in Seq(Nat) /\ Len(x) = n /\ \A i \in 1..n : x[i] = i
      /\ y \in Seq(Nat) /\ Len(y) = n + 1 /\ \A i \in 1..n + 1 : y[i] = i
  BY NumbersAre
<1> HIDE DEF x, y
<1>2. /\ z \in Seq(Nat) /\ Len(z) = n + 1
      /\ \A i \in 1..n + 1 : z[i] = IF i = n + 1 THEN n + 1 ELSE x[i]
  BY <1>1
<1>3. \A i \in 1..n + 1 : z[i] = y[i]
  BY <1>1, <1>2
<1> HIDE DEF z
<1>4. z = y
  BY <1>1, <1>2, <1>3, SeqEqual
<1> QED
  BY <1>4 DEF x, y, z

LEMMA OutbyteKeeps ==
  ASSUME NEW start, NEW o \in Orderly(start), NEW a, NEW r \in outbyte(o, a)
  PROVE  r \in Orderly(start)
<1> DEFINE p == Logged(o, 1)
           q == [p EXCEPT !.tx = Append(@, o.n + 1), !.n = @ + 1]
<1>1. /\ o \in Loose(start) /\ o.n \in Nat /\ o.n < UDP_TX_BUFSIZE
      /\ o.tx = Numbers(o.n) /\ UDP_TX_BUFSIZE \in Nat
  BY SizeAssumption DEF Orderly, Loose, Outputs
<1>2. p \in Loose(start) /\ p \in Outputs /\ p.tx = o.tx /\ p.n = o.n
  BY <1>1, LoggedKeeps DEF Loose
<1>3. CASE ~a
  <2>1. r = p
    BY <1>3 DEF outbyte
  <2> QED
    BY <1>1, <1>2, <2>1 DEF Orderly
<1>4. CASE a
  <2>1. r \in IF Len(q.tx) = UDP_TX_BUFSIZE THEN drainUDP(q) ELSE {q}
    BY <1>4 DEF outbyte
  <2> HIDE DEF p
  <2>2. /\ q = [p EXCEPT !.tx = Numbers(o.n + 1), !.n = o.n + 1]
        /\ Numbers(o.n + 1) \in Seq(Nat) /\ Len(Numbers(o.n + 1)) = o.n + 1
        /\ o.n + 1 \in Nat
    <3>1. o.n + 1 \in Nat
      BY <1>1
    <3>2. Append(p.tx, o.n + 1) = Numbers(o.n + 1) /\ p.n + 1 = o.n + 1
      BY <1>1, <1>2, Following
    <3>3. Numbers(o.n + 1) \in Seq(Nat) /\ Len(Numbers(o.n + 1)) = o.n + 1
      BY <3>1, NumbersAre
    <3> QED
      BY <3>1, <3>2, <3>3
  <2> HIDE DEF q
  <2>3. /\ q \in Outputs /\ q.tx = Numbers(o.n + 1) /\ q.n = o.n + 1 /\ q.rx = p.rx
        /\ q.log = p.log /\ q.logging = p.logging /\ q.overrun = p.overrun
        /\ q.jumbled = p.jumbled
    BY <1>2, <2>2 DEF Outputs
  <2>4. q \in Loose(start) /\ q.tx = Numbers(q.n) /\ q.n <= UDP_TX_BUFSIZE
    BY <1>1, <1>2, <2>3 DEF Loose
  <2>5. CASE q.n = UDP_TX_BUFSIZE
    <3>1. r \in drainUDP(q)
      BY <2>1, <2>2, <2>3, <2>5
    <3> QED
      BY <2>4, <3>1, DrainKeeps
  <2>6. CASE q.n # UDP_TX_BUFSIZE
    <3>1. r = q
      BY <2>1, <2>2, <2>3, <2>6
    <3>2. q.n < UDP_TX_BUFSIZE
      BY <1>1, <2>3, <2>4, <2>6
    <3> QED
      BY <2>4, <3>1, <3>2 DEF Orderly
  <2> QED
    BY <2>5, <2>6
<1> QED
  BY <1>3, <1>4

LEMMA SetInduction ==
  ASSUME NEW S, 0 \in S, \A n \in Nat : n \in S => n + 1 \in S
  PROVE  Nat \subseteq S
<1> SUFFICES ASSUME Nat \ S # {} PROVE FALSE
  OBVIOUS
<1>1. PICK m \in Nat \ S : \A k \in Nat \ S : <<k, m>> \notin OpToRel(<, Nat)
  BY WFMin, NatLessThanWellFounded
<1>2. m - 1 \in Nat /\ m - 1 < m /\ (m - 1) + 1 = m
  <2>1. m \in Nat /\ m # 0
    OBVIOUS
  <2> QED
    BY <2>1
<1>3. m - 1 \in S
  BY <1>1, <1>2 DEF OpToRel
<1> QED
  BY <1>1, <1>2, <1>3

\* The bytes of a command, one after the other: that there is the function
\* that Out defines, and what its values are, by induction.
LEMMA OutKeeps ==
  ASSUME NEW start, NEW o \in Orderly(start), NEW a, NEW n \in Nat
  PROVE  Out(o, a, n) \subseteq Orderly(start)
<1> DEFINE Next1(Q) == UNION {outbyte(p, a) : p \in Q}
           After(f, m) == f = [k \in 0..m |-> IF k = 0 THEN {o} ELSE Next1(f[k-1])]
           S == {m \in Nat : \E f : After(f, m)}
           after == CHOOSE f : After(f, n)
           T == {k \in Nat : k <= n => after[k] \subseteq Orderly(start)}
<1> HIDE DEF Next1
<1>1. 0 \in S
  <2> DEFINE f == [k \in 0..0 |-> {o}]
  <2>1. After(f, 0)
    OBVIOUS
  <2> QED
    BY <2>1
<1>2. \A m \in Nat : m \in S => m + 1 \in S
  <2> SUFFICES ASSUME NEW m \in Nat, NEW f, After(f, m)
               PROVE  m + 1 \in S
    OBVIOUS
  <2> DEFINE g == [k \in 0..m + 1 |-> IF k = m + 1 THEN Next1(f[m]) ELSE f[k]]
             h == [k \in 0..m + 1 |-> IF k = 0 THEN {o} ELSE Next1(g[k-1])]
  <2>1. ASSUME NEW k \in 0..m + 1
        PROVE  g[k] = h[k]
    <3>1. CASE k = 0
      <4>1. 0 \in 0..m /\ 0 # m + 1
        OBVIOUS
      <4> QED
        BY <3>1, <4>1
    <3>2. CASE k = m + 1
      <4>1. k # 0 /\ k - 1 = m /\ m \in 0..m + 1 /\ m # m + 1
        BY <3>2
      <4>2. g[m] = f[m]
        BY <4>1
      <4> QED
        BY <3>2, <4>1, <4>2
    <3>3. CASE k # 0 /\ k # m + 1
      <4>1. k \in 0..m /\ k - 1 \in 0..m + 1 /\ k - 1 # m + 1
        BY <3>3
      <4>2. f[k] = Next1(f[k-1])
        BY <3>3, <4>1
      <4>3. g[k-1] = f[k-1]
        BY <4>1
      <4> QED
        BY <3>3, <4>1, <4>2, <4>3
    <3> QED
      BY <3>1, <3>2, <3>3
  <2>2. g = h
    BY <2>1
  <2>3. After(g, m + 1)
    BY <2>2
  <2> HIDE DEF After, g
  <2> QED
    BY <2>3
<1>3. After(after, n)
  <2> HIDE DEF S, After
  <2>1. n \in S
    BY <1>1, <1>2, SetInduction
  <2>2. \E f : After(f, n)
    BY <2>1 DEF S
  <2> QED
    BY <2>2
<1>4. Out(o, a, n) = after[n]
  BY DEF Out, Next1
<1> HIDE DEF after
<1>5. 0 \in T
  BY <1>3
<1>6. \A k \in Nat : k \in T => k + 1 \in T
  <2> SUFFICES ASSUME NEW k \in Nat, k \in T, k + 1 <= n
               PROVE  after[k + 1] \subseteq Orderly(start)
    OBVIOUS
  <2>1. k + 1 \in 0..n /\ k + 1 # 0 /\ (k + 1) - 1 = k
    OBVIOUS
  <2>2. after[k + 1] = Next1(after[k])
    BY <1>3, <2>1
  <2>3. after[k] \subseteq Orderly(start)
    OBVIOUS
  <2>4. ASSUME NEW r \in Next1(after[k])
        PROVE  r \in Orderly(start)
    <3>1. PICK p \in after[k] : r \in outbyte(p, a)
      BY DEF Next1
    <3> QED
      BY <2>3, <3>1, OutbyteKeeps
  <2> QED
    BY <2>2, <2>4
<1>7. n \in T
  <2> HIDE DEF T
  <2> QED
    BY <1>5, <1>6, SetInduction
<1> QED
  BY <1>4, <1>7

-----------------------------------------------------------------------------
(***************************************************************************)
(* A turn of the console: whatever line is read, the scan and the output   *)
(* go from a state of theirs to another.                                   *)
(***************************************************************************)
Typed == Keys \cup STRING \cup {NONE}
Flags == SUBSET UNION {FlagsOf[v] : v \in DOMAIN FlagsOf}

OutputInv ==
  /\ txBuf = Numbers(unsent) /\ unsent \in 0..UDP_TX_BUFSIZE - 1
  /\ startupLogIndex \in 0..STARTUP_LOG_SIZE /\ startupActive \in BOOLEAN
  /\ startupActive => startupLogIndex < STARTUP_LOG_SIZE
  /\ jumbled \in BOOLEAN /\ overrun \in BOOLEAN /\ (jumbled => overrun)

ConsoleInv ==
  /\ EyeInv(eye) /\ eye.prints = 0 /\ OutputInv
  /\ isActive \in BOOLEAN /\ from \in Clients \cup {NONE}
  /\ line \in Seq(Typed) /\ Len(line) < LINE_CAPACITY
  /\ alternate \in BOOLEAN /\ debugFlags \in Flags

\* The scan and the output after a step, and the two settings of commands.
Carried(start) ==
  /\ rxBuf' \in Seq(Chars) /\ Len(rxBuf') = Len(start.rx)
  /\ ~overrun' => rxBuf' = start.rx /\ ~start.overrun
Kept(start) == EyeInv(eye') /\ eye'.prints = 0 /\ OutputInv' /\ Carried(start)
Set == alternate' \in BOOLEAN /\ debugFlags' \in Flags

LEMMA OutputIsOrderly ==
  ASSUME OutputInv, rxBuf \in Seq(Chars)
  PROVE  Output \in Orderly(Output)
<1>1. unsent \in Nat /\ unsent < UDP_TX_BUFSIZE /\ txBuf = Numbers(unsent)
  BY SizeAssumption DEF OutputInv
<1>2. txBuf \in Seq(Nat)
  BY <1>1, NumbersAre
<1>3. startupLogIndex \in 0..STARTUP_LOG_SIZE /\ startupActive \in BOOLEAN
      /\ (startupActive => startupLogIndex < STARTUP_LOG_SIZE)
  BY DEF OutputInv
<1>4. /\ Output \in Outputs /\ Output.tx = txBuf /\ Output.n = unsent
      /\ Output.logging = startupActive /\ Output.log = startupLogIndex
      /\ Output.jumbled = FALSE /\ Output.overrun = FALSE
  BY <1>1, <1>2, <1>3 DEF Output, Outputs
<1> QED
  BY <1>1, <1>3, <1>4 DEF Orderly, Loose

LEMMA EmitKeeps ==
  ASSUME NEW start, NEW o \in Orderly(start), Emit(o)
  PROVE  OutputInv' /\ Carried(start)
<1>1. /\ txBuf' = o.tx /\ unsent' = o.n /\ rxBuf' = o.rx
      /\ startupLogIndex' = o.log /\ startupActive' = o.logging
      /\ jumbled' = o.jumbled /\ overrun' = o.overrun
  BY DEF Emit
<1>2. /\ o.tx = Numbers(o.n) /\ o.n \in 0..UDP_TX_BUFSIZE - 1 /\ o.rx \in Seq(Chars)
      /\ o.log \in 0..STARTUP_LOG_SIZE /\ o.logging \in BOOLEAN
      /\ (o.logging => o.log < STARTUP_LOG_SIZE)
      /\ o.jumbled \in BOOLEAN /\ o.overrun \in BOOLEAN
  BY SizeAssumption DEF Orderly, Loose, Outputs
<1>3. /\ Len(o.rx) = Len(start.rx) /\ (start.overrun => o.overrun)
      /\ (~o.overrun => o.rx = start.rx /\ ~o.jumbled)
  BY DEF Orderly, Loose
<1>4. OutputInv'
  BY <1>1, <1>2, <1>3 DEF OutputInv, Numbers
<1>5. Carried(start)
  BY <1>1, <1>2, <1>3 DEF Carried
<1> QED
  BY <1>4, <1>5

LEMMA EndsKeep ==
  ASSUME NEW start, NEW s, EyeInv(s), NEW o \in Orderly(start), NEW a,
         NEW n \in Nat, NEW d, Ends(s, o, a, n, d)
  PROVE  Kept(start)
<1>1. PICK p \in Out(o, a, n) : Emit(p)
  BY DEF Ends
<1>2. p \in Orderly(start)
  BY OutKeeps
<1>3. OutputInv' /\ Carried(start)
  BY <1>1, <1>2, EmitKeeps
<1>4. eye' = [s EXCEPT !.prints = 0]
  BY DEF Ends
<1>5. EyeInv(eye')
  BY <1>4, PrintsKeep
<1>6. eye'.prints = 0
  BY <1>4 DEF EyeInv, Eyes
<1> QED
  BY <1>3, <1>5, <1>6 DEF Kept

LEMMA LineKeeps ==
  ASSUME NEW start, NEW argv, NEW s, EyeInv(s), NEW o \in Orderly(start), NEW a,
         processLine(argv, s, o, a)
  PROVE  Kept(start)
<1>1. ASSUME NEW n \in Nat, NEW d, Ends(s, o, a, n, d)
      PROVE  Kept(start)
  BY <1>1, EndsKeep
<1>2. ASSUME NEW n \in Nat, Shows(s, o, a, n)
      PROVE  Kept(start)
  BY <1>1, <1>2 DEF Shows
<1>3. ASSUME NEW n \in Nat, NEW d, Answered(s, o, a, n, d)
      PROVE  Kept(start)
  BY <1>1, <1>3 DEF Answered
<1>4. ASSUME NEW handler, NEW question, Asks(s, o, a, handler, question)
      PROVE  Kept(start)
  BY <1>1, <1>4 DEF Asks
<1>5. CASE Modal(argv, s, o, a)
  BY <1>2, <1>3, <1>5 DEF Modal, Reboot, BulkErase, StoreNetwork
<1>6. CASE findCommand(argv, s, o, a)
  <2>1. CASE cmdBOOT(argv, s, o, a)
    BY <1>1, <1>4, <2>1 DEF cmdBOOT
  <2>2. CASE cmdDEBUG(argv, s, o, a)
    BY <1>1, <1>2, <1>4, <2>2 DEF cmdDEBUG
  <2>3. CASE cmdGW(argv, s, o, a)
    BY <1>1, <1>2, <1>4, <2>3 DEF cmdGW
  <2>4. CASE cmdLOG(s, o, a)
    <3>1. o.log + 1 \in Nat
      BY DEF Orderly, Loose, Outputs
    <3> QED
      BY <1>2, <2>4, <3>1 DEF cmdLOG
  <2>5. CASE Eye(argv, s, o, a)
    <3> DEFINE t == eyescanCommand(s, Tail(argv), ChannelOf)
    <3>1. EyeInv(t)
      BY EyeCommandKeeps
    <3>2. t.prints \in Nat
      BY <3>1, EyeFields DEF EyeInv
    <3>3. Shows(t, o, a, t.prints)
      BY <2>5 DEF Eye
    <3> HIDE DEF t
    <3> QED
      BY <3>1, <3>2, <3>3, EndsKeep DEF Shows
  <2>6. CASE \E n \in Nat : Shows(s, o, a, n)
    BY <1>2, <2>6
  <2> QED
    BY <1>6, <2>1, <2>2, <2>3, <2>4, <2>5, <2>6 DEF findCommand
<1> QED
  BY <1>2, <1>5, <1>6 DEF processLine

LEMMA LineSets ==
  ASSUME alternate \in BOOLEAN, debugFlags \in Flags,
         NEW argv \in Seq(Typed), NEW s, NEW o, NEW a, processLine(argv, s, o, a)
  PROVE  Set
<1>1. ASSUME UNCHANGED <<alternate, debugFlags>>
      PROVE  Set
  BY <1>1 DEF Set
<1>2. ASSUME NEW t, NEW n, Shows(t, o, a, n)
      PROVE  Set
  BY <1>1, <1>2 DEF Shows, dialog, settings
<1>3. ASSUME NEW n, NEW d, Answered(s, o, a, n, d)
      PROVE  Set
  BY <1>1, <1>3 DEF Answered
<1>4. CASE Modal(argv, s, o, a)
  BY <1>2, <1>3, <1>4 DEF Modal, Reboot, BulkErase, StoreNetwork
<1>5. CASE cmdBOOT(argv, s, o, a)
  BY <1>5 DEF cmdBOOT, Asks, Ends, settings, Set
<1>6. CASE cmdDEBUG(argv, s, o, a) /\ argv # <<>>
  <2> DEFINE startup == Len(argv) >= 2 /\ argv[2] = "-s"
             args == IF startup THEN Tail(Tail(argv)) ELSE Tail(argv)
             bad == Len(args) = 1 /\ args[1] \notin DOMAIN FlagsOf
             set == IF args = <<>> THEN debugFlags ELSE FlagsOf[args[1]]
  <2>1. CASE Shows(s, o, a, 1)
    BY <1>2, <2>1
  <2>2. CASE /\ \E q : Asks(s, o, a, "debug", q)
             /\ UNCHANGED alternate
    BY <1>1, <2>2 DEF Asks, settings
  <2>3. CASE /\ Len(args) <= 1 /\ ~bad /\ SetsFlags(args, startup)
             /\ UNCHANGED dialog
    <3>1. args \in Seq(Typed)
      <4>1. Tail(argv) \in Seq(Typed) /\ Len(Tail(argv)) = Len(argv) - 1
        BY <1>6
      <4>2. startup => Tail(argv) # <<>>
        <5>1. Len(<<>>) = 0 /\ Len(argv) \in Nat
          BY EmptySeq, LenProperties
        <5>2. startup => Len(Tail(argv)) # 0
          BY <4>1, <5>1
        <5> QED
          BY <5>1, <5>2
      <4>3. startup => Tail(Tail(argv)) \in Seq(Typed)
        BY <4>1, <4>2
      <4> QED
        BY <4>1, <4>3
    <3>2. args = <<>> \/ args[1] \in DOMAIN FlagsOf
      <4> HIDE DEF args
      <4>1. args # <<>> => Len(args) = 1
        <5> SUFFICES ASSUME args # <<>> PROVE Len(args) = 1
          OBVIOUS
        <5> DEFINE n == Len(args)
        <5>1. n \in Nat /\ n # 0
          BY <3>1, EmptySeq
        <5>2. n <= 1
          BY <2>3
        <5> HIDE DEF n
        <5>3. n = 1
          BY <5>1, <5>2
        <5> QED
          BY <5>3 DEF n
      <4> QED
        BY <2>3, <4>1
    <3> HIDE DEF args
    <3>3. set \in Flags
      BY <3>2 DEF Flags
    <3>4. debugFlags' = (IF startup THEN debugFlags ELSE set) \ SingleShot
      BY <2>3 DEF SetsFlags
    <3> HIDE DEF set, startup
    <3> QED
      BY <2>3, <3>3, <3>4 DEF Set, dialog, Flags
  <2> QED
    BY <1>6, <2>1, <2>2, <2>3 DEF cmdDEBUG
<1>7. CASE cmdGW(argv, s, o, a)
  <2>1. CASE Shows(s, o, a, 1)
    BY <1>2, <2>1
  <2>2. CASE UNCHANGED alternate /\ \E q : Asks(s, o, a, "gw", q)
    BY <1>1, <2>2 DEF Asks, settings
  <2>3. CASE UNCHANGED <<alternate, settings>>
    BY <1>1, <2>3 DEF settings
  <2> QED
    BY <1>7, <2>1, <2>2, <2>3 DEF cmdGW
<1>8. CASE cmdLOG(s, o, a) \/ Eye(argv, s, o, a)
  BY <1>2, <1>8 DEF cmdLOG, Eye
<1>9. CASE findCommand(argv, s, o, a)
  BY <1>2, <1>5, <1>6, <1>7, <1>8, <1>9 DEF findCommand
<1> QED
  BY <1>2, <1>4, <1>9 DEF processLine

LEMMA TypesKeep ==
  ASSUME ConsoleInv, NEW start, NEW c \in Typed, NEW t, EyeInv(t),
         NEW o \in Orderly(start), NEW a, Types(c, t, o, a)
  PROVE  /\ Kept(start) /\ Set
         /\ line' \in Seq(Typed) /\ Len(line') < LINE_CAPACITY
<1> DEFINE s == eyescanCrank([t EXCEPT !.prints = 0], TRUE, "busy")
<1>1. EyeInv(s)
  BY PrintsKeep, CrankKeeps DEF Statuses
<1>2. s.prints \in Nat
  BY <1>1, EyeFields DEF EyeInv
<1>3. PICK q \in Out(o, a, s.prints) : Edits(c, s, [q EXCEPT !.logging = FALSE], a)
  BY DEF Types
<1> DEFINE p == [q EXCEPT !.logging = FALSE]
<1> HIDE DEF s
<1>4. p \in Orderly(start)
  <2>1. q \in Orderly(start)
    BY <1>2, OutKeeps
  <2>2. q \in Outputs
    BY <2>1 DEF Orderly, Loose
  <2>3. /\ p \in Outputs /\ p.logging = FALSE /\ p.tx = q.tx /\ p.n = q.n
        /\ p.rx = q.rx /\ p.jumbled = q.jumbled /\ p.overrun = q.overrun
    BY <2>2 DEF Outputs
  <2> HIDE DEF p
  <2> QED
    BY <2>1, <2>3 DEF Orderly, Loose
<1>5. Edits(c, s, p, a)
  BY <1>3
<1> HIDE DEF p
<1>6. /\ alternate \in BOOLEAN /\ debugFlags \in Flags
      /\ line \in Seq(Typed) /\ Len(line) < LINE_CAPACITY /\ LINE_CAPACITY \in Nat \ {0}
      /\ Len(line) \in Nat
  BY SizeAssumption, LenProperties DEF ConsoleInv
<1>7. ASSUME NEW n \in Nat, Shows(s, p, a, n)
      PROVE  Kept(start) /\ Set
  <2>1. Kept(start)
    BY <1>1, <1>4, <1>7, EndsKeep DEF Shows
  <2>2. Set
    BY <1>6, <1>7 DEF Shows, dialog, settings, Set
  <2> QED
    BY <2>1, <2>2
<1>8. CASE /\ \E r \in Out(p, a, 1) : processLine(line, s, r, a)
           /\ line' = <<>>
  <2>1. PICK r \in Out(p, a, 1) : processLine(line, s, r, a)
    BY <1>8
  <2>2. r \in Orderly(start)
    BY <1>4, OutKeeps
  <2>3. Kept(start)
    BY <1>1, <2>1, <2>2, LineKeeps
  <2>4. Set
    BY <1>6, <2>1, LineSets
  <2> QED
    BY <1>6, <1>8, <2>3, <2>4
<1>9. CASE /\ line' = IF line = <<>> THEN line ELSE SubSeq(line, 1, Len(line) - 1)
           /\ Shows(s, p, a, IF line = <<>> THEN 0 ELSE 3)
  <2>1. Kept(start) /\ Set
    BY <1>7, <1>9
  <2>2. line # <<>> => /\ SubSeq(line, 1, Len(line) - 1) \in Seq(Typed)
                       /\ Len(SubSeq(line, 1, Len(line) - 1)) = Len(line) - 1
    <3> SUFFICES ASSUME line # <<>>
                 PROVE  /\ SubSeq(line, 1, Len(line) - 1) \in Seq(Typed)
                        /\ Len(SubSeq(line, 1, Len(line) - 1)) = Len(line) - 1
      OBVIOUS
    <3>1. Len(line) \in Nat \ {0}
      BY <1>6, EmptySeq
    <3>2. Len(line) - 1 \in 0..Len(line)
      BY <3>1
    <3> QED
      BY <1>6, <3>2, FrontOf
  <2>3. line' \in Seq(Typed) /\ Len(line') < LINE_CAPACITY
    BY <1>6, <1>9, <2>2
  <2> QED
    BY <2>1, <2>3
<1>10. CASE /\ line' = IF Len(line) < LINE_CAPACITY - 1 THEN Append(line, c) ELSE line
           /\ Shows(s, p, a, 1)
  <2>1. Kept(start) /\ Set
    BY <1>7, <1>10
  <2>2. line' \in Seq(Typed) /\ Len(line') < LINE_CAPACITY
    BY <1>6, <1>10, AppendProperties
  <2> QED
    BY <2>1, <2>2
<1> QED
  BY <1>5, <1>8, <1>9, <1>10 DEF Edits

\* The scan's own turn and the output that waited.
LEMMA DrainedKeeps ==
  ASSUME ConsoleInv, BufferInv, NEW t, EyeInv(t), NEW late, NEW r \in Drained(t, late)
  PROVE  r \in Orderly(Output)
<1>1. t.prints \in Nat /\ Output \in Orderly(Output)
  BY OutputIsOrderly, EyeFields DEF EyeInv, ConsoleInv, BufferInv
<1>2. PICK o \in Out(Output, isActive, t.prints) :
        r \in {o} \/ r \in drainUDP(o)
  BY DEF Drained
<1>3. o \in Orderly(Output)
  BY <1>1, OutKeeps
<1>4. o \in Loose(Output) /\ o.n <= UDP_TX_BUFSIZE /\ o.tx = Numbers(o.n)
  BY <1>3, SizeAssumption DEF Orderly, Loose, Outputs
<1> QED
  BY <1>2, <1>3, <1>4, DrainKeeps

-----------------------------------------------------------------------------
(***************************************************************************)
(* Steps of the console, and of the queue that its input buffer is.        *)
(***************************************************************************)
\* A character is read, and nothing falls on the buffer.
Reads ==
  /\ rxIndex' = rxIndex + 1 /\ got' = rxBuf[rxIndex + 1]
  /\ rxBuf' = [rxBuf EXCEPT ![rxIndex + 1] = NONE]
  /\ rxIndex < Len(rxBuf) /\ isActive /\ isActive' = isActive

LEMMA ReadTakes ==
  ASSUME BufferInv, Reads
  PROVE  Input!Take
<1> DEFINE n == Len(rxBuf)
<1>1. /\ rxIndex' = rxIndex + 1 /\ got' = rxBuf[rxIndex + 1]
      /\ rxBuf' = [rxBuf EXCEPT ![rxIndex + 1] = NONE]
      /\ rxIndex < n /\ isActive /\ isActive' = isActive
  BY DEF Reads
<1>2. /\ rxBuf \in Seq(Chars) /\ n \in Nat /\ rxIndex \in Nat
      /\ rxIndex + 1 \in 1..n /\ n <= LINE_CAPACITY /\ NONE \in Chars
  <2>1. rxBuf \in Seq(Chars) /\ n <= LINE_CAPACITY /\ rxIndex \in 0..n
    BY DEF BufferInv
  <2>2. n \in Nat
    BY <2>1, LenProperties
  <2>3. NONE \in Chars
    BY DEF Chars
  <2> HIDE DEF n
  <2> QED
    BY <1>1, <2>1, <2>2, <2>3
<1>3. /\ rxBuf' \in Seq(Chars) /\ Len(rxBuf') = n
      /\ \A k \in 1..n : k # rxIndex + 1 => rxBuf'[k] = rxBuf[k]
  <2> DEFINE j == rxIndex + 1
  <2>1. rxBuf' = [rxBuf EXCEPT ![j] = NONE] /\ j \in 1..n
    BY <1>1, <1>2
  <2> HIDE DEF j
  <2>2. rxBuf \in Seq(Chars) /\ j \in 1..Len(rxBuf) /\ NONE \in Chars
    BY <1>2, <2>1
  <2>3. /\ rxBuf' \in Seq(Chars) /\ Len(rxBuf') = Len(rxBuf)
        /\ \A k \in 1..Len(rxBuf) : k # j => rxBuf'[k] = rxBuf[k]
    BY <2>1, <2>2, Replaced
  <2> QED
    BY <2>3 DEF j
<1>5. Queue = SubSeq(rxBuf, rxIndex + 1, n)
  BY <1>1 DEF Queue
<1>6. Queue' = SubSeq(rxBuf', rxIndex + 2, n)
  <2>1. Queue' = SubSeq(rxBuf', rxIndex' + 1, Len(rxBuf'))
    BY <1>1 DEF Queue
  <2>2. rxIndex' + 1 = rxIndex + 2
    BY <1>1, <1>2
  <2> QED
    BY <1>3, <2>1, <2>2
<1> HIDE DEF n
<1>7. /\ n \in rxIndex + 1 .. n /\ Head(Queue) = rxBuf[rxIndex + 1]
      /\ Tail(Queue) = SubSeq(rxBuf, rxIndex + 2, n)
  <2>1. n \in rxIndex + 1 .. n /\ (rxIndex + 1) + 1 = rxIndex + 2
    BY <1>2
  <2> QED
    BY <1>2, <1>5, <2>1, HeadTailOfSubSeq DEF n
<1>8. Queue # <<>>
  <2>1. Len(Queue) = n - rxIndex
    BY <1>2, <1>5, RestOf DEF n
  <2> QED
    BY <1>2, <2>1
<1>9. SubSeq(rxBuf', rxIndex + 2, n) = SubSeq(rxBuf, rxIndex + 2, n)
  <2> DEFINE old == SubSeq(rxBuf, rxIndex + 2, n)
             new == SubSeq(rxBuf', rxIndex + 2, n)
  <2>1. rxIndex + 2 = (rxIndex + 1) + 1 /\ rxIndex + 1 \in 0..n
    BY <1>2
  <2>2. /\ old \in Seq(Chars) /\ Len(old) = n - (rxIndex + 1)
        /\ \A k \in 1..n - (rxIndex + 1) : old[k] = rxBuf[rxIndex + 1 + k]
    BY <1>2, <2>1, RestOf DEF n
  <2>3. /\ new \in Seq(Chars) /\ Len(new) = n - (rxIndex + 1)
        /\ \A k \in 1..n - (rxIndex + 1) : new[k] = rxBuf'[rxIndex + 1 + k]
    BY <1>3, <2>1, RestOf
  <2>4. ASSUME NEW k \in 1..n - (rxIndex + 1)
        PROVE  rxBuf'[rxIndex + 1 + k] = rxBuf[rxIndex + 1 + k]
    BY <1>2, <1>3
  <2> HIDE DEF old, new
  <2>5. \A k \in 1..Len(old) : old[k] = new[k]
    BY <2>2, <2>3, <2>4
  <2>6. old = new
    BY <2>2, <2>3, <2>5, SeqEqual
  <2> QED
    BY <2>6 DEF old, new
<1> QED
  BY <1>1, <1>6, <1>7, <1>8, <1>9 DEF Input!Take, Queue

QueueIsRest == Len(Queue) = IF isActive THEN Len(rxBuf) - rxIndex ELSE 0

LEMMA QueueLength == BufferInv => QueueIsRest
<1> SUFFICES ASSUME BufferInv PROVE QueueIsRest
  OBVIOUS
<1>1. /\ rxBuf \in Seq(Chars) /\ rxIndex \in 0..Len(rxBuf) /\ Len(rxBuf) \in Nat
  BY LenProperties DEF BufferInv
<1>2. isActive => Len(SubSeq(rxBuf, rxIndex + 1, Len(rxBuf))) = Len(rxBuf) - rxIndex
  BY <1>1, RestOf
<1> QED
  BY <1>1, <1>2 DEF QueueIsRest, Queue

\* A step of the queue, or characters that an alarm has overwritten.
InputMoves == Input!Next \/ (overrun' /\ Input!Smudge)

LEMMA UdpCrankKeeps ==
  ASSUME ConsoleInv, BufferInv, NEW t, EyeInv(t), NEW o \in Orderly(Output),
         UdpCrank(t, o)
  PROVE  ConsoleInv' /\ BufferInv' /\ InputMoves
<1> DEFINE n == Len(rxBuf)
           k == rxIndex + 1
           rx == [o.rx EXCEPT ![k] = NONE]
           p == [o EXCEPT !.rx = rx]
           c == o.rx[k]
<1>1. /\ rxIndex' = rxIndex + 1 /\ got' = c /\ Types(c, t, p, TRUE)
      /\ rxIndex < n /\ isActive /\ isActive' = isActive /\ UNCHANGED from
  BY DEF UdpCrank
<1>2. /\ rxBuf \in Seq(Chars) /\ n \in Nat /\ rxIndex \in Nat
      /\ k \in 1..n /\ n <= LINE_CAPACITY /\ NONE \in Chars
  <2>1. rxBuf \in Seq(Chars) /\ n <= LINE_CAPACITY /\ rxIndex \in 0..n
    BY DEF BufferInv
  <2>2. n \in Nat
    BY <2>1, LenProperties
  <2>3. NONE \in Chars
    BY DEF Chars
  <2> HIDE DEF n
  <2> QED
    BY <1>1, <2>1, <2>2, <2>3
<1>3. /\ o \in Outputs /\ o.rx \in Seq(Chars) /\ Len(o.rx) = n
      /\ ~o.overrun => o.rx = rxBuf
  <2>1. Output.rx = rxBuf
    BY DEF Output
  <2> QED
    BY <2>1 DEF Orderly, Loose, Outputs
<1> HIDE DEF n, k
<1>4. c \in Chars
  BY <1>2, <1>3, ElementOfSeq
<1>5. rx \in Seq(Chars) /\ Len(rx) = n
  <2>1. k \in 1..Len(o.rx)
    BY <1>2, <1>3
  <2> QED
    BY <1>2, <1>3, <2>1, Replaced
<1> HIDE DEF rx, c
<1>6. p \in Orderly(p) /\ p.rx = rx /\ p.overrun = o.overrun
  <2>1. /\ p \in Outputs /\ p.rx = rx /\ p.overrun = o.overrun /\ p.tx = o.tx
        /\ p.n = o.n /\ p.log = o.log /\ p.logging = o.logging
        /\ p.jumbled = o.jumbled
    BY <1>3, <1>5 DEF Outputs
  <2> HIDE DEF p
  <2> QED
    BY <2>1 DEF Orderly, Loose
<1> HIDE DEF p
<1>7. c \in Typed
  BY <1>4 DEF Typed, Chars
<1>8. /\ Kept(p) /\ Set
      /\ line' \in Seq(Typed) /\ Len(line') < LINE_CAPACITY
  BY <1>1, <1>6, <1>7, TypesKeep
<1>9. ConsoleInv'
  BY <1>1, <1>8 DEF ConsoleInv, Kept, Set
<1>10. /\ rxBuf' \in Seq(Chars) /\ Len(rxBuf') = n
       /\ ~overrun' => rxBuf' = rx /\ ~o.overrun
  BY <1>5, <1>6, <1>8 DEF Kept, Carried
<1>11. rxIndex' \in 0..n /\ rxIndex' = rxIndex + 1
  BY <1>1, <1>2 DEF k
<1>12. BufferInv'
  BY <1>2, <1>10, <1>11 DEF BufferInv
<1>13. CASE overrun'
  <2>1. Len(Queue) = n - rxIndex
    BY <1>1, QueueLength DEF QueueIsRest, n
  <2>2. Len(Queue)' = n - (rxIndex + 1)
    <3>1. QueueIsRest'
      BY <1>12, QueueLength, PTL
    <3> QED
      BY <1>1, <1>10, <3>1 DEF QueueIsRest
  <2>3. Len(Queue') = Len(Queue) - 1
    BY <1>2, <2>1, <2>2
  <2> QED
    BY <1>9, <1>12, <1>13, <2>3 DEF InputMoves, Input!Smudge, Queue
<1>14. CASE ~overrun'
  <2>1. rxBuf' = [rxBuf EXCEPT ![rxIndex + 1] = NONE] /\ got' = rxBuf[rxIndex + 1]
    BY <1>1, <1>3, <1>10, <1>14 DEF rx, c, k
  <2>2. Input!Take
    BY <1>1, <2>1, ReadTakes DEF Reads, n
  <2> QED
    BY <1>9, <1>12, <2>2 DEF InputMoves, Input!Next
<1> QED
  BY <1>13, <1>14

\* Output alone: a byte of another part of the program, or of the scan.
LEMMA WriteKeeps ==
  ASSUME BufferInv, Carried(Output), UNCHANGED <<isActive, rxIndex>>, got' = NONE
  PROVE  BufferInv' /\ InputMoves
<1>1. /\ rxBuf' \in Seq(Chars) /\ Len(rxBuf') = Len(rxBuf)
      /\ ~overrun' => rxBuf' = rxBuf
  BY DEF Carried, Output
<1>2. BufferInv'
  BY <1>1 DEF BufferInv
<1>3. CASE overrun'
  <2>1. Len(Queue) = IF isActive THEN Len(rxBuf) - rxIndex ELSE 0
    BY QueueLength DEF QueueIsRest
  <2>2. QueueIsRest'
    BY <1>2, QueueLength, PTL
  <2>3. Len(Queue') = Len(Queue)
    BY <1>1, <2>1, <2>2 DEF QueueIsRest
  <2> QED
    BY <1>2, <1>3, <2>3 DEF InputMoves, Input!Smudge, Queue
<1>4. CASE ~overrun'
  <2>1. Queue' = Queue
    BY <1>1, <1>4 DEF Queue
  <2> QED
    BY <1>2, <2>1 DEF InputMoves, Input!Next, Input!Rest, Queue
<1> QED
  BY <1>3, <1>4

LEMMA ConsoleStep ==
  ASSUME ConsoleInv, BufferInv, [Next]_vars
  PROVE  ConsoleInv' /\ BufferInv' /\ (InputMoves \/ UNCHANGED <<Queue, got>>)
<1>0. /\ EyeInv(eye) /\ eye.prints = 0 /\ OutputInv
      /\ isActive \in BOOLEAN /\ from \in Clients \cup {NONE}
      /\ line \in Seq(Typed) /\ Len(line) < LINE_CAPACITY
      /\ alternate \in BOOLEAN /\ debugFlags \in Flags
  BY DEF ConsoleInv
<1>1. ASSUME NEW status \in Statuses, NEW late, consoleCrank(status, late)
      PROVE  ConsoleInv' /\ BufferInv' /\ InputMoves
  <2> DEFINE t == eyescanCrank(eye, FALSE, status)
  <2>1. EyeInv(t)
    BY <1>0, CrankKeeps
  <2>2. PICK o \in Drained(t, late) :
          \/ \E c \in Keys : UartCrank(c, t, o)
          \/ UdpCrank(t, o)
          \/ IdleCrank(t, o)
    BY <1>1 DEF consoleCrank
  <2> HIDE DEF t
  <2>3. o \in Orderly(Output)
    BY <2>1, <2>2, DrainedKeeps
  <2>4. ASSUME NEW c \in Keys, UartCrank(c, t, o)
        PROVE  ConsoleInv' /\ BufferInv' /\ InputMoves
    <3>1. /\ isActive' = FALSE /\ got' = NONE /\ Types(c, t, o, FALSE)
          /\ UNCHANGED <<rxIndex, from>>
      BY <2>4 DEF UartCrank
    <3>2. /\ Kept(Output) /\ Set
          /\ line' \in Seq(Typed) /\ Len(line') < LINE_CAPACITY
      <4>1. c \in Typed
        BY DEF Typed
      <4> QED
        BY <2>1, <2>3, <3>1, <4>1, TypesKeep
    <3>3. ConsoleInv'
      BY <1>0, <3>1, <3>2 DEF ConsoleInv, Kept, Set
    <3>4. BufferInv'
      BY <3>1, <3>2 DEF BufferInv, Kept, Carried, Output
    <3>5. Queue' = <<>>
      BY <3>1 DEF Queue
    <3> QED
      BY <3>1, <3>3, <3>4, <3>5 DEF InputMoves, Input!Next, Input!GiveUp, Queue
  <2>5. CASE UdpCrank(t, o)
    BY <2>1, <2>3, <2>5, UdpCrankKeeps
  <2>6. CASE IdleCrank(t, o)
    <3>1. /\ Emit(o) /\ eye' = [t EXCEPT !.prints = 0] /\ got' = NONE
          /\ UNCHANGED <<isActive, rxIndex, from, line, alternate, debugFlags>>
      BY <2>6 DEF IdleCrank, dialog, settings
    <3>2. EyeInv(eye')
      BY <2>1, <3>1, PrintsKeep
    <3>3. eye'.prints = 0
      BY <2>1, <3>1 DEF EyeInv, Eyes
    <3>4. OutputInv' /\ Carried(Output)
      BY <2>3, <3>1, EmitKeeps
    <3>5. ConsoleInv'
      BY <1>0, <3>1, <3>2, <3>3, <3>4 DEF ConsoleInv
    <3> QED
      BY <3>1, <3>4, <3>5, WriteKeeps
  <2> QED
    BY <2>2, <2>4, <2>5, <2>6
<1>2. ASSUME NEW c \in Clients, NEW p \in Packets, consoleCallback(c, p)
      PROVE  ConsoleInv' /\ BufferInv' /\ InputMoves
  <2>1. BufferInv' /\ Input!Arrive
    BY <1>2, CallbackArrives
  <2>2. /\ isActive' = TRUE /\ from' = c /\ jumbled' = FALSE /\ overrun' = FALSE
        /\ UNCHANGED <<eye, line, alternate, debugFlags, startupLogIndex, startupActive>>
    BY <1>2 DEF consoleCallback, dialog, settings
  <2>3. OutputInv'
    <3>1. \/ UNCHANGED <<txBuf, unsent>>
          \/ txBuf' = <<>> /\ unsent' = 0
      BY <1>2 DEF consoleCallback
    <3>2. Numbers(0) = <<>> /\ 0 \in 0..UDP_TX_BUFSIZE - 1
      BY SizeAssumption DEF Numbers
    <3>3. txBuf' = Numbers(unsent') /\ unsent' \in 0..UDP_TX_BUFSIZE - 1
      BY <1>0, <3>1, <3>2 DEF OutputInv, Numbers
    <3> QED
      BY <1>0, <2>2, <3>3 DEF OutputInv, Numbers
  <2>4. ConsoleInv'
    BY <1>0, <2>2, <2>3 DEF ConsoleInv
  <2> QED
    BY <2>1, <2>4 DEF InputMoves, Input!Next
<1>3. CASE Message
  <2>1. PICK o \in Out(Output, isActive, 1) : Emit(o)
    BY <1>3 DEF Message
  <2>2. o \in Orderly(Output)
    <3>1. Output \in Orderly(Output)
      BY <1>0, OutputIsOrderly DEF BufferInv
    <3> QED
      BY <3>1, OutKeeps
  <2>3. OutputInv' /\ Carried(Output)
    BY <2>1, <2>2, EmitKeeps
  <2>4. /\ UNCHANGED <<eye, isActive, rxIndex, from, line, alternate, debugFlags>>
        /\ got' = NONE
    BY <1>3 DEF Message, dialog, settings
  <2>5. ConsoleInv'
    BY <1>0, <2>3, <2>4 DEF ConsoleInv
  <2> QED
    BY <2>3, <2>4, <2>5, WriteKeeps
<1>4. CASE UNCHANGED vars
  <2>1. UNCHANGED <<eye, txBuf, unsent, startupLogIndex, startupActive, jumbled, overrun,
                    isActive, rxBuf, rxIndex, from, line, alternate, debugFlags, got>>
    BY <1>4 DEF vars, dialog, settings
  <2>2. OutputInv'
    BY <1>0, <2>1 DEF OutputInv, Numbers
  <2> QED
    BY <1>0, <2>1, <2>2 DEF ConsoleInv, BufferInv, Queue
<1>5. Found \subseteq Statuses
  BY DEF Found, Statuses
<1> QED
  BY <1>1, <1>2, <1>3, <1>4, <1>5 DEF Next

\* A start: nothing is written, nothing typed, no scan begun.
LEMMA ConsoleStart == Init => ConsoleInv /\ BufferInv /\ Input!Init
<1> SUFFICES ASSUME Init PROVE ConsoleInv /\ BufferInv /\ Input!Init
  OBVIOUS
<1>1. EyeInv(eye) /\ eye.prints = 0
  BY StartsInPlace DEF Init, EyeInit
<1>2. OutputInv
  <2>1. /\ txBuf = <<>> /\ unsent = 0 /\ startupLogIndex = 0 /\ startupActive = TRUE
        /\ jumbled = FALSE /\ overrun = FALSE
    BY DEF Init
  <2>2. Numbers(0) = <<>> /\ 0 \in 0..UDP_TX_BUFSIZE - 1
    BY SizeAssumption DEF Numbers
  <2>3. 0 \in 0..STARTUP_LOG_SIZE /\ 0 < STARTUP_LOG_SIZE
    BY SizeAssumption
  <2> QED
    BY <2>1, <2>2, <2>3 DEF OutputInv
<1>3. debugFlags \in Flags
  BY StoredAssumption DEF Init, Flags
<1>4. line \in Seq(Typed) /\ Len(line) < LINE_CAPACITY
  BY SizeAssumption DEF Init
<1>5. isActive \in BOOLEAN /\ from \in Clients \cup {NONE} /\ alternate \in BOOLEAN
  BY DEF Init
<1>6. BufferInv /\ Input!Init
  BY SizeAssumption DEF Init, BufferInv, Input!Init
<1> QED
  BY <1>1, <1>2, <1>3, <1>4, <1>5, <1>6 DEF ConsoleInv

LEMMA ConsoleCorrect == Spec => [](ConsoleInv /\ BufferInv /\ QuestionInv)
<1>1. QuestionInv /\ [Next]_vars => QuestionInv'
  BY QuestionStep
<1>2. ConsoleInv /\ BufferInv /\ [Next]_vars => ConsoleInv' /\ BufferInv'
  BY ConsoleStep
<1> QED
  BY ConsoleStart, QuestionInit, <1>1, <1>2, PTL DEF Spec

\* The characters of the datagrams come out in order, each once, up to what
\* the buffer could take, unless an alarm without room has overwritten some.
THEOREM InputImplementsQueue == Spec => InputIsQueue
<1>1. ConsoleInv /\ BufferInv /\ [Next]_vars
        => [Input!Next \/ (overrun' /\ Input!Smudge)]_(Input!vars)
  BY ConsoleStep DEF InputMoves, Input!vars, Queue
<1> QED
  BY ConsoleStart, ConsoleCorrect, <1>1, PTL DEF Spec, InputIsQueue

\* Every variable has its type, and between the steps the indices are within
\* their buffers.
THEOREM TypeCorrect == Spec => []TypeOK
<1>1. ConsoleInv /\ BufferInv /\ QuestionInv => TypeOK
  <2> SUFFICES ASSUME ConsoleInv, BufferInv, QuestionInv PROVE TypeOK
    OBVIOUS
  <2>1. EyeTypeOK(eye)
    <3>1. eye \in Eyes /\ Placed(eye) /\ eye.prints = 0
      BY DEF ConsoleInv, EyeInv
    <3>2. eye.run \in [Channels -> Measured \cup {Stopped}]
      BY <3>1, EyeFields
    <3>3. \A c \in Channels :
            eye.run[c] \in (-HSteps..HSteps) \X (-VSteps..VSteps) \X BOOLEAN \cup {Stopped}
      BY <3>2 DEF Measured
    <3> QED
      BY <3>1, <3>3, EyeFields DEF EyeTypeOK
  <2>2. Len(txBuf) < UDP_TX_BUFSIZE
    <3>1. /\ txBuf = Numbers(unsent) /\ unsent \in Nat
          /\ unsent < UDP_TX_BUFSIZE
      BY SizeAssumption DEF ConsoleInv, OutputInv
    <3> QED
      BY <3>1, NumbersAre
  <2> QED
    BY <2>1, <2>2 DEF TypeOK, ConsoleInv, OutputInv, BufferInv, QuestionInv, Flags
<1> QED
  BY <1>1, ConsoleCorrect, PTL

\* What is unsent is in the buffer, every byte once and in order, and so is
\* every datagram unless an alarm had no room behind it.
THEOREM OutputCorrect == Spec => []OutputInOrder
<1>1. ConsoleInv => OutputInOrder
  BY DEF ConsoleInv, OutputInv, OutputInOrder, Numbers
<1> QED
  BY <1>1, ConsoleCorrect, PTL

\* Every pixel is the sum of its own two measurements, in raster order, and
\* the scanner runs in no transceiver but the one being measured.
THEOREM ScanCorrect == Spec => []ScanInPlace
<1>1. ConsoleInv => ScanInPlace
  <2> SUFFICES ASSUME ConsoleInv PROVE ScanInPlace
    OBVIOUS
  <2>1. Placed(eye) /\ eye \in Eyes
    BY DEF ConsoleInv, EyeInv
  <2>2. eye.active => Len(eye.plot) =
                        Width * (VSteps - eye.vOffset) + eye.hOffset + HSteps
    BY <2>1 DEF Placed
  <2> QED
    BY <2>1, <2>2 DEF ScanInPlace, PlotsInPlace, Placed, Pixel
<1> QED
  BY <1>1, ConsoleCorrect, PTL
=============================================================================
