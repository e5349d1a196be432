------------------------------- MODULE Console -------------------------------
(***************************************************************************)
(* The console of console.c: one line editor and one command interpreter,  *)
(* shared by the serial port and by whoever sends to the console's UDP     *)
(* port, with the eye scan it drives (EyeScan).  Everything runs in the    *)
(* main loop: a turn of consoleCrank, a call of consoleCallback and a      *)
(* message printed by another part of the program are atomic steps.  What  *)
(* the clock and the scanner have done by the time a turn looks at them is *)
(* a choice of that turn.                                                  *)
(*                                                                         *)
(* A printable character stands for a word with the space after it, so a   *)
(* line is the sequence of its words; a printf is one byte, but for the    *)
(* alarm that sending itself prints when the transmitter has locked up.    *)
(* The carriage returns that outbyte adds are left out, and a command that *)
(* may be abbreviated is written in full.                                  *)
(***************************************************************************)
EXTENDS EyeScan, FiniteSets, TLC

CONSTANTS
  LINE_CAPACITY, UDP_TX_BUFSIZE, STARTUP_LOG_SIZE,
  Alarm,         \* what ospreyUDPsendto prints when the transmitter locks up
  ArgvSize,      \* the elements of argv
  Clients,       \* senders to the UDP console
  Packets,       \* bound: what they send, sequences of characters
  Keys,          \* bound: what is typed on the serial port
  MaxPackets, MaxKeys,   \* bounds: how many of them
  StoredParams,  \* the settings that the flash may hold
  NetworkOf,     \* the settings that an argument of gw stands for
  FlagsOf,       \* the flags that an argument of debug stands for
  ChannelOf      \* the channel that an argument of eye names

ASSUME SizeAssumption ==
  /\ LINE_CAPACITY \in Nat \ {0} /\ UDP_TX_BUFSIZE \in Nat \ {0}
  /\ STARTUP_LOG_SIZE \in Nat \ {0} /\ ArgvSize \in Nat \ {0}
  /\ \A p \in Packets : p \in Seq(STRING) /\ p # <<>>
  /\ Alarm \in Seq(STRING) /\ Len(Alarm) \in 1..UDP_TX_BUFSIZE - 1

\* The flash holds flags that a debug command has put there.
ASSUME StoredAssumption ==
  \A p \in StoredParams : p.flags \subseteq UNION {FlagsOf[v] : v \in DOMAIN FlagsOf}

NONE == "none"
ERASED == [network |-> "erased", flags |-> {}]
Nothing == [what |-> NONE, arg |-> NONE]

\* The question and the command of a reboot from an image.
Boots(alt) == [what |-> "boot", arg |-> IF alt THEN "alternate" ELSE "golden"]
NL == "newline"
BS == "backspace"
EraseValue == "7DEADB00"

VARIABLES
  eye,        \* the scan, see EyeScan
  isActive, rxBuf, rxIndex, txBuf, from,   \* udpConsole; rxCount = Len(rxBuf)
  startupLogIndex, startupActive,   \* the log's contents are left out
  line,       \* lineIndex = Len(line)
  modalHandler,
  alternate,  \* useAlternate of cmdBOOT
  network,    \* netmask and gateway of cmdGW
  params,     \* systemParameters: network and startup debug flags
  stored,     \* what the boot flash holds of them
  debugFlags,
  \* History: bytes written to the UDP console in this session and not sent;
  \* whether the last step sent a datagram that was not just those, in order,
  \* and whether an alarm had no room in it; the question on the screen; what
  \* the last step did for good; the character it took from the UDP buffer.
  unsent, jumbled, overrun, asked, did, got,
  packets, keys   \* bounds: how many have come

dialog   == <<modalHandler, alternate, network, asked>>
settings == <<params, stored, debugFlags>>
vars == <<eye, isActive, rxBuf, rxIndex, txBuf, from, unsent, jumbled, overrun,
          startupLogIndex, startupActive, line, dialog, settings, did, got,
          packets, keys>>

SingleShot == {"show"}   \* the five flags that show something once

DefaultParams == [network |-> NONE, flags |-> {}]

\* A start with whatever settings the flash holds; a restart after a reboot
\* begins a new behaviour.
Init ==
  /\ eye = EyeInit
  /\ isActive = FALSE /\ rxBuf = <<>> /\ rxIndex = 0 /\ txBuf = <<>>
  /\ from = NONE /\ unsent = 0 /\ jumbled = FALSE /\ overrun = FALSE
  /\ startupLogIndex = 0 /\ startupActive = TRUE
  /\ line = <<>> /\ modalHandler = NONE /\ alternate = FALSE
  /\ network = NONE /\ asked = Nothing
  /\ params \in StoredParams /\ stored = params /\ debugFlags = params.flags
  /\ did = Nothing /\ got = NONE /\ packets = 0 /\ keys = 0

-----------------------------------------------------------------------------
(***************************************************************************)
(* Output.  An output state o is what outbyte changes of the console: each *)
(* byte of a session carries its number since the last datagram, a byte of *)
(* the alarm 0.  ospreyUDPsendto may find the transmitter locked up and    *)
(* then prints the alarm, which comes back through outbyte before drainUDP *)
(* has reset txCount; so each operator tells the states that may follow.   *)
(***************************************************************************)
Output ==
  [tx |-> txBuf, n |-> unsent, rx |-> rxBuf, log |-> startupLogIndex,
   logging |-> startupActive, jumbled |-> FALSE, overrun |-> FALSE]

Emit(o) ==
  /\ txBuf' = o.tx /\ unsent' = o.n /\ rxBuf' = o.rx
  /\ startupLogIndex' = o.log /\ startupActive' = o.logging
  /\ jumbled' = o.jumbled /\ overrun' = o.overrun

\* k bytes go to the startup log, as far as it has room.
Logged(o, k) ==
  IF ~o.logging THEN o
  ELSE IF o.log + k < STARTUP_LOG_SIZE THEN [o EXCEPT !.log = @ + k]
  ELSE [o EXCEPT !.log = STARTUP_LOG_SIZE, !.logging = FALSE]

\* A datagram is sent, and txCount reset.
Sent(o, bytes) ==
  [o EXCEPT !.tx = <<>>, !.n = 0, !.jumbled = @ \/ bytes # [i \in 1..o.n |-> i]]

\* The alarm meets a full buffer.  Its first byte falls on txCount, which is
\* next in memory, and where the others fall depends on which of the two
\* stores of txBuf[txCount++] = c the build does last: the byte, and they
\* go on somewhere in txBuf; or the count, and they fall on rxBuf.
Overruns(o) ==
  LET rest == Len(Alarm) - 1
      p == [Logged(o, Len(Alarm)) EXCEPT !.overrun = TRUE]
  IN  {[p EXCEPT !.rx = [i \in DOMAIN o.rx |->
                           IF i <= rest THEN Alarm[i + 1] ELSE o.rx[i]]]}
        \cup {[p EXCEPT !.tx = [i \in DOMAIN o.tx |->
                                 IF i \in j + 1..j + rest THEN 0 ELSE o.tx[i]]] :
                 j \in 0..UDP_TX_BUFSIZE - Len(Alarm)}

\* The alarm fills up a buffer with too little room: the buffer is sent from
\* within, which may meet the transmitter still locked up, and what is left
\* of the alarm is in front of it when the datagram proper is sent.
Spills(o) ==
  LET room == UDP_TX_BUFSIZE - Len(o.tx)
      left == Len(Alarm) - room
      full == [Logged(o, Len(Alarm)) EXCEPT
                 !.tx = o.tx \o [i \in 1..room |-> 0], !.overrun = TRUE]
  IN  {Sent(Sent(p, p.tx), [i \in DOMAIN o.tx |-> IF i <= left THEN 0 ELSE p.tx[i]]) :
         p \in {full} \cup Overruns(full)}

drainUDPMeasured(o) ==   \* faulty: takes the length after the alarm
  LET p == [Logged(o, Len(Alarm)) EXCEPT !.tx = @ \o [i \in DOMAIN Alarm |-> 0]]
  IN  {Sent(o, o.tx), Sent(p, p.tx)}

\* With room for the alarm, it is written behind the datagram and dropped.
drainUDP(o) ==
  {Sent(o, o.tx)} \cup
    IF Len(o.tx) = UDP_TX_BUFSIZE THEN {Sent(p, p.tx) : p \in Overruns(o)}
    ELSE IF Len(o.tx) + Len(Alarm) >= UDP_TX_BUFSIZE THEN Spills(o)
    ELSE {Sent(Logged(o, Len(Alarm)), o.tx)}

outbyteUnchecked(o, a) ==   \* faulty: a full buffer is left to the clock
  LET p == Logged(o, 1)
  IN  {IF a THEN [p EXCEPT !.tx = Append(@, o.n + 1), !.n = @ + 1] ELSE p}

\* a: the UDP console is active.
outbyte(o, a) ==
  LET p == Logged(o, 1)
      q == [p EXCEPT !.tx = Append(@, o.n + 1), !.n = @ + 1]
  IN  IF ~a THEN {p}
      ELSE IF Len(q.tx) = UDP_TX_BUFSIZE THEN drainUDP(q) ELSE {q}

\* n bytes.
Out(o, a, n) ==
  LET after[k \in 0..n] ==
        IF k = 0 THEN {o} ELSE UNION {outbyte(p, a) : p \in after[k - 1]}
  IN  after[n]

-----------------------------------------------------------------------------
(***************************************************************************)
(* Commands.  s, o, a: the scan, the output and the activity of the UDP    *)
(* console as the turn of the main loop has left them so far.              *)
(***************************************************************************)
\* A command ends: it has printed n bytes and done d for good.
Ends(s, o, a, n, d) ==
  /\ \E p \in Out(o, a, n) : Emit(p)
  /\ eye' = [s EXCEPT !.prints = 0] /\ did' = d

Shows(s, o, a, n) ==
  Ends(s, o, a, n, Nothing) /\ UNCHANGED <<dialog, settings>>

Asks(s, o, a, handler, question) ==
  /\ Ends(s, o, a, 1, Nothing)
  /\ modalHandler' = handler /\ asked' = question
  /\ UNCHANGED settings

Answered(s, o, a, n, d) ==
  /\ Ends(s, o, a, n, d)
  /\ modalHandler' = NONE /\ asked' = Nothing
  /\ UNCHANGED <<alternate, network, debugFlags>>

\* systemParametersStash; it fails while a transfer holds the file.  What
\* is written to an erased flash no longer matters: nothing starts from it.
Stashes == stored' \in {stored} \cup (IF stored = ERASED THEN {} ELSE {params'})

StoreNetwork(s, o, a) ==
  /\ params' = [params EXCEPT !.network = network] /\ Stashes
  /\ Answered(s, o, a, 0, [what |-> "gw", arg |-> network])

\* A flash that is protected refuses.
BulkErase(s, o, a) ==
  /\ stored' \in {stored, ERASED} /\ UNCHANGED params
  /\ Answered(s, o, a, 0, [what |-> "erase", arg |-> NONE])

RebootReparsed(s, o, a) ==   \* faulty: looks for -a in the answer
  /\ Answered(s, o, a, 1, Boots(FALSE)) /\ UNCHANGED <<params, stored>>

\* What follows is the case that the reset fails.
Reboot(s, o, a) ==
  /\ Answered(s, o, a, 1, Boots(alternate))
  /\ UNCHANGED <<params, stored>>

\* yesOrNo: anything but a single y or n asks again.
Answer(argv) ==
  IF argv \in {<<"y">>, <<"yes">>} THEN 1
  ELSE IF argv \in {<<"n">>, <<"no">>} THEN 0 ELSE -1

Modal(argv, s, o, a) ==
  \/ Answer(argv) = -1 /\ Shows(s, o, a, 1)
  \/ /\ Answer(argv) = 0
     /\ Answered(s, o, a, 0, Nothing) /\ UNCHANGED <<params, stored>>
  \/ /\ Answer(argv) = 1
     /\ \/ modalHandler = "boot"  /\ Reboot(s, o, a)
        \/ modalHandler = "debug" /\ BulkErase(s, o, a)
        \/ modalHandler = "gw"    /\ StoreNetwork(s, o, a)

cmdBOOT(argv, s, o, a) ==
  LET alt  == Len(argv) >= 2 /\ argv[2] = "-a"
      args == IF alt THEN Len(argv) - 1 ELSE Len(argv)
  IN /\ alternate' = alt
     /\ UNCHANGED network
     /\ IF args > 2
        THEN Ends(s, o, a, 1, Nothing)
             /\ UNCHANGED <<modalHandler, asked, settings>>
        ELSE Asks(s, o, a, "boot", Boots(alt))

\* Sets the flags, or with -s those of the next start; a flag that shows
\* something once is then shown and reset.
SetsFlags(args, startup) ==
  LET set == IF args = <<>> THEN debugFlags ELSE FlagsOf[args[1]]
  IN /\ debugFlags' = (IF startup THEN debugFlags ELSE set) \ SingleShot
     /\ IF startup /\ args # <<>> /\ set # params.flags
        THEN params' = [params EXCEPT !.flags = set] /\ Stashes
        ELSE UNCHANGED <<params, stored>>

cmdDEBUG(argv, s, o, a) ==
  LET startup == Len(argv) >= 2 /\ argv[2] = "-s"
      args    == IF startup THEN Tail(Tail(argv)) ELSE Tail(argv)
      bad     == Len(args) = 1 /\ args[1] \notin DOMAIN FlagsOf
  IN \/ (Len(args) > 1 \/ bad) /\ Shows(s, o, a, 1)
     \/ /\ args = <<EraseValue>> /\ ~startup
        /\ Asks(s, o, a, "debug", [what |-> "erase", arg |-> NONE])
        /\ UNCHANGED <<alternate, network>>
     \/ /\ Len(args) <= 1 /\ ~bad /\ (args # <<EraseValue>> \/ startup)
        /\ SetsFlags(args, startup)
        /\ Ends(s, o, a, 1, Nothing)
        /\ UNCHANGED dialog

cmdGW(argv, s, o, a) ==
  \/ /\ Len(argv) > 2 \/ (Len(argv) = 2 /\ argv[2] \notin DOMAIN NetworkOf)
     /\ Shows(s, o, a, 1)
  \/ /\ Len(argv) = 2 /\ argv[2] \in DOMAIN NetworkOf
     /\ network' = NetworkOf[argv[2]]
     /\ Asks(s, o, a, "gw", [what |-> "gw", arg |-> NetworkOf[argv[2]]])
     /\ UNCHANGED alternate
  \/ /\ Len(argv) = 1
     /\ network' = params.network
     /\ Ends(s, o, a, 1, Nothing)
     /\ UNCHANGED <<modalHandler, asked, alternate, settings>>

\* The replay goes through outbyte, which no longer logs.
cmdLOG(s, o, a) == Shows(s, o, a, o.log + 1)

Eye(argv, s, o, a) ==
  LET t == eyescanCommand(s, Tail(argv), ChannelOf)
  IN Shows(t, o, a, t.prints)

\* The other commands change nothing here: fmon, help, pps, reg show, and
\* lmk, jtr1, jtr2 and mgt reach a device; so does none if the name is
\* unknown or ambiguous.
findCommand(argv, s, o, a) ==
  IF argv = <<>> THEN Shows(s, o, a, 0)
  ELSE CASE argv[1] = "boot"  -> cmdBOOT(argv, s, o, a)
         [] argv[1] = "debug" -> cmdDEBUG(argv, s, o, a)
         [] argv[1] = "gw"    -> cmdGW(argv, s, o, a)
         [] argv[1] = "log"   -> cmdLOG(s, o, a)
         [] argv[1] = "eye"   -> Eye(argv, s, o, a)
         [] OTHER             -> Shows(s, o, a, 1)

processLine(argv, s, o, a) ==
  \/ Len(argv) >= ArgvSize /\ Shows(s, o, a, 1)
  \/ Len(argv) < ArgvSize /\ modalHandler # NONE /\ Modal(argv, s, o, a)
  \/ Len(argv) < ArgvSize /\ modalHandler = NONE /\ findCommand(argv, s, o, a)

-----------------------------------------------------------------------------
\* Any character ends a scan.
Edits(c, s, o, a) ==
  \/ /\ c = NL
     /\ \E p \in Out(o, a, 1) : processLine(line, s, p, a)
     /\ line' = <<>>
  \/ /\ c = BS
     /\ line' = IF line = <<>> THEN line ELSE SubSeq(line, 1, Len(line) - 1)
     /\ Shows(s, o, a, IF line = <<>> THEN 0 ELSE 3)
  \/ /\ c \notin {NL, BS}
     /\ line' = IF Len(line) < LINE_CAPACITY - 1 THEN Append(line, c) ELSE line
     /\ Shows(s, o, a, 1)

\* Output that has waited for 50 ms (late) is sent.  t: the scan's own turn.
Drained(t, late) ==
  UNION {IF isActive /\ late /\ Len(txBuf) \in 1..Len(o.tx)
         THEN drainUDP(o) ELSE {o} : o \in Out(Output, isActive, t.prints)}

Types(c, t, o, a) ==
  \E s \in {eyescanCrank([t EXCEPT !.prints = 0], TRUE, "busy")} :
  \E p \in Out(o, a, s.prints) :
    Edits(c, s, [p EXCEPT !.logging = FALSE], a)

\* The serial port comes first and takes the console back.
UartCrank(c, t, o) ==
  /\ keys < MaxKeys /\ keys' = keys + 1
  /\ isActive' = FALSE /\ got' = NONE
  /\ Types(c, t, o, FALSE)
  /\ UNCHANGED <<rxIndex, from, packets>>

\* A character that has been read stays in the buffer, but does not matter.
UdpCrank(t, o) ==
  /\ isActive /\ rxIndex < Len(rxBuf)
  /\ rxIndex' = rxIndex + 1 /\ got' = o.rx[rxIndex + 1]
  /\ Types(o.rx[rxIndex + 1], t, [o EXCEPT !.rx[rxIndex + 1] = NONE], TRUE)
  /\ UNCHANGED <<isActive, from, packets, keys>>

IdleCrank(t, o) ==
  /\ ~(isActive /\ rxIndex < Len(rxBuf))
  /\ Emit(o) /\ eye' = [t EXCEPT !.prints = 0]
  /\ did' = Nothing /\ got' = NONE
  /\ UNCHANGED <<isActive, rxIndex, from, line, dialog, settings, packets, keys>>

\* One turn: the scan goes on, old output is sent, a character is read.
consoleCrank(status, late) ==
  \E t \in {eyescanCrank(eye, FALSE, status)} :
  \E o \in Drained(t, late) :
    \/ \E c \in Keys : UartCrank(c, t, o)
    \/ UdpCrank(t, o)
    \/ IdleCrank(t, o)

-----------------------------------------------------------------------------
UnreadInPlace ==   \* faulty: what has been read stays in front
  IF ~isActive \/ rxIndex >= Len(rxBuf) THEN <<>> ELSE rxBuf

\* The unread input, which the callback moves to the front of the buffer.
Unread ==
  IF ~isActive \/ rxIndex >= Len(rxBuf) THEN <<>>
  ELSE SubSeq(rxBuf, rxIndex + 1, Len(rxBuf))

Accepted(p) ==
  LET nFree == LINE_CAPACITY - Len(Unread)
  IN IF Len(p) > nFree THEN SubSeq(p, 1, nFree) ELSE p

consoleCallback(c, p) ==
  /\ packets < MaxPackets /\ packets' = packets + 1
  /\ isActive' = TRUE /\ from' = c
  /\ rxBuf' = Unread \o Accepted(p) /\ rxIndex' = 0
  /\ IF isActive THEN UNCHANGED <<txBuf, unsent>>
     ELSE txBuf' = <<>> /\ unsent' = 0
  /\ jumbled' = FALSE /\ overrun' = FALSE
  /\ did' = Nothing /\ got' = NONE
  /\ UNCHANGED <<eye, line, dialog, settings, startupLogIndex, startupActive,
                 keys>>

\* Another part of the program prints a byte.
Message ==
  /\ startupActive
  /\ \E o \in Out(Output, isActive, 1) : Emit(o)
  /\ did' = Nothing /\ got' = NONE
  /\ UNCHANGED <<eye, isActive, rxIndex, from, line, dialog, settings, packets,
                 keys>>

\* What a turn may find, where it looks.
Found == IF eye.acquiring THEN Statuses ELSE {"overdue"}
Late  == IF txBuf = <<>> THEN {TRUE} ELSE BOOLEAN

Next ==
  \/ \E status \in Found, late \in Late : consoleCrank(status, late)
  \/ \E c \in Clients, p \in Packets : consoleCallback(c, p)
  \/ Message

\* The main loop goes round and time passes: again and again a turn finds
\* the 50 ms and the 20 s gone.  The scanner may never answer.
Spec == Init /\ [][Next]_vars /\ WF_vars(consoleCrank("overdue", TRUE))

-----------------------------------------------------------------------------
(* Every variable has its type, and between the steps the indices are      *)
(* within their buffers; in a step, the alarm of a locked-up transmitter   *)
(* may pass the end of txBuf, and nothing else does (overrun).             *)
TypeOK ==
  /\ EyeTypeOK(eye)
  /\ isActive \in BOOLEAN /\ from \in Clients \cup {NONE}
  /\ Len(rxBuf) <= LINE_CAPACITY /\ rxIndex \in 0..Len(rxBuf)
  /\ Len(txBuf) < UDP_TX_BUFSIZE /\ {jumbled, overrun} \subseteq BOOLEAN
  /\ startupLogIndex \in 0..STARTUP_LOG_SIZE /\ startupActive \in BOOLEAN
  /\ startupActive => startupLogIndex < STARTUP_LOG_SIZE
  /\ Len(line) < LINE_CAPACITY
  /\ modalHandler \in {NONE, "boot", "debug", "gw"}
  /\ alternate \in BOOLEAN
  /\ debugFlags \in SUBSET UNION {FlagsOf[v] : v \in DOMAIN FlagsOf}

(* What the console wrote in this session since its last datagram is in    *)
(* the buffer, every byte once and in order: a session never sends what    *)
(* was written before it began, and a buffer that fills up loses nothing.  *)
(* The same holds of every datagram, also of one that is delayed by a      *)
(* locked-up transmitter, if its alarm had room behind it.                 *)
OutputInOrder ==
  /\ isActive => txBuf = [i \in 1..unsent |-> i]
  /\ jumbled => overrun

(* What the scan plots is where it was measured: each pixel the sum of its *)
(* own two measurements, the pixels in raster order whatever was cancelled *)
(* before, and the scanner runs in no transceiver but the one being        *)
(* measured.                                                               *)
ScanInPlace == PlotsInPlace(eye)

(* A reboot, an erasure and a new network setting happen on a yes to their *)
(* own question, with the settings it showed, and to no earlier one.       *)
Confirmed == [][did' # Nothing => asked = did']_vars

(* The characters of the datagrams come out in order, each once, up to     *)
(* what the buffer could take, unless the serial port takes over or an     *)
(* alarm without room may have fallen on them.                             *)
Input == INSTANCE CharQueue
           WITH queue <- IF isActive THEN SubSeq(rxBuf, rxIndex + 1, Len(rxBuf))
                         ELSE <<>>,
                Size <- LINE_CAPACITY
InputIsQueue ==
  Input!Init /\ [][Input!Next \/ (overrun' /\ Input!Smudge)]_(Input!vars)

(* Once nobody types, the console comes to rest: all input is read, all    *)
(* output is sent, and no scan is left running, whatever the scanner does. *)
AtRest ==
  /\ ~Scanning(eye)
  /\ isActive => txBuf = <<>> /\ rxIndex = Len(rxBuf)
ComesToRest == <>[]AtRest

=============================================================================
