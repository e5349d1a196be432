---------------------------- MODULE UdpInterface ----------------------------
(***************************************************************************)
(* ospreyUDP.c between its hardware and the servers: one received datagram *)
(* is held until the software lets go of it, one is transmitted at a time. *)
(* The servers are the Modbus server and any other that answers each       *)
(* packet it gets.  The network repeats, loses and reorders what clients   *)
(* send, and the transmitter can hang.                                     *)
(***************************************************************************)
EXTENDS ModbusServer, SequencesExt

CONSTANTS
  OSPREY_UDP_ENDPOINT_CAPACITY, OSPREY_UDP_PACKET_CAPACITY, SEND_CHECK_LIMIT,
  Registrations,   \* the ports and servers that are registered, in order
  Clients, Requests,
  None,
  MaxPackets, MaxHangs   \* bounds

ASSUME UdpAssumption == SEND_CHECK_LIMIT \in Nat \ {0}

\* The fields of a datagram are numbers; None is no request.
ASSUME RequestsAssumption ==
  \A cmd \in Requests :
    /\ cmd.base \in Nat /\ cmd.values \in Seq(Nat)
    /\ \A c \in Clients : [client |-> c, cmd |-> cmd] # None

\* Newest first.
registerEndpoint(eHead, r) ==
  IF Len(eHead) < OSPREY_UDP_ENDPOINT_CAPACITY /\ r.port \in 1..65535
  THEN <<r>> \o eHead ELSE eHead
Endpoints == FoldLeft(registerEndpoint, <<>>, Registrations)

MODBUS_DEFAULT_UDP_PORT == 502
modbusServerUDPinit(port) ==
  [port |-> IF port <= 0 THEN MODBUS_DEFAULT_UDP_PORT ELSE port,
   callback |-> "modbus"]

Packets == [client : Clients, port : {Registrations[n].port : n \in DOMAIN Registrations},
            size : {1, OSPREY_UDP_PACKET_CAPACITY + 1}, cmd : Requests]

VARIABLES
  rx,       \* the hardware's received packet
  tx,       \* its transmit registers, whether it is sending, whether it hangs
  pc, ep,   \* where ospreyUDPcrank is, with which endpoint
  rxbuf,    \* the packet that it has read
  spins,    \* polls of the busy transmitter
  out,      \* the datagram that ospreyUDPsendto is to send
  srv,      \* the Modbus server
  packets, hangs,   \* bounds
  last,     \* history: the last request that Modbus saw, how often it was
            \* executed since another, and its reply
  owed,     \* history: the datagram that the packet at hand should be sent
  flight    \* history: the one that is being transmitted

hardware == <<rx, tx>>
software == <<pc, ep, rxbuf, spins, out, srv>>
history  == <<last, owed, flight>>
bounds   == <<packets, hangs>>
vars == <<hardware, software, history, bounds>>

Quiet == [busy |-> FALSE, hung |-> FALSE, datagram |-> None]
NoRequest == [of |-> None, times |-> 0, reply |-> <<>>]

Init ==
  /\ rx = None /\ tx = Quiet
  /\ pc = "poll" /\ ep = None /\ rxbuf = None /\ spins = 0 /\ out = None
  /\ srv = ModbusStart
  /\ packets = 0 /\ hangs = 0
  /\ last = NoRequest /\ owed = None /\ flight = None

--------------------------------------------------------------------------
(* The hardware and the network. *)

Request(p) == [client |-> p.client, cmd |-> p.cmd]

\* A nonce identifies a request among those of all clients, of which the
\* server keeps the last: a request with the same nonce repeats it.
Recent == {last.of} \union (IF rxbuf = None THEN {} ELSE {Request(rxbuf)})
Deliver(p) ==
  /\ rx = None /\ packets < MaxPackets
  /\ \A q \in Recent \ {None} : p.cmd.nonce = q.cmd.nonce => Request(p) = q
  /\ rx' = p /\ packets' = packets + 1
  /\ UNCHANGED <<tx, software, history, hangs>>

\* The registers are read throughout the transmission.
Transmitted ==
  /\ tx.busy /\ ~tx.hung
  /\ tx' = [tx EXCEPT !.busy = FALSE] /\ flight' = None
  /\ UNCHANGED <<rx, software, last, owed, bounds>>

Hang ==
  /\ tx.busy /\ ~tx.hung /\ hangs < MaxHangs
  /\ tx' = [tx EXCEPT !.hung = TRUE] /\ hangs' = hangs + 1
  /\ UNCHANGED <<rx, software, history, packets>>

--------------------------------------------------------------------------
(* ospreyUDPcrank. *)

MatchingPort(p) ==   \* faulty: does not look at the length
  {n \in DOMAIN Endpoints : Endpoints[n].port = p.port}

Matching(p) ==
  {n \in DOMAIN Endpoints :
     Endpoints[n].port = p.port /\ p.size <= OSPREY_UDP_PACKET_CAPACITY}

Poll ==
  /\ pc = "poll" /\ rx # None
  /\ IF Matching(rx) = {}
     THEN rx' = None /\ UNCHANGED <<pc, ep>>
     ELSE /\ pc' = "read" /\ ep' = Endpoints[Min(Matching(rx))]
          /\ UNCHANGED rx
  /\ UNCHANGED <<tx, rxbuf, spins, out, srv, history, bounds>>

ReadPacket ==
  /\ pc = "read"
  /\ rxbuf' = rx /\ pc' = "finish"
  /\ UNCHANGED <<hardware, ep, spins, out, srv, history, bounds>>

FinishReception ==
  /\ pc = "finish"
  /\ rx' = None /\ pc' = "callback"
  /\ UNCHANGED <<tx, ep, rxbuf, spins, out, srv, history, bounds>>

\* The reply goes back to the port it came from, that of the server.
Datagram(reply) ==
  IF reply = <<>> THEN None
  ELSE [to |-> rxbuf.client, from |-> ep.port, data |-> reply]
AndThen(datagram) ==
  /\ out' = datagram
  /\ pc' = IF datagram = None THEN "poll" ELSE "send"

\* What a request should be answered: a repetition what it was before.
NowLast(p) ==
  IF Request(p) = last.of /\ last.reply # <<>> THEN last
  ELSE [of |-> Request(p), times |-> 0, reply |-> Execute(srv, p.cmd).reply]

Callback ==
  /\ pc = "callback"
  /\ ep' = None /\ rxbuf' = None
  /\ \/ /\ ep.callback = "modbus"
        /\ \E s \in {modbusCallback(srv, rxbuf.cmd)} :
             srv' = s /\ AndThen(Datagram(Reply(s, rxbuf.cmd)))
        /\ IF IsFrame(rxbuf.cmd)
           THEN \E l \in {NowLast(rxbuf)} :
                  /\ last' = IF IsNew(srv, rxbuf.cmd)
                             THEN [l EXCEPT !.times = @ + 1] ELSE l
                  /\ owed' = IF l.reply = <<>> THEN None
                             ELSE Datagram(<<rxbuf.cmd.nonce>> \o l.reply)
           ELSE owed' = None /\ UNCHANGED last
     \/ /\ ep.callback # "modbus"
        /\ AndThen(Datagram(<<rxbuf.cmd.nonce>>))
        /\ owed' = Datagram(<<rxbuf.cmd.nonce>>)
        /\ UNCHANGED <<srv, last>>
  /\ UNCHANGED <<hardware, spins, flight, bounds>>

\* ospreyUDPsendto: wait for the transmitter, and reset a hung one.  The
\* reset loses what is sent and what has been received.
resetHardware == rx' = None /\ tx' = Quiet /\ flight' = None

AwaitForever ==   \* faulty: no limit
  /\ pc = "send" /\ tx.busy
  /\ UNCHANGED vars

Await ==
  /\ pc = "send" /\ tx.busy
  /\ IF spins + 1 = SEND_CHECK_LIMIT
     THEN resetHardware /\ spins' = 0
     ELSE spins' = spins + 1 /\ UNCHANGED <<hardware, flight>>
  /\ UNCHANGED <<pc, ep, rxbuf, out, srv, last, owed, bounds>>

SendAtOnce ==   \* faulty: does not look whether the transmitter is busy
  /\ pc = "send"
  /\ tx' = [tx EXCEPT !.busy = TRUE, !.datagram = out]
  /\ flight' = IF tx.busy THEN flight ELSE owed
  /\ owed' = None /\ out' = None /\ spins' = 0 /\ pc' = "poll"
  /\ UNCHANGED <<rx, ep, rxbuf, srv, last, bounds>>

Send ==
  /\ pc = "send" /\ ~tx.busy
  /\ tx' = [tx EXCEPT !.busy = TRUE, !.datagram = out]
  /\ flight' = owed
  /\ owed' = None /\ out' = None /\ spins' = 0 /\ pc' = "poll"
  /\ UNCHANGED <<rx, ep, rxbuf, srv, last, bounds>>

Crank == Poll \/ ReadPacket \/ FinishReception \/ Callback \/ Await \/ Send

Next == (\E p \in Packets : Deliver(p)) \/ Transmitted \/ Hang \/ Crank

\* The main loop runs; nothing is assumed of the transmitter.
Spec == Init /\ [][Next]_vars /\ WF_vars(Crank)

--------------------------------------------------------------------------
(* Properties. *)

(* Everything holds a value of its kind, and a packet that the software is *)
(* at work on is one of an endpoint, of a size that fits.                  *)
TypeOK ==
  /\ rx \in Packets \union {None} /\ rxbuf \in Packets \union {None}
  /\ pc \in {"poll", "read", "finish", "callback", "send"}
  /\ spins \in 0..SEND_CHECK_LIMIT - 1
  /\ pc \in {"read", "finish"} => rx # None /\ Matching(rx) # {}
  /\ pc = "callback" => rxbuf # None /\ rxbuf.size <= OSPREY_UDP_PACKET_CAPACITY
  /\ pc = "send" <=> out # None
  /\ tx.busy <=> flight # None
  /\ tx.hung => tx.busy
  /\ \A r \in DOMAIN srv.regs : srv.regs[r] \in Nat

(* Every datagram that goes out is the whole answer to one packet, for the *)
(* client that sent it, whatever arrives or is read meanwhile and however  *)
(* long the one before it takes; a packet that should be answered is, and  *)
(* one that repeats a Modbus request gets the answer of the first.         *)
AnsweredAsOwed ==
  /\ tx.busy => tx.datagram = flight
  /\ pc = "poll" => owed = None

(* The network may repeat a request as often as it likes: one that had an  *)
(* answer, or an error, is not executed again before another one comes.    *)
AtMostOnce == last.reply # <<>> => last.times <= 1

(* The received packet is let go in the end, and so are the other clients, *)
(* although the transmitter may hang for ever.                             *)
Released == rx # None ~> rx = None
=============================================================================
