------------------------------ MODULE UdpProofs ------------------------------
(***************************************************************************)
(* Proofs about the UDP interface and the Modbus server behind it, for any *)
(* endpoints, clients, requests, any number of packets and of hangs.       *)
(***************************************************************************)
EXTENDS UdpInterface, TLAPS

(***************************************************************************)
(* Neither what is owed nor how often a request was executed is inductive  *)
(* by itself.  The server keeps the reply of the request that was last,    *)
(* under that request's nonce; and of the three requests that are about,   *)
(* in the hardware, in the software and in the server's memory, two that   *)
(* have the same nonce are the same request.  What waits to be sent is     *)
(* what is owed.                                                           *)
(***************************************************************************)
Records ==
  /\ tx = [busy |-> tx.busy, hung |-> tx.hung, datagram |-> tx.datagram]
  /\ last = [of |-> last.of, times |-> last.times, reply |-> last.reply]
  /\ srv = [nonce |-> srv.nonce, reply |-> srv.reply, regs |-> srv.regs]

Remembered ==
  /\ srv.reply = last.reply
  /\ IF last.of = None THEN last.reply = <<>>
     ELSE srv.nonce = last.of.cmd.nonce

Same(q, r) == q.cmd.nonce = r.cmd.nonce => q = r
Distinct ==
  /\ rxbuf # None /\ last.of # None => Same(Request(rxbuf), last.of)
  /\ rx # None /\ last.of # None => Same(Request(rx), last.of)
  /\ rx # None /\ rxbuf # None => Same(Request(rx), Request(rxbuf))

Outgoing == pc = "send" => out = owed

Held ==
  /\ rx \in Packets \union {None} /\ rxbuf \in Packets \union {None}
  /\ pc \in {"read", "finish"} => rx # None
  /\ pc \in {"finish", "callback"} => rxbuf # None
  /\ pc = "finish" => rxbuf = rx

AnswerInv ==
  Records /\ Held /\ Remembered /\ Distinct /\ Outgoing
    /\ AnsweredAsOwed /\ AtMostOnce

-----------------------------------------------------------------------------

LEMMA RequestIsNotNone ==
  ASSUME NEW p \in Packets
  PROVE  Request(p) # None
  BY RequestsAssumption DEF Packets, Request

LEMMA AnswerInit == Init => AnswerInv
  BY DEF Init, AnswerInv, Records, Held, Remembered, Distinct, Outgoing,
         AnsweredAsOwed, AtMostOnce, Quiet, NoRequest, ModbusStart

LEMMA DeliverKeeps ==
  ASSUME AnswerInv, NEW p \in Packets, Deliver(p)
  PROVE  AnswerInv'
<1> USE DEF AnswerInv
<1>1. Records' /\ Remembered' /\ Outgoing' /\ AnsweredAsOwed' /\ AtMostOnce'
  BY DEF Deliver, software, history, Records, Remembered, Outgoing,
         AnsweredAsOwed, AtMostOnce
<1>2. Held'
  BY DEF Deliver, software, Held
<1>3. Distinct'
  <2>1. last.of # None => Same(Request(p), last.of)
    BY DEF Deliver, Recent, Same, Request
  <2>2. rxbuf # None => Same(Request(p), Request(rxbuf))
    <3>1. rxbuf # None => Request(rxbuf) \in Recent \ {None}
      BY RequestIsNotNone DEF Held, Recent
    <3> QED
      BY <3>1 DEF Deliver, Same, Request
  <2> QED
    BY <2>1, <2>2 DEF Deliver, software, history, Distinct
<1> QED
  BY <1>1, <1>2, <1>3

\* The steps of the hardware, of the crank up to the call, and of sendto.
LEMMA QuietStepsKeep ==
  ASSUME AnswerInv,
         Transmitted \/ Hang \/ Poll \/ ReadPacket \/ FinishReception
           \/ Await \/ Send \/ UNCHANGED vars
  PROVE  AnswerInv'
<1> USE DEF AnswerInv
<1>1. CASE Transmitted
  BY <1>1 DEF Transmitted, software, Records, Held, Remembered, Distinct,
              Outgoing, AnsweredAsOwed, AtMostOnce
<1>2. CASE Hang
  BY <1>2 DEF Hang, software, history, Records, Held, Remembered, Distinct,
              Outgoing, AnsweredAsOwed, AtMostOnce
<1>3. CASE Poll
  BY <1>3 DEF Poll, history, Records, Held, Remembered, Distinct, Outgoing,
              AnsweredAsOwed, AtMostOnce
<1>4. CASE ReadPacket
  <2>1. Distinct'
    BY <1>4 DEF ReadPacket, hardware, history, Held, Distinct, Same
  <2> QED
    BY <1>4, <2>1 DEF ReadPacket, hardware, history, Records, Held, Remembered,
                      Outgoing, AnsweredAsOwed, AtMostOnce
<1>5. CASE FinishReception
  BY <1>5 DEF FinishReception, history, Records, Held, Remembered, Distinct,
              Outgoing, AnsweredAsOwed, AtMostOnce
<1>6. CASE Await
  <2>1. /\ pc = "send" /\ UNCHANGED <<pc, ep, rxbuf, out, srv, last, owed>>
        /\ \/ rx' = None /\ tx' = Quiet /\ flight' = None
           \/ UNCHANGED <<rx, tx, flight>>
    BY <1>6 DEF Await, resetHardware, hardware
  <2> QED
    BY <2>1 DEF Quiet, Records, Held, Remembered, Distinct, Outgoing,
                AnsweredAsOwed, AtMostOnce
<1>7. CASE Send
  BY <1>7 DEF Send, Records, Held, Remembered, Distinct, Outgoing,
              AnsweredAsOwed, AtMostOnce
<1>8. CASE UNCHANGED vars
  BY <1>8 DEF vars, hardware, software, history, Records, Held, Remembered,
              Distinct, Outgoing, AnsweredAsOwed, AtMostOnce
<1> QED
  BY <1>1, <1>2, <1>3, <1>4, <1>5, <1>6, <1>7, <1>8

\* The heart of it: the server calls a request new exactly if it is not a
\* repetition of one that has been answered.
LEMMA CallbackKeeps ==
  ASSUME AnswerInv, Callback
  PROVE  AnswerInv'
<1> USE DEF AnswerInv
<1> DEFINE cmd == rxbuf.cmd
           s == modbusCallback(srv, cmd)
           l == NowLast(rxbuf)
           req == Request(rxbuf)
<1>1. /\ rxbuf \in Packets /\ rxbuf # None /\ req # None /\ req.cmd = cmd
  BY RequestIsNotNone DEF Callback, Held, Request
<1>2. \/ /\ srv' = s /\ IsFrame(cmd)
         /\ last' = IF IsNew(srv, cmd) THEN [l EXCEPT !.times = @ + 1] ELSE l
         /\ owed' = IF l.reply = <<>> THEN None
                    ELSE Datagram(<<cmd.nonce>> \o l.reply)
         /\ out' = Datagram(Reply(s, cmd))
      \/ /\ srv' = s /\ ~IsFrame(cmd)
         /\ last' = last /\ owed' = None
         /\ out' = Datagram(Reply(s, cmd))
      \/ /\ UNCHANGED <<srv, last>>
         /\ owed' = out'
  BY DEF Callback, AndThen
<1>3. /\ pc' = IF out' = None THEN "poll" ELSE "send"
      /\ rxbuf' = None /\ UNCHANGED <<rx, tx, flight>>
  BY DEF Callback, AndThen, hardware
<1>4. CASE /\ srv' = s /\ IsFrame(cmd)
           /\ last' = IF IsNew(srv, cmd) THEN [l EXCEPT !.times = @ + 1] ELSE l
           /\ owed' = IF l.reply = <<>> THEN None
                      ELSE Datagram(<<cmd.nonce>> \o l.reply)
           /\ out' = Datagram(Reply(s, cmd))
  <2>1. /\ Records' /\ last'.of = req /\ last'.reply = srv'.reply
        /\ last'.reply = l.reply /\ srv'.nonce = cmd.nonce
        /\ last'.reply # <<>> => last'.times <= 1
    <3>1. CASE IsNew(srv, cmd)
      <4>1. ~(req = last.of /\ last.reply # <<>>)
        BY <1>1, <3>1 DEF IsNew, Remembered
      <4>2. l = [of |-> req, times |-> 0, reply |-> Execute(srv, cmd).reply]
        BY <4>1 DEF NowLast
      <4>3. last' = [of |-> req, times |-> 1, reply |-> Execute(srv, cmd).reply]
        BY <1>4, <3>1, <4>2
      <4>4. srv' = [nonce |-> cmd.nonce, reply |-> Execute(srv, cmd).reply,
                    regs |-> Execute(srv, cmd).regs]
        BY <1>4, <3>1 DEF modbusCallback
      <4> HIDE DEF cmd, s, l, req
      <4> QED
        BY <1>3, <4>2, <4>3, <4>4 DEF Records
    <3>2. CASE ~IsNew(srv, cmd)
      <4>1. srv.reply # <<>> /\ cmd.nonce = srv.nonce /\ last.of # None
        BY <3>2 DEF IsNew, Remembered
      <4>2. req = last.of
        BY <1>1, <4>1 DEF Distinct, Same, Remembered
      <4>3. l = last
        BY <4>1, <4>2 DEF NowLast, Remembered
      <4>4. srv' = srv /\ last' = last
        BY <1>4, <3>2, <4>3 DEF modbusCallback
      <4> HIDE DEF cmd, s, l, req
      <4> QED
        BY <1>3, <4>1, <4>2, <4>3, <4>4 DEF Records, Remembered, AtMostOnce
    <3> QED
      BY <3>1, <3>2
  <2>2. out' = owed'
    <3>1. s.reply = l.reply
      BY <1>4, <2>1
    <3> QED
      BY <1>4, <3>1 DEF Reply, Datagram
  <2>3. Distinct'
    BY <1>1, <1>3, <2>1 DEF Distinct
  <2> HIDE DEF cmd, s, l, req
  <2>4. Remembered'
    BY <1>1, <2>1 DEF Remembered, Request
  <2> QED
    BY <1>3, <2>1, <2>2, <2>3, <2>4 DEF Held, Outgoing, AnsweredAsOwed, AtMostOnce
<1>5. CASE /\ srv' = s /\ ~IsFrame(cmd)
           /\ last' = last /\ owed' = None
           /\ out' = Datagram(Reply(s, cmd))
  <2>1. srv' = srv /\ out' = None
    BY <1>5 DEF modbusCallback, Reply, Datagram
  <2> HIDE DEF cmd, s, l, req
  <2> QED
    BY <1>3, <1>5, <2>1 DEF Records, Held, Remembered, Distinct, Outgoing,
                            AnsweredAsOwed, AtMostOnce
<1>6. CASE /\ UNCHANGED <<srv, last>> /\ owed' = out'
  BY <1>3, <1>6 DEF Records, Held, Remembered, Distinct, Outgoing,
                    AnsweredAsOwed, AtMostOnce
<1> QED
  BY <1>2, <1>4, <1>5, <1>6

LEMMA AnswerStep == AnswerInv /\ [Next]_vars => AnswerInv'
  BY DeliverKeeps, QuietStepsKeep, CallbackKeeps DEF Next, Crank

-----------------------------------------------------------------------------
(***************************************************************************)
(* Types.                                                                  *)
(***************************************************************************)
Numbers(regs) == \A r \in DOMAIN regs : regs[r] \in Nat

LEMMA ExecuteStoresNumbers ==
  ASSUME NEW cmd \in Requests, Numbers(srv.regs)
  PROVE  Numbers(Execute(srv, cmd).regs)
<1>1. Numbers(Write(srv, cmd).regs)
  <2> DEFINE stored == cmd.base..cmd.base + Len(cmd.values) - 1
             regs == [r \in DOMAIN srv.regs |->
                        IF r \in stored THEN cmd.values[r - cmd.base + 1]
                        ELSE srv.regs[r]]
  <2>1. \A r \in stored : cmd.values[r - cmd.base + 1] \in Nat
    BY RequestsAssumption
  <2>2. Numbers(regs)
    BY <2>1 DEF Numbers
  <2>3. Write(srv, cmd).regs \in {regs, srv.regs}
    BY DEF Write
  <2> QED
    BY <2>2, <2>3
<1>2. \A reply : Answered(srv, reply).regs = srv.regs
  BY DEF Answered
<1>3. Execute(srv, cmd).regs \in {Write(srv, cmd).regs, srv.regs}
  BY <1>2 DEF Execute
<1> QED
  BY <1>1, <1>3

LEMMA TypeInit == Init => TypeOK
<1>1. Init => \A r \in DOMAIN srv.regs : srv.regs[r] \in Nat
  BY DEF Init, ModbusStart
<1> QED
  BY <1>1, UdpAssumption DEF Init, TypeOK, Quiet

LEMMA TypeStep == AnswerInv /\ TypeOK /\ [Next]_vars => TypeOK'
<1> SUFFICES ASSUME AnswerInv, TypeOK, [Next]_vars
             PROVE  TypeOK'
  OBVIOUS
<1> USE DEF AnswerInv
<1>1. ASSUME NEW p \in Packets, Deliver(p)
      PROVE  TypeOK'
  BY <1>1 DEF Deliver, software, history, TypeOK
<1>2. CASE Transmitted
  BY <1>2 DEF Transmitted, software, Records, TypeOK
<1>3. CASE Hang
  BY <1>3 DEF Hang, software, history, Records, TypeOK
<1>4. CASE Poll
  BY <1>4 DEF Poll, history, TypeOK
<1>5. CASE ReadPacket
  BY <1>5 DEF ReadPacket, hardware, history, TypeOK
<1>6. CASE FinishReception
  <2>1. rxbuf \in Packets /\ rxbuf.size <= OSPREY_UDP_PACKET_CAPACITY
    BY <1>6 DEF FinishReception, Held, TypeOK, Matching
  <2> QED
    BY <1>6, <2>1 DEF FinishReception, history, Held, TypeOK
<1>7. CASE Callback
  <2>1. rxbuf \in Packets /\ rxbuf.cmd \in Requests
    BY <1>7 DEF Callback, Held, Packets
  <2>2. Numbers(srv'.regs)
    <3>1. srv' \in {srv, modbusCallback(srv, rxbuf.cmd)}
      BY <1>7 DEF Callback
    <3>2. modbusCallback(srv, rxbuf.cmd).regs
            \in {srv.regs, Execute(srv, rxbuf.cmd).regs}
      BY DEF modbusCallback
    <3> QED
      BY <2>1, <3>1, <3>2, ExecuteStoresNumbers DEF TypeOK, Numbers
  <2>3. pc' = (IF out' = None THEN "poll" ELSE "send")
    BY <1>7 DEF Callback, AndThen
  <2> QED
    BY <1>7, <2>2, <2>3 DEF Callback, hardware, TypeOK, Numbers
<1>8. CASE Await
  <2>1. spins' \in 0..SEND_CHECK_LIMIT - 1
    BY <1>8, UdpAssumption DEF Await, TypeOK
  <2>2. /\ pc = "send" /\ UNCHANGED <<pc, ep, rxbuf, out, srv, last, owed>>
        /\ \/ rx' = None /\ tx' = Quiet /\ flight' = None
           \/ UNCHANGED <<rx, tx, flight>>
    BY <1>8 DEF Await, resetHardware, hardware
  <2> QED
    BY <2>1, <2>2 DEF Quiet, TypeOK
<1>9. CASE Send
  <2>1. 0 \in 0..SEND_CHECK_LIMIT - 1
    BY UdpAssumption
  <2> QED
    BY <1>9, <2>1 DEF Send, Records, Outgoing, TypeOK
<1>10. CASE UNCHANGED vars
  BY <1>10 DEF vars, hardware, software, history, TypeOK
<1> QED
  BY <1>1, <1>2, <1>3, <1>4, <1>5, <1>6, <1>7, <1>8, <1>9, <1>10 DEF Next, Crank

-----------------------------------------------------------------------------
\* A packet that the software is at work on is one of an endpoint, of a size
\* that fits, and what is being sent is a datagram.
THEOREM UdpTypes == Spec => []TypeOK
  BY AnswerInit, AnswerStep, TypeInit, TypeStep, PTL DEF Spec

\* Every datagram that goes out is the whole answer owed to one packet.
THEOREM AnsweredAsOwedHolds == Spec => []AnsweredAsOwed
<1>1. AnswerInv => AnsweredAsOwed
  BY DEF AnswerInv
<1> QED
  BY AnswerInit, AnswerStep, <1>1, PTL DEF Spec

\* A repeated Modbus request is not executed again.
THEOREM AtMostOnceHolds == Spec => []AtMostOnce
<1>1. AnswerInv => AtMostOnce
  BY DEF AnswerInv
<1> QED
  BY AnswerInit, AnswerStep, <1>1, PTL DEF Spec
=============================================================================
