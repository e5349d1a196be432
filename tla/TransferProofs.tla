--------------------------- MODULE TransferProofs ---------------------------
(***************************************************************************)
(* Whole transfers, for any table and memory, any files that are sent, and *)
(* any number of sessions, restarts and packets under way: what a client   *)
(* was told is stored is stored, and what it fetched is what was there.    *)
(*                                                                         *)
(* The invariant follows one session.  Before the server has answered its  *)
(* first packet nothing is known of the server.  From then on no packet of *)
(* an earlier session is under way, as the network keeps the order, and    *)
(* the server is in one of four situations with respect to the blocks that *)
(* are sent: it is writing them, and prevBlock counts the ones it holds    *)
(* (Writing); it has restarted, and holds all it ever acknowledged but     *)
(* takes no more (Reset); or an error is under way to the client, before   *)
(* the acknowledgement the client waits for (Doomed) or, if that was sent  *)
(* already, after it (Dead).  Requests and replies are repeated but not    *)
(* overtaken, so the blocks under way are none before the ones it holds.   *)
(***************************************************************************)
EXTENDS FileServerProofs, TftpTransfer, SequenceTheorems

USE DEF Closed, Sizes, Full

\* The types of the queues.  The network keeps its order, so the sessions of
\* the requests under way do not decrease.
Requesting == [session : Nat, packet : Requests]
Replying   == [session : Nat, packet : Replies]

Clients ==
  [state   : {"failed", "sending", "sent", "fetching", "fetched"},
   blocks  : Seq([data : Buffer, size : Sizes]),
   current : Nat]

TransferType ==
  /\ client \in Clients
  /\ session \in Nat
  /\ toServer \in Seq(Requesting) /\ toClient \in Seq(Replying)

UpTo(q, n)   == \A i \in 1..Len(q) : q[i].session <= n
Ordered(q)   == \A i, j \in 1..Len(q) : i < j => q[i].session <= q[j].session

QueueInv ==
  TransferType /\ UpTo(toServer, session) /\ UpTo(toClient, session) /\ Ordered(toServer)

\* What a queue holds of session n.
InQueue(q, n)    == \E i \in 1..Len(q) : q[i].session = n
Only(q, n)       == \A i \in 1..Len(q) : q[i].session = n
IsError(q, n, e) == q[e].session = n /\ q[e].packet = ErrorReply
HasError(q, n)   == \E e \in 1..Len(q) : IsError(q, n, e)

Begun == client.current > 0 \/ InQueue(toClient, session)

\* The packets of an upload: the request and the blocks.
WriteRequest == [op |-> "wrq", file |-> Target, octet |-> TRUE]
BlockPacket(u, j) ==
  [op |-> "data", block |-> j, data |-> u[j].data, size |-> u[j].size]
Index(p) == IF p.op = "data" THEN p.block ELSE 0

UpRequests(q, n, u, k) ==
  \A i \in 1..Len(q) : q[i].session = n =>
    \/ q[i].packet = WriteRequest
    \/ \E j \in 1..k : q[i].packet = BlockPacket(u, j)

InOrder(q, n) ==
  \A i, j \in 1..Len(q) :
    q[i].session = n /\ q[j].session = n /\ i < j => Index(q[i].packet) <= Index(q[j].packet)

UpReplies(q, n, k) ==
  \A i \in 1..Len(q) : q[i].session = n =>
    q[i].packet = ErrorReply \/ \E j \in 0..k : q[i].packet = Ack(j)

Stored(m, u, w) ==
  \A i \in 1..w : u[i].size > 0 =>
    Full * (i - 1) < fileTable[Target].length /\ m[BlockOf(Target, Full * (i - 1))] = u[i].data

From(q, w)     == \A i \in 1..Len(q) : Index(q[i].packet) >= w
Acked(q, n, w) ==
  \A i \in 1..Len(q) : q[i].session = n => \E j \in 0..w : q[i].packet = Ack(j)

\* An error is under way before the acknowledgement the client waits for.
Doomed(q, n, k) ==
  \E e \in 1..Len(q) :
    IsError(q, n, e)
    /\ \A i \in 1..Len(q) : q[i].session = n /\ i < e => q[i].packet # Ack(k)

\* An error is under way after it.
Dead ==
  /\ client.current >= 1 /\ HasError(toClient, session) /\ fp = NULL
  /\ From(toServer, 1) /\ Stored(memory, client.blocks, client.current)

Progress(w) ==
  /\ w \in 0..client.current
  /\ Stored(memory, client.blocks, w) /\ Acked(toClient, session, w) /\ From(toServer, w)

\* The node has restarted.
Reset == fp = NULL /\ prevBlock = 0 /\ \E w \in 0..client.current : Progress(w)

Writing ==
  /\ Progress(prevBlock)
  /\ IF fp = NULL THEN prevBlock = Len(client.blocks)
     ELSE /\ fp = Target /\ offset = Full * prevBlock /\ activeMode # FA_READ
          /\ \A i \in 1..prevBlock : client.blocks[i].size = Full

UploadInv ==
  client.state = "sending" =>
    /\ client.blocks \in Uploads /\ client.current \in 0..Len(client.blocks)
    /\ UpRequests(toServer, session, client.blocks, client.current)
    /\ InOrder(toServer, session)
    /\ UpReplies(toClient, session, client.current)
    /\ Begun => /\ Only(toServer, session)
                /\ Doomed(toClient, session, client.current) \/ Dead \/ Reset \/ Writing

SentInv ==
  client.state = "sent" =>
    /\ client.blocks \in Uploads
    /\ Len(client.blocks) > 0 =>
         /\ fp = NULL /\ Stored(memory, client.blocks, Len(client.blocks))
         /\ \A i \in 1..Len(toServer) : toServer[i].packet.op = "data"

\* The packets of a download, and what the client has.
ReadRequest == [op |-> "rrq", file |-> Target, octet |-> TRUE]

Right(m, b, d, n) ==
  /\ b \in BlockNumbers /\ b >= 1 /\ Full * (b - 1) <= fileTable[Target].length
  /\ n = Fitting(Target, Full * (b - 1), Full)
  /\ n > 0 => d = m[BlockOf(Target, Full * (b - 1))]

DownRequests(q, n, k) ==
  \A i \in 1..Len(q) : q[i].session = n =>
    q[i].packet = ReadRequest \/ \E j \in 1..k : q[i].packet = Ack(j)

RightData(m, p) ==
  \E b \in BlockNumbers, d \in Buffer, s \in Sizes :
    p = Data(b, d, s) /\ (b = 0 \/ Right(m, b, d, s))

DownReplies(q, n, m) ==
  \A i \in 1..Len(q) :
    q[i].session = n /\ (\A e \in 1..Len(q) : IsError(q, n, e) => i < e) => RightData(m, q[i].packet)

FetchedBlocks ==
  /\ client.current = Len(client.blocks)
  /\ \A i \in 1..client.current :
       Right(memory, i, client.blocks[i].data, client.blocks[i].size)

Quiet == fp = NULL \/ activeMode = FA_READ

ReadingOn ==
  /\ Right(memory, prevBlock, xbuf, prevCount)
  /\ IF prevCount = Full THEN fp = Target /\ offset = Full * prevBlock ELSE fp = NULL

FetchInv ==
  client.state = "fetching" =>
    /\ FetchedBlocks
    /\ DownRequests(toServer, session, client.current)
    /\ DownReplies(toClient, session, memory)
    /\ Begun => /\ Only(toServer, session) /\ Quiet
                /\ HasError(toClient, session) \/ (fp = NULL /\ prevBlock = 0) \/ ReadingOn

FetchedInv ==
  client.state = "fetched" =>
    /\ FetchedBlocks /\ Quiet
    /\ client.current >= 1 /\ client.blocks[client.current].size < Full
    /\ \A i \in 1..Len(toServer) : toServer[i].packet.op \in {"rrq", "ack"}

TransferInv == IInv /\ QueueInv /\ UploadInv /\ SentInv /\ FetchInv /\ FetchedInv

-----------------------------------------------------------------------------
\* A queue without its first packet, and with one more.
Shifted(q, r) ==
  /\ Len(q) \in Nat /\ Len(r) \in Nat /\ Len(q) = Len(r) + 1
  /\ \A i \in 1..Len(r) : i + 1 \in 1..Len(q) /\ r[i] = q[i + 1]
Extended(q, r, e) ==
  /\ Len(q) \in Nat /\ Len(r) = Len(q) + 1
  /\ \A i \in 1..Len(q) : r[i] = q[i]
  /\ r[Len(q) + 1] = e

LEMMA TailShifts ==
  ASSUME NEW S, NEW q \in Seq(S), q # <<>>
  PROVE  /\ Tail(q) \in Seq(S) /\ Shifted(q, Tail(q))
         /\ 1 \in 1..Len(q) /\ Head(q) = q[1] /\ Head(q) \in S
<1>1. /\ Len(q) \in Nat /\ q \in [1..Len(q) -> S]
      /\ Tail(q) \in Seq(S) /\ Len(Tail(q)) = Len(q) - 1
      /\ \A i \in 1..Len(Tail(q)) : Tail(q)[i] = q[i + 1]
      /\ Len(Tail(q)) \in Nat
  BY LenProperties, HeadTailProperties
<1>2. 1 \in 1..Len(q) /\ Head(q) = q[1]
  BY <1>1
<1>3. \A i \in 1..Len(Tail(q)) : i + 1 \in 1..Len(q)
  BY <1>1
<1>4. Len(q) = Len(Tail(q)) + 1
  BY <1>1
<1>5. Head(q) \in S
  BY <1>1, <1>2
<1> QED
  BY <1>1, <1>2, <1>3, <1>4, <1>5 DEF Shifted

LEMMA AppendExtends ==
  ASSUME NEW S, NEW q \in Seq(S), NEW e \in S
  PROVE  Append(q, e) \in Seq(S) /\ Extended(q, Append(q, e), e)
  BY LenProperties, AppendProperties DEF Extended

(* What every packet of a queue satisfies, those behind the first do.      *)
LEMMA ShiftKeeps ==
  ASSUME NEW q, NEW r, Shifted(q, r), NEW n
  PROVE  /\ Only(q, n) => Only(r, n)
         /\ InQueue(r, n) => InQueue(q, n)
         /\ \A u, k : UpRequests(q, n, u, k) => UpRequests(r, n, u, k)
         /\ InOrder(q, n) => InOrder(r, n)
         /\ \A k : UpReplies(q, n, k) => UpReplies(r, n, k)
         /\ \A w : From(q, w) => From(r, w)
         /\ \A w : Acked(q, n, w) => Acked(r, n, w)
         /\ \A k : DownRequests(q, n, k) => DownRequests(r, n, k)
<1>1. Only(q, n) => Only(r, n)
  BY DEF Shifted, Only
<1>2. InQueue(r, n) => InQueue(q, n)
  BY DEF Shifted, InQueue
<1>3. ASSUME NEW u, NEW k, UpRequests(q, n, u, k) PROVE UpRequests(r, n, u, k)
  BY <1>3 DEF Shifted, UpRequests
<1>4. ASSUME InOrder(q, n) PROVE InOrder(r, n)
  <2>1. \A i, j \in 1..Len(r) : i < j => i + 1 < j + 1
    OBVIOUS
  <2> QED
    BY <1>4, <2>1 DEF Shifted, InOrder
<1>5. ASSUME NEW k, UpReplies(q, n, k) PROVE UpReplies(r, n, k)
  BY <1>5 DEF Shifted, UpReplies
<1>6. ASSUME NEW w, From(q, w) PROVE From(r, w)
  BY <1>6 DEF Shifted, From
<1>7. ASSUME NEW w, Acked(q, n, w) PROVE Acked(r, n, w)
  BY <1>7 DEF Shifted, Acked
<1>8. ASSUME NEW k, DownRequests(q, n, k) PROVE DownRequests(r, n, k)
  BY <1>8 DEF Shifted, DownRequests
<1> QED
  BY <1>1, <1>2, <1>3, <1>4, <1>5, <1>6, <1>7, <1>8

(* An error stays under way until it is received itself.                   *)
LEMMA ShiftKeepsErrors ==
  ASSUME NEW q, NEW r, Shifted(q, r), NEW n, ~IsError(q, n, 1)
  PROVE  /\ HasError(q, n) => HasError(r, n)
         /\ \A k : Doomed(q, n, k) => Doomed(r, n, k)
         /\ \A m : DownReplies(q, n, m) => DownReplies(r, n, m)
<1>1. ASSUME NEW e \in 1..Len(q), IsError(q, n, e)
      PROVE  e - 1 \in 1..Len(r) /\ IsError(r, n, e - 1)
  <2>1. e # 1
    BY <1>1
  <2>2. e - 1 \in 1..Len(r) /\ (e - 1) + 1 = e
    BY <2>1 DEF Shifted
  <2>3. r[e - 1] = q[e]
    BY <2>2 DEF Shifted
  <2> QED
    BY <2>2, <2>3, <1>1 DEF IsError
<1>2. HasError(q, n) => HasError(r, n)
  BY <1>1 DEF HasError
<1>3. ASSUME NEW k, Doomed(q, n, k) PROVE Doomed(r, n, k)
  <2>1. PICK e \in 1..Len(q) :
          IsError(q, n, e)
          /\ \A i \in 1..Len(q) : q[i].session = n /\ i < e => q[i].packet # Ack(k)
    BY <1>3 DEF Doomed
  <2>2. e - 1 \in 1..Len(r) /\ IsError(r, n, e - 1)
    BY <1>1, <2>1
  <2>3. ASSUME NEW i \in 1..Len(r), r[i].session = n, i < e - 1
        PROVE  r[i].packet # Ack(k)
    <3>1. i + 1 \in 1..Len(q) /\ r[i] = q[i + 1]
      BY DEF Shifted
    <3>2. i + 1 < e
      BY <2>3
    <3> QED
      BY <2>1, <2>3, <3>1, <3>2
  <2> QED
    BY <2>2, <2>3 DEF Doomed
<1>4. ASSUME NEW m, DownReplies(q, n, m) PROVE DownReplies(r, n, m)
  <2>1. ASSUME NEW i \in 1..Len(r), r[i].session = n,
               \A e \in 1..Len(r) : IsError(r, n, e) => i < e
        PROVE  RightData(m, r[i].packet)
    <3>1. i + 1 \in 1..Len(q) /\ r[i] = q[i + 1]
      BY DEF Shifted
    <3>2. ASSUME NEW e \in 1..Len(q), IsError(q, n, e) PROVE i + 1 < e
      <4>1. e - 1 \in 1..Len(r) /\ IsError(r, n, e - 1)
        BY <1>1, <3>2
      <4>2. i < e - 1
        BY <2>1, <4>1
      <4> QED
        BY <4>2
    <3> QED
      BY <2>1, <3>1, <3>2, <1>4 DEF DownReplies
  <2> QED
    BY <2>1 DEF DownReplies
<1> QED
  BY <1>2, <1>3, <1>4

(* What one more packet satisfies too, every packet still does.            *)
LEMMA ExtendKeeps ==
  ASSUME NEW q, NEW r, NEW e, Extended(q, r, e), NEW n
  PROVE  /\ Only(q, n) /\ e.session = n => Only(r, n)
         /\ \A u, k : UpRequests(q, n, u, k) /\ e.session = n
                      /\ (e.packet = WriteRequest \/ \E j \in 1..k : e.packet = BlockPacket(u, j))
                      => UpRequests(r, n, u, k)
         /\ \A k : UpReplies(q, n, k)
                   /\ (e.session = n => e.packet = ErrorReply \/ \E j \in 0..k : e.packet = Ack(j))
                   => UpReplies(r, n, k)
         /\ \A w : From(q, w) /\ Index(e.packet) >= w => From(r, w)
         /\ \A w : Acked(q, n, w) /\ (\E j \in 0..w : e.packet = Ack(j)) => Acked(r, n, w)
         /\ \A k : DownRequests(q, n, k)
                   /\ (e.packet = ReadRequest \/ \E j \in 1..k : e.packet = Ack(j))
                   => DownRequests(r, n, k)
<1>1. \A i \in 1..Len(r) : (i \in 1..Len(q) /\ r[i] = q[i]) \/ r[i] = e
  BY DEF Extended
<1>2. Only(q, n) /\ e.session = n => Only(r, n)
  BY <1>1 DEF Only
<1>3. ASSUME NEW u, NEW k, UpRequests(q, n, u, k),
             e.packet = WriteRequest \/ \E j \in 1..k : e.packet = BlockPacket(u, j)
      PROVE  UpRequests(r, n, u, k)
  BY <1>1, <1>3 DEF UpRequests
<1>4. ASSUME NEW k, UpReplies(q, n, k),
             e.session = n => e.packet = ErrorReply \/ \E j \in 0..k : e.packet = Ack(j)
      PROVE  UpReplies(r, n, k)
  BY <1>1, <1>4 DEF UpReplies
<1>5. ASSUME NEW w, From(q, w), Index(e.packet) >= w PROVE From(r, w)
  BY <1>1, <1>5 DEF From
<1>6. ASSUME NEW w, Acked(q, n, w), \E j \in 0..w : e.packet = Ack(j) PROVE Acked(r, n, w)
  BY <1>1, <1>6 DEF Acked
<1>7. ASSUME NEW k, DownRequests(q, n, k),
             e.packet = ReadRequest \/ \E j \in 1..k : e.packet = Ack(j)
      PROVE  DownRequests(r, n, k)
  BY <1>1, <1>7 DEF DownRequests
<1> QED
  BY <1>2, <1>3, <1>4, <1>5, <1>6, <1>7

LEMMA ExtendKeepsErrors ==
  ASSUME NEW q, NEW r, NEW e, Extended(q, r, e), NEW n
  PROVE  /\ HasError(q, n) => HasError(r, n)
         /\ \A k : Doomed(q, n, k) => Doomed(r, n, k)
         /\ \A m : DownReplies(q, n, m)
                   /\ (e.session = n => e.packet = ErrorReply \/ RightData(m, e.packet) \/ HasError(q, n))
                   => DownReplies(r, n, m)
         /\ e.session = n /\ e.packet = ErrorReply => HasError(r, n)
         /\ \A k : /\ e.session = n /\ e.packet = ErrorReply
                   /\ \A i \in 1..Len(q) : q[i].session = n => q[i].packet # Ack(k)
                   => Doomed(r, n, k)
<1>1. \A i \in 1..Len(q) : i \in 1..Len(r) /\ r[i] = q[i]
  BY DEF Extended
<1>2. Len(q) + 1 \in 1..Len(r) /\ r[Len(q) + 1] = e /\ Len(q) \in Nat /\ Len(r) = Len(q) + 1
  BY DEF Extended
<1>3. HasError(q, n) => HasError(r, n)
  BY <1>1 DEF HasError, IsError
<1>4. ASSUME NEW k, Doomed(q, n, k) PROVE Doomed(r, n, k)
  <2>1. PICK x \in 1..Len(q) :
          IsError(q, n, x)
          /\ \A i \in 1..Len(q) : q[i].session = n /\ i < x => q[i].packet # Ack(k)
    BY <1>4 DEF Doomed
  <2>2. x \in 1..Len(r) /\ IsError(r, n, x)
    BY <1>1, <2>1 DEF IsError
  <2>3. ASSUME NEW i \in 1..Len(r), r[i].session = n, i < x PROVE r[i].packet # Ack(k)
    <3>1. i \in 1..Len(q)
      BY <1>2, <2>3
    <3> QED
      BY <3>1, <2>1, <2>3, <1>1
  <2> QED
    BY <2>2, <2>3 DEF Doomed
<1>5. ASSUME NEW m, DownReplies(q, n, m),
             e.session = n => e.packet = ErrorReply \/ RightData(m, e.packet) \/ HasError(q, n)
      PROVE  DownReplies(r, n, m)
  <2>1. ASSUME NEW i \in 1..Len(r), r[i].session = n,
               \A x \in 1..Len(r) : IsError(r, n, x) => i < x
        PROVE  RightData(m, r[i].packet)
    <3>1. \A x \in 1..Len(q) : IsError(q, n, x) => i < x
      BY <2>1, <1>1 DEF IsError
    <3>2. CASE i \in 1..Len(q)
      BY <3>1, <3>2, <1>1, <1>5, <2>1 DEF DownReplies
    <3>3. CASE i = Len(q) + 1
      <4>1. r[i] = e
        BY <3>3, <1>2
      <4>2. e.packet # ErrorReply
        BY <4>1, <2>1 DEF IsError
      <4>3. ~HasError(q, n)
        BY <3>1, <3>3, <1>2 DEF HasError
      <4> QED
        BY <4>1, <4>2, <4>3, <2>1, <1>5
    <3> QED
      BY <3>2, <3>3, <1>2
  <2> QED
    BY <2>1 DEF DownReplies
<1>6. e.session = n /\ e.packet = ErrorReply => IsError(r, n, Len(q) + 1)
  BY <1>2 DEF IsError
<1>7. ASSUME NEW k, e.session = n, e.packet = ErrorReply,
             \A i \in 1..Len(q) : q[i].session = n => q[i].packet # Ack(k)
      PROVE  Doomed(r, n, k)
  <2>1. ASSUME NEW i \in 1..Len(r), r[i].session = n, i < Len(q) + 1
        PROVE  r[i].packet # Ack(k)
    <3>1. i \in 1..Len(q)
      BY <1>2, <2>1
    <3> QED
      BY <3>1, <1>1, <1>7, <2>1
  <2> QED
    BY <1>2, <1>6, <1>7, <2>1 DEF Doomed
<1> QED
  BY <1>2, <1>3, <1>4, <1>5, <1>6, <1>7 DEF HasError

LEMMA RequestIndex ==
  ASSUME NEW q, NEW n, NEW u, NEW k \in Nat, UpRequests(q, n, u, k)
  PROVE  \A i \in 1..Len(q) : q[i].session = n => Index(q[i].packet) \in 0..k
<1>1. Index(WriteRequest) = 0
  BY DEF Index, WriteRequest
<1>2. \A j \in 1..k : Index(BlockPacket(u, j)) = j
  BY DEF Index, BlockPacket
<1>3. 0 \in 0..k /\ \A j \in 1..k : j \in 0..k
  OBVIOUS
<1> QED
  BY <1>1, <1>2, <1>3 DEF UpRequests

LEMMA ExtendKeepsOrder ==
  ASSUME NEW q, NEW r, NEW e, Extended(q, r, e), NEW n, NEW u, NEW k \in Nat,
         UpRequests(q, n, u, k), InOrder(q, n), Index(e.packet) \in Nat, Index(e.packet) >= k
  PROVE  InOrder(r, n)
<1>1. \A i \in 1..Len(q) : r[i] = q[i]
  BY DEF Extended
<1>2. \A i \in 1..Len(q) : q[i].session = n => Index(q[i].packet) \in 0..k
  BY RequestIndex
<1>3. ASSUME NEW i \in 1..Len(r), NEW j \in 1..Len(r),
             r[i].session = n, r[j].session = n, i < j
      PROVE  Index(r[i].packet) <= Index(r[j].packet)
  <2>1. i \in 1..Len(q)
    BY <1>3 DEF Extended
  <2>2. CASE j \in 1..Len(q)
    BY <2>1, <2>2, <1>1, <1>3 DEF InOrder
  <2>3. CASE j = Len(q) + 1
    <3>1. r[j] = e
      BY <2>3 DEF Extended
    <3>2. Index(r[i].packet) \in 0..k
      BY <2>1, <1>1, <1>2, <1>3
    <3> QED
      BY <3>1, <3>2
  <2> QED
    BY <2>2, <2>3, <1>3 DEF Extended
<1> QED
  BY <1>3 DEF InOrder

(* The bounds of what is asked for and acknowledged only widen.            *)
LEMMA Widens ==
  ASSUME NEW q, NEW n, NEW u, NEW k \in Nat, NEW l \in Nat, k <= l
  PROVE  /\ UpRequests(q, n, u, k) => UpRequests(q, n, u, l)
         /\ UpReplies(q, n, k) => UpReplies(q, n, l)
         /\ DownRequests(q, n, k) => DownRequests(q, n, l)
<1>1. (\A j \in 1..k : j \in 1..l) /\ (\A j \in 0..k : j \in 0..l)
  OBVIOUS
<1>2. UpRequests(q, n, u, k) => UpRequests(q, n, u, l)
  BY <1>1 DEF UpRequests
<1>3. UpReplies(q, n, k) => UpReplies(q, n, l)
  BY <1>1 DEF UpReplies
<1>4. DownRequests(q, n, k) => DownRequests(q, n, l)
  BY <1>1 DEF DownRequests
<1> QED
  BY <1>2, <1>3, <1>4

(* The acknowledgement the client waits for tells how far the server is.   *)
LEMMA AckTells ==
  ASSUME NEW q, NEW n, NEW w \in Nat, NEW k \in Nat, Acked(q, n, w)
  PROVE  /\ \A i \in 1..Len(q) : q[i].session = n /\ q[i].packet = Ack(k) => k <= w
         /\ k > w => \A i \in 1..Len(q) : q[i].session = n => q[i].packet # Ack(k)
         /\ ~HasError(q, n)
<1>1. \A i, j \in Nat : Ack(i) = Ack(j) => i = j
  <2>1. \A i : Ack(i).block = i
    BY DEF Ack
  <2> QED
    BY <2>1
<1>2. ASSUME NEW i \in 1..Len(q), q[i].session = n, q[i].packet = Ack(k) PROVE k <= w
  <2>1. PICK j \in 0..w : q[i].packet = Ack(j)
    BY <1>2 DEF Acked
  <2>2. j \in Nat
    OBVIOUS
  <2>3. j = k
    BY <2>1, <2>2, <1>1, <1>2
  <2> QED
    BY <2>1, <2>3
<1>3. k > w => ~(k <= w)
  OBVIOUS
<1>4. ASSUME NEW i \in 1..Len(q), q[i].session = n PROVE q[i].packet # ErrorReply
  <2>1. \A j : Ack(j) # ErrorReply
    BY DEF Ack, ErrorReply
  <2> QED
    BY <1>4, <2>1 DEF Acked
<1> QED
  BY <1>2, <1>3, <1>4 DEF HasError, IsError

-----------------------------------------------------------------------------
(***************************************************************************)
(* The memory of the file that is sent: the i-th block of the file.        *)
(***************************************************************************)
Lasts(i) == i \in Nat /\ i >= 1 /\ Full * (i - 1) < fileTable[Target].length

At(i) == BlockOf(Target, Full * (i - 1))

\* Two memories that agree on the first w blocks of the file, and on all.
SameUpTo(m, m2, w) == \A i \in 1..w : Lasts(i) => m2[At(i)] = m[At(i)]
SameFile(m, m2)    == \A i \in Nat : Lasts(i) => m2[At(i)] = m[At(i)]

LEMMA TargetFacts ==
  /\ Target \in Files /\ Target # ParamFile /\ Target # NULL
  /\ fileTable[Target].length \in Nat \ {0} /\ fileTable[Target].base \in Nat
<1>1. Target \in Files /\ Target # ParamFile
  BY TargetAssumption
<1>2. Target # NULL
  BY <1>1, NamesAssumption
<1> QED
  BY <1>1, <1>2, TableFacts

LEMMA TargetBlock ==
  ASSUME NEW i, Lasts(i)
  PROVE  /\ At(i) = fileTable[Target].base + (i - 1)
         /\ At(i) \in Blocks /\ At(i) \notin Sector(ParamBlock)
<1>1. i \in Nat /\ i >= 1 /\ 2 * (i - 1) < fileTable[Target].length
  BY DEF Lasts
<1>2. i - 1 \in Nat /\ 2 * (i - 1) \in Nat
  BY <1>1
<1>3. (2 * (i - 1)) \div 2 = i - 1
  BY <1>2
<1>4. 2 * (i - 1) \in 0..fileTable[Target].length
      /\ 2 * (i - 1) \in 0..(fileTable[Target].length - 1)
  BY <1>1, <1>2, TargetFacts
<1>5. At(i) \in Blocks
  BY <1>1, <1>4, TargetFacts, BlockOfType DEF At
<1>6. At(i) \notin Sector(ParamBlock)
  BY <1>4, TargetAssumption DEF At, ParamBlock
<1> QED
  BY <1>3, <1>5, <1>6 DEF At, BlockOf

LEMMA StoredSame ==
  ASSUME NEW m, NEW m2, NEW u, NEW w \in Nat, SameUpTo(m, m2, w), Stored(m, u, w)
  PROVE  Stored(m2, u, w)
<1>1. ASSUME NEW i \in 1..w, u[i].size > 0
      PROVE  2 * (i - 1) < fileTable[Target].length
             /\ m2[BlockOf(Target, 2 * (i - 1))] = u[i].data
  <2>1. /\ 2 * (i - 1) < fileTable[Target].length
        /\ m[BlockOf(Target, 2 * (i - 1))] = u[i].data
    BY <1>1 DEF Stored
  <2>2. Lasts(i)
    BY <2>1 DEF Lasts
  <2> QED
    BY <2>1, <2>2 DEF SameUpTo, At
<1> QED
  BY <1>1 DEF Stored

LEMMA SameFileUpTo ==
  ASSUME NEW m, NEW m2, NEW w \in Nat, SameFile(m, m2) PROVE SameUpTo(m, m2, w)
<1>1. \A i \in 1..w : i \in Nat
  OBVIOUS
<1> QED
  BY <1>1 DEF SameFile, SameUpTo

LEMMA RightSame ==
  ASSUME NEW m, NEW m2, SameFile(m, m2), NEW b, NEW d, NEW s, Right(m, b, d, s)
  PROVE  Right(m2, b, d, s)
<1>1. b \in Nat /\ b >= 1 /\ 2 * (b - 1) <= fileTable[Target].length
  BY LastBlockPositive DEF Right, BlockNumbers
<1>2. s > 0 => Lasts(b)
  <2>1. 2 * (b - 1) \in 0..fileTable[Target].length /\ 2 \in Sizes
    BY <1>1, TargetFacts
  <2>2. /\ s \in 0..2
        /\ s # 0 => 2 * (b - 1) < fileTable[Target].length
    BY <2>1, TargetFacts, FittingBounds DEF Right
  <2> QED
    BY <1>1, <2>2 DEF Lasts
<1>3. s > 0 => m2[At(b)] = m[At(b)]
  BY <1>1, <1>2 DEF SameFile
<1> QED
  BY <1>3 DEF Right, At

LEMMA RepliesSame ==
  ASSUME NEW m, NEW m2, SameFile(m, m2), NEW q, NEW n, DownReplies(q, n, m)
  PROVE  DownReplies(q, n, m2)
<1>1. \A p : RightData(m, p) => RightData(m2, p)
  BY RightSame DEF RightData
<1> QED
  BY <1>1 DEF DownReplies

-----------------------------------------------------------------------------
(* Writing the parameters, whole or not, leaves the file alone.            *)
LEMMA ParamRemains ==
  ASSUME memory \in [Blocks -> Content], NEW m \in Remains(ParamFile, ParamBlock)
  PROVE  SameFile(memory, m)
<1> SUFFICES ASSUME NEW i \in Nat, Lasts(i) PROVE m[At(i)] = memory[At(i)]
  BY DEF SameFile
<1>1. At(i) \in Blocks /\ At(i) \notin Sector(ParamBlock)
  BY TargetBlock
<1>2. At(i) # ParamBlock
  <2>1. ParamBlock \in Sector(ParamBlock)
    BY ParamBlockFacts DEF Sector
  <2> QED
    BY <1>1, <2>1
<1>3. /\ Prepared(ParamFile, ParamBlock)[At(i)] = memory[At(i)]
      /\ [Prepared(ParamFile, ParamBlock) EXCEPT ![ParamBlock] = Torn][At(i)] = memory[At(i)]
  BY <1>1, <1>2 DEF Prepared
<1>4. [c \in Blocks |-> IF Erases(ParamFile, ParamBlock) /\ c \in Sector(ParamBlock)
                          THEN Torn ELSE memory[c]][At(i)] = memory[At(i)]
  BY <1>1
<1> QED
  BY <1>3, <1>4 DEF Remains

LEMMA ParamWrite ==
  ASSUME memory \in [Blocks -> Content], NEW v,
         NEW r \in f_write(ParamFile, 0, v, 1)
  PROVE  SameFile(memory, r.memory)
<1> DEFINE n      == Fitting(ParamFile, 0, 1)
           wanted == IF n = 1 THEN v ELSE Torn
           got    == Programmed(ParamFile, ParamBlock, wanted)
           whole  == [memory |-> [Prepared(ParamFile, ParamBlock) EXCEPT ![ParamBlock] = got],
                      n |-> IF got = wanted THEN n ELSE 0, ok |-> got = wanted]
           failed == {[memory |-> m, n |-> 0, ok |-> FALSE] :
                        m \in IF MemoryFails THEN Remains(ParamFile, ParamBlock) ELSE {}}
           none   == [memory |-> memory, n |-> 0, ok |-> TRUE]
<1>1. r = none \/ r = whole \/ r \in failed
  BY DEF f_write, ParamBlock
<1>2. CASE r = none
  BY <1>2 DEF SameFile
<1>3. CASE r \in failed
  <2>1. PICK m \in (IF MemoryFails THEN Remains(ParamFile, ParamBlock) ELSE {}) :
          r = [memory |-> m, n |-> 0, ok |-> FALSE]
    BY <1>3
  <2>2. m \in Remains(ParamFile, ParamBlock) /\ r.memory = m
    BY <2>1
  <2> QED
    BY <2>2, ParamRemains
<1>4. CASE r = whole
  <2>1. r.memory = [Prepared(ParamFile, ParamBlock) EXCEPT ![ParamBlock] = got]
    BY <1>4
  <2> HIDE DEF got
  <2> SUFFICES ASSUME NEW i \in Nat, Lasts(i) PROVE r.memory[At(i)] = memory[At(i)]
    BY DEF SameFile
  <2>2. At(i) \in Blocks /\ At(i) \notin Sector(ParamBlock)
    BY TargetBlock
  <2>3. ParamBlock \in Sector(ParamBlock)
    BY ParamBlockFacts DEF Sector
  <2> QED
    BY <2>1, <2>2, <2>3 DEF Prepared
<1> QED
  BY <1>1, <1>2, <1>3, <1>4

(* Writing block j of the file leaves the blocks before it alone: if it    *)
(* erases a sector it is the sector's first block.                         *)
LEMMA EarlierBlock ==
  ASSUME NEW j, Lasts(j), memory \in [Blocks -> Content], NEW i \in 1..(j - 1)
  PROVE  /\ At(i) \in Blocks /\ At(i) # At(j)
         /\ ~(Erases(Target, At(j)) /\ At(i) \in Sector(At(j)))
<1>1. j \in Nat /\ i \in Nat /\ i >= 1 /\ i < j /\ 2 * (j - 1) < fileTable[Target].length
  BY DEF Lasts
<1>2. Lasts(i)
  BY <1>1, TargetFacts DEF Lasts
<1> DEFINE s == SectorBlocks
           a == At(i)
           b == At(j)
<1>3. /\ a = fileTable[Target].base + (i - 1) /\ b = fileTable[Target].base + (j - 1)
      /\ a \in Blocks /\ b \in Blocks
  BY <1>2, TargetBlock
<1>4. s \in Nat \ {0} /\ a \in Nat /\ b \in Nat /\ a < b
  BY <1>1, <1>3, TargetFacts, BlocksAssumption
<1> HIDE DEF a, b, s
<1>5. b % s = 0 => a \div s # b \div s
  <2> SUFFICES ASSUME b % s = 0, a \div s = b \div s PROVE FALSE
    OBVIOUS
  <2>1. b = (s * (b \div s)) + (b % s) /\ a = (s * (a \div s)) + (a % s)
    BY <1>4
  <2>2. a % s >= 0 /\ a % s \in Int /\ a \div s \in Int
    BY <1>4
  <2>3. s * (a \div s) \in Int
    BY <1>4, <2>2
  <2> QED
    BY <2>1, <2>2, <2>3, <1>4
<1>6. ~(Erases(Target, b) /\ a \in Sector(b))
  BY <1>5 DEF Erases, Sector, s
<1> QED
  BY <1>3, <1>4, <1>6 DEF a, b

LEMMA EarlierKept ==
  ASSUME NEW j, Lasts(j), memory \in [Blocks -> Content]
  PROVE  /\ \A x : SameUpTo(memory, [Prepared(Target, At(j)) EXCEPT ![At(j)] = x], j - 1)
         /\ \A m \in Remains(Target, At(j)) : SameUpTo(memory, m, j - 1)
<1>1. ASSUME NEW i \in 1..(j - 1)
      PROVE  /\ At(i) \in Blocks /\ At(i) # At(j)
             /\ ~(Erases(Target, At(j)) /\ At(i) \in Sector(At(j)))
  BY EarlierBlock
<1>2. ASSUME NEW x, NEW i \in 1..(j - 1)
      PROVE  [Prepared(Target, At(j)) EXCEPT ![At(j)] = x][At(i)] = memory[At(i)]
  BY <1>1 DEF Prepared
<1>3. ASSUME NEW i \in 1..(j - 1)
      PROVE  [c \in Blocks |-> IF Erases(Target, At(j)) /\ c \in Sector(At(j))
                                 THEN Torn ELSE memory[c]][At(i)] = memory[At(i)]
  BY <1>1
<1>4. \A x : SameUpTo(memory, [Prepared(Target, At(j)) EXCEPT ![At(j)] = x], j - 1)
  BY <1>2 DEF SameUpTo
<1>5. SameUpTo(memory, memory, j - 1)
  BY DEF SameUpTo
<1>6. SameUpTo(memory, [c \in Blocks |-> IF Erases(Target, At(j)) /\ c \in Sector(At(j))
                                           THEN Torn ELSE memory[c]], j - 1)
  BY <1>3 DEF SameUpTo
<1> QED
  BY <1>4, <1>5, <1>6 DEF Remains

-----------------------------------------------------------------------------
(***************************************************************************)
(* What the server does with the packets of the client.                    *)
(***************************************************************************)
LEMMA UploadType ==
  ASSUME NEW u \in Uploads
  PROVE  /\ u \in Seq([data : Values, size : Sizes])
         /\ Len(u) \in Nat /\ Len(u) <= LastBlock
         /\ \A i \in 1..Len(u) : /\ u[i].data \in Values /\ u[i].size \in Sizes
                                 /\ u[i].size < Full <=> i = Len(u)
<1>1. /\ u \in Seq([data : Values, size : Sizes]) /\ Len(u) <= LastBlock
      /\ \A i \in 1..Len(u) : u[i].size < 2 <=> i = Len(u)
  BY UploadsAssumption
<1>2. \A i \in 1..Len(u) : u[i] \in [data : Values, size : Sizes]
  BY <1>1, ElementOfSeq
<1>3. Len(u) \in Nat
  BY <1>1, LenProperties
<1> QED
  BY <1>1, <1>2, <1>3

(* The write request opens the file, whatever was going on before.         *)
LEMMA ServeWrite ==
  ASSUME IInv, tftpHandler(WriteRequest)
  PROVE  /\ fp' = Target /\ offset' = 0 /\ prevBlock' = 0 /\ activeMode' # FA_READ
         /\ memory' = memory /\ reply' = Ack(0)
<1> DEFINE p      == WriteRequest
           mode   == FA_WRITE \cup FA_CREATE_ALWAYS
           opened == f_open(Target, mode, IF fp # NULL THEN Closed ELSE offset)
<1>1. p.op = "wrq" /\ p.octet = TRUE /\ p.file = Target
  BY DEF WriteRequest
<1>2. Request(p)
  BY <1>1 DEF tftpHandler, BadType
<1>3. (IF fp # NULL THEN Closed ELSE offset) = -1
  BY DEF IInv, HandlesAgree
<1>4. mode # FA_WRITE /\ mode # FA_READ
  BY DEF FA_READ, FA_WRITE, FA_CREATE_ALWAYS
<1>5. opened.fr = "FR_OK" /\ opened.offset = 0
  BY <1>3, <1>4, TargetFacts DEF f_open, Refuses
<1> QED
  BY <1>1, <1>2, <1>4, <1>5 DEF Request

LEMMA BlockIs ==
  ASSUME NEW u \in Uploads, NEW j \in 1..Len(u)
  PROVE  LET p == BlockPacket(u, j)
         IN  /\ p.op = "data" /\ p.block = j /\ p.data = u[j].data /\ p.size = u[j].size
             /\ p.data \in Values /\ p.size \in Sizes /\ j \in Nat /\ j >= 1 /\ j <= LastBlock
             /\ Index(p) = j
<1>1. Len(u) \in Nat /\ Len(u) <= LastBlock /\ LastBlock \in Nat
      /\ u[j].data \in Values /\ u[j].size \in Sizes
  BY UploadType, LastBlockPositive
<1> QED
  BY <1>1 DEF BlockPacket, Index

(* A block that was received before, and one that is not yet expected.     *)
LEMMA ServeAgain ==
  ASSUME IInv, NEW u \in Uploads, NEW j \in 1..Len(u), tftpHandler(BlockPacket(u, j)),
         j = prevBlock
  PROVE  /\ reply' = Ack(j)
         /\ UNCHANGED <<memory, offset, activeMode, fp, prevBlock>>
<1>1. BlockPacket(u, j).op = "data" /\ BlockPacket(u, j).block = j
  BY BlockIs
<1> QED
  BY <1>1 DEF tftpHandler, DataAgain, DataStray, DataNext, Repeats

LEMMA ServeStray ==
  ASSUME IInv, NEW u \in Uploads, NEW j \in 1..Len(u), tftpHandler(BlockPacket(u, j)),
         j > prevBlock + 1
  PROVE  /\ reply' = NoReply
         /\ UNCHANGED <<memory, offset, activeMode, fp, prevBlock>>
<1>1. /\ BlockPacket(u, j).op = "data" /\ BlockPacket(u, j).block = j
      /\ j \in Nat /\ j <= LastBlock
  BY BlockIs
<1>2. prevBlock \in Nat /\ LastBlock \in Nat
  BY Reading, LastBlockPositive DEF BlockNumbers
<1>3. j # prevBlock /\ j # prevBlock + 1 /\ prevBlock # LastBlock
  BY <1>1, <1>2
<1> QED
  BY <1>1, <1>3 DEF tftpHandler, DataAgain, DataStray, DataNext, Repeats, Follows

(* A block that finds no file open writes nothing.                         *)
LEMMA ServeNull ==
  ASSUME IInv, NEW p \in Requests, p.op = "data", tftpHandler(p), fp = NULL
  PROVE  fp' = NULL /\ memory' = memory
<1> DEFINE none     == [memory |-> memory, n |-> 0, ok |-> TRUE]
           refused  == [memory |-> memory, n |-> 0, ok |-> FALSE]
           writable == offset # Closed /\ activeMode # FA_READ
           results  == IF p.size = 0 THEN {none}
                       ELSE IF writable THEN f_write(fp, offset, p.data, p.size)
                       ELSE {refused}
<1>1. offset = -1
  BY DEF IInv, HandlesAgree
<1>2. CASE DataAgain(p) \/ DataStray(p)
  BY <1>2 DEF DataAgain, DataStray
<1>3. CASE DataNext(p)
  <2>1. PICK r \in results :
          /\ memory' = r.memory
          /\ IF r.ok /\ r.n = p.size
               THEN reply' = Ack(p.block) /\ UNCHANGED xbuf
               ELSE ReplyError
          /\ IF fp # NULL /\ p.size < Full THEN CloseFile
             ELSE /\ UNCHANGED fp
                  /\ offset' = IF offset = Closed THEN offset ELSE offset + r.n
    BY <1>3 DEF DataNext
  <2>2. r = IF p.size = 0 THEN none ELSE refused
    BY <2>1, <1>1
  <2> QED
    BY <2>1, <2>2
<1> QED
  BY <1>2, <1>3 DEF tftpHandler

(* A block that finds no file open: it writes nothing, and only an empty   *)
(* one is acknowledged.                                                    *)
LEMMA ServeClosed ==
  ASSUME IInv, NEW u \in Uploads, NEW j \in 1..Len(u), tftpHandler(BlockPacket(u, j)),
         fp = NULL
  PROVE  /\ fp' = NULL /\ memory' = memory
         /\ j = prevBlock + 1 =>
              prevBlock' = j /\ reply' = IF u[j].size = 0 THEN Ack(j) ELSE ErrorReply
<1> DEFINE p        == BlockPacket(u, j)
           none     == [memory |-> memory, n |-> 0, ok |-> TRUE]
           refused  == [memory |-> memory, n |-> 0, ok |-> FALSE]
           writable == offset # Closed /\ activeMode # FA_READ
           results  == IF p.size = 0 THEN {none}
                       ELSE IF writable THEN f_write(fp, offset, p.data, p.size)
                       ELSE {refused}
<1>1. p.op = "data" /\ p.block = j /\ p.size = u[j].size /\ p.size \in Sizes
  BY BlockIs
<1>2. offset = -1
  BY DEF IInv, HandlesAgree
<1>3. prevBlock \in Nat
  BY Reading, LastBlockPositive DEF BlockNumbers
<1>4. CASE DataAgain(p) \/ DataStray(p)
  <2>1. j # prevBlock + 1
    BY <1>1, <1>3, <1>4 DEF DataAgain, DataStray, Repeats, Follows
  <2> QED
    BY <1>4, <2>1 DEF DataAgain, DataStray
<1>5. CASE DataNext(p)
  <2>1. PICK r \in results :
          /\ memory' = r.memory
          /\ IF r.ok /\ r.n = p.size
               THEN reply' = Ack(p.block) /\ UNCHANGED xbuf
               ELSE ReplyError
          /\ IF fp # NULL /\ p.size < Full THEN CloseFile
             ELSE /\ UNCHANGED fp
                  /\ offset' = IF offset = Closed THEN offset ELSE offset + r.n
    BY <1>5 DEF DataNext
  <2>2. r = IF p.size = 0 THEN none ELSE refused
    BY <2>1, <1>2
  <2>3. memory' = memory /\ fp' = NULL /\ r.n = 0 /\ (r.ok <=> p.size = 0)
    BY <2>1, <2>2
  <2>4. prevBlock' = j
    BY <1>1, <1>5 DEF DataNext
  <2>5. reply' = IF u[j].size = 0 THEN Ack(j) ELSE ErrorReply
    BY <2>1, <2>3, <1>1 DEF ReplyError
  <2> QED
    BY <2>3, <2>4, <2>5
<1> QED
  BY <1>1, <1>4, <1>5 DEF tftpHandler

(* The next block of a file that is open for writing: it is stored, where  *)
(* it belongs, or refused, and what was stored before is still there.      *)
LEMMA ServeNext ==
  ASSUME IInv, NEW u \in Uploads, NEW j \in 1..Len(u), tftpHandler(BlockPacket(u, j)),
         fp = Target, offset = Full * prevBlock, activeMode # FA_READ, j = prevBlock + 1
  PROVE  \/ reply' = ErrorReply
         \/ /\ reply' = Ack(j) /\ prevBlock' = j
            /\ SameUpTo(memory, memory', j - 1)
            /\ u[j].size > 0 => Lasts(j) /\ memory'[At(j)] = u[j].data
            /\ u[j].size < Full => fp' = NULL
            /\ u[j].size = Full => fp' = Target /\ offset' = Full * j /\ activeMode' # FA_READ
<1> DEFINE p        == BlockPacket(u, j)
           none     == [memory |-> memory, n |-> 0, ok |-> TRUE]
           refused  == [memory |-> memory, n |-> 0, ok |-> FALSE]
           writable == offset # Closed /\ activeMode # FA_READ
           results  == IF p.size = 0 THEN {none}
                       ELSE IF writable THEN f_write(fp, offset, p.data, p.size)
                       ELSE {refused}
<1>1. /\ p.op = "data" /\ p.block = j /\ p.data = u[j].data /\ p.size = u[j].size
      /\ p.data \in Values /\ p.size \in Sizes
  BY BlockIs
<1>2. /\ prevBlock \in Nat /\ memory \in [Blocks -> Content]
      /\ offset \in 0..fileTable[Target].length
  BY Reading, LastBlockPositive, TargetFacts DEF BlockNumbers, HandleOK
<1>3. j - 1 = prevBlock /\ j \in Nat /\ j >= 1
  BY <1>2
<1>4. DataNext(p)
  <2>1. j # prevBlock
    BY <1>2
  <2> QED
    BY <1>1, <2>1 DEF tftpHandler, DataAgain, DataStray, Repeats, Follows
<1>5. PICK r \in results :
        /\ memory' = r.memory
        /\ IF r.ok /\ r.n = p.size
             THEN reply' = Ack(p.block) /\ UNCHANGED xbuf
             ELSE ReplyError
        /\ IF fp # NULL /\ p.size < Full THEN CloseFile
           ELSE /\ UNCHANGED fp
                /\ offset' = IF offset = Closed THEN offset ELSE offset + r.n
  BY <1>4 DEF DataNext
<1>6. prevBlock' = j /\ UNCHANGED activeMode
  BY <1>1, <1>4 DEF DataNext
<1> HIDE DEF p, none, refused, results, writable
<1>7. CASE ~(r.ok /\ r.n = p.size)
  BY <1>5, <1>7 DEF ReplyError
<1>8. CASE r.ok /\ r.n = p.size
  <2>1. reply' = Ack(j)
    BY <1>1, <1>5, <1>8
  <2>2. u[j].size < 2 => fp' = NULL
    BY <1>1, <1>5, TargetFacts DEF CloseFile
  <2>3. u[j].size = 2 => fp' = Target /\ offset' = 2 * j /\ activeMode' # FA_READ
    <3>1. offset # -1 /\ offset + 2 = 2 * j
      BY <1>2, <1>3
    <3> QED
      BY <1>1, <1>5, <1>6, <1>8, <3>1
  <2>4. CASE p.size = 0
    <3>1. memory' = memory
      BY <1>5, <2>4 DEF results, none
    <3> QED
      BY <3>1, <2>1, <2>2, <2>3, <2>4, <1>1, <1>6 DEF SameUpTo
  <2>5. CASE p.size # 0
    <3>1. writable
      BY <1>2 DEF writable
    <3>2. r \in f_write(Target, offset, p.data, p.size)
      BY <1>5, <2>5, <3>1 DEF results
    <3> DEFINE n      == Fitting(Target, offset, p.size)
               b      == BlockOf(Target, offset)
               wanted == IF n = p.size THEN p.data ELSE Torn
               got    == Programmed(Target, b, wanted)
               whole  == [memory |-> [Prepared(Target, b) EXCEPT ![b] = got],
                          n |-> IF got = wanted THEN n ELSE 0, ok |-> got = wanted]
               failed == {[memory |-> m, n |-> 0, ok |-> FALSE] :
                            m \in IF MemoryFails THEN Remains(Target, b) ELSE {}}
    <3>3. r = none \/ r = whole \/ r \in failed
      BY <3>2 DEF f_write, none
    <3>4. r.ok /\ r.n # 0
      BY <1>8, <2>5
    <3>5. r = whole
      BY <3>3, <3>4 DEF none
    <3> HIDE DEF got
    <3>6. got = wanted /\ n = p.size /\ r.memory = [Prepared(Target, b) EXCEPT ![b] = got]
      BY <3>5, <3>4, <1>8
    <3>7. got = p.data
      BY <3>6
    <3>8. offset < fileTable[Target].length
      BY <3>6, <2>5, <1>1, <1>2, TargetFacts, FittingBounds
    <3>9. Lasts(j) /\ b = At(j)
      BY <3>8, <1>3 DEF Lasts, At
    <3>10. SameUpTo(memory, memory', j - 1)
      <4>1. memory' = [Prepared(Target, At(j)) EXCEPT ![At(j)] = got]
        BY <3>6, <3>9, <1>5
      <4> HIDE DEF b, wanted, n
      <4>2. \A x : SameUpTo(memory, [Prepared(Target, At(j)) EXCEPT ![At(j)] = x], j - 1)
        BY <3>9, <1>2, EarlierKept
      <4> QED
        BY <4>1, <4>2
    <3>11. memory'[At(j)] = u[j].data
      <4>1. At(j) \in Blocks
        BY <3>9, TargetBlock
      <4> QED
        BY <4>1, <3>6, <3>7, <3>9, <1>1, <1>5 DEF Prepared
    <3> QED
      BY <2>1, <2>2, <2>3, <3>9, <3>10, <3>11, <1>6
  <2> QED
    BY <2>4, <2>5
<1> QED
  BY <1>7, <1>8

-----------------------------------------------------------------------------
(* What reads leaves the memory alone and the server quiet.                *)
LEMMA ServeQuiet ==
  ASSUME IInv, NEW p \in Requests, p.op \in {"rrq", "ack"}, tftpHandler(p), Quiet
  PROVE  memory' = memory /\ Quiet'
<1>1. CASE BadType(p)
  BY <1>1 DEF BadType, Quiet
<1>2. CASE Request(p) /\ p.op = "rrq"
  BY <1>2 DEF Request, Quiet
<1>3. CASE AckLast(p)
  BY <1>3 DEF AckLast, Quiet
<1>4. CASE AckOther(p)
  BY <1>4 DEF AckOther, Quiet
<1>5. p.op # "data" /\ p.op # "wrq"
  OBVIOUS
<1> QED
  BY <1>1, <1>2, <1>3, <1>4, <1>5 DEF tftpHandler

(* Reading the block after b: it is sent as it is, or an error is.         *)
LEMMA SendsRight ==
  ASSUME memory \in [Blocks -> Content], xbuf \in Buffer, prevCount \in Sizes,
         NEW b \in BlockNumbers, b >= 1, Full * (b - 1) <= fileTable[Target].length,
         SendNext(b, Target, Full * (b - 1), FA_READ), prevBlock' = b, memory' = memory
  PROVE  \/ reply' = ErrorReply
         \/ RightData(memory, reply') /\ ReadingOn'
<1> DEFINE off  == 2 * (b - 1)
           n    == Fitting(Target, off, 2)
           data == IF n = 0 THEN xbuf ELSE memory[BlockOf(Target, off)]
<1>1. b \in Nat /\ off \in 0..fileTable[Target].length
  BY LastBlockPositive, TargetFacts DEF BlockNumbers
<1>2. /\ n \in 0..2
      /\ n # 0 => off < fileTable[Target].length
  BY <1>1, TargetFacts, FittingBounds
<1>3. data \in Buffer
  <2>1. CASE n = 0
    BY <2>1
  <2>2. CASE n # 0
    <3>1. off < fileTable[Target].length
      BY <2>2, <1>2
    <3> HIDE DEF off
    <3>2. BlockOf(Target, off) \in Blocks
      BY <3>1, <1>1, TargetFacts, BlockOfType
    <3>3. memory[BlockOf(Target, off)] \in Buffer
      BY <3>2 DEF Buffer
    <3> QED
      BY <3>3, <2>2
  <2> QED
    BY <2>1, <2>2
<1>4. Right(memory, b, data, n)
  BY <1>1, <1>2 DEF Right
<1>5. CASE reply' = ErrorReply
  BY <1>5
<1>6. CASE /\ reply' = Data(b, data, n)
           /\ xbuf' = data
           /\ prevCount' = n
           /\ IF n = Full THEN fp' = Target /\ offset' = off + n ELSE CloseFile
  <2>1. RightData(memory, reply')
    <3>1. n \in Sizes
      BY <1>2
    <3> HIDE DEF n, data
    <3> QED
      BY <3>1, <1>3, <1>4, <1>6 DEF RightData
  <2>2. Right(memory', prevBlock', xbuf', prevCount')
    BY <1>4, <1>6
  <2>3. IF prevCount' = 2 THEN fp' = Target /\ offset' = 2 * prevBlock' ELSE fp' = NULL
    <3>1. off + 2 = 2 * b
      BY <1>1
    <3>2. CASE n = 2
      BY <3>1, <3>2, <1>6
    <3>3. CASE n # 2
      BY <3>3, <1>6 DEF CloseFile
    <3> QED
      BY <3>2, <3>3
  <2> QED
    BY <2>1, <2>2, <2>3 DEF ReadingOn
<1> QED
  BY <1>5, <1>6 DEF SendNext, ReplyError

LEMMA ServeRead ==
  ASSUME IInv, tftpHandler(ReadRequest)
  PROVE  /\ reply' = ErrorReply \/ (RightData(memory, reply') /\ ReadingOn')
         /\ memory' = memory /\ Quiet' /\ reply' # NoReply
<1> DEFINE p      == ReadRequest
           opened == f_open(Target, FA_READ, IF fp # NULL THEN Closed ELSE offset)
<1>1. p.op = "rrq" /\ p.octet = TRUE /\ p.file = Target
  BY DEF ReadRequest
<1>2. Request(p)
  BY <1>1 DEF tftpHandler, BadType
<1>3. (IF fp # NULL THEN Closed ELSE offset) = -1
  BY DEF IInv, HandlesAgree
<1>4. opened.fr = "FR_OK" /\ opened.offset = 0
  BY <1>3, TargetFacts, ModeFacts DEF f_open, Refuses
<1>5. /\ activeMode' = FA_READ /\ memory' = memory /\ prevBlock' = 1
      /\ SendNext(1, Target, 0, FA_READ)
  BY <1>1, <1>2, <1>4 DEF Request
<1>6. memory \in [Blocks -> Content] /\ xbuf \in Buffer /\ prevCount \in Sizes
  BY Reading
<1>7. /\ 1 \in BlockNumbers /\ 1 >= 1 /\ 2 * (1 - 1) <= fileTable[Target].length
      /\ 2 * (1 - 1) = 0
  BY LastBlockPositive, TargetFacts DEF BlockNumbers
<1>8. reply' = ErrorReply \/ (RightData(memory, reply') /\ ReadingOn')
  BY <1>5, <1>6, <1>7, SendsRight
<1>9. reply' # NoReply
  BY <1>5 DEF SendNext, ReplyError, ErrorReply, NoReply, Data
<1> QED
  BY <1>5, <1>8, <1>9 DEF Quiet

(* An acknowledgement: the next block, or the last one again.              *)
LEMMA ServeAck ==
  ASSUME IInv, NEW j \in BlockNumbers, j >= 1, tftpHandler(Ack(j)), Quiet,
         (fp = NULL /\ prevBlock = 0) \/ ReadingOn
  PROVE  /\ reply' = NoReply \/ reply' = ErrorReply \/ RightData(memory, reply')
         /\ reply' = ErrorReply \/ (fp' = NULL /\ prevBlock' = 0) \/ ReadingOn'
<1>0. Ack(j).op = "ack" /\ Ack(j).block = j
  BY DEF Ack
<1>1. /\ memory \in [Blocks -> Content] /\ xbuf \in Buffer /\ prevCount \in Sizes
      /\ prevBlock \in BlockNumbers
  BY Reading
<1>2. AckLast(Ack(j)) \/ AckOther(Ack(j))
  BY <1>0 DEF tftpHandler
<1>3. CASE AckOther(Ack(j))
  <2>1. reply' = Data(prevBlock, xbuf, prevCount)
        /\ UNCHANGED <<memory, offset, fp, prevBlock, prevCount, xbuf>>
    BY <1>3 DEF AckOther
  <2>2. RightData(memory, reply')
    BY <2>1, <1>1 DEF RightData, ReadingOn
  <2> QED
    BY <2>1, <2>2 DEF ReadingOn
<1>4. CASE AckLast(Ack(j)) /\ fp = NULL
  <2>1. reply' = NoReply /\ UNCHANGED <<memory, offset, fp, prevBlock, prevCount, xbuf>>
    BY <1>4 DEF AckLast
  <2> QED
    BY <2>1 DEF ReadingOn
<1>5. CASE AckLast(Ack(j)) /\ fp # NULL
  <2>1. ReadingOn
    BY <1>5
  <2>2. /\ fp = Target /\ offset = 2 * prevBlock /\ prevCount = 2
        /\ Right(memory, prevBlock, xbuf, 2)
    BY <2>1, <1>5 DEF ReadingOn
  <2>3. activeMode = FA_READ
    BY <1>5 DEF Quiet
  <2> DEFINE next == (prevBlock + 1) % (LastBlock + 1)
             len  == fileTable[Target].length
  <2>4. /\ prevBlock \in Nat /\ prevBlock >= 1 /\ len \in Nat
        /\ LastBlock \in Nat /\ len \div 2 + 1 <= LastBlock
        /\ 2 * (prevBlock - 1) <= len
        /\ 2 = Fitting(Target, 2 * (prevBlock - 1), 2)
    BY <2>2, TargetFacts, LastBlockPositive, TableAssumption DEF Right, BlockNumbers
  <2>5. 2 * prevBlock <= len
    <3>1. 2 * (prevBlock - 1) \in 0..len /\ 2 \in Sizes
      BY <2>4
    <3>2. 2 * (prevBlock - 1) + 2 <= len
      BY <3>1, <2>4, TargetFacts, FittingBounds
    <3> QED
      BY <3>2, <2>4
  <2>6. prevBlock <= len \div 2
    BY <2>4, <2>5
  <2>7. prevBlock + 1 \in BlockNumbers /\ prevBlock + 1 < LastBlock + 1 /\ len \div 2 \in Nat
    BY <2>4, <2>6 DEF BlockNumbers
  <2>8. next = prevBlock + 1
    BY <2>4, <2>7
  <2>9. /\ prevBlock' = prevBlock + 1 /\ memory' = memory
        /\ SendNext(prevBlock + 1, Target, 2 * prevBlock, FA_READ)
    BY <1>5, <2>2, <2>3, <2>8 DEF AckLast
  <2>10. (prevBlock + 1) - 1 = prevBlock /\ prevBlock + 1 >= 1
    BY <2>4
  <2>11. reply' = ErrorReply \/ (RightData(memory, reply') /\ ReadingOn')
    BY <2>5, <2>7, <2>9, <2>10, <1>1, SendsRight
  <2> QED
    BY <2>11
<1> QED
  BY <1>2, <1>3, <1>4, <1>5

(* Stashing and restarting.                                                *)
LEMMA StashKeeps ==
  ASSUME IInv, NEW v \in ParamValues, systemParametersStash(v)
  PROVE  /\ SameFile(memory, memory')
         /\ UNCHANGED <<fp, offset, prevBlock, prevCount, xbuf>>
         /\ fp # NULL => activeMode' = activeMode
<1> DEFINE opened == f_open(ParamFile, FA_WRITE \cup FA_CREATE_ALWAYS, offset)
<1>1. UNCHANGED <<fp, offset, prevBlock, prevCount, xbuf>>
  BY DEF systemParametersStash
<1>2. CASE opened.fr = "FR_OK"
  <2>1. offset = -1 /\ opened.offset = 0
    BY <1>2 DEF f_open
  <2>2. PICK r \in f_write(ParamFile, 0, v, 1) : memory' = r.memory
    BY <1>2, <2>1 DEF systemParametersStash
  <2>3. memory \in [Blocks -> Content] /\ fp = NULL
    BY <2>1, Reading DEF IInv, HandlesAgree
  <2>4. SameFile(memory, memory')
    BY <2>2, <2>3, ParamWrite
  <2> QED
    BY <1>1, <2>3, <2>4
<1>3. CASE opened.fr # "FR_OK"
  <2>1. UNCHANGED <<activeMode, memory>>
    BY <1>3 DEF systemParametersStash
  <2> QED
    BY <1>1, <2>1 DEF SameFile
<1> QED
  BY <1>2, <1>3

LEMMA RestartKeeps ==
  ASSUME IInv, Restart
  PROVE  /\ fp' = NULL /\ prevBlock' = 0
         /\ Quiet => SameFile(memory, memory')
         /\ \A w \in Nat : fp = Target /\ offset = Full * w => SameUpTo(memory, memory', w)
<1>1. fp' = NULL /\ prevBlock' = 0 /\ memory' \in Interrupted
  BY DEF Restart
<1>2. memory \in [Blocks -> Content] /\ HandleOK(fp, offset)
  BY Reading
<1>3. CASE memory' = memory
  BY <1>1, <1>3 DEF SameFile, SameUpTo
<1>4. CASE /\ fp # NULL /\ activeMode # FA_READ /\ offset < fileTable[fp].length
           /\ memory' \in Remains(fp, BlockOf(fp, offset))
  <2>1. ~Quiet
    BY <1>4 DEF Quiet
  <2>2. ASSUME NEW w \in Nat, fp = Target, offset = 2 * w PROVE SameUpTo(memory, memory', w)
    <3>1. (w + 1) - 1 = w /\ w + 1 \in Nat /\ w + 1 >= 1
      OBVIOUS
    <3>2. Lasts(w + 1) /\ At(w + 1) = BlockOf(Target, offset)
      BY <3>1, <2>2, <1>4 DEF Lasts, At
    <3> QED
      BY <3>1, <3>2, <2>2, <1>2, <1>4, EarlierKept
  <2> QED
    BY <1>1, <2>1, <2>2
<1>5. CASE offset = -1 /\ memory' \in Remains(ParamFile, ParamBlock)
  <2>1. SameFile(memory, memory')
    BY <1>2, <1>5, ParamRemains
  <2> QED
    BY <1>1, <2>1, SameFileUpTo
<1>6. memory' = memory
      \/ (fp # NULL /\ activeMode # FA_READ /\ offset < fileTable[fp].length
          /\ memory' \in Remains(fp, BlockOf(fp, offset)))
      \/ (offset = -1 /\ memory' \in Remains(ParamFile, ParamBlock))
  BY <1>1 DEF Interrupted, ParamBlock
<1> QED
  BY <1>3, <1>4, <1>5, <1>6

-----------------------------------------------------------------------------
(***************************************************************************)
(* The steps.                                                              *)
(***************************************************************************)
QueuesInv == QueueInv' /\ UploadInv' /\ SentInv' /\ FetchInv' /\ FetchedInv'

LEMMA ShiftSessions ==
  ASSUME NEW q, NEW r, Shifted(q, r)
  PROVE  /\ \A n : UpTo(q, n) => UpTo(r, n)
         /\ Ordered(q) => Ordered(r)
<1>1. \A n : UpTo(q, n) => UpTo(r, n)
  BY DEF Shifted, UpTo
<1>2. ASSUME Ordered(q) PROVE Ordered(r)
  <2>1. \A i, j \in 1..Len(r) : i < j => i + 1 < j + 1
    OBVIOUS
  <2> QED
    BY <1>2, <2>1 DEF Shifted, Ordered
<1> QED
  BY <1>1, <1>2

LEMMA ExtendSessions ==
  ASSUME NEW S, NEW q \in Seq([session : Nat, packet : S]), NEW r, NEW e,
         Extended(q, r, e), e.session \in Nat, NEW n \in Nat, NEW n2 \in Nat,
         n <= n2, e.session <= n2, UpTo(q, n)
  PROVE  /\ UpTo(r, n2)
         /\ Ordered(q) /\ n <= e.session => Ordered(r)
<1>1. \A i \in 1..Len(q) : q[i].session \in Nat /\ q[i].session <= n
  <2>1. \A i \in 1..Len(q) : q[i] \in [session : Nat, packet : S]
    BY ElementOfSeq
  <2> QED
    BY <2>1 DEF UpTo
<1>2. \A i \in 1..Len(r) : (i \in 1..Len(q) /\ r[i] = q[i]) \/ (i = Len(q) + 1 /\ r[i] = e)
  BY DEF Extended
<1>3. UpTo(r, n2)
  BY <1>1, <1>2 DEF UpTo
<1>4. ASSUME Ordered(q), n <= e.session, NEW i \in 1..Len(r), NEW j \in 1..Len(r), i < j
      PROVE  r[i].session <= r[j].session
  <2>1. i \in 1..Len(q) /\ r[i] = q[i]
    BY <1>4 DEF Extended
  <2>2. CASE j \in 1..Len(q) /\ r[j] = q[j]
    BY <2>1, <2>2, <1>4 DEF Ordered
  <2>3. CASE r[j] = e
    <3>1. q[i].session <= n /\ q[i].session \in Nat
      BY <2>1, <1>1
    <3> QED
      BY <2>1, <2>3, <3>1, <1>4
  <2> QED
    BY <1>2, <2>2, <2>3
<1> QED
  BY <1>3, <1>4 DEF Ordered

(* Once the server receives a packet of the last session, no other one is  *)
(* under way.                                                              *)
LEMMA HeadMine ==
  ASSUME NEW q \in Seq(Requesting), q # <<>>, NEW n \in Nat, q[1].session = n,
         UpTo(q, n), Ordered(q)
  PROVE  Only(q, n)
<1>1. Len(q) \in Nat /\ 1 \in 1..Len(q)
  BY TailShifts, LenProperties
<1>2. \A i \in 1..Len(q) : q[i].session \in Nat
  <2>1. \A i \in 1..Len(q) : q[i] \in Requesting
    BY ElementOfSeq
  <2> QED
    BY <2>1 DEF Requesting
<1>3. ASSUME NEW i \in 1..Len(q) PROVE q[i].session = n
  <2>1. i = 1 \/ 1 < i
    BY <1>1
  <2>2. q[1].session <= q[i].session
    BY <1>1, <1>2, <2>1 DEF Ordered
  <2> QED
    BY <2>2, <1>2 DEF UpTo
<1> QED
  BY <1>3 DEF Only

LEMMA SendingOut ==
  ASSUME NEW c, c.state = "sending", c.blocks \in Uploads, c.current \in 0..Len(c.blocks)
  PROVE  /\ Outgoing(c) \in Requests /\ Index(Outgoing(c)) = c.current
         /\ Outgoing(c) = WriteRequest \/ \E j \in 1..c.current : Outgoing(c) = BlockPacket(c.blocks, j)
         /\ c.current \in Nat
<1>1. Len(c.blocks) \in Nat /\ c.current \in Nat
  BY UploadType
<1>2. CASE c.current = 0
  <2>1. Outgoing(c) = WriteRequest
    BY <1>2 DEF Outgoing, WriteRequest
  <2>2. WriteRequest \in Requests /\ Index(WriteRequest) = 0
    BY TargetFacts DEF Requests, WriteRequest, Index
  <2> QED
    BY <1>1, <1>2, <2>1, <2>2
<1>3. CASE c.current > 0
  <2> DEFINE j == c.current
  <2>1. j \in 1..Len(c.blocks) /\ j \in 1..c.current
    BY <1>1, <1>3
  <2>2. Outgoing(c) = BlockPacket(c.blocks, j)
    BY <1>1, <1>3 DEF Outgoing, BlockPacket
  <2>3. /\ c.blocks[j].data \in Values /\ c.blocks[j].size \in Sizes /\ j \in BlockNumbers
        /\ Index(BlockPacket(c.blocks, j)) = j
    BY <2>1, UploadType, BlockIs, LastBlockPositive DEF BlockNumbers
  <2>4. BlockPacket(c.blocks, j) \in Requests
    BY <2>3 DEF Requests, BlockPacket
  <2> QED
    BY <1>1, <2>1, <2>2, <2>3, <2>4
<1> QED
  BY <1>1, <1>2, <1>3

LEMMA FetchingOut ==
  ASSUME NEW c, c.state = "fetching", c.current \in BlockNumbers
  PROVE  /\ Outgoing(c) \in Requests /\ c.current \in Nat
         /\ Outgoing(c) = ReadRequest \/ \E j \in 1..c.current : Outgoing(c) = Ack(j)
<1>1. c.current \in Nat
  BY LastBlockPositive DEF BlockNumbers
<1>2. CASE c.current = 0
  BY <1>1, <1>2, TargetFacts DEF Outgoing, ReadRequest, Requests
<1>3. CASE c.current > 0
  <2>1. Outgoing(c) = Ack(c.current) /\ c.current \in 1..c.current
    BY <1>1, <1>3 DEF Outgoing, Ack
  <2>2. Ack(c.current) \in Requests
    BY DEF Ack, Requests
  <2> QED
    BY <1>1, <2>1, <2>2
<1> QED
  BY <1>1, <1>2, <1>3

(* The blocks that were fetched have numbers of sixteen bits.              *)
LEMMA FetchedCurrent ==
  ASSUME QueueInv, FetchedBlocks PROVE client.current \in BlockNumbers
<1>1. client.current \in Nat
  BY DEF QueueInv, TransferType, Clients
<1>2. CASE client.current = 0
  BY <1>2, LastBlockPositive DEF BlockNumbers
<1>3. CASE client.current > 0
  <2>1. client.current \in 1..client.current
    BY <1>1, <1>3
  <2> QED
    BY <2>1 DEF FetchedBlocks, Right
<1> QED
  BY <1>1, <1>2, <1>3

LEMMA TransmitResult ==
  ASSUME toServer \in Seq(Requesting), session' \in Nat, NEW c, Outgoing(c) \in Requests,
         Transmit(c)
  PROVE  /\ toServer' \in Seq(Requesting)
         /\ \/ toServer' = toServer
            \/ Extended(toServer, toServer', [session |-> session', packet |-> Outgoing(c)])
<1> DEFINE e == [session |-> session', packet |-> Outgoing(c)]
<1>1. e \in Requesting
  BY DEF Requesting
<1>2. toServer' = toServer \/ toServer' = Append(toServer, e)
  BY DEF Transmit
<1> HIDE DEF e
<1>3. Append(toServer, e) \in Seq(Requesting) /\ Extended(toServer, Append(toServer, e), e)
  BY <1>1, AppendExtends
<1> QED
  BY <1>2, <1>3 DEF e

-----------------------------------------------------------------------------
(* The queues of requests and replies after a step that changes them only. *)
RequestsMove ==
  /\ toServer' \in Seq(Requesting)
  /\ \/ toServer' = toServer \/ Shifted(toServer, toServer')
     \/ Active /\ Extended(toServer, toServer', [session |-> session, packet |-> Outgoing(client)])

RepliesMove ==
  /\ toClient' \in Seq(Replying)
  /\ \/ toClient' = toClient
     \/ Shifted(toClient, toClient') /\ (Active => ~IsError(toClient, session, 1))

LEMMA MoveUpload ==
  ASSUME QueueInv, UploadInv, client.state = "sending",
         UNCHANGED <<serverVars, client, session>>, RequestsMove, RepliesMove
  PROVE  UploadInv'
<1> DEFINE u == client.blocks
           k == client.current
           n == session
           e == [session |-> session, packet |-> Outgoing(client)]
<1>1. /\ u \in Uploads /\ k \in 0..Len(u)
      /\ UpRequests(toServer, n, u, k) /\ InOrder(toServer, n) /\ UpReplies(toClient, n, k)
  BY DEF UploadInv
<1>2. /\ Outgoing(client) \in Requests /\ Index(Outgoing(client)) = k /\ k \in Nat
      /\ Outgoing(client) = WriteRequest \/ \E j \in 1..k : Outgoing(client) = BlockPacket(u, j)
  BY <1>1, SendingOut
<1>3. e.session = n /\ e.packet = Outgoing(client) /\ Index(e.packet) = k
  BY <1>2
<1>4. toServer' = toServer \/ Shifted(toServer, toServer') \/ Extended(toServer, toServer', e)
  BY DEF RequestsMove
<1>5. /\ toClient' = toClient \/ Shifted(toClient, toClient')
      /\ toClient' = toClient \/ ~IsError(toClient, n, 1)
  BY DEF RepliesMove, Active
<1>6. u' = u /\ k' = k /\ n' = n /\ client'.state = "sending"
  OBVIOUS
<1> HIDE DEF e
<1>7. /\ UpRequests(toServer', n, u, k)
      /\ Only(toServer, n) => Only(toServer', n)
      /\ \A w \in 0..k : From(toServer, w) => From(toServer', w)
      /\ k >= 1 /\ From(toServer, 1) => From(toServer', 1)
  <2>1. CASE toServer' = toServer
    BY <2>1, <1>1
  <2>2. CASE Shifted(toServer, toServer')
    BY <2>2, <1>1, ShiftKeeps
  <2>3. CASE Extended(toServer, toServer', e)
    <3>1. \A w \in 0..k : Index(e.packet) >= w
      BY <1>2, <1>3
    <3>2. k >= 1 => Index(e.packet) >= 1
      BY <1>3
    <3> QED
      BY <2>3, <3>1, <3>2, <1>1, <1>2, <1>3, ExtendKeeps
  <2> QED
    BY <1>4, <2>1, <2>2, <2>3
<1>8. InOrder(toServer', n)
  <2>1. CASE toServer' = toServer
    BY <2>1, <1>1
  <2>2. CASE Shifted(toServer, toServer')
    BY <2>2, <1>1, ShiftKeeps
  <2>3. CASE Extended(toServer, toServer', e)
    <3>1. Index(e.packet) \in Nat /\ Index(e.packet) >= k
      BY <1>2, <1>3
    <3> QED
      BY <2>3, <3>1, <1>1, <1>2, ExtendKeepsOrder
  <2> QED
    BY <1>4, <2>1, <2>2, <2>3
<1>9. /\ UpReplies(toClient', n, k)
      /\ InQueue(toClient', n) => InQueue(toClient, n)
      /\ \A w : Acked(toClient, n, w) => Acked(toClient', n, w)
      /\ HasError(toClient, n) => HasError(toClient', n)
      /\ Doomed(toClient, n, k) => Doomed(toClient', n, k)
  BY <1>1, <1>5, ShiftKeeps, ShiftKeepsErrors
<1>10. ASSUME Begun'
       PROVE  /\ Only(toServer', n)
              /\ Doomed(toClient', n, k) \/ Dead' \/ Reset' \/ Writing'
  <2>1. Begun
    BY <1>6, <1>9, <1>10 DEF Begun
  <2>2. Only(toServer', n)
    BY <2>1, <1>7 DEF UploadInv
  <2>3. UNCHANGED <<memory, fp, offset, prevBlock, activeMode>>
    BY DEF serverVars
  <2>4. ASSUME NEW w, Progress(w)
        PROVE  /\ w \in 0..k /\ Stored(memory', u, w)
               /\ Acked(toClient', n, w) /\ From(toServer', w)
    BY <2>3, <2>4, <1>7, <1>9 DEF Progress
  <2>5. Dead => Dead'
    BY <2>3, <1>6, <1>7, <1>9 DEF Dead
  <2>6. Reset => Reset'
    BY <2>3, <2>4, <1>6 DEF Reset, Progress
  <2>7. Writing => Writing'
    BY <2>3, <2>4, <1>6 DEF Writing, Progress
  <2> QED
    BY <2>1, <2>2, <2>5, <2>6, <2>7, <1>9 DEF UploadInv
<1> QED
  BY <1>1, <1>6, <1>7, <1>8, <1>9, <1>10 DEF UploadInv

LEMMA MoveFetch ==
  ASSUME QueueInv, FetchInv, client.state = "fetching",
         UNCHANGED <<serverVars, client, session>>, RequestsMove, RepliesMove
  PROVE  FetchInv'
<1> DEFINE k == client.current
           n == session
           e == [session |-> session, packet |-> Outgoing(client)]
<1>1. /\ FetchedBlocks /\ DownRequests(toServer, n, k) /\ DownReplies(toClient, n, memory)
  BY DEF FetchInv
<1>2. /\ Outgoing(client) \in Requests /\ k \in Nat
      /\ Outgoing(client) = ReadRequest \/ \E j \in 1..k : Outgoing(client) = Ack(j)
  BY <1>1, FetchedCurrent, FetchingOut
<1>3. e.session = n /\ e.packet = Outgoing(client)
  OBVIOUS
<1>4. toServer' = toServer \/ Shifted(toServer, toServer') \/ Extended(toServer, toServer', e)
  BY DEF RequestsMove
<1>5. /\ toClient' = toClient \/ Shifted(toClient, toClient')
      /\ toClient' = toClient \/ ~IsError(toClient, n, 1)
  BY DEF RepliesMove, Active
<1>6. k' = k /\ n' = n /\ client' = client
  OBVIOUS
<1> HIDE DEF e
<1>7. /\ DownRequests(toServer', n, k)
      /\ Only(toServer, n) => Only(toServer', n)
  <2>1. CASE toServer' = toServer
    BY <2>1, <1>1
  <2>2. CASE Shifted(toServer, toServer')
    BY <2>2, <1>1, ShiftKeeps
  <2>3. CASE Extended(toServer, toServer', e)
    BY <2>3, <1>1, <1>2, <1>3, ExtendKeeps
  <2> QED
    BY <1>4, <2>1, <2>2, <2>3
<1>8. /\ DownReplies(toClient', n, memory)
      /\ InQueue(toClient', n) => InQueue(toClient, n)
      /\ HasError(toClient, n) => HasError(toClient', n)
  BY <1>1, <1>5, ShiftKeeps, ShiftKeepsErrors
<1>9. UNCHANGED <<memory, fp, offset, prevBlock, prevCount, xbuf, activeMode>>
  BY DEF serverVars
<1>10. FetchedBlocks'
  BY <1>1, <1>6, <1>9 DEF FetchedBlocks
<1>11. ASSUME Begun'
       PROVE  /\ Only(toServer', n) /\ Quiet'
              /\ HasError(toClient', n) \/ (fp' = NULL /\ prevBlock' = 0) \/ ReadingOn'
  <2>1. Begun
    BY <1>6, <1>8, <1>11 DEF Begun
  <2>2. /\ Only(toServer, n) /\ Quiet
        /\ HasError(toClient, n) \/ (fp = NULL /\ prevBlock = 0) \/ ReadingOn
    BY <2>1 DEF FetchInv
  <2> QED
    BY <2>2, <1>7, <1>8, <1>9 DEF Quiet, ReadingOn
<1> QED
  BY <1>6, <1>7, <1>8, <1>9, <1>10, <1>11 DEF FetchInv

LEMMA MoveQueues ==
  ASSUME QueueInv, session' = session, client' \in Clients,
         toServer' \in Seq(Requesting), toClient' \in Seq(Replying),
         toServer' = toServer \/ Shifted(toServer, toServer')
           \/ \E p : Extended(toServer, toServer', [session |-> session, packet |-> p]),
         toClient' = toClient \/ Shifted(toClient, toClient')
           \/ \E p : \E s \in Nat : s <= session
                /\ Extended(toClient, toClient', [session |-> s, packet |-> p])
  PROVE  QueueInv'
<1>1. /\ TransferType /\ UpTo(toServer, session) /\ UpTo(toClient, session) /\ Ordered(toServer)
      /\ session \in Nat /\ toServer \in Seq(Requesting) /\ toClient \in Seq(Replying)
  BY DEF QueueInv, TransferType
<1>2. TransferType'
  BY <1>1 DEF TransferType
<1>3. UpTo(toServer', session) /\ Ordered(toServer')
  <2>1. CASE toServer' = toServer
    BY <2>1, <1>1
  <2>2. CASE Shifted(toServer, toServer')
    BY <2>2, <1>1, ShiftSessions
  <2>3. ASSUME NEW p, Extended(toServer, toServer', [session |-> session, packet |-> p])
        PROVE  UpTo(toServer', session) /\ Ordered(toServer')
    <3> DEFINE e == [session |-> session, packet |-> p]
    <3>1. e.session = session /\ session <= session
      BY <1>1
    <3> HIDE DEF e
    <3>2. Extended(toServer, toServer', e)
      BY <2>3 DEF e
    <3> QED
      BY <3>1, <3>2, <1>1, ExtendSessions DEF Requesting
  <2> QED
    BY <2>1, <2>2, <2>3
<1>4. UpTo(toClient', session)
  <2>1. CASE toClient' = toClient
    BY <2>1, <1>1
  <2>2. CASE Shifted(toClient, toClient')
    BY <2>2, <1>1, ShiftSessions
  <2>3. ASSUME NEW p, NEW s \in Nat, s <= session,
               Extended(toClient, toClient', [session |-> s, packet |-> p])
        PROVE  UpTo(toClient', session)
    <3> DEFINE e == [session |-> s, packet |-> p]
    <3>1. e.session = s /\ session <= session
      BY <1>1
    <3> HIDE DEF e
    <3>2. Extended(toClient, toClient', e)
      BY <2>3 DEF e
    <3> QED
      BY <3>1, <3>2, <2>3, <1>1, ExtendSessions DEF Replying
  <2> QED
    BY <2>1, <2>2, <2>3
<1> QED
  BY <1>2, <1>3, <1>4 DEF QueueInv

LEMMA MoveStep ==
  ASSUME TransferInv, UNCHANGED <<serverVars, client, session>>, RequestsMove, RepliesMove
  PROVE  QueuesInv
<1>1. QueueInv /\ UploadInv /\ SentInv /\ FetchInv /\ FetchedInv
  BY DEF TransferInv
<1>2. QueueInv'
  <2>1. toServer' \in Seq(Requesting) /\ toClient' \in Seq(Replying)
    BY DEF RequestsMove, RepliesMove
  <2>2. toServer' = toServer \/ Shifted(toServer, toServer')
        \/ \E p : Extended(toServer, toServer', [session |-> session, packet |-> p])
    BY DEF RequestsMove
  <2>3. toClient' = toClient \/ Shifted(toClient, toClient')
    BY DEF RepliesMove
  <2>4. client' \in Clients
    BY <1>1 DEF QueueInv, TransferType
  <2> QED
    BY <2>1, <2>2, <2>3, <2>4, <1>1, MoveQueues
<1>3. UploadInv'
  <2>1. CASE client.state = "sending"
    BY <2>1, <1>1, MoveUpload
  <2>2. CASE client.state # "sending"
    BY <2>2 DEF UploadInv
  <2> QED
    BY <2>1, <2>2
<1>4. FetchInv'
  <2>1. CASE client.state = "fetching"
    BY <2>1, <1>1, MoveFetch
  <2>2. CASE client.state # "fetching"
    BY <2>2 DEF FetchInv
  <2> QED
    BY <2>1, <2>2
<1>5. UNCHANGED <<memory, fp, offset, prevBlock, prevCount, xbuf, activeMode>>
  BY DEF serverVars
<1>6. ~Active => \A i \in 1..Len(toServer') : \E j \in 1..Len(toServer) : toServer'[i] = toServer[j]
  BY DEF RequestsMove, Shifted
<1>7. SentInv'
  BY <1>1, <1>5, <1>6 DEF SentInv, Active
<1>8. FetchedInv'
  BY <1>1, <1>5, <1>6 DEF FetchedInv, FetchedBlocks, Quiet, Active
<1> QED
  BY <1>2, <1>3, <1>4, <1>7, <1>8 DEF QueuesInv

(* Nothing is asked of a client that has failed.                           *)
LEMMA FailedStep ==
  ASSUME QueueInv', client'.state = "failed" PROVE QueuesInv
  BY DEF QueuesInv, UploadInv, SentInv, FetchInv, FetchedInv

LEMMA TimeoutStep == ASSUME TransferInv, Timeout PROVE QueuesInv
<1>1. /\ Active /\ session' = session /\ client' = client /\ toClient' = toClient
      /\ Transmit(client) /\ UNCHANGED serverVars
  BY DEF Timeout
<1>2. QueueInv /\ toServer \in Seq(Requesting) /\ toClient \in Seq(Replying) /\ session' \in Nat
  BY <1>1 DEF TransferInv, QueueInv, TransferType
<1>3. Outgoing(client) \in Requests
  <2>1. CASE client.state = "sending"
    BY <2>1, SendingOut DEF TransferInv, UploadInv
  <2>2. CASE client.state = "fetching"
    BY <2>2, <1>2, FetchedCurrent, FetchingOut DEF TransferInv, FetchInv
  <2> QED
    BY <1>1, <2>1, <2>2 DEF Active
<1>4. RequestsMove
  <2>1. /\ toServer' \in Seq(Requesting)
        /\ \/ toServer' = toServer
           \/ Extended(toServer, toServer', [session |-> session', packet |-> Outgoing(client)])
    BY <1>1, <1>2, <1>3, TransmitResult
  <2> QED
    BY <2>1, <1>1 DEF RequestsMove
<1>5. RepliesMove
  BY <1>1, <1>2 DEF RepliesMove
<1> QED
  BY <1>1, <1>4, <1>5, MoveStep

LEMMA GiveUpStep == ASSUME TransferInv, GiveUp PROVE QueuesInv
<1>1. QueueInv /\ TransferType
  BY DEF TransferInv, QueueInv
<1>2. client' = [client EXCEPT !.state = "failed"] /\ UNCHANGED <<session, toServer, toClient>>
  BY DEF GiveUp
<1>3. client'.state = "failed" /\ TransferType'
  BY <1>1, <1>2 DEF TransferType, Clients
<1>4. QueueInv'
  BY <1>1, <1>2, <1>3 DEF QueueInv
<1> QED
  BY <1>3, <1>4, FailedStep

LEMMA LosesRequestStep == ASSUME TransferInv, LosesRequest PROVE QueuesInv
<1>1. toServer \in Seq(Requesting) /\ toClient \in Seq(Replying)
  BY DEF TransferInv, QueueInv, TransferType
<1>2. /\ toServer # <<>> /\ toServer' = Tail(toServer)
      /\ UNCHANGED <<serverVars, client, session, toClient>>
  BY DEF LosesRequest
<1>3. RequestsMove
  BY <1>1, <1>2, TailShifts DEF RequestsMove
<1>4. RepliesMove
  BY <1>1, <1>2 DEF RepliesMove
<1> QED
  BY <1>2, <1>3, <1>4, MoveStep

LEMMA LosesReplyStep == ASSUME TransferInv, LosesReply, ~ErrorsLost PROVE QueuesInv
<1>1. toServer \in Seq(Requesting) /\ toClient \in Seq(Replying)
  BY DEF TransferInv, QueueInv, TransferType
<1>2. /\ toClient # <<>> /\ toClient' = Tail(toClient)
      /\ Head(toClient).packet # ErrorReply
      /\ UNCHANGED <<serverVars, client, session, toServer>>
  BY DEF LosesReply
<1>3. ~IsError(toClient, session, 1)
  BY <1>1, <1>2, TailShifts DEF IsError
<1>4. RepliesMove
  BY <1>1, <1>2, <1>3, TailShifts DEF RepliesMove
<1>5. RequestsMove
  BY <1>1, <1>2 DEF RequestsMove
<1> QED
  BY <1>2, <1>4, <1>5, MoveStep

LEMMA StartStep ==
  ASSUME TransferInv, NEW c, Start(c),
         \/ c.state = "sending" /\ c.blocks \in Uploads
         \/ c.state = "fetching" /\ c.blocks = <<>>,
         c = [state |-> c.state, blocks |-> c.blocks, current |-> 0]
  PROVE  QueuesInv
<1>1. /\ TransferType /\ session \in Nat
      /\ toServer \in Seq(Requesting) /\ toClient \in Seq(Replying)
      /\ UpTo(toServer, session) /\ UpTo(toClient, session) /\ Ordered(toServer)
  BY DEF TransferInv, QueueInv, TransferType
<1> DEFINE n == session + 1
           e == [session |-> n, packet |-> Outgoing(c)]
<1>2. /\ session' = n /\ client' = c /\ Transmit(c) /\ toClient' = toClient
      /\ UNCHANGED serverVars
  BY DEF Start
<1>3. n \in Nat /\ session <= n /\ session < n /\ c.current = 0 /\ n <= n
  BY <1>1
<1>4. c.blocks \in Seq([data : Buffer, size : Sizes])
  <2>1. CASE c.blocks \in Uploads
    <3>1. c.blocks \in Seq([data : Values, size : Sizes])
      BY <2>1, UploadType
    <3>2. [data : Values, size : Sizes] \subseteq [data : Buffer, size : Sizes]
      BY DEF Buffer, Content
    <3> QED
      BY <3>1, <3>2, SeqMonotonic
  <2>2. CASE c.blocks = <<>>
    BY <2>2, EmptySeq
  <2> QED
    BY <2>1, <2>2
<1>5. c \in Clients
  BY <1>4 DEF Clients
<1>6. c.state = "sending" => 0 \in 0..Len(c.blocks) /\ Len(c.blocks) \in Nat
  BY UploadType
<1>7. Outgoing(c) \in Requests
  <2>1. CASE c.state = "sending"
    BY <2>1, <1>3, <1>6, SendingOut
  <2>2. CASE c.state = "fetching"
    <3>1. c.current \in BlockNumbers
      BY <1>3, LastBlockPositive DEF BlockNumbers
    <3> QED
      BY <2>2, <3>1, FetchingOut
  <2> QED
    BY <2>1, <2>2
<1>8. /\ toServer' \in Seq(Requesting)
      /\ toServer' = toServer \/ Extended(toServer, toServer', e)
  BY <1>1, <1>2, <1>3, <1>7, TransmitResult
<1>9. e.session = n /\ e.packet = Outgoing(c)
  OBVIOUS
<1> HIDE DEF e
<1>10. \A i \in 1..Len(toServer) : toServer[i].session # n
  <2>1. \A i \in 1..Len(toServer) : toServer[i] \in Requesting
    BY <1>1, ElementOfSeq
  <2> QED
    BY <2>1, <1>1, <1>3 DEF UpTo, Requesting
<1>11. \A i \in 1..Len(toClient) : toClient[i].session # n
  <2>1. \A i \in 1..Len(toClient) : toClient[i] \in Replying
    BY <1>1, ElementOfSeq
  <2> QED
    BY <2>1, <1>1, <1>3 DEF UpTo, Replying
<1>12. UpTo(toClient, n)
  <2>1. \A i \in 1..Len(toClient) : toClient[i] \in Replying
    BY <1>1, ElementOfSeq
  <2> QED
    BY <2>1, <1>1, <1>3 DEF UpTo, Replying
<1>13. UpTo(toServer', n) /\ Ordered(toServer')
  <2>1. CASE toServer' = toServer
    <3>1. \A i \in 1..Len(toServer) : toServer[i] \in Requesting
      BY <1>1, ElementOfSeq
    <3> QED
      BY <2>1, <3>1, <1>1, <1>3 DEF UpTo, Requesting
  <2>2. CASE Extended(toServer, toServer', e)
    <3>1. e.session \in Nat /\ e.session <= n /\ session <= e.session
      BY <1>3, <1>9
    <3>2. toServer \in Seq([session : Nat, packet : Requests])
      BY <1>1 DEF Requesting
    <3>3. n \in Nat /\ session <= n
      BY <1>3
    <3> HIDE DEF n
    <3> QED
      BY <2>2, <3>1, <3>2, <3>3, <1>1, ExtendSessions
  <2> QED
    BY <1>8, <2>1, <2>2
<1>14. QueueInv'
  BY <1>1, <1>2, <1>3, <1>5, <1>8, <1>12, <1>13 DEF QueueInv, TransferType
<1>15. \A i \in 1..Len(toServer') : toServer'[i].session = n => i = Len(toServer) + 1 /\ toServer'[i] = e
  BY <1>8, <1>10 DEF Extended
<1>16. ~Begun'
  BY <1>2, <1>3, <1>11 DEF Begun, InQueue
<1>17. UploadInv'
  <2>1. CASE c.state = "sending"
    <3>1. Outgoing(c) = WriteRequest
      <4>1. c.current \in 0..Len(c.blocks)
        BY <2>1, <1>3, <1>6
      <4>2. Outgoing(c) = WriteRequest \/ \E j \in 1..0 : Outgoing(c) = BlockPacket(c.blocks, j)
        BY <2>1, <4>1, <1>3, SendingOut
      <4> QED
        BY <4>2
    <3>2. UpRequests(toServer', n, c.blocks, 0)
      BY <3>1, <1>9, <1>15 DEF UpRequests
    <3>3. InOrder(toServer', n)
      BY <1>1, <1>15, LenProperties DEF InOrder
    <3>4. UpReplies(toClient', n, 0)
      BY <1>2, <1>11 DEF UpReplies
    <3> QED
      BY <2>1, <3>2, <3>3, <3>4, <1>2, <1>3, <1>6, <1>16 DEF UploadInv
  <2>2. CASE c.state # "sending"
    BY <2>2, <1>2 DEF UploadInv
  <2> QED
    BY <2>1, <2>2
<1>18. FetchInv'
  <2>1. CASE c.state = "fetching"
    <3>1. Outgoing(c) = ReadRequest
      BY <2>1, <1>3 DEF Outgoing, ReadRequest
    <3>2. DownRequests(toServer', n, 0)
      BY <3>1, <1>9, <1>15 DEF DownRequests
    <3>3. DownReplies(toClient', n, memory')
      BY <1>2, <1>11 DEF DownReplies
    <3>4. FetchedBlocks'
      <4>1. Len(c.blocks) = 0
        BY <2>1, EmptySeq
      <4> QED
        BY <4>1, <1>2, <1>3 DEF FetchedBlocks
    <3> QED
      BY <2>1, <3>2, <3>3, <3>4, <1>2, <1>3, <1>16 DEF FetchInv
  <2>2. CASE c.state # "fetching"
    BY <2>2, <1>2 DEF FetchInv
  <2> QED
    BY <2>1, <2>2
<1>19. SentInv' /\ FetchedInv'
  BY <1>2 DEF SentInv, FetchedInv
<1> QED
  BY <1>14, <1>17, <1>18, <1>19 DEF QueuesInv

-----------------------------------------------------------------------------
(* A node that stashes or restarts.                                        *)
LEMMA NodeStashesStep ==
  ASSUME TransferInv, NEW v \in ParamValues, NodeStashes(v) PROVE QueuesInv
<1>1. IInv /\ QueueInv /\ UploadInv /\ SentInv /\ FetchInv /\ FetchedInv
  BY DEF TransferInv
<1>2. /\ systemParametersStash(v)
      /\ UNCHANGED <<client, session, toServer, toClient>>
  BY DEF NodeStashes, transferVars
<1>3. /\ SameFile(memory, memory')
      /\ UNCHANGED <<fp, offset, prevBlock, prevCount, xbuf>>
      /\ fp # NULL => activeMode' = activeMode
  BY <1>1, <1>2, StashKeeps
<1>4. \A u, w : w \in Nat /\ Stored(memory, u, w) => Stored(memory', u, w)
  BY <1>3, SameFileUpTo, StoredSame
<1>5. \A b, d, s : Right(memory, b, d, s) => Right(memory', b, d, s)
  BY <1>3, RightSame
<1>6. client.current \in Nat
  BY <1>1 DEF QueueInv, TransferType, Clients
<1>7. QueueInv'
  BY <1>1, <1>2 DEF QueueInv, TransferType
<1>8. Begun' <=> Begun
  BY <1>2 DEF Begun
<1>9. UploadInv'
  <2>1. \A w : Progress(w) => /\ w \in 0..client'.current /\ Stored(memory', client'.blocks, w)
                              /\ Acked(toClient', session', w) /\ From(toServer', w)
    <3>1. \A w \in 0..client.current : w \in Nat
      BY <1>6
    <3> QED
      BY <3>1, <1>2, <1>4 DEF Progress
  <2>2. Dead => Dead'
    BY <1>2, <1>3, <1>4, <1>6 DEF Dead
  <2>3. Reset => Reset'
    BY <2>1, <1>2, <1>3 DEF Reset, Progress
  <2>4. Writing => Writing'
    BY <2>1, <1>2, <1>3 DEF Writing, Progress
  <2> QED
    BY <2>2, <2>3, <2>4, <1>1, <1>2, <1>8 DEF UploadInv
<1>10. SentInv'
  <2>1. client.blocks \in Uploads => Len(client.blocks) \in Nat
    BY UploadType
  <2> QED
    BY <2>1, <1>1, <1>2, <1>3, <1>4 DEF SentInv
<1>11. FetchedBlocks => FetchedBlocks'
  BY <1>2, <1>5 DEF FetchedBlocks
<1>12. Quiet => Quiet'
  BY <1>3 DEF Quiet
<1>13. FetchInv'
  <2>1. ReadingOn => ReadingOn'
    BY <1>3, <1>5 DEF ReadingOn
  <2>2. DownReplies(toClient, session, memory) => DownReplies(toClient', session', memory')
    BY <1>2, <1>3, RepliesSame
  <2> QED
    BY <2>1, <2>2, <1>1, <1>2, <1>3, <1>8, <1>11, <1>12 DEF FetchInv
<1>14. FetchedInv'
  BY <1>1, <1>2, <1>11, <1>12 DEF FetchedInv
<1> QED
  BY <1>7, <1>9, <1>10, <1>13, <1>14 DEF QueuesInv

LEMMA NodeRestartsStep == ASSUME TransferInv, NodeRestarts PROVE QueuesInv
<1>1. IInv /\ QueueInv /\ UploadInv /\ SentInv /\ FetchInv /\ FetchedInv
  BY DEF TransferInv
<1>2. Restart /\ UNCHANGED <<client, session, toServer, toClient>>
  BY DEF NodeRestarts
<1>3. /\ fp' = NULL /\ prevBlock' = 0
      /\ Quiet => SameFile(memory, memory')
      /\ \A w \in Nat : fp = Target /\ offset = 2 * w => SameUpTo(memory, memory', w)
  BY <1>1, <1>2, RestartKeeps
<1>4. Quiet => \A u, w : w \in Nat /\ Stored(memory, u, w) => Stored(memory', u, w)
  BY <1>3, SameFileUpTo, StoredSame
<1>5. Quiet => \A b, d, s : Right(memory, b, d, s) => Right(memory', b, d, s)
  BY <1>3, RightSame
<1>6. client.current \in Nat
  BY <1>1 DEF QueueInv, TransferType, Clients
<1>7. QueueInv'
  BY <1>1, <1>2 DEF QueueInv, TransferType
<1>8. Begun' <=> Begun
  BY <1>2 DEF Begun
<1>9. UploadInv'
  <2>1. ASSUME NEW w, Progress(w), Stored(memory', client.blocks, w) PROVE Reset'
    <3>1. w \in 0..client'.current /\ Progress(w)'
      BY <2>1, <1>2 DEF Progress
    <3> QED
      BY <3>1, <1>3 DEF Reset
  <2>2. Dead => Dead'
    BY <1>2, <1>3, <1>4, <1>6 DEF Dead, Quiet
  <2>3. Reset => Reset'
    <3> SUFFICES ASSUME Reset PROVE Reset'
      OBVIOUS
    <3>1. PICK w \in 0..client.current : Progress(w)
      BY DEF Reset
    <3>2. w \in Nat /\ Quiet
      BY <1>6 DEF Reset, Quiet
    <3> QED
      BY <3>1, <3>2, <2>1, <1>4 DEF Progress
  <2>4. Writing => Reset'
    <3> SUFFICES ASSUME Writing PROVE Reset'
      OBVIOUS
    <3>1. Progress(prevBlock) /\ prevBlock \in Nat
      BY <1>6 DEF Writing, Progress
    <3>2. Stored(memory', client.blocks, prevBlock)
      <4>1. CASE fp = NULL
        BY <4>1, <3>1, <1>4 DEF Quiet, Progress
      <4>2. CASE fp # NULL
        <5>1. SameUpTo(memory, memory', prevBlock)
          BY <4>2, <3>1, <1>3 DEF Writing
        <5> QED
          BY <5>1, <3>1, StoredSame DEF Progress
      <4> QED
        BY <4>1, <4>2
    <3> QED
      BY <3>1, <3>2, <2>1
  <2> QED
    BY <2>2, <2>3, <2>4, <1>1, <1>2, <1>8 DEF UploadInv
<1>10. SentInv'
  <2>1. client.blocks \in Uploads => Len(client.blocks) \in Nat
    BY UploadType
  <2> QED
    BY <2>1, <1>1, <1>2, <1>3, <1>4 DEF SentInv, Quiet
<1>11. Quiet /\ FetchedBlocks => FetchedBlocks'
  BY <1>2, <1>5 DEF FetchedBlocks
<1>12. Quiet'
  BY <1>3 DEF Quiet
<1>13. FetchInv'
  <2> SUFFICES ASSUME client.state = "fetching" PROVE FetchInv'
    BY <1>2 DEF FetchInv
  <2>1. /\ FetchedBlocks /\ DownRequests(toServer, session, client.current)
        /\ DownReplies(toClient, session, memory)
        /\ Begun => Only(toServer, session) /\ Quiet
    BY <1>1 DEF FetchInv
  <2>2. CASE Begun
    <3>1. DownReplies(toClient', session', memory')
      BY <2>1, <2>2, <1>2, <1>3, RepliesSame
    <3> QED
      BY <3>1, <2>1, <2>2, <1>2, <1>3, <1>8, <1>11, <1>12 DEF FetchInv
  <2>3. CASE ~Begun
    <3>1. client.current = 0 /\ ~InQueue(toClient, session)
      BY <2>3, <1>6 DEF Begun
    <3>2. DownReplies(toClient', session', memory')
      BY <3>1, <1>2 DEF InQueue, DownReplies
    <3>3. FetchedBlocks'
      BY <3>1, <2>1, <1>2 DEF FetchedBlocks
    <3> QED
      BY <3>2, <3>3, <2>1, <2>3, <1>2, <1>8 DEF FetchInv
  <2> QED
    BY <2>2, <2>3
<1>14. FetchedInv'
  BY <1>1, <1>2, <1>11, <1>12 DEF FetchedInv
<1> QED
  BY <1>7, <1>9, <1>10, <1>13, <1>14 DEF QueuesInv

-----------------------------------------------------------------------------
(* What the server does with the first request under way.                  *)
LEMMA LaterBlocks ==
  ASSUME NEW q, NEW r, Shifted(q, r), NEW n, Only(q, n), InOrder(q, n)
  PROVE  From(r, Index(q[1].packet))
<1>1. ASSUME NEW i \in 1..Len(r) PROVE Index(r[i].packet) >= Index(q[1].packet)
  <2>1. i + 1 \in 1..Len(q) /\ 1 \in 1..Len(q) /\ 1 < i + 1 /\ r[i] = q[i + 1]
    BY DEF Shifted
  <2>2. Index(q[1].packet) <= Index(q[i + 1].packet)
    BY <2>1 DEF Only, InOrder
  <2> QED
    BY <2>1, <2>2
<1> QED
  BY <1>1 DEF From

\* The first request is received and answered.
Answered ==
  /\ toServer # <<>> /\ Shifted(toServer, toServer')
  /\ tftpHandler(toServer[1].packet) /\ toServer[1].packet \in Requests
  /\ toServer[1].session \in Nat /\ toServer[1].session <= session
  /\ toServer' \in Seq(Requesting) /\ toClient' \in Seq(Replying)
  /\ \/ toClient' = toClient /\ reply' = NoReply
     \/ Extended(toClient, toClient', [session |-> toServer[1].session, packet |-> reply'])
        /\ reply' # NoReply
  /\ UNCHANGED <<client, session>>

LEMMA UploadAnswered ==
  ASSUME IInv, QueueInv, UploadInv, Answered,
         client.state = "sending", toServer[1].session = session
  PROVE  UploadInv'
<1> DEFINE u == client.blocks
           k == client.current
           n == session
           p == toServer[1].packet
           e == [session |-> n, packet |-> reply']
<1>1. /\ u \in Uploads /\ k \in 0..Len(u) /\ k \in Nat /\ Len(u) \in Nat
      /\ UpRequests(toServer, n, u, k) /\ InOrder(toServer, n) /\ UpReplies(toClient, n, k)
  BY UploadType DEF UploadInv, QueueInv, TransferType, Clients
<1>2. /\ Only(toServer, n) /\ 1 \in 1..Len(toServer)
  BY HeadMine, TailShifts DEF Answered, QueueInv, TransferType
<1>3. /\ Only(toServer', n) /\ UpRequests(toServer', n, u, k) /\ InOrder(toServer', n)
      /\ From(toServer', Index(p))
      /\ \A w : From(toServer, w) => From(toServer', w)
  BY <1>1, <1>2, ShiftKeeps, LaterBlocks DEF Answered
<1>4. u' = u /\ k' = k /\ n' = n /\ client'.state = "sending"
  BY DEF Answered
<1>5. e.session = n /\ e.packet = reply'
  OBVIOUS
<1>6. \/ toClient' = toClient /\ reply' = NoReply
      \/ Extended(toClient, toClient', e) /\ reply' # NoReply
  BY DEF Answered
<1> HIDE DEF e
<1>7. /\ Doomed(toClient, n, k) => Doomed(toClient', n, k)
      /\ HasError(toClient, n) => HasError(toClient', n)
  <2>1. CASE toClient' = toClient
    BY <2>1
  <2>2. CASE Extended(toClient, toClient', e)
    <3>1. \A l : Doomed(toClient, n, l) => Doomed(toClient', n, l)
      BY <2>2, ExtendKeepsErrors
    <3>2. HasError(toClient, n) => HasError(toClient', n)
      BY <2>2, ExtendKeepsErrors
    <3> QED
      BY <3>1, <3>2
  <2> QED
    BY <1>6, <2>1, <2>2
<1>8. ASSUME reply' = NoReply \/ reply' = ErrorReply \/ \E j \in 0..k : reply' = Ack(j)
      PROVE  UpReplies(toClient', n, k)
  BY <1>1, <1>5, <1>6, <1>8, ExtendKeeps
<1>9. ASSUME NEW w, Acked(toClient, n, w),
             reply' = NoReply \/ \E j \in 0..w : reply' = Ack(j)
      PROVE  Acked(toClient', n, w)
  BY <1>5, <1>6, <1>9, ExtendKeeps
<1>10. ASSUME reply' = ErrorReply
       PROVE  /\ HasError(toClient', n)
              /\ (\A i \in 1..Len(toClient) : toClient[i].session = n => toClient[i].packet # Ack(k))
                   => Doomed(toClient', n, k)
  <2>1. Extended(toClient, toClient', e)
    BY <1>6, <1>10 DEF ErrorReply, NoReply
  <2> QED
    BY <2>1, <1>5, <1>10, ExtendKeepsErrors
<1>11. \A j : Ack(j) # NoReply /\ Ack(j) # ErrorReply
  BY DEF Ack, NoReply, ErrorReply
<1> DEFINE Goal == /\ reply' = NoReply \/ reply' = ErrorReply \/ \E j \in 0..k : reply' = Ack(j)
                   /\ Doomed(toClient', n, k) \/ Dead' \/ Reset' \/ Writing'
<1>12. ASSUME p = WriteRequest PROVE Goal
  <2>1. /\ fp' = Target /\ offset' = 0 /\ prevBlock' = 0 /\ activeMode' # FA_READ
        /\ memory' = memory /\ reply' = Ack(0)
    BY <1>12, ServeWrite DEF Answered
  <2>2. Index(p) = 0
    BY <1>12 DEF Index, WriteRequest
  <2>3. 0 \in 0..k /\ 0 \in 0..0
    BY <1>1
  <2>4. Doomed(toClient, n, k) \/ Acked(toClient, n, 0)
    <3>1. CASE ~Begun
      BY <3>1 DEF Begun, InQueue, Acked
    <3>2. ASSUME NEW w \in 0..k, Progress(w) PROVE Acked(toClient, n, 0)
      <4>1. 0 >= w
        BY <3>2, <2>2, <1>2 DEF Progress, From
      <4>2. w = 0
        BY <4>1, <1>1
      <4> QED
        BY <4>2, <3>2 DEF Progress
    <3>3. ~Dead
      BY <2>2, <1>2 DEF Dead, From
    <3>4. Reset \/ Writing => \E w \in 0..k : Progress(w)
      BY DEF Reset, Writing, Progress
    <3> QED
      BY <3>1, <3>2, <3>3, <3>4 DEF UploadInv
  <2>5. ASSUME Acked(toClient, n, 0) PROVE Writing'
    <3>1. Acked(toClient', n, 0)
      BY <2>1, <2>3, <2>5, <1>9
    <3>2. Stored(memory', u, 0)
      BY DEF Stored
    <3>3. Progress(0)'
      BY <3>1, <3>2, <2>2, <2>3, <1>3, <1>4 DEF Progress
    <3> QED
      BY <3>3, <2>1, TargetFacts DEF Writing, Progress
  <2> QED
    BY <2>1, <2>3, <2>4, <2>5, <1>7
<1>13. ASSUME NEW j \in 1..k, p = BlockPacket(u, j) PROVE Goal
  <2>1. /\ j \in 1..Len(u) /\ j \in Nat /\ k >= 1 /\ Index(p) = j
        /\ tftpHandler(BlockPacket(u, j)) /\ j \in 0..k
    <3>1. j \in 1..Len(u) /\ j \in Nat /\ k >= 1 /\ j \in 0..k
      BY <1>1
    <3> QED
      BY <3>1, <1>1, <1>13, BlockIs DEF Answered
  <2>2. prevBlock \in Nat
    BY Reading, LastBlockPositive DEF BlockNumbers
  <2>3. From(toServer', j)
    BY <2>1, <1>3
  <2>4. CASE Doomed(toClient, n, k)
    <3>1. CASE fp = NULL /\ j = prevBlock + 1
      BY <3>1, <2>1, <2>4, <1>1, <1>7, ServeClosed
    <3>2. reply' = NoReply \/ reply' = ErrorReply \/ reply' = Ack(j)
      <4>1. p.op = "data" /\ p.block = j
        BY <2>1, <1>1, <1>13, BlockIs
      <4> QED
        BY <4>1, <1>13, <2>1 DEF tftpHandler, DataAgain, DataStray, DataNext, ReplyError
    <3> QED
      BY <3>2, <2>1, <2>4, <1>7
  <2>5. CASE Dead
    <3>1. fp' = NULL /\ memory' = memory
      BY <2>1, <2>5, <1>1, ServeClosed DEF Dead
    <3>2. reply' = NoReply \/ reply' = ErrorReply \/ reply' = Ack(j)
      <4>1. p.op = "data" /\ p.block = j
        BY <2>1, <1>1, <1>13, BlockIs
      <4> QED
        BY <4>1, <1>13, <2>1 DEF tftpHandler, DataAgain, DataStray, DataNext, ReplyError
    <3>3. HasError(toClient', n)
      BY <2>5, <1>7 DEF Dead
    <3>4. Dead'
      BY <3>1, <3>3, <2>5, <1>3, <1>4 DEF Dead
    <3> QED
      BY <3>2, <3>4, <2>1
  <2>6. CASE Reset
    <3>1. PICK w \in 0..k : Progress(w)
      BY <2>6 DEF Reset
    <3>2. w <= j /\ w \in Nat
      BY <3>1, <2>1, <1>1, <1>2 DEF Progress, From
    <3>3. fp = NULL /\ prevBlock = 0
      BY <2>6 DEF Reset
    <3>4. fp' = NULL /\ memory' = memory
      BY <3>3, <2>1, <1>1, ServeClosed
    <3>5. CASE j = 1
      <4>1. prevBlock' = 1 /\ reply' = IF u[1].size = 0 THEN Ack(1) ELSE ErrorReply
        BY <3>3, <3>5, <2>1, <1>1, ServeClosed
      <4>2. CASE u[1].size = 0
        <5>1. reply' = Ack(1) /\ 1 \in 0..k /\ 1 \in 0..1
          BY <4>1, <4>2, <2>1
        <5>2. 1 = Len(u)
          <6>1. u[j].size < 2 <=> j = Len(u)
            BY <2>1, <1>1, UploadType
          <6> QED
            BY <6>1, <4>2, <3>5
        <5>3. Stored(memory', u, 1)
          BY <4>2 DEF Stored
        <5>4. Acked(toClient, n, 1)
          <6>1. \A i \in 0..w : i \in 0..1
            BY <3>2, <3>5
          <6> QED
            BY <6>1, <3>1 DEF Progress, Acked
        <5>5. Acked(toClient', n, 1)
          BY <5>1, <5>4, <1>9
        <5>6. Progress(1)'
          BY <5>1, <5>3, <5>5, <2>3, <3>5, <1>4 DEF Progress
        <5>7. Writing'
          BY <5>2, <5>6, <4>1, <3>4, <1>4 DEF Writing, Progress
        <5> QED
          BY <5>1, <5>7
      <4>3. CASE u[1].size # 0
        <5>1. reply' = ErrorReply
          BY <4>1, <4>3
        <5>2. CASE w = k
          <6>1. Stored(memory', u, k) /\ From(toServer', 1)
            BY <5>2, <3>1, <3>4, <3>5, <2>3 DEF Progress
          <6>2. Dead'
            BY <6>1, <5>1, <3>4, <2>1, <1>4, <1>10 DEF Dead
          <6> QED
            BY <5>1, <6>2
        <5>3. CASE w # k
          <6>1. k > w
            BY <5>3, <3>1, <1>1
          <6>2. Doomed(toClient', n, k)
            BY <6>1, <5>1, <3>1, <3>2, <1>1, <1>10, AckTells DEF Progress
          <6> QED
            BY <5>1, <6>2
        <5> QED
          BY <5>2, <5>3
      <4> QED
        BY <4>2, <4>3
    <3>6. CASE j # 1
      <4>1. j > prevBlock + 1
        BY <3>3, <3>6, <2>1
      <4>2. reply' = NoReply /\ UNCHANGED <<memory, offset, activeMode, fp, prevBlock>>
        BY <4>1, <2>1, <1>1, ServeStray
      <4>3. Acked(toClient', n, w) /\ From(toServer', w)
        BY <4>2, <3>1, <1>3, <1>9 DEF Progress
      <4>4. Progress(w)' /\ w \in 0..k'
        BY <4>2, <4>3, <3>1, <1>4 DEF Progress
      <4>5. Reset'
        BY <4>2, <4>4, <3>3, <1>4 DEF Reset
      <4> QED
        BY <4>2, <4>5
    <3> QED
      BY <3>5, <3>6
  <2>7. CASE Writing
    <3>1. /\ Progress(prevBlock) /\ prevBlock <= j
          /\ prevBlock \in 0..k /\ Stored(memory, u, prevBlock)
          /\ Acked(toClient, n, prevBlock) /\ From(toServer, prevBlock)
      BY <2>1, <2>7, <1>2 DEF Writing, Progress, From
    <3>2. ASSUME UNCHANGED <<memory, offset, activeMode, fp, prevBlock>>,
                 reply' = NoReply \/ reply' = Ack(prevBlock)
          PROVE  Goal
      <4>1. prevBlock \in 0..prevBlock
        BY <2>2
      <4>2. Acked(toClient', n, prevBlock) /\ From(toServer', prevBlock)
        BY <4>1, <3>1, <3>2, <1>3, <1>9
      <4>3. Progress(prevBlock)'
        BY <4>2, <3>1, <3>2, <1>4 DEF Progress
      <4>4. Writing'
        BY <4>3, <3>2, <2>7, <1>4 DEF Writing
      <4> QED
        BY <4>4, <3>1, <3>2
    <3>3. CASE j = prevBlock
      BY <3>2, <3>3, <2>1, <1>1, ServeAgain
    <3>4. CASE j > prevBlock + 1
      BY <3>2, <3>4, <2>1, <1>1, ServeStray
    <3>5. CASE j = prevBlock + 1
      <4>1. fp = Target /\ offset = 2 * prevBlock /\ activeMode # FA_READ
            /\ \A i \in 1..prevBlock : u[i].size = 2
        <5>1. prevBlock # Len(u)
          BY <3>5, <2>1, <2>2, <1>1
        <5> QED
          BY <5>1, <2>7 DEF Writing
      <4>2. \/ reply' = ErrorReply
            \/ /\ reply' = Ack(j) /\ prevBlock' = j
               /\ SameUpTo(memory, memory', j - 1)
               /\ u[j].size > 0 => Lasts(j) /\ memory'[At(j)] = u[j].data
               /\ u[j].size < 2 => fp' = NULL
               /\ u[j].size = 2 => fp' = Target /\ offset' = 2 * j /\ activeMode' # FA_READ
        BY <4>1, <3>5, <2>1, <1>1, ServeNext
      <4>3. CASE reply' = ErrorReply
        <5>1. k > prevBlock
          BY <3>5, <2>1, <2>2, <1>1
        <5>2. Doomed(toClient', n, k)
          BY <5>1, <4>3, <3>1, <2>2, <1>1, <1>10, AckTells
        <5> QED
          BY <4>3, <5>2
      <4>4. CASE /\ reply' = Ack(j) /\ prevBlock' = j
                 /\ SameUpTo(memory, memory', j - 1)
                 /\ u[j].size > 0 => Lasts(j) /\ memory'[At(j)] = u[j].data
                 /\ u[j].size < 2 => fp' = NULL
                 /\ u[j].size = 2 => fp' = Target /\ offset' = 2 * j /\ activeMode' # FA_READ
        <5>1. j - 1 = prevBlock /\ j \in 0..j
          BY <3>5, <2>1, <2>2
        <5>2. Stored(memory', u, prevBlock)
          BY <5>1, <4>4, <3>1, <2>2, StoredSame
        <5>3. \A i \in 1..j : i \in 1..prevBlock \/ i = j
          BY <5>1, <2>1, <2>2
        <5>4. Stored(memory', u, j)
          BY <5>2, <5>3, <4>4 DEF Stored, Lasts, At
        <5>5. Acked(toClient, n, j)
          <6>1. \A i \in 0..prevBlock : i \in 0..j
            BY <5>1, <2>1, <2>2
          <6> QED
            BY <6>1, <3>1 DEF Acked
        <5>6. Acked(toClient', n, j)
          BY <5>1, <5>5, <4>4, <1>9
        <5>7. Progress(j)'
          BY <5>4, <5>6, <2>1, <2>3, <1>4 DEF Progress
        <5>8. Progress(prevBlock)'
          BY <5>7, <4>4 DEF Progress
        <5>9. u[j].size \in 0..2 /\ (u[j].size < 2 <=> j = Len(u))
          BY <2>1, <1>1, UploadType
        <5>10. Writing'
          <6>1. CASE u[j].size < 2
            BY <6>1, <5>8, <5>9, <4>4, <1>4 DEF Writing
          <6>2. CASE u[j].size = 2
            <7>1. \A i \in 1..j : u[i].size = 2
              BY <6>2, <5>3, <4>1
            <7> QED
              BY <6>2, <7>1, <5>8, <4>4, <1>4, TargetFacts DEF Writing
          <6> QED
            BY <6>1, <6>2, <5>9
        <5> QED
          BY <5>10, <4>4, <2>1
      <4> QED
        BY <4>2, <4>3, <4>4
    <3> QED
      BY <3>1, <3>3, <3>4, <3>5, <2>1, <2>2
  <2>8. Begun
    BY <2>1, <1>1 DEF Begun
  <2>9. Doomed(toClient, n, k) \/ Dead \/ Reset \/ Writing
    BY <2>8 DEF UploadInv
  <2> QED
    BY <2>4, <2>5, <2>6, <2>7, <2>9
<1>14. Goal
  <2>1. p = WriteRequest \/ \E j \in 1..k : p = BlockPacket(u, j)
    BY <1>1, <1>2 DEF UpRequests, Only
  <2> QED
    BY <2>1, <1>12, <1>13
<1> QED
  BY <1>1, <1>3, <1>4, <1>8, <1>14 DEF UploadInv

LEMMA FetchAnswered ==
  ASSUME IInv, QueueInv, FetchInv, Answered,
         client.state = "fetching", toServer[1].session = session
  PROVE  FetchInv'
<1> DEFINE k == client.current
           n == session
           p == toServer[1].packet
           e == [session |-> n, packet |-> reply']
<1>1. /\ FetchedBlocks /\ k \in Nat /\ k \in BlockNumbers
      /\ DownRequests(toServer, n, k) /\ DownReplies(toClient, n, memory)
  BY FetchedCurrent DEF FetchInv, QueueInv, TransferType, Clients
<1>2. Only(toServer, n) /\ 1 \in 1..Len(toServer)
  BY HeadMine, TailShifts DEF Answered, QueueInv, TransferType
<1>3. Only(toServer', n) /\ DownRequests(toServer', n, k)
  BY <1>1, <1>2, ShiftKeeps DEF Answered
<1>4. client' = client /\ n' = n
  BY DEF Answered
<1>5. e.session = n /\ e.packet = reply'
  OBVIOUS
<1>6. \/ toClient' = toClient /\ reply' = NoReply
      \/ Extended(toClient, toClient', e) /\ reply' # NoReply
  BY DEF Answered
<1>7. p = ReadRequest \/ \E j \in 1..k : p = Ack(j)
  BY <1>1, <1>2 DEF DownRequests, Only
<1>8. p = ReadRequest \/ Quiet
  <2>1. ASSUME NEW j \in 1..k PROVE Quiet
    <3>1. Begun
      BY <1>1 DEF Begun
    <3> QED
      BY <3>1 DEF FetchInv
  <2> QED
    BY <1>7, <2>1
<1>9. memory' = memory /\ Quiet'
  <2>1. CASE p = ReadRequest
    BY <2>1, ServeRead DEF Answered
  <2>2. CASE Quiet
    <3>1. p.op \in {"rrq", "ack"}
      <4>1. ReadRequest.op = "rrq" /\ \A j : Ack(j).op = "ack"
        BY DEF ReadRequest, Ack
      <4>2. ReadRequest.op \in {"rrq", "ack"} /\ \A j : Ack(j).op \in {"rrq", "ack"}
        BY <4>1
      <4> QED
        BY <4>2, <1>7
    <3> QED
      BY <2>2, <3>1, ServeQuiet DEF Answered
  <2> QED
    BY <1>8, <2>1, <2>2
<1>10. /\ reply' = NoReply \/ reply' = ErrorReply \/ RightData(memory, reply') \/ HasError(toClient, n)
       /\ reply' = ErrorReply \/ (fp' = NULL /\ prevBlock' = 0) \/ ReadingOn' \/ HasError(toClient, n)
  <2>1. CASE p = ReadRequest
    BY <2>1, ServeRead DEF Answered
  <2>2. ASSUME NEW j \in 1..k, p = Ack(j), ~HasError(toClient, n)
        PROVE  /\ reply' = NoReply \/ reply' = ErrorReply \/ RightData(memory, reply')
               /\ reply' = ErrorReply \/ (fp' = NULL /\ prevBlock' = 0) \/ ReadingOn'
    <3>1. Begun
      BY <1>1 DEF Begun
    <3>2. Quiet /\ ((fp = NULL /\ prevBlock = 0) \/ ReadingOn)
      BY <3>1, <2>2 DEF FetchInv
    <3>3. j \in BlockNumbers /\ j >= 1
      BY <1>1, LastBlockPositive DEF BlockNumbers
    <3> QED
      BY <2>2, <3>2, <3>3, ServeAck DEF Answered
  <2> QED
    BY <1>7, <2>1, <2>2
<1> HIDE DEF e
<1>11. DownReplies(toClient', n, memory')
  <2>1. CASE toClient' = toClient
    BY <2>1, <1>1, <1>9
  <2>2. CASE Extended(toClient, toClient', e) /\ reply' # NoReply
    BY <2>2, <1>1, <1>5, <1>9, <1>10, ExtendKeepsErrors
  <2> QED
    BY <1>6, <2>1, <2>2
<1>12. HasError(toClient', n) \/ (fp' = NULL /\ prevBlock' = 0) \/ ReadingOn'
  <2>1. CASE toClient' = toClient /\ reply' = NoReply
    BY <2>1, <1>10 DEF NoReply, ErrorReply
  <2>2. CASE Extended(toClient, toClient', e)
    BY <2>2, <1>5, <1>10, ExtendKeepsErrors
  <2> QED
    BY <1>6, <2>1, <2>2
<1>13. FetchedBlocks'
  BY <1>1, <1>4, <1>9 DEF FetchedBlocks
<1> QED
  BY <1>3, <1>4, <1>9, <1>11, <1>12, <1>13 DEF FetchInv

(* A request of an earlier session is answered while the last one has not  *)
(* begun, and its answer is not the client's.                              *)
LEMMA OtherAnswered ==
  ASSUME IInv, QueueInv, UploadInv, FetchInv, Answered, toServer[1].session # session
  PROVE  UploadInv' /\ FetchInv'
<1> DEFINE n == session
           k == client.current
           e == [session |-> toServer[1].session, packet |-> reply']
<1>1. ~Only(toServer, n)
  BY TailShifts DEF Answered, QueueInv, TransferType, Only
<1>2. client' = client /\ n' = n
  BY DEF Answered
<1>3. e.session # n
  OBVIOUS
<1>4. toClient' = toClient \/ Extended(toClient, toClient', e)
  BY DEF Answered
<1> HIDE DEF e
<1>5. ASSUME ~Begun
      PROVE  /\ \A i \in 1..Len(toClient') : toClient'[i].session # n
             /\ k = 0 /\ ~Begun'
  <2>1. k = 0 /\ \A i \in 1..Len(toClient) : toClient[i].session # n
    BY <1>5 DEF Begun, InQueue, QueueInv, TransferType, Clients
  <2>2. \A i \in 1..Len(toClient') : toClient'[i].session # n
    BY <2>1, <1>3, <1>4 DEF Extended
  <2> QED
    BY <2>1, <2>2, <1>2 DEF Begun, InQueue
<1>6. /\ \A u, l : UpRequests(toServer, n, u, l) => UpRequests(toServer', n, u, l)
      /\ InOrder(toServer, n) => InOrder(toServer', n)
      /\ \A l : DownRequests(toServer, n, l) => DownRequests(toServer', n, l)
  BY ShiftKeeps DEF Answered
<1>7. UploadInv'
  <2> SUFFICES ASSUME client.state = "sending" PROVE UploadInv'
    BY <1>2 DEF UploadInv
  <2>1. ~Begun
    BY <1>1 DEF UploadInv
  <2>2. UpReplies(toClient', n, k)
    BY <2>1, <1>5 DEF UpReplies
  <2> QED
    BY <2>1, <2>2, <1>2, <1>5, <1>6 DEF UploadInv
<1>8. FetchInv'
  <2> SUFFICES ASSUME client.state = "fetching" PROVE FetchInv'
    BY <1>2 DEF FetchInv
  <2>1. ~Begun
    BY <1>1 DEF FetchInv
  <2>2. DownReplies(toClient', n, memory')
    BY <2>1, <1>5 DEF DownReplies
  <2>3. FetchedBlocks'
    BY <2>1, <1>2, <1>5 DEF FetchInv, FetchedBlocks
  <2> QED
    BY <2>1, <2>2, <2>3, <1>2, <1>5, <1>6 DEF FetchInv
<1> QED
  BY <1>7, <1>8

LEMMA ServerReceivesStep == ASSUME TransferInv, IInv', ServerReceives PROVE QueuesInv
<1>1. IInv /\ QueueInv /\ UploadInv /\ SentInv /\ FetchInv /\ FetchedInv
  BY DEF TransferInv
<1>2. toServer \in Seq(Requesting) /\ toClient \in Seq(Replying) /\ session \in Nat
  BY <1>1 DEF QueueInv, TransferType
<1>3. /\ toServer # <<>> /\ toServer' = Tail(toServer)
      /\ tftpHandler(Head(toServer).packet)
      /\ toClient' = IF reply' = NoReply THEN toClient
                     ELSE Append(toClient, [session |-> Head(toServer).session, packet |-> reply'])
      /\ UNCHANGED <<client, session>>
  BY DEF ServerReceives
<1>4. /\ toServer' \in Seq(Requesting) /\ Shifted(toServer, toServer')
      /\ Head(toServer) = toServer[1] /\ 1 \in 1..Len(toServer) /\ Head(toServer) \in Requesting
  BY <1>2, <1>3, TailShifts
<1>5. /\ toServer[1].packet \in Requests /\ toServer[1].session \in Nat
      /\ toServer[1].session <= session
  BY <1>1, <1>4 DEF Requesting, QueueInv, UpTo
<1> DEFINE e == [session |-> toServer[1].session, packet |-> reply']
<1>6. e \in Replying
  BY <1>5 DEF Replying, IInv, TypeOK
<1>7. \/ toClient' = toClient /\ reply' = NoReply
      \/ toClient' = Append(toClient, e) /\ reply' # NoReply
  <2>1. toClient' = IF reply' = NoReply THEN toClient ELSE Append(toClient, e)
    BY <1>3, <1>4
  <2> HIDE DEF e
  <2> QED
    BY <2>1
<1> HIDE DEF e
<1>8. /\ toClient' \in Seq(Replying)
      /\ \/ toClient' = toClient /\ reply' = NoReply
         \/ Extended(toClient, toClient', e) /\ reply' # NoReply
  BY <1>2, <1>6, <1>7, AppendExtends
<1>9. Answered
  BY <1>3, <1>4, <1>5, <1>8 DEF Answered, e
<1>10. QueueInv'
  <2>1. toClient' = toClient \/ Shifted(toClient, toClient')
           \/ \E p : \E s \in Nat : s <= session
                /\ Extended(toClient, toClient', [session |-> s, packet |-> p])
    BY <1>5, <1>8 DEF e
  <2>2. client' \in Clients
    BY <1>1, <1>3 DEF QueueInv, TransferType
  <2> QED
    BY <2>1, <2>2, <1>1, <1>3, <1>4, <1>8, MoveQueues
<1>11. UploadInv' /\ FetchInv'
  <2>1. CASE toServer[1].session # session
    BY <2>1, <1>1, <1>9, OtherAnswered
  <2>2. CASE toServer[1].session = session /\ client.state = "sending"
    BY <2>2, <1>1, <1>3, <1>9, UploadAnswered DEF FetchInv
  <2>3. CASE toServer[1].session = session /\ client.state = "fetching"
    BY <2>3, <1>1, <1>3, <1>9, FetchAnswered DEF UploadInv
  <2>4. CASE client.state \notin {"sending", "fetching"}
    BY <2>4, <1>3 DEF UploadInv, FetchInv
  <2> QED
    BY <2>1, <2>2, <2>3, <2>4
<1>12. \A i \in 1..Len(toServer') : \E j \in 1..Len(toServer) : toServer'[i] = toServer[j]
  BY <1>4 DEF Shifted
<1>13. SentInv'
  <2> SUFFICES ASSUME client.state = "sent", Len(client.blocks) > 0
               PROVE  /\ fp' = NULL /\ Stored(memory', client.blocks, Len(client.blocks))
                      /\ \A i \in 1..Len(toServer') : toServer'[i].packet.op = "data"
    BY <1>1, <1>3 DEF SentInv
  <2>1. /\ fp = NULL /\ Stored(memory, client.blocks, Len(client.blocks))
        /\ \A i \in 1..Len(toServer) : toServer[i].packet.op = "data"
    BY <1>1 DEF SentInv
  <2>2. fp' = NULL /\ memory' = memory
    BY <2>1, <1>1, <1>3, <1>4, <1>5, ServeNull
  <2> QED
    BY <2>1, <2>2, <1>12
<1>14. FetchedInv'
  <2> SUFFICES ASSUME client.state = "fetched" PROVE FetchedInv'
    BY <1>3 DEF FetchedInv
  <2>1. /\ FetchedBlocks /\ Quiet
        /\ \A i \in 1..Len(toServer) : toServer[i].packet.op \in {"rrq", "ack"}
    BY <1>1 DEF FetchedInv
  <2>2. memory' = memory /\ Quiet'
    BY <2>1, <1>1, <1>3, <1>4, <1>5, ServeQuiet
  <2>3. FetchedBlocks'
    BY <2>1, <2>2, <1>3 DEF FetchedBlocks
  <2> QED
    BY <2>1, <2>2, <2>3, <1>1, <1>3, <1>12 DEF FetchedInv
<1> QED
  BY <1>10, <1>11, <1>13, <1>14 DEF QueuesInv

-----------------------------------------------------------------------------
(* What the client does with the first reply under way.                    *)
LEMMA ClientForward ==
  ASSUME TransferInv, toClient # <<>>, toClient' = Tail(toClient), UNCHANGED serverVars,
         session' = session, client' \in Clients,
         \/ toServer' = toServer
         \/ Transmit(client') /\ Outgoing(client') \in Requests
  PROVE  /\ QueueInv'
         /\ \/ toServer' = toServer
            \/ Extended(toServer, toServer', [session |-> session, packet |-> Outgoing(client')])
<1>1. QueueInv /\ toServer \in Seq(Requesting) /\ toClient \in Seq(Replying) /\ session' \in Nat
  BY DEF TransferInv, QueueInv, TransferType
<1>2. toClient' \in Seq(Replying) /\ Shifted(toClient, toClient')
  BY <1>1, TailShifts
<1>3. /\ toServer' \in Seq(Requesting)
      /\ \/ toServer' = toServer
         \/ Extended(toServer, toServer', [session |-> session, packet |-> Outgoing(client')])
  <2>1. CASE toServer' = toServer
    BY <2>1, <1>1
  <2>2. ASSUME NEW c, c = client', Transmit(c), Outgoing(c) \in Requests
        PROVE  /\ toServer' \in Seq(Requesting)
               /\ \/ toServer' = toServer
                  \/ Extended(toServer, toServer', [session |-> session, packet |-> Outgoing(c)])
    <3>1. /\ toServer' \in Seq(Requesting)
          /\ \/ toServer' = toServer
             \/ Extended(toServer, toServer', [session |-> session', packet |-> Outgoing(c)])
      BY <2>2, <1>1, TransmitResult
    <3> QED
      BY <3>1
  <2> QED
    BY <2>1, <2>2
<1>4. QueueInv'
  BY <1>1, <1>2, <1>3, MoveQueues
<1> QED
  BY <1>3, <1>4

LEMMA UploadForward ==
  ASSUME TransferInv, client.state = "sending", UNCHANGED serverVars,
         toClient # <<>>, toClient' = Tail(toClient), session' = session,
         toClient[1].session = session, toClient[1].packet = Ack(client.current),
         client' = Advanced(toClient[1].packet),
         IF client'.state = "sent" THEN UNCHANGED toServer ELSE Transmit(client')
  PROVE  QueuesInv
<1> DEFINE u == client.blocks
           k == client.current
           n == session
<1>1. /\ QueueInv /\ client \in Clients /\ n \in Nat
      /\ u \in Uploads /\ k \in 0..Len(u) /\ k \in Nat /\ Len(u) \in Nat
      /\ UpRequests(toServer, n, u, k) /\ InOrder(toServer, n) /\ UpReplies(toClient, n, k)
      /\ toClient \in Seq(Replying)
  BY UploadType DEF TransferInv, UploadInv, QueueInv, TransferType, Clients
<1>2. Shifted(toClient, toClient') /\ 1 \in 1..Len(toClient)
  BY <1>1, TailShifts
<1>3. Begun /\ Only(toServer, n)
  <2>1. Begun
    BY <1>2 DEF Begun, InQueue
  <2> QED
    BY <2>1 DEF TransferInv, UploadInv
<1>4. ~Doomed(toClient, n, k)
  <2> SUFFICES ASSUME NEW e \in 1..Len(toClient), IsError(toClient, n, e),
                      \A i \in 1..Len(toClient) :
                        toClient[i].session = n /\ i < e => toClient[i].packet # Ack(k)
               PROVE  FALSE
    BY DEF Doomed
  <2>1. e = 1 \/ 1 < e
    OBVIOUS
  <2>2. Ack(k) # ErrorReply
    BY DEF Ack, ErrorReply
  <2> QED
    BY <2>1, <2>2, <1>2 DEF IsError
<1>5. Dead \/ Reset \/ Writing
  BY <1>3, <1>4 DEF TransferInv, UploadInv
<1>6. ~IsError(toClient, n, 1)
  BY DEF IsError, Ack, ErrorReply
<1>7. ASSUME NEW w \in 0..k, Progress(w)
      PROVE  w = k /\ Stored(memory, u, k) /\ From(toServer, k)
  <2>1. k <= w
    BY <1>1, <1>2, <1>7, AckTells DEF Progress
  <2>2. w = k
    BY <2>1, <1>1
  <2> QED
    BY <2>2, <1>7 DEF Progress
<1>8. UNCHANGED <<memory, fp, offset, prevBlock, activeMode>>
  BY DEF serverVars
<1>9. /\ Ack(k).op = "ack"
      /\ client.state = "sending"
  BY DEF Ack
<1>10. CASE k = Len(u)
  <2>1. client' = [client EXCEPT !.state = "sent"]
    BY <1>9, <1>10 DEF Advanced
  <2>2. client' \in Clients /\ client'.state = "sent" /\ client'.blocks = u
    BY <2>1, <1>1 DEF Clients
  <2>3. toServer' = toServer
    BY <2>2
  <2>4. QueueInv'
    BY <2>2, <2>3, ClientForward
  <2>5. ASSUME Len(u) > 0
        PROVE  fp = NULL /\ Stored(memory, u, k) /\ From(toServer, 1)
    <3>1. CASE Dead
      BY <3>1 DEF Dead
    <3>2. ASSUME From(toServer, k) PROVE From(toServer, 1)
      <4>1. \A i \in 1..Len(toServer) : Index(toServer[i].packet) \in 0..k
        BY <1>1, <1>3, RequestIndex DEF Only
      <4> QED
        <5>1. \A i \in 1..Len(toServer) : Index(toServer[i].packet) >= k
          BY <3>2 DEF From
        <5>2. k >= 1
          BY <2>5, <1>10, <1>1
        <5>3. ASSUME NEW i \in 1..Len(toServer) PROVE Index(toServer[i].packet) >= 1
          BY <4>1, <5>1, <5>2, <1>1
        <5> QED
          BY <5>3 DEF From
    <3>3. CASE Reset
      <4>1. PICK w \in 0..k : Progress(w)
        BY <3>3 DEF Reset
      <4> QED
        BY <4>1, <3>2, <3>3, <1>7 DEF Reset
    <3>4. CASE Writing
      <4>1. prevBlock \in 0..k /\ Progress(prevBlock)
        BY <3>4 DEF Writing, Progress
      <4>2. prevBlock = k
        BY <4>1, <1>7
      <4>3. fp = NULL
        <5> SUFFICES ASSUME fp # NULL PROVE FALSE
          OBVIOUS
        <5>1. k \in 1..Len(u) /\ u[k].size = 2
          BY <4>2, <3>4, <2>5, <1>10, <1>1 DEF Writing
        <5>2. u[k].size < 2
          BY <5>1, <1>10, <1>1, UploadType
        <5> QED
          BY <5>1, <5>2
      <4> QED
        BY <4>1, <4>3, <3>2, <1>7
    <3> QED
      BY <3>1, <3>3, <3>4, <1>5
  <2>6. ASSUME Len(u) > 0, NEW i \in 1..Len(toServer') PROVE toServer'[i].packet.op = "data"
    <3>1. Index(toServer[i].packet) >= 1
      BY <2>3, <2>5, <2>6 DEF From
    <3> QED
      BY <3>1, <2>3 DEF Index
  <2>7. SentInv'
    BY <2>2, <2>5, <2>6, <1>1, <1>8, <1>10 DEF SentInv
  <2> QED
    BY <2>2, <2>4, <2>7 DEF QueuesInv, UploadInv, FetchInv, FetchedInv
<1>11. CASE k < Len(u)
  <2> DEFINE l == k + 1
             e == [session |-> n, packet |-> Outgoing(client')]
  <2>1. client' = [client EXCEPT !.current = @ + 1]
    BY <1>9, <1>11 DEF Advanced
  <2>2. /\ client' \in Clients /\ client'.state = "sending" /\ client'.blocks = u
        /\ client'.current = l
    BY <2>1, <1>1 DEF Clients
  <2>3. l \in 0..Len(u) /\ l \in Nat /\ k <= l /\ k < l
    BY <1>1, <1>11
  <2>4. /\ Outgoing(client') \in Requests /\ Index(Outgoing(client')) = l
        /\ Outgoing(client') = WriteRequest \/ \E j \in 1..l : Outgoing(client') = BlockPacket(u, j)
    <3>1. ASSUME NEW c, c = client'
          PROVE  /\ Outgoing(c) \in Requests /\ Index(Outgoing(c)) = l
                 /\ Outgoing(c) = WriteRequest \/ \E j \in 1..l : Outgoing(c) = BlockPacket(u, j)
      BY <3>1, <2>2, <2>3, <1>1, SendingOut
    <3> QED
      BY <3>1
  <2>5. Transmit(client')
    BY <2>2
  <2>6. QueueInv' /\ (toServer' = toServer \/ Extended(toServer, toServer', e))
    BY <2>2, <2>4, <2>5, ClientForward
  <2>7. e.session = n /\ e.packet = Outgoing(client') /\ Index(e.packet) = l
    BY <2>4
  <2> HIDE DEF e
  <2>8. UpRequests(toServer, n, u, l) /\ UpReplies(toClient, n, l)
    BY <2>3, <1>1, Widens
  <2>9. /\ UpRequests(toServer', n, u, l) /\ Only(toServer', n) /\ InOrder(toServer', n)
        /\ \A w \in 0..l : From(toServer, w) => From(toServer', w)
    <3>1. CASE toServer' = toServer
      BY <3>1, <2>8, <1>1, <1>3
    <3>2. CASE Extended(toServer, toServer', e)
      <4>1. \A w \in 0..l : Index(e.packet) >= w
        BY <2>3, <2>7
      <4>2. Index(e.packet) \in Nat /\ Index(e.packet) >= l
        BY <2>3, <2>7
      <4>3. InOrder(toServer', n)
        BY <3>2, <4>2, <2>3, <2>8, <1>1, ExtendKeepsOrder
      <4> QED
        <5> HIDE DEF l
        <5>1. UpRequests(toServer', n, u, l)
          BY <3>2, <2>4, <2>7, <2>8, ExtendKeeps
        <5>2. Only(toServer', n)
          BY <3>2, <2>7, <1>3, ExtendKeeps
        <5>3. \A w \in 0..l : From(toServer, w) => From(toServer', w)
          BY <3>2, <4>1, ExtendKeeps
        <5> QED
          BY <5>1, <5>2, <5>3, <4>3
    <3> QED
      BY <2>6, <3>1, <3>2
  <2>10. UpReplies(toClient', n, l)
    <3> HIDE DEF l
    <3>1. \A j : UpReplies(toClient, n, j) => UpReplies(toClient', n, j)
      BY <1>2, ShiftKeeps
    <3> QED
      BY <3>1, <2>8
  <2>11. ASSUME NEW w \in 0..k, Progress(w) PROVE Progress(w)' /\ w \in 0..l
    <3>1. w \in 0..l /\ Acked(toClient', n, w) /\ From(toServer', w)
      <4>1. w \in 0..l
        BY <1>1
      <4> QED
        BY <4>1, <2>9, <2>11, <1>2, ShiftKeeps DEF Progress
    <3> QED
      BY <3>1, <2>2, <2>11, <1>8 DEF Progress
  <2>12. Reset => Reset'
    BY <2>2, <2>11, <1>8 DEF Reset
  <2>13. Writing => Writing'
    <3> SUFFICES ASSUME Writing PROVE Writing'
      OBVIOUS
    <3>1. prevBlock \in 0..k /\ Progress(prevBlock)
      BY DEF Writing, Progress
    <3>2. Progress(prevBlock)'
      BY <3>1, <2>11, <1>8 DEF Progress
    <3> QED
      BY <3>2, <2>2, <1>8 DEF Writing
  <2>14. Dead => Doomed(toClient', n, l)
    <3> SUFFICES ASSUME HasError(toClient, n) PROVE Doomed(toClient', n, l)
      BY DEF Dead
    <3>1. HasError(toClient', n)
      BY <1>2, <1>6, ShiftKeepsErrors
    <3>2. UpReplies(toClient', n, k)
      BY <1>1, <1>2, ShiftKeeps
    <3>3. \A j \in 0..k : Ack(j) # Ack(l)
      <4>1. \A j : Ack(j).block = j
        BY DEF Ack
      <4>2. \A j \in 0..k : j # l
        BY <2>3, <1>1
      <4> HIDE DEF l
      <4> QED
        BY <4>1, <4>2
    <3>4. Ack(l) # ErrorReply
      BY DEF Ack, ErrorReply
    <3>5. \A i \in 1..Len(toClient') : toClient'[i].session = n => toClient'[i].packet # Ack(l)
      BY <3>2, <3>3, <3>4 DEF UpReplies
    <3> QED
      BY <3>1, <3>5 DEF HasError, Doomed
  <2>15. UploadInv'
    BY <2>2, <2>3, <2>9, <2>10, <2>12, <2>13, <2>14, <1>1, <1>5 DEF UploadInv
  <2> QED
    BY <2>2, <2>6, <2>15 DEF QueuesInv, SentInv, FetchInv, FetchedInv
<1> QED
  BY <1>1, <1>10, <1>11

LEMMA FetchForward ==
  ASSUME TransferInv, client.state = "fetching", UNCHANGED serverVars,
         toClient # <<>>, toClient' = Tail(toClient), session' = session,
         toClient[1].session = session, toClient[1].packet.op = "data",
         toClient[1].packet.block = client.current + 1,
         client' = Advanced(toClient[1].packet),
         IF client'.state = "sent" THEN UNCHANGED toServer ELSE Transmit(client')
  PROVE  QueuesInv
<1> DEFINE k == client.current
           n == session
           p == toClient[1].packet
           l == k + 1
           e == [session |-> n, packet |-> Outgoing(client')]
<1>1. /\ QueueInv /\ client \in Clients /\ n \in Nat /\ k \in Nat
      /\ FetchedBlocks /\ DownRequests(toServer, n, k) /\ DownReplies(toClient, n, memory)
      /\ toClient \in Seq(Replying)
      /\ client.blocks \in Seq([data : Buffer, size : Sizes])
  BY DEF TransferInv, FetchInv, QueueInv, TransferType, Clients
<1>2. Shifted(toClient, toClient') /\ 1 \in 1..Len(toClient)
  BY <1>1, TailShifts
<1>3. Begun /\ Only(toServer, n) /\ Quiet
      /\ (HasError(toClient, n) \/ (fp = NULL /\ prevBlock = 0) \/ ReadingOn)
  <2>1. Begun
    BY <1>2 DEF Begun, InQueue
  <2> QED
    BY <2>1 DEF TransferInv, FetchInv
<1>4. ~IsError(toClient, n, 1)
  BY DEF IsError, ErrorReply
<1>5. PICK d \in Buffer, s \in Sizes : p = Data(l, d, s) /\ Right(memory, l, d, s)
  <2>1. \A x \in 1..Len(toClient) : IsError(toClient, n, x) => 1 < x
    <3>1. \A x \in 1..Len(toClient) : x = 1 \/ 1 < x
      OBVIOUS
    <3> QED
      BY <3>1, <1>4
  <2>2. RightData(memory, p)
    BY <2>1, <1>1, <1>2 DEF DownReplies
  <2>3. PICK b \in BlockNumbers, d \in Buffer, s \in Sizes :
          p = Data(b, d, s) /\ (b = 0 \/ Right(memory, b, d, s))
    BY <2>2 DEF RightData
  <2>4. b = l
    BY <2>3 DEF Data
  <2>5. l # 0
    BY <1>1
  <2> QED
    BY <2>3, <2>4, <2>5
<1>6. /\ p.op = "data" /\ p.data = d /\ p.size = s /\ p.block = l
  BY <1>5 DEF Data
<1> DEFINE blk == [data |-> d, size |-> s]
<1>7. client' = [state   |-> IF s < 2 THEN "fetched" ELSE "fetching",
                 blocks  |-> Append(client.blocks, blk),
                 current |-> l]
  BY <1>6 DEF Advanced
<1>8. /\ Append(client.blocks, blk) \in Seq([data : Buffer, size : Sizes])
      /\ Len(Append(client.blocks, blk)) = Len(client.blocks) + 1
      /\ \A i \in 1..Len(client.blocks) : Append(client.blocks, blk)[i] = client.blocks[i]
      /\ Append(client.blocks, blk)[Len(client.blocks) + 1] = blk
  <2>1. blk \in [data : Buffer, size : Sizes]
    OBVIOUS
  <2> HIDE DEF blk
  <2> QED
    BY <2>1, <1>1, AppendProperties
<1>9. blk.data = d /\ blk.size = s
  OBVIOUS
<1>10. l \in Nat /\ l \in BlockNumbers /\ k <= l /\ l >= 1 /\ Len(client.blocks) = k
  BY <1>1, <1>5 DEF Right, FetchedBlocks
<1> HIDE DEF blk
<1>11. /\ client' \in Clients /\ client'.current = l
       /\ client'.state = "fetching" \/ client'.state = "fetched"
       /\ client'.state = "fetched" => s < 2
  BY <1>7, <1>8, <1>10 DEF Clients
<1>12. UNCHANGED <<memory, fp, offset, prevBlock, prevCount, xbuf, activeMode>>
  BY DEF serverVars
<1>13. FetchedBlocks' /\ client'.blocks[l].size = s
  <2>1. client'.blocks = Append(client.blocks, blk)
    BY <1>7
  <2>2. Len(client'.blocks) = l /\ client'.blocks[l] = blk
    BY <2>1, <1>8, <1>10
  <2>3. ASSUME NEW i \in 1..l
        PROVE  Right(memory, i, client'.blocks[i].data, client'.blocks[i].size)
    <3>1. CASE i = l
      BY <3>1, <2>2, <1>5, <1>9
    <3>2. CASE i \in 1..k
      BY <3>2, <2>1, <1>1, <1>8, <1>10 DEF FetchedBlocks
    <3>3. i = l \/ i \in 1..k
      BY <1>1
    <3> QED
      BY <3>1, <3>2, <3>3
  <2> QED
    BY <2>2, <2>3, <1>9, <1>11, <1>12 DEF FetchedBlocks
<1>14. /\ Outgoing(client') \in Requests
       /\ Outgoing(client') = Ack(l)
  <2>1. ASSUME NEW c, c = client' PROVE Outgoing(c) = Ack(l)
    BY <2>1, <1>10, <1>11 DEF Outgoing, Ack
  <2>2. Outgoing(client') = Ack(l)
    BY <2>1
  <2>3. Ack(l) \in Requests
    BY <1>10 DEF Ack, Requests
  <2> QED
    BY <2>2, <2>3
<1>15. Transmit(client')
  BY <1>11
<1>16. QueueInv' /\ (toServer' = toServer \/ Extended(toServer, toServer', e))
  BY <1>11, <1>14, <1>15, ClientForward
<1>17. e.session = n /\ e.packet = Ack(l) /\ l \in 1..l
  BY <1>10, <1>14
<1> HIDE DEF e
<1>18. DownRequests(toServer, n, l)
  BY <1>1, <1>10, Widens
<1>19. DownRequests(toServer', n, l) /\ Only(toServer', n)
  <2>1. CASE toServer' = toServer
    BY <2>1, <1>3, <1>18
  <2>2. CASE Extended(toServer, toServer', e)
    <3>1. \E j \in 1..l : e.packet = Ack(j)
      BY <1>17
    <3> HIDE DEF l
    <3>2. DownRequests(toServer', n, l)
      BY <2>2, <3>1, <1>18, ExtendKeeps
    <3>3. Only(toServer', n)
      BY <2>2, <1>3, <1>17, ExtendKeeps
    <3> QED
      BY <3>2, <3>3
  <2> QED
    BY <1>16, <2>1, <2>2
<1>20. DownReplies(toClient', n, memory') /\ (HasError(toClient, n) => HasError(toClient', n))
  BY <1>1, <1>2, <1>4, <1>12, ShiftKeepsErrors
<1>21. Quiet' /\ (ReadingOn => ReadingOn')
  BY <1>3, <1>12 DEF Quiet, ReadingOn
<1>22. FetchInv'
  BY <1>3, <1>11, <1>12, <1>13, <1>19, <1>20, <1>21 DEF FetchInv
<1>23. FetchedInv'
  <2>1. \A i \in 1..Len(toServer') : toServer'[i].packet.op \in {"rrq", "ack"}
    <3>1. ReadRequest.op \in {"rrq", "ack"} /\ \A j : Ack(j).op \in {"rrq", "ack"}
      BY DEF ReadRequest, Ack
    <3> QED
      BY <3>1, <1>19 DEF DownRequests, Only
  <2> QED
    BY <2>1, <1>10, <1>11, <1>13, <1>21 DEF FetchedInv
<1> QED
  BY <1>11, <1>16, <1>22, <1>23 DEF QueuesInv, UploadInv, SentInv

LEMMA ClientReceivesStep == ASSUME TransferInv, ClientReceives PROVE QueuesInv
<1> DEFINE m == toClient[1]
<1>1. /\ QueueInv /\ client \in Clients /\ session \in Nat
      /\ toServer \in Seq(Requesting) /\ toClient \in Seq(Replying)
  BY DEF TransferInv, QueueInv, TransferType
<1>2. toClient # <<>> /\ toClient' = Tail(toClient) /\ UNCHANGED serverVars
  BY DEF ClientReceives
<1>3. /\ Head(toClient) = m /\ Shifted(toClient, toClient') /\ 1 \in 1..Len(toClient)
      /\ toClient' \in Seq(Replying)
  BY <1>1, <1>2, TailShifts
<1>4. CASE /\ m.session = session /\ Active /\ Expects(m.packet)
           /\ client' = Advanced(m.packet)
           /\ UNCHANGED session
           /\ IF client'.state = "sent" THEN UNCHANGED toServer ELSE Transmit(client')
  <2>1. CASE client.state = "sending"
    <3>1. m.packet.op = "ack" /\ m.packet.block = client.current
      BY <1>4, <2>1 DEF Expects
    <3>2. m.packet = ErrorReply \/ \E j \in 0..client.current : m.packet = Ack(j)
      BY <1>3, <1>4, <2>1 DEF TransferInv, UploadInv, UpReplies
    <3>3. m.packet = Ack(client.current)
      <4>1. m.packet # ErrorReply
        BY <3>1 DEF ErrorReply
      <4>2. \A j : Ack(j).block = j
        BY DEF Ack
      <4> QED
        BY <4>1, <4>2, <3>1, <3>2
    <3> QED
      BY <3>3, <2>1, <1>2, <1>4, UploadForward
  <2>2. CASE client.state = "fetching"
    <3>1. m.packet.op = "data" /\ m.packet.block = client.current + 1
      BY <1>4, <2>2 DEF Expects
    <3> QED
      BY <3>1, <2>2, <1>2, <1>4, FetchForward
  <2> QED
    BY <1>4, <2>1, <2>2 DEF Active
<1>5. CASE /\ m.session = session /\ Active /\ m.packet = ErrorReply
           /\ client' = [client EXCEPT !.state = "failed"]
           /\ UNCHANGED <<session, toServer>>
  <2>1. client' \in Clients /\ client'.state = "failed"
    BY <1>1, <1>5 DEF Clients
  <2>2. QueueInv'
    BY <2>1, <1>2, <1>5, ClientForward
  <2> QED
    BY <2>1, <2>2, FailedStep
<1>6. CASE /\ ~(m.session = session /\ Active /\ (Expects(m.packet) \/ m.packet = ErrorReply))
           /\ UNCHANGED <<client, session, toServer>>
  <2>1. Active => ~IsError(toClient, session, 1)
    BY <1>6 DEF IsError
  <2>2. RepliesMove /\ RequestsMove
    BY <2>1, <1>1, <1>3, <1>6 DEF RepliesMove, RequestsMove
  <2> QED
    BY <2>2, <1>2, <1>6, MoveStep
<1> QED
  BY <1>3, <1>4, <1>5, <1>6 DEF ClientReceives

-----------------------------------------------------------------------------
LEMMA TransferInitHolds == TransferInit => TransferInv
<1> SUFFICES ASSUME TransferInit PROVE TransferInv
  OBVIOUS
<1>1. IInv
  BY InitHolds DEF TransferInit
<1>2. /\ client = [state |-> "failed", blocks |-> <<>>, current |-> 0]
      /\ session = 0 /\ toServer = <<>> /\ toClient = <<>>
  BY DEF TransferInit
<1>3. client \in Clients /\ toServer \in Seq(Requesting) /\ toClient \in Seq(Replying)
  BY <1>2, EmptySeq DEF Clients
<1>4. Len(toServer) = 0 /\ Len(toClient) = 0
  BY <1>2, EmptySeq
<1>5. QueueInv
  BY <1>2, <1>3, <1>4 DEF QueueInv, TransferType, UpTo, Ordered
<1> QED
  BY <1>1, <1>2, <1>5 DEF TransferInv, UploadInv, SentInv, FetchInv, FetchedInv

(* A step of the whole is a step of the file service, or none.             *)
LEMMA TransferIsService ==
  ASSUME TransferInv, [TransferNext]_vars PROVE [Next]_serverVars
<1>1. CASE ServerReceives
  <2>1. toServer \in Seq(Requesting) /\ toServer # <<>>
    BY <1>1 DEF TransferInv, QueueInv, TransferType, ServerReceives
  <2>2. Head(toServer) \in Requesting
    BY <2>1, TailShifts
  <2>3. Head(toServer).packet \in Requests
    BY <2>2 DEF Requesting
  <2> QED
    BY <1>1, <2>3 DEF ServerReceives, Next
<1>2. ASSUME NEW v \in ParamValues, NodeStashes(v) PROVE Next
  BY <1>2 DEF NodeStashes, Next
<1>3. CASE NodeRestarts
  BY <1>3 DEF NodeRestarts, Next
<1>4. CASE \/ \E u \in Uploads : StartSending(u)
           \/ StartFetching \/ Timeout \/ GiveUp \/ ClientReceives \/ LosesRequest \/ LosesReply
  BY <1>4 DEF StartSending, StartFetching, Start, Timeout, GiveUp, ClientReceives,
              LosesRequest, LosesReply
<1>5. CASE UNCHANGED vars
  BY <1>5 DEF vars
<1> QED
  BY <1>1, <1>2, <1>3, <1>4, <1>5 DEF TransferNext

LEMMA TransferNextHolds ==
  ASSUME ~ErrorsLost, TransferInv, [TransferNext]_vars PROVE TransferInv'
<1>1. IInv'
  BY TransferIsService, NextHolds DEF TransferInv
<1>2. QueuesInv
  <2>1. ASSUME NEW u \in Uploads, StartSending(u) PROVE QueuesInv
    BY <2>1, StartStep DEF StartSending
  <2>2. CASE StartFetching
    BY <2>2, StartStep DEF StartFetching
  <2>3. CASE Timeout
    BY <2>3, TimeoutStep
  <2>4. CASE GiveUp
    BY <2>4, GiveUpStep
  <2>5. CASE ServerReceives
    BY <2>5, <1>1, ServerReceivesStep
  <2>6. CASE ClientReceives
    BY <2>6, ClientReceivesStep
  <2>7. CASE LosesRequest
    BY <2>7, LosesRequestStep
  <2>8. CASE LosesReply
    BY <2>8, LosesReplyStep
  <2>9. ASSUME NEW v \in ParamValues, NodeStashes(v) PROVE QueuesInv
    BY <2>9, NodeStashesStep
  <2>10. CASE NodeRestarts
    BY <2>10, NodeRestartsStep
  <2>11. CASE UNCHANGED vars
    <3>1. UNCHANGED <<serverVars, client, session, toServer, toClient>>
      BY <2>11 DEF vars, transferVars
    <3>2. RequestsMove /\ RepliesMove
      BY <3>1 DEF RequestsMove, RepliesMove, TransferInv, QueueInv, TransferType
    <3> QED
      BY <3>1, <3>2, MoveStep
  <2> QED
    BY <2>1, <2>2, <2>3, <2>4, <2>5, <2>6, <2>7, <2>8, <2>9, <2>10, <2>11 DEF TransferNext
<1> QED
  BY <1>1, <1>2 DEF TransferInv, QueuesInv

LEMMA TransferInvariant == ~ErrorsLost => (TransferSpec => []TransferInv)
<1> SUFFICES ASSUME ~ErrorsLost PROVE TransferSpec => []TransferInv
  OBVIOUS
<1>1. TransferInv /\ [TransferNext]_vars => TransferInv'
  BY TransferNextHolds
<1> QED
  BY <1>1, TransferInitHolds, PTL DEF TransferSpec

(* A client that has had its last block acknowledged finds all that it     *)
(* has sent in the memory of the node (tftp.c, ffs.c, bootFlash.c), for    *)
(* any table, files, numbers of sessions and restarts, and queues: packets *)
(* may be lost, repeated too early or too late, and cross, writes may      *)
(* fail and the node restart at any point.  Only that error replies        *)
(* arrive is assumed, and without it the property is false.                *)
THEOREM SentCorrect == ~ErrorsLost => (TransferSpec => []SentIsStored)
<1> SUFFICES ASSUME ~ErrorsLost PROVE TransferSpec => []SentIsStored
  OBVIOUS
<1>1. TransferInv => SentIsStored
  <2> SUFFICES ASSUME TransferInv, client.state = "sent",
                      NEW i \in 1..Len(client.blocks), client.blocks[i].size > 0
               PROVE  memory[BlockOf(Target, 2 * (i - 1))] = client.blocks[i].data
    BY DEF SentIsStored
  <2>1. client.blocks \in Uploads
    BY DEF TransferInv, SentInv
  <2>2. Len(client.blocks) > 0
    BY <2>1, UploadType
  <2> QED
    BY <2>2 DEF TransferInv, SentInv, Stored
<1> QED
  BY <1>1, TransferInvariant, PTL

(* A client that has fetched a file has what is in the memory of the node, *)
(* all of it, under the same circumstances.                                *)
THEOREM FetchedCorrect == ~ErrorsLost => (TransferSpec => []FetchedIsStored)
<1> SUFFICES ASSUME ~ErrorsLost PROVE TransferSpec => []FetchedIsStored
  OBVIOUS
<1>1. TransferInv => FetchedIsStored
  <2> SUFFICES ASSUME TransferInv, client.state = "fetched" PROVE FetchedIsStored
    BY DEF FetchedIsStored
  <2> DEFINE k == client.current
  <2>1. /\ FetchedBlocks /\ k \in Nat /\ k >= 1 /\ client.blocks[k].size < 2
        /\ Len(client.blocks) = k
    BY DEF TransferInv, FetchedInv, FetchedBlocks, QueueInv, TransferType, Clients
  <2>2. \A i \in 1..k : Right(memory, i, client.blocks[i].data, client.blocks[i].size)
    BY <2>1 DEF FetchedBlocks
  <2>3. 2 * (k - 1) + client.blocks[k].size = fileTable[Target].length
    <3>1. Right(memory, k, client.blocks[k].data, client.blocks[k].size)
      BY <2>1, <2>2
    <3>2. client.blocks[k].size = Fitting(Target, 2 * (k - 1), 2)
      BY <3>1 DEF Right
    <3>3. fileTable[Target].length - 2 * (k - 1) < 2
      BY <3>2, <2>1, TargetFacts DEF Fitting
    <3> QED
      BY <3>2, <3>3, <2>1, TargetFacts DEF Fitting
  <2>4. ASSUME NEW i \in 1..k, client.blocks[i].size > 0
        PROVE  memory[BlockOf(Target, 2 * (i - 1))] = client.blocks[i].data
    BY <2>2, <2>4 DEF Right
  <2> QED
    BY <2>1, <2>3, <2>4 DEF FetchedIsStored
<1> QED
  BY <1>1, TransferInvariant, PTL

=============================================================================
