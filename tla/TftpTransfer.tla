---------------------------- MODULE TftpTransfer ----------------------------
(***************************************************************************)
(* Whole transfers: FileServer, a client that sends or fetches a file by   *)
(* the rules of TFTP, and the network between them.  The client and the    *)
(* network are external to the code.                                       *)
(*                                                                         *)
(* The client repeats its last packet whenever it likes, too early or too  *)
(* late, gives up when it likes, and then may begin another session, from  *)
(* another port.  The network loses packets but keeps their order, as one  *)
(* switch does.  Packets of an earlier session can still be under way.     *)
(***************************************************************************)
EXTENDS FileServer, Sequences

CONSTANTS
  Target,       \* the file that is sent and fetched
  Uploads,      \* bound: what is sent, sequences of packets' contents
  MaxSessions,  \* bound: sessions
  QueueLength,  \* bound: packets under way in one direction
  MaxRestarts,  \* bound: restarts of the node
  ErrorsLost    \* whether an error reply can be lost

ASSUME BoundsAssumption == MaxSessions \in Nat /\ QueueLength \in Nat

\* The node writes its parameters itself, so they lie apart.
ASSUME TargetAssumption ==
  /\ Target \in Files \ {ParamFile}
  /\ \A off \in 0..(fileTable[Target].length - 1) :
       BlockOf(Target, off) \notin Sector(BlockOf(ParamFile, 0))

\* Only the last packet is short, and the block numbers do not wrap.
ASSUME UploadsAssumption ==
  /\ Uploads \subseteq Seq([data : Values, size : Sizes])
  /\ \A u \in Uploads :
       /\ Len(u) <= LastBlock
       /\ \A i \in 1..Len(u) : u[i].size < Full <=> i = Len(u)

VARIABLES
  client,     \* what the client does: its state, the blocks and the last one's number
  session,    \* the number of its session
  toServer, toClient,   \* packets under way, with their session
  restarts,   \* restarts so far
  cut         \* the node has restarted during the session

transferVars == <<client, session, toServer, toClient, restarts, cut>>
vars == <<serverVars, transferVars>>

Active == client.state \in {"sending", "fetching"}

\* What the client sends last, and again after a timeout.
Outgoing(c) ==
  CASE c.state = "sending" /\ c.current = 0 -> [op |-> "wrq", file |-> Target, octet |-> TRUE]
    [] c.state = "sending" /\ c.current > 0 ->
         [op |-> "data", block |-> c.current,
          data |-> c.blocks[c.current].data, size |-> c.blocks[c.current].size]
    [] c.state = "fetching" /\ c.current = 0 -> [op |-> "rrq", file |-> Target, octet |-> TRUE]
    [] OTHER -> [op |-> "ack", block |-> c.current]

\* A packet that finds the way to the server full is lost.
Transmit(c) ==
  toServer' = IF Len(toServer) = QueueLength THEN toServer
              ELSE Append(toServer, [session |-> session', packet |-> Outgoing(c)])

Start(c) ==
  /\ ~Active /\ session < MaxSessions
  /\ session' = session + 1
  /\ client' = c
  /\ cut' = FALSE
  /\ Transmit(c)
  /\ UNCHANGED <<serverVars, toClient, restarts>>

StartSending(u)  == Start([state |-> "sending", blocks |-> u, current |-> 0])
StartFetching    == Start([state |-> "fetching", blocks |-> <<>>, current |-> 0])

Timeout ==
  /\ Active
  /\ UNCHANGED session
  /\ Transmit(client)
  /\ UNCHANGED <<serverVars, client, toClient, restarts, cut>>

GiveUp ==
  /\ Active
  /\ client' = [client EXCEPT !.state = "failed"]
  /\ UNCHANGED <<serverVars, session, toServer, toClient, restarts, cut>>

ServerReceives ==
  /\ toServer # <<>> /\ Len(toClient) < QueueLength
  /\ tftpHandler(Head(toServer).packet)
  /\ toServer' = Tail(toServer)
  /\ toClient' = IF reply' = NoReply THEN toClient
                 ELSE Append(toClient, [session |-> Head(toServer).session, packet |-> reply'])
  /\ UNCHANGED <<client, session, restarts, cut>>

Expects(p) ==
  \/ client.state = "sending" /\ p.op = "ack" /\ p.block = client.current
  \/ client.state = "fetching" /\ p.op = "data" /\ p.block = client.current + 1

\* The client after the packet it waits for.
Advanced(p) ==
  CASE p.op = "ack" /\ client.current = Len(client.blocks) -> [client EXCEPT !.state = "sent"]
    [] p.op = "ack" /\ client.current < Len(client.blocks) -> [client EXCEPT !.current = @ + 1]
    [] p.op = "data" ->
         [state   |-> IF p.size < Full THEN "fetched" ELSE "fetching",
          blocks  |-> Append(client.blocks, [data |-> p.data, size |-> p.size]),
          current |-> p.block]

ClientReceives ==
  /\ toClient # <<>>
  /\ toClient' = Tail(toClient)
  /\ LET m == Head(toClient)
     IN  \/ /\ m.session = session /\ Active /\ Expects(m.packet)
            /\ client' = Advanced(m.packet)
            /\ UNCHANGED session
            /\ IF client'.state = "sent" THEN UNCHANGED toServer ELSE Transmit(client')
         \/ /\ m.session = session /\ Active /\ m.packet = ErrorReply
            /\ client' = [client EXCEPT !.state = "failed"]
            /\ UNCHANGED <<session, toServer>>
         \/ /\ ~(m.session = session /\ Active /\ (Expects(m.packet) \/ m.packet = ErrorReply))
            /\ UNCHANGED <<client, session, toServer>>
  /\ UNCHANGED <<serverVars, restarts, cut>>

LosesRequest ==
  /\ toServer # <<>>
  /\ toServer' = Tail(toServer)
  /\ UNCHANGED <<serverVars, client, session, toClient, restarts, cut>>

LosesReply ==
  /\ toClient # <<>>
  /\ Head(toClient).packet # ErrorReply \/ ErrorsLost
  /\ toClient' = Tail(toClient)
  /\ UNCHANGED <<serverVars, client, session, toServer, restarts, cut>>

NodeStashes(v) == systemParametersStash(v) /\ UNCHANGED transferVars

NodeRestarts ==
  /\ restarts < MaxRestarts
  /\ Restart
  /\ restarts' = restarts + 1
  /\ cut' = TRUE
  /\ UNCHANGED <<client, session, toServer, toClient>>

TransferInit ==
  /\ Init
  /\ client = [state |-> "failed", blocks |-> <<>>, current |-> 0]
  /\ session = 0
  /\ toServer = <<>> /\ toClient = <<>>
  /\ restarts = 0 /\ cut = FALSE

TransferNext ==
  \/ \E u \in Uploads : StartSending(u)
  \/ StartFetching \/ Timeout \/ GiveUp
  \/ ServerReceives \/ ClientReceives \/ LosesRequest \/ LosesReply
  \/ \E v \in ParamValues : NodeStashes(v)
  \/ NodeRestarts

\* The main loop cranks the network, the client waits no longer than its
\* timeout, and the network does not lose every packet.
TransferSpec ==
  /\ TransferInit /\ [][TransferNext]_vars
  /\ WF_vars(Timeout) /\ SF_vars(ServerReceives) /\ SF_vars(ClientReceives)

-----------------------------------------------------------------------------
(* A client that has had its last block acknowledged finds all it has sent *)
(* in the memory, whatever was lost or repeated, whatever write failed,    *)
(* and whenever the node restarted, provided that error replies arrive.    *)
SentIsStored ==
  client.state = "sent" =>
    \A i \in 1..Len(client.blocks) :
      client.blocks[i].size > 0 =>
        memory[BlockOf(Target, Full * (i - 1))] = client.blocks[i].data

(* A client that has fetched the whole file has what is in the memory.     *)
FetchedIsStored ==
  client.state = "fetched" =>
    /\ Full * (Len(client.blocks) - 1) + client.blocks[Len(client.blocks)].size
         = fileTable[Target].length
    /\ \A i \in 1..Len(client.blocks) :
         client.blocks[i].size > 0 =>
           memory[BlockOf(Target, Full * (i - 1))] = client.blocks[i].data

(* A session ends, unless the node restarts during it: no packet whose     *)
(* loss leaves both sides waiting for the other.                           *)
SessionEnds == Active /\ ~cut ~> ~Active \/ cut

=============================================================================
