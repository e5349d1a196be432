------------------------------ MODULE MpsTree -------------------------------
(***************************************************************************)
(* The machine-protection interlock of a tree of nodes, for one MPS        *)
(* output (the outputs are independent): the local latch, the merge of the *)
(* trips coming up the fibers, the clear event going down them, and the    *)
(* transmitter that passes a node's trips to its parent (mps.v,            *)
(* mpsMerge.v, mpsLocal.v, fiberLinks.v, evf.v, and the receiver's link    *)
(* supervision in mgtWrapper.v).                                           *)
(*                                                                         *)
(* All nodes run at the event clock's frequency, so one Tick is one cycle  *)
(* everywhere, and every register, synchronizer and fiber on a path counts *)
(* as one tick: a longer path is a larger Hop, which only rescales the     *)
(* bounds below.  The cabling is external to the code: fiber 1 of a node   *)
(* comes from its parent, and fiber 1 of the event generator is looped     *)
(* back from one of its own outputs, which is what feeds its receiver.     *)
(***************************************************************************)
EXTENDS Naturals, FiniteSets, Sequences

CONSTANTS
  Nodes,         \* the nodes of the tree
  EVG,           \* the event generator, its root
  Parent,        \* the node at the far end of fiber 1
  Path,          \* the nodes that send a trip of a node up to the generator
  Window,        \* for how many ticks the merge sees a clear event
  Troubles,      \* bound: the kinds of disturbance, among Kinds
  MaxDisturbed   \* bound: how many nodes are disturbed in one tick

ASSUME EVGAssumption    == EVG \in Nodes
ASSUME ParentAssumption == Parent \in [Nodes -> Nodes] /\ Parent[EVG] = EVG
ASSUME PathAssumption ==
  /\ Path \in [Nodes -> Seq(Nodes)]
  /\ \A n \in Nodes :
       /\ Len(Path[n]) >= 1
       /\ Path[n][1] = n
       /\ Parent[Path[n][Len(Path[n])]] = EVG
       /\ \A i \in 2..Len(Path[n]) :
            Path[n][i] = Parent[Path[n][i-1]] /\ Path[n][i] # EVG
ASSUME WindowAssumption == Window \in Nat \ {0}

VARIABLES
  clearCount,   \* evrClearMPScount: ticks left of the stretched clear
  local,        \* acqTripped: the latch of the node's own inputs
  remote,       \* mpsTripped of the merge: the latch of the nodes below
  tx,           \* mgtTxMPStripped: what the node sends up
  up,           \* what the parent's receiver shows of the node
  down          \* whether fiber 1 of the node delivers the clear event

treeVars == <<clearCount, local, remote, tx, up, down>>

Depth(n) == Len(Path[n])

\* A trip takes Hop ticks from a latch to the transmitter, to the parent's
\* receiver and to the parent's latch; a clear takes one to go down.
Hop     == 3
HopDown == 1

Children(n) == {c \in Nodes : Parent[c] = n}

\* What a receiver shows: the trip bit, or that the link is not up.
RxStates == {"clear", "tripped", "linkDown"}

\* The clear strobe is the first tick of the window.
evrClearMPSstrobe(n)    == clearCount[n] = Window
evrClearMPSstretched(n) == clearCount[n] > 0

\* A link that is down counts as a trip: all links are required.
mpsTripped_a(n) == \E c \in Children(n) : up[c] # "clear"

TreeInit ==
  /\ clearCount = [n \in Nodes |-> 0]
  /\ local = [n \in Nodes |-> TRUE]
  /\ remote = [n \in Nodes |-> FALSE]
  /\ tx = [n \in Nodes |-> FALSE]
  /\ up = [n \in Nodes |-> "linkDown"]
  /\ down = [n \in Nodes |-> FALSE]

-----------------------------------------------------------------------------
(***************************************************************************)
(* What the world does in a tick.  fault: the nodes with an important      *)
(* input at fault or a forced trip; upBad, downBad: the nodes whose link   *)
(* to, from the parent shows a bad character or is reset; stalled: the     *)
(* nodes whose recovered clock stops with their link down; reboot: the     *)
(* nodes reconfigured; issue: the generator sends a clear event.           *)
(***************************************************************************)
Kinds == {"fault", "upBad", "downBad", "stalled", "reboot"}

ASSUME TroublesAssumption == Troubles \subseteq Kinds

\* At most MaxDisturbed nodes have trouble, of one kind each; the troubles
\* of many ticks add up to any combination.
Env ==
  {[fault   |-> {n \in DOMAIN k : k[n] = "fault"},
    upBad   |-> {n \in DOMAIN k : k[n] = "upBad"},
    downBad |-> {n \in DOMAIN k : k[n] \in {"downBad", "stalled"}},
    stalled |-> {n \in DOMAIN k : k[n] = "stalled"},
    reboot  |-> {n \in DOMAIN k : k[n] = "reboot"},
    issue   |-> i] :
     i \in BOOLEAN,
     k \in UNION {[d -> Troubles] :
                    d \in {s \in SUBSET Nodes : Cardinality(s) <= MaxDisturbed}}}

\* mps.v: the clear event loads the counter, which runs down to zero.
NextClearCountPastZero(n) ==   \* faulty: does not stop at zero
  IF down[n] THEN Window ELSE clearCount[n] - 1

NextClearCount(n) ==
  IF down[n] THEN Window
  ELSE IF clearCount[n] > 0 THEN clearCount[n] - 1 ELSE 0

\* mpsLocalChannel: the strobe clears the latch only without a fault.
NextLocal(n, e) ==
  n \in e.fault \/ (local[n] /\ ~evrClearMPSstrobe(n))

\* mpsMerge: a trip from below sticks until a clear finds it gone.
NextRemoteClearFirst(n) ==   \* faulty: a clear hides a trip
  (mpsTripped_a(n) \/ remote[n]) /\ ~evrClearMPSstretched(n)

NextRemote(n) ==
  mpsTripped_a(n) \/ (remote[n] /\ ~evrClearMPSstretched(n))

\* The generator does not send up what comes from below: its fiber 1 is
\* looped back to itself.
NextTxLooped(n) == local[n] \/ remote[n]   \* faulty: the generator too

NextTx(n) == local[n] \/ (n # EVG /\ remote[n])

\* mgtLinkStatus: a bad character takes the link down and blanks it; a
\* receiver that is reset shows its links down.
NextUp(n, e) ==
  IF n \in e.upBad \cup e.reboot \/ Parent[n] \in e.reboot THEN "linkDown"
  ELSE IF tx[n] THEN "tripped" ELSE "clear"

\* The generator sends to all its fibers, the other nodes fan out what they
\* receive; a fanout whose receive link is down has its FIFO held in reset.
NextDown(n, e) ==
  /\ n \notin e.downBad \cup e.reboot /\ Parent[n] \notin e.reboot
  /\ IF Parent[n] = EVG THEN e.issue ELSE down[Parent[n]]

Tick(e) ==
  /\ clearCount' = [n \in Nodes |-> IF n \in e.reboot THEN 0
                                    ELSE IF n \in e.stalled THEN clearCount[n]
                                    ELSE NextClearCount(n)]
  /\ local' = [n \in Nodes |-> n \in e.reboot \/
                 IF n \in e.stalled THEN local[n] ELSE NextLocal(n, e)]
  /\ remote' = [n \in Nodes |-> n \notin e.reboot /\ NextRemote(n)]
  /\ tx' = [n \in Nodes |-> n \notin e.reboot /\ NextTx(n)]
  /\ up' = [n \in Nodes |-> NextUp(n, e)]
  /\ down' = [n \in Nodes |-> NextDown(n, e)]

\* A tick that nothing disturbs.
Quiet(i) ==
  [fault |-> {}, upBad |-> {}, downBad |-> {}, stalled |-> {}, reboot |-> {},
   issue |-> i]

Undisturbed(e) == e = Quiet(e.issue)

AllClear == \A n \in Nodes : ~local[n] /\ ~remote[n]

TreeTypeOK ==
  /\ clearCount \in [Nodes -> 0..Window]
  /\ local \in [Nodes -> BOOLEAN]
  /\ remote \in [Nodes -> BOOLEAN]
  /\ tx \in [Nodes -> BOOLEAN]
  /\ up \in [Nodes -> RxStates]
  /\ down \in [Nodes -> BOOLEAN]

=============================================================================
