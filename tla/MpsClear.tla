------------------------------ MODULE MpsClear ------------------------------
(***************************************************************************)
(* Clears go down and trips are let go: MpsTree with history variables     *)
(* that say for how long nothing has disturbed the tree, and how long ago  *)
(* the first clear event since then was issued.                            *)
(***************************************************************************)
EXTENDS MpsTree

CONSTANT MaxDepth   \* the number of fibers on the longest path

ASSUME MaxDepthAssumption ==
  MaxDepth \in Nat \ {0} /\ \A n \in Nodes : Depth(n) <= MaxDepth

VARIABLES
  calm,     \* the last tick was undisturbed
  since     \* ticks since the first clear issued in this calm, 0 if none

clearVars == <<treeVars, calm, since>>

\* The time a clear takes to the bottom of the tree and its effect back.
RoundTrip == (Hop + HopDown) * MaxDepth

\* The clear, the strobe and the latch at the bottom add two ticks.
ClearTime == RoundTrip + 2

ClearInit == TreeInit /\ calm = FALSE /\ since = 0

ClearTick(e) ==
  /\ Tick(e)
  /\ calm' = Undisturbed(e)
  /\ since' = IF ~(calm /\ Undisturbed(e)) THEN 0
              ELSE IF since > 0 \/ e.issue
                THEN IF since < ClearTime THEN since + 1 ELSE since
              ELSE 0

ClearNext == \E e \in Env : ClearTick(e)

ClearSpec == ClearInit /\ [][ClearNext]_clearVars

ClearTypeOK ==
  /\ TreeTypeOK
  /\ calm \in BOOLEAN
  /\ since \in 0..ClearTime

(* If the window of a clear outlasts the round trip to the deepest node,   *)
(* one clear event in an undisturbed tree releases every latch, the        *)
(* generator's last.                                                       *)
OneClearSuffices ==
  Window >= RoundTrip /\ since = ClearTime => AllClear

=============================================================================
