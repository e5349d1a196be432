------------------------------ MODULE MpsTrip -------------------------------
(***************************************************************************)
(* Trips go up: MpsTree under any disturbance, with a history variable     *)
(* that says how long each node has been tripped.                          *)
(***************************************************************************)
EXTENDS MpsTree

\* age[n]: ticks for which local[n] has been set since the last reboot of
\* any node, no further than it matters.
VARIABLE age

tripVars == <<treeVars, age>>

MaxAge(n) == Hop * Depth(n) + 1

TripInit == TreeInit /\ age = [n \in Nodes |-> 0]

TripTick(e) ==
  /\ Tick(e)
  /\ age' = [n \in Nodes |->
               IF e.reboot # {} \/ ~local'[n] THEN 0
               ELSE IF age[n] < MaxAge(n) THEN age[n] + 1 ELSE age[n]]

TripNext == \E e \in Env : TripTick(e)

TripSpec == TripInit /\ [][TripNext]_tripVars

\* The event clock runs.
FairTripSpec == TripSpec /\ WF_tripVars(TripNext)

(* Latches, receivers and counters hold values of their kinds. *)
TripTypeOK ==
  /\ TreeTypeOK
  /\ age \in [Nodes -> Nat]
  /\ \A n \in Nodes : age[n] <= MaxAge(n)

(* A trip latched at any depth is latched at the generator within Hop      *)
(* ticks per fiber and stays there as long as it lasts: no clear event,    *)
(* however timed, and no fiber failing on the way hides it.                *)
TripReachesEVG ==
  \A n \in Nodes : age[n] > Hop * Depth(n) => remote[EVG]

\* A tick of the tree that nothing disturbs.
Calm == \E i \in BOOLEAN : TripTick(Quiet(i))

\* A clear event is on the fibers of the generator.
Issued == \A n \in Children(EVG) : down[n]

(* Whatever the window, a tree that stays undisturbed and is sent clear    *)
(* events again and again is released in the end, each event letting go of *)
(* one more level: no loop of the cabling keeps a trip alive.              *)
ClearsReleaseTree ==
  (<>[][Calm]_tripVars /\ []<>Issued) => <>[]AllClear

=============================================================================
