-------------------------- MODULE SequencerStarts ---------------------------
(***************************************************************************)
(* What may start a bank: EvgSequencer with history variables that say     *)
(* which banks an arm command still allows to start.                       *)
(***************************************************************************)
EXTENDS EvgSequencer

VARIABLES
  licensed,    \* banks allowed a start
  withdrawn    \* banks disarmed on the last edge

startsVars == <<vars, licensed, withdrawn>>

\* The bank that starts on this edge, if any.
Starting == IF CanChoose THEN {Chosen} ELSE {}

\* An arm command allows one start, and so does being armed in normal mode;
\* a start uses it up and a disarm takes it away, for the edge after next:
\* a trigger passed on before the disarm is still acted on.
Licenses ==
  (licensed \ (Starting \cup withdrawn))
    \cup evgArm \cup (evgArmed \cap evgTrigNormal)

StartsInit == Init /\ licensed = {} /\ withdrawn = {}

StartsEdge ==
  /\ Edge
  /\ licensed' = Licenses
  /\ withdrawn' = evgDisarm

StartsNext ==
  \/ StartsEdge
  \/ DriverCall /\ UNCHANGED <<licensed, withdrawn>>

StartsSpec == StartsInit /\ [][StartsNext]_startsVars /\ WF_startsVars(StartsEdge)

(* However its triggers, its arming, its disarming and the changes of its  *)
(* mode fall together, a bank that is in single mode starts at most once   *)
(* for an arm command, and one that is disarmed no later than one edge     *)
(* after the disarm took effect.                                           *)
StartsOnlyIfArmed == [][StartsEdge => Starting \subseteq licensed]_startsVars

=============================================================================
