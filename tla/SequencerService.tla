-------------------------- MODULE SequencerService --------------------------
(***************************************************************************)
(* What the event sequencer promises: it plays one table at a time, that   *)
(* of the highest-numbered bank that waits, and emits each event on its    *)
(* tick.  Which banks wait, and when a bank is cancelled, is left open.    *)
(***************************************************************************)
EXTENDS SequenceTable

VARIABLES
  table,     \* the tables
  waiting,   \* the banks that have been triggered
  active,    \* the bank that is played, NoBank if none
  elapsed,   \* ticks since it was chosen
  event      \* the event emitted, NoEvent if none

serviceVars == <<table, waiting, active, elapsed, event>>

Highest(banks) == CHOOSE b \in banks : \A c \in banks : c <= b

Init ==
  /\ table \in [Banks -> [Addresses -> Entry]]
  /\ waiting = {}
  /\ active = NoBank
  /\ elapsed = 0
  /\ event = NoEvent

\* The client writes tables that do not wait and are not played.
Write ==
  /\ table' \in [Banks -> [Addresses -> Entry]]
  /\ \A b \in Banks : b \in waiting \cup {active} => table'[b] = table[b]
  /\ UNCHANGED <<waiting, active, elapsed, event>>

Wait ==
  /\ active = NoBank /\ waiting = {}
  /\ UNCHANGED <<active, elapsed, event>>

Choose ==
  /\ active = NoBank /\ waiting # {}
  /\ active' = Highest(waiting)
  /\ Highest(waiting) \notin waiting'
  /\ UNCHANGED <<elapsed, event>>

\* The trigger of a bank that is being played is dropped.
Play ==
  /\ active # NoBank
  /\ elapsed + 1 < LastTick(table[active])
  /\ active \notin waiting'
  /\ elapsed' = elapsed + 1
  /\ event' = EventAt(table[active], elapsed + 1)
  /\ UNCHANGED active

Stop ==
  /\ active # NoBank
  /\ active \notin waiting'
  /\ active' = NoBank
  /\ elapsed' = 0
  /\ event' = NoEvent

End    == Stop /\ elapsed + 1 = LastTick(table[active])
Cancel == Stop /\ elapsed + 1 >= StartTicks

Tick ==
  /\ waiting' \in SUBSET Banks
  /\ Wait \/ Choose \/ Play \/ End \/ Cancel
  /\ UNCHANGED table

Next == Write \/ Tick

Spec == Init /\ [][Next]_serviceVars

=============================================================================
