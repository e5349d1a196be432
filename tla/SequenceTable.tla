--------------------------- MODULE SequenceTable ----------------------------
(***************************************************************************)
(* The tables of the event sequencer and the ticks on which their events   *)
(* are due (ospreyEVG.md, Event Sequencer): the reference that the state   *)
(* machine of ospreyEVGsequencer.v is compared with.                       *)
(***************************************************************************)
EXTENDS Integers

CONSTANTS
  NBanks,     \* BANK_COUNT
  Capacity,   \* the entries of a bank, 2^SEQ_ADDR_WIDTH
  END,        \* EVCODE_END
  MaxGap      \* the largest gap a table can hold

ASSUME NBanksAssumption   == NBanks \in Nat \ {0}
ASSUME CapacityAssumption == Capacity \in Nat /\ Capacity >= 2
ASSUME ENDAssumption      == END \in Nat \ {0}
ASSUME MaxGapAssumption   == MaxGap \in Nat \ {0}

Banks     == 0..(NBanks - 1)
Addresses == 0..(Capacity - 1)
Codes     == 0..END
Entry     == [code : Codes, gap : 0..MaxGap]

NoBank  == -1
NoEvent == -1

\* A chosen bank fetches its first entry on the third tick.
StartTicks == 3

\* The tick on which entry n of table t is fetched.  An entry takes its gap
\* and one tick more.
FetchTick(t) ==
  LET f[n \in 0..Capacity] ==
        IF n = 0 THEN StartTicks ELSE f[n-1] + t[n-1].gap + 1
  IN  f

\* The entries up to the end marker, or all if there is none.
Events(t) == {n \in Addresses : \A i \in 0..n : t[i].code # END}

\* The tick on which the bank stops: the end marker has a gap too.
LastTick(t) ==
  IF Events(t) = Addresses THEN FetchTick(t)[Capacity]
  ELSE LET n == CHOOSE n \in Addresses \ Events(t) : \A i \in 0..(n-1) : i \in Events(t)
       IN  FetchTick(t)[n + 1]

\* The event of table t on a tick.
EventAt(t, tick) ==
  LET due == {n \in Events(t) : FetchTick(t)[n] + t[n].gap = tick}
  IN  IF due = {} THEN NoEvent ELSE t[CHOOSE n \in due : TRUE].code

=============================================================================
