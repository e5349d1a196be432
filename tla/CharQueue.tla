------------------------------ MODULE CharQueue ------------------------------
(***************************************************************************)
(* What the buffer of the UDP console promises: a queue of characters.  A  *)
(* datagram adds as much of itself as fits, a character is taken from the  *)
(* front, and the queue may be given up as a whole.                        *)
(***************************************************************************)
EXTENDS Naturals, Sequences

CONSTANTS Size, Packets, NONE

VARIABLES queue, got   \* got: the character the last step took, or NONE
vars == <<queue, got>>

Init == queue = <<>> /\ got = NONE

Fitting(p) ==
  LET n == Size - Len(queue) IN IF Len(p) > n THEN SubSeq(p, 1, n) ELSE p

Arrive == \E p \in Packets : queue' = queue \o Fitting(p) /\ got' = NONE

Take == queue # <<>> /\ queue' = Tail(queue) /\ got' = Head(queue)

GiveUp == queue' = <<>> /\ got' = NONE

Rest == queue' = queue /\ got' = NONE

Next == Arrive \/ Take \/ GiveUp \/ Rest

\* Not part of the promise: characters are overwritten, at most one is taken.
Smudge == Len(queue') \in {Len(queue), Len(queue) - 1}

=============================================================================
