---------------------------- MODULE RegisterFile ----------------------------
(***************************************************************************)
(* What a client of the LEEP server is promised: a file of registers.  The *)
(* registers of a packet are accessed one after the other; a write stores  *)
(* its value in one register, adjusted as that register adjusts it, or is  *)
(* refused and changes nothing; a read tells what is stored.  A volatile   *)
(* register tells anything.  A packet can restart the node, which then     *)
(* owes no reply.                                                          *)
(***************************************************************************)
EXTENDS Sequences, Naturals

CONSTANTS
  Stored,           \* the registers that store
  PowerUp,          \* what they hold when the node has started
  Adjusted(_, _),   \* what a register makes of a value written to it
  Shows(_),         \* the register that a read of a register tells
  Along(_)          \* pairs <<to, from>>: what a read of a register copies

VARIABLES mem, request, reply

Init == mem = PowerUp /\ request = <<>> /\ reply = <<>>

Arrive == request = <<>> /\ request' # <<>> /\ reply' = <<>> /\ UNCHANGED mem

Op == request[Len(reply) + 1]

Write == /\ Op.write
         /\ reply' = Append(reply, Op.value)
         /\ \/ /\ Op.reg \in Stored
               /\ mem' = [mem EXCEPT ![Op.reg] = Adjusted(Op.reg, Op.value)]
            \/ UNCHANGED mem

Read == /\ ~Op.write
        /\ Len(reply') = Len(reply) + 1
        /\ \A n \in DOMAIN reply : reply'[n] = reply[n]
        /\ Op.reg \in Stored => reply'[Len(reply')] = mem[Shows(Op.reg)]
        /\ mem' = [s \in Stored |->
                     IF \E c \in Along(Op.reg) : c[1] = s
                     THEN mem[(CHOOSE c \in Along(Op.reg) : c[1] = s)[2]]
                     ELSE mem[s]]

Access == Len(reply) < Len(request) /\ (Write \/ Read) /\ UNCHANGED request

Send == /\ request # <<>> /\ Len(reply) = Len(request)
        /\ request' = <<>> /\ reply' = <<>> /\ UNCHANGED mem

Restart == mem' = PowerUp /\ request' = <<>> /\ reply' = <<>>

Next == Arrive \/ Access \/ Send \/ Restart

Spec == Init /\ [][Next]_<<mem, request, reply>>
=============================================================================
