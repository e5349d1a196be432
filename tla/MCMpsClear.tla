----------------------------- MODULE MCMpsClear -----------------------------
(* The generator, a fanout below it and a node below the fanout, so that a *)
(* trip crosses two fibers.                                                *)
EXTENDS MpsClear

CONSTANTS mid, leaf

MCNodes  == {EVG, mid, leaf}
MCParent == [n \in MCNodes |-> IF n = leaf THEN mid ELSE EVG]
MCPath   == [n \in MCNodes |-> IF n = leaf THEN <<leaf, mid>> ELSE <<n>>]

=============================================================================
