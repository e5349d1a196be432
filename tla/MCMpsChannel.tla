---------------------------- MODULE MCMpsChannel ----------------------------
(* Bounds for MpsChannel: one output with two inputs, so that one fault can *)
(* follow another, and two timestamps, so that their times can differ.      *)
EXTENDS MpsChannel, TLC

CONSTANTS i1, i2, o1, t1, t2

MCInputs  == {i1, i2}
MCOutputs == {o1}
MCStamps  == {t1, t2}

Symmetry == Permutations(MCInputs) \cup Permutations(MCStamps)

=============================================================================
