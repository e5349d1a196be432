----------------------------- MODULE MCMgtReset -----------------------------
(* Two lanes, the receiver of the first, and two clocks one of which fails. *)
EXTENDS MgtReset

CONSTANTS fpgaRefClk, si570

MCReceivers == {1}

=============================================================================
