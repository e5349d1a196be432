--------------------------- MODULE MCEvgSequencer ---------------------------
(* One bank, its tables with every mix of codes, end markers and gaps.     *)
EXTENDS EvgSequencer

PlayCommands == {c \in AllCommands : c.op \in {"arm", "softTrigger"}}
PlayEntries  == [code : {1, END}, gap : {0, 2}]
NoSources    == {}

=============================================================================
