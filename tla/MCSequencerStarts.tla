-------------------------- MODULE MCSequencerStarts -------------------------
(* Two banks that one input can trigger; their tables are those of         *)
(* power-up, which have no end marker.                                     *)
EXTENDS SequencerStarts

OneSource == {<<"input", "rise">>}
NoEntries == {}

MCCommands(ops) == {c \in AllCommands : c.op \in ops}

\* A command concerns one bank, and the trigger of only one is changed.
OrderCommands ==
  {c \in MCCommands({"arm"}) : Cardinality(c.set) = 1}
    \cup {c \in MCCommands({"disarm"}) : Cardinality(c.clear) = 1}
    \cup {c \in MCCommands({"trigMode"}) :
            Cardinality(c.set) + Cardinality(c.clear) = 1}
    \cup {c \in MCCommands({"setTrigger"}) : c.bank = 0 /\ c.kind = "rise"}
    \cup MCCommands({"cancel"})

=============================================================================
