--------------------------- MODULE MCTftpTransfer ---------------------------
(* An image of two blocks and one sector, and the parameters in the next.  *)
(* Uploads that are short, that end on a block boundary, and too long.     *)
EXTENDS TftpTransfer

CONSTANTS image, sysparam, v1, v2

MCFiles == {image, sysparam}

MCTable ==
  [f \in MCFiles |->
     IF f = image THEN [base |-> 0, length |-> 4, eeprom |-> FALSE, readOnly |-> FALSE]
     ELSE [base |-> 2, length |-> 2, eeprom |-> FALSE, readOnly |-> FALSE]]

Whole(v) == [data |-> v, size |-> 2]
Half(v)  == [data |-> v, size |-> 1]
Empty    == [data |-> v1, size |-> 0]

MCUploads ==
  {<<Whole(v1), Half(v2)>>, <<Whole(v2), Whole(v1), Empty>>,
   <<Whole(v1), Whole(v2), Half(v1)>>}

=============================================================================
