-------------------------- MODULE MCParameterStore --------------------------
(* An image of one sector, the parameters in the next one, the flash of    *)
(* both, and an EEPROM that is half a block.                               *)
EXTENDS ParameterStore

CONSTANTS image, sysparam, flash, eeprom, p1, p2

MCFiles == {image, sysparam, flash, eeprom}

MCTable ==
  [f \in MCFiles |->
     CASE f = image    -> [base |-> 0, length |-> 4, eeprom |-> FALSE, readOnly |-> FALSE]
       [] f = sysparam -> [base |-> 2, length |-> 2, eeprom |-> FALSE, readOnly |-> FALSE]
       [] f = flash    -> [base |-> 0, length |-> 6, eeprom |-> FALSE, readOnly |-> FALSE]
       [] f = eeprom   -> [base |-> 3, length |-> 1, eeprom |-> TRUE, readOnly |-> TRUE]]

=============================================================================
