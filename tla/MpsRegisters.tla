---------------------------- MODULE MpsRegisters ----------------------------
(***************************************************************************)
(* The register windows of mps.c in front of the MPS hardware: mpsRead and *)
(* mpsWrite, and the select register behind which most of the hardware's   *)
(* registers are.  The latched registers of an output (status, first       *)
(* fault) are in MpsChannel; here each stands for its own number.          *)
(***************************************************************************)
EXTENDS Integers, Sequences

CONSTANTS MpsOutputs, MpsInputs, MgtCount   \* CFG_MPS_..., CFG_MGT_COUNT

ASSUME MpsRegAssumption ==
  MpsOutputs \in Nat \ {0} /\ MpsInputs \in Nat \ {0} /\ MgtCount \in Nat \ {0}

RegSel == <<"important", "goodState", "firstFault", "faultSeconds", "faultTicks",
            "mpsStatus">>   \* from zero
Select(name) == CHOOSE k \in 0..5 : RegSel[k + 1] = name

MpsStart ==
  [sel |-> <<0, 0>>,
   reg |-> [s \in (0..5) \X (0..MpsOutputs - 1) |->
              IF s[1] < 2 THEN 0 ELSE 10 * s[1] + s[2]],
   invert |-> 0, forceTrip |-> 0,
   required |-> 2 ^ MgtCount - 2]   \* all but the first

getReg(d, regSel, o) ==
  LET s == [d EXCEPT !.sel = <<regSel, o>>]
  IN  [dev |-> s, value |-> s.reg[s.sel]]

setReg(d, regSel, o, value) ==
  LET s == [d EXCEPT !.sel = <<regSel, o>>]
  IN  [s EXCEPT !.reg[s.sel] = value % 2 ^ MpsInputs]

mpsSetDiscrete(d, name, o, map) == setReg(d, Select(name), o, map)
mpsSetInvertedInputs(d, map) == [d EXCEPT !.invert = map % 2 ^ MpsInputs]
mpsSetForceTrip(d, outputs) == [d EXCEPT !.forceTrip = outputs % 2 ^ MpsOutputs]

\* The first link is the event receiver's and never required.
mpsSetRequiredLinks(d, bitmap) ==
  [d EXCEPT !.required = (bitmap % 2 ^ MgtCount) - (bitmap % 2)]

mpsWrite(d, reg, value) ==
  CASE reg[1] = "invert"    -> mpsSetInvertedInputs(d, value)
    [] reg[1] = "forceTrip" -> mpsSetForceTrip(d, value)
    [] reg[1] = "required"  -> mpsSetRequiredLinks(d, value)
    [] reg[1] \in {"important", "goodState"} ->
         mpsSetDiscrete(d, reg[1], reg[2], value)
    [] OTHER                -> d

mpsRead(d, reg) ==
  CASE reg[1] = "invert"    -> [dev |-> d, value |-> d.invert]
    [] reg[1] = "forceTrip" -> [dev |-> d, value |-> d.forceTrip]
    [] reg[1] = "required"  -> [dev |-> d, value |-> d.required]
    [] OTHER                -> getReg(d, Select(reg[1]), reg[2])
=============================================================================
