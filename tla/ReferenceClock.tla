--------------------------- MODULE ReferenceClock ---------------------------
(***************************************************************************)
(* The reference clock of the transceivers: the crosspoint output that     *)
(* feeds it (mgtClkSwitch.c) and the Si570 oscillator that may be its      *)
(* source (si570.c).  Their state, with the variables of epics.c and       *)
(* si570.c that follow them, is one record d.                              *)
(***************************************************************************)
EXTENDS Naturals

\* Inputs are 0 to 7.
FPGA_REF_CLK0 == 2
SI570_CLK == 3
DISABLE_OUTPUT == 8

FactoryFrequency == [r7_9 |-> 0, r10_12 |-> 0]

\* input, on: the crosspoint output; frequency: what the Si570 runs at.
RefStart ==
  [mgtClkSwitch0 |-> FPGA_REF_CLK0, input |-> FPGA_REF_CLK0, on |-> FALSE,
   frequency |-> FactoryFrequency, scratch7_9 |-> 0]

ConnectOutputToInput(d, input) ==
  IF input >= DISABLE_OUTPUT
  THEN [d EXCEPT !.on = FALSE]
  ELSE [d EXCEPT !.input = input, !.on = TRUE]

\* The first word is kept; the second programs the oscillator with both.
si570Write(d, addr, val) ==
  CASE addr = 0 -> [d EXCEPT !.scratch7_9 = val]
    [] addr = 1 -> [d EXCEPT !.frequency =
                      [r7_9 |-> d.scratch7_9, r10_12 |-> val]]
    [] OTHER    -> d

si570Read(d, addr) ==
  CASE addr = 0 -> d.frequency.r7_9
    [] addr = 1 -> d.frequency.r10_12
    [] addr = 2 -> FactoryFrequency.r7_9
    [] addr = 3 -> FactoryFrequency.r10_12

\* The clock that the transceivers get.
Off == [input |-> DISABLE_OUTPUT, frequency |-> FactoryFrequency]
MgtClock(d) ==
  IF ~d.on THEN Off
  ELSE [input |-> d.input,
        frequency |-> IF d.input = SI570_CLK THEN d.frequency
                      ELSE FactoryFrequency]
=============================================================================
