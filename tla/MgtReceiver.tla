---------------------------- MODULE MgtReceiver -----------------------------
(***************************************************************************)
(* What one receiver of mgtWrapper.v does on a clock edge: the alignment   *)
(* machine, which resets the receiver until it happens to start with the   *)
(* right bit alignment, and mgtLinkStatus, which declares the link up.     *)
(* Pure functions of the registers, used by MgtReset.                      *)
(***************************************************************************)
EXTENDS Naturals

CONSTANTS
  ApplyLoad,       \* RESET_APPLY_COUNTER_LOAD: how long a reset is held
  AwaitLoad,       \* RESET_AWAIT_COUNTER_LOAD: how long a link may take
  CommasRequired   \* COMMAS_REQUIRED: commas that make a link

ASSUME LoadsAssumption ==
  /\ ApplyLoad \in Nat
  /\ CommasRequired \in Nat \ {0}
  /\ AwaitLoad \in Nat /\ AwaitLoad >= CommasRequired + 5

\* Faulty: the counter runs on.
Runaway(n) == n - 1

\* A down counter whose sign bit says that it is done stays done.
Down(n) == IF n = 0 THEN 0 ELSE n - 1

Alignments ==
  [rxResetState : {"APPLY_RESET", "AWAIT_ALIGNMENT", "ALIGNED"},
   rxResetApplyCounter : 0..ApplyLoad,
   rxResetAwaitCounter : 0..AwaitLoad,
   pmareset : BOOLEAN,
   rxResetLinkUp_m : BOOLEAN,
   rxResetLinkUp : BOOLEAN]

Unaligned ==
  [rxResetState |-> "APPLY_RESET",
   rxResetApplyCounter |-> ApplyLoad,
   rxResetAwaitCounter |-> AwaitLoad,
   pmareset |-> FALSE,
   rxResetLinkUp_m |-> FALSE,
   rxResetLinkUp |-> FALSE]

\* Held idle while a global reset is in progress.
Held(a) == [a EXCEPT !.rxResetState = "APPLY_RESET", !.pmareset = FALSE]

ApplyReset(a) ==
  [a EXCEPT !.pmareset = TRUE,
            !.rxResetAwaitCounter = AwaitLoad,
            !.rxResetApplyCounter = Down(@),
            !.rxResetState = IF a.rxResetApplyCounter = 0
                             THEN "AWAIT_ALIGNMENT" ELSE "APPLY_RESET"]

\* Faulty: the wait ends with a reset, link or no link.
NeverAligned(a) ==
  IF a.rxResetAwaitCounter # 0 THEN "AWAIT_ALIGNMENT" ELSE "APPLY_RESET"

AfterAwait(a) ==
  IF a.rxResetAwaitCounter # 0 THEN "AWAIT_ALIGNMENT"
  ELSE IF a.rxResetLinkUp THEN "ALIGNED" ELSE "APPLY_RESET"

\* Faulty: the link is looked at before it has had its time.
ImpatientAwait(a) ==
  [a EXCEPT !.pmareset = FALSE,
            !.rxResetApplyCounter = ApplyLoad,
            !.rxResetAwaitCounter = Down(@),
            !.rxResetState = IF a.rxResetLinkUp THEN "ALIGNED" ELSE "APPLY_RESET"]

AwaitAlignment(a) ==
  [a EXCEPT !.pmareset = FALSE,
            !.rxResetApplyCounter = ApplyLoad,
            !.rxResetAwaitCounter = Down(@),
            !.rxResetState = AfterAwait(a)]

StayAligned(a) ==
  [a EXCEPT !.rxResetState = IF a.rxResetLinkUp THEN "ALIGNED" ELSE "APPLY_RESET"]

StepAligned(a) ==
  CASE a.rxResetState = "APPLY_RESET"     -> ApplyReset(a)
    [] a.rxResetState = "AWAIT_ALIGNMENT" -> AwaitAlignment(a)
    [] a.rxResetState = "ALIGNED"         -> StayAligned(a)

\* One edge of sysClk.  The synchronizer runs whatever the machine does.
AlignmentEdge(a, refClkLost, linkUp) ==
  [(IF refClkLost THEN Held(a) ELSE StepAligned(a))
     EXCEPT !.rxResetLinkUp_m = linkUp, !.rxResetLinkUp = a.rxResetLinkUp_m]

\* Faulty: a bad character does not start the count anew.
ForgivingLink(commasNeeded, char) ==
  CASE char = "none"       -> commasNeeded
    [] char = "notInTable" -> commasNeeded
    [] char = "other"      -> commasNeeded
    [] char = "comma"      -> Down(commasNeeded)

\* One edge of the recovered clock, which brings a character that is not in
\* the table, a comma where it belongs, or another one; "none" is no edge.
LinkEdge(commasNeeded, char) ==
  CASE char = "none"       -> commasNeeded
    [] char = "notInTable" -> CommasRequired
    [] char = "other"      -> commasNeeded
    [] char = "comma"      -> Down(commasNeeded)

=============================================================================
