SPECIFICATION FairSpec
CONSTANTS
  ApplyLoad = 1
  AwaitLoad = 7
  CommasRequired = 2
  MgtCount = 2
  Receivers <- MCReceivers
  fpgaRefClk = fpgaRefClk
  si570 = si570
  Inputs = {fpgaRefClk, si570}
  Si570 = si570
  FirstInput = fpgaRefClk
  Unsteady = {si570}
  Requested = {si570}
  Disabled = disabled
INVARIANTS
  TypeOK
  UnstruckResetIsClean
  MisalignedIsDown
PROPERTIES
  LanesWaitedFor
  SettledLinkIsLeft
  LinksComeUp
