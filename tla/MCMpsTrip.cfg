SPECIFICATION FairTripSpec
CONSTANTS
  EVG = EVG
  mid = mid
  leaf = leaf
  Nodes <- MCNodes
  Parent <- MCParent
  Path <- MCPath
  Troubles = {"fault", "upBad", "downBad", "stalled", "reboot"}
  MaxDisturbed = 1
  Window = 2
INVARIANTS
  TripTypeOK
  TripReachesEVG
PROPERTIES
  ClearsReleaseTree
