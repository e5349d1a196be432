SPECIFICATION ClearSpec
CONSTANTS
  EVG = EVG
  mid = mid
  leaf = leaf
  Nodes <- MCNodes
  Parent <- MCParent
  Path <- MCPath
  Troubles = {"fault", "upBad", "downBad"}
  MaxDisturbed = 1
  MaxDepth = 2
  Window = 8
INVARIANTS
  OneClearSuffices
