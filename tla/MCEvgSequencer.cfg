SPECIFICATION Spec
CONSTANTS
  WriteEdges = 3
  NBanks = 1
  Capacity = 4
  END = 2
  MaxGap = 2
  Commands <- PlayCommands
  Sources <- NoSources
  Entries <- PlayEntries
INVARIANTS
  TypeOK
PROPERTIES
  PlaysTables
