SPECIFICATION StartsSpec
CONSTANTS
  WriteEdges = 3
  NBanks = 2
  Capacity = 2
  END = 1
  MaxGap = 1
  Commands <- OrderCommands
  Sources <- OneSource
  Entries <- NoEntries
PROPERTIES
  StartsOnlyIfArmed
  PlaysTables
  TriggerIsServed
