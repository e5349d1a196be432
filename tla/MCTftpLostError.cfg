SPECIFICATION TransferSpec
CONSTANTS
  NBlocks = 4
  SectorBlocks = 2
  image = image
  sysparam = sysparam
  v1 = v1
  v2 = v2
  Files <- MCFiles
  fileTable <- MCTable
  ParamFile = sysparam
  Values = {v1, v2}
  ParamValues = {v1}
  Default = v1
  NoName = noName
  LastBlock = 4
  MemoryFails = TRUE
  Target = image
  Uploads <- MCUploads
  MaxSessions = 2
  QueueLength = 2
  MaxRestarts = 1
  ErrorsLost = TRUE
INVARIANTS
  SentIsStored
