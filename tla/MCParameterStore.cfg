SPECIFICATION StoreSpec
CONSTANTS
  NBlocks = 4
  SectorBlocks = 2
  image = image
  sysparam = sysparam
  flash = flash
  eeprom = eeprom
  p1 = p1
  p2 = p2
  Files <- MCFiles
  fileTable <- MCTable
  ParamFile = sysparam
  Values = {p1, p2}
  ParamValues = {p1, p2}
  Default = p1
  NoName = noName
  Unknown = unknown
  LastBlock = 4
  MemoryFails = TRUE
INVARIANTS
  TypeOK
  HandlesAgree
  StashSurvives
