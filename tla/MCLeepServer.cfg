CONSTANTS
  HwTriggerCount = 1
  TimerCount = 1
  RxCount = 1
  SeqAddrCount = 2
  DbusBits = 2
  IntMax = 255
  LatencyValues = {6}
  Garbage = {13}
  OutputCount = 1
  SerdesFactor = 4
  LastAction = 1
  FifoDepth = 1
  TicksPerSecond = 2
  MpsOutputs = 2
  MpsInputs = 2
  MgtCount = 2
  LEEP_REG_CAPACITY = 6
  MaxPass = 2
  Packets <- MCPackets
  EventCodes = {9}
  MaxPackets = 2
  MaxClock = 4
  MaxEvents = 2
  MaxDrops = 1
SPECIFICATION Spec
INVARIANTS
  TrueTimes
  TimersReasonable
  PulseAsAsked
PROPERTIES
  ReadsBack
  QuietReference
CHECK_DEADLOCK FALSE
