SPECIFICATION Spec
CONSTANTS
  LINE_CAPACITY = 5
  UDP_TX_BUFSIZE = 4
  STARTUP_LOG_SIZE = 2
  ArgvSize = 4
  EYESCAN_CHANNEL_COUNT = 2
  HSteps = 1
  VSteps = 1
  MaxPackets = 2
  MaxKeys = 1
  Clients = {c1}
  Alarm <- MCAlarm
  Packets <- MCPackets
  Keys <- MCKeys
  StoredParams <- MCStoredParams
  NetworkOf <- MCNetworkOf
  FlagsOf <- MCFlagsOf
  ChannelOf <- MCChannelOf
INVARIANTS
  TypeOK
  OutputInOrder
  ScanInPlace
PROPERTIES
  Confirmed
  InputIsQueue
  ComesToRest
