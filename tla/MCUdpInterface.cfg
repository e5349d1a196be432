CONSTANTS
  MAX_REGCOUNT = 2
  Registers = 2
  OSPREY_UDP_ENDPOINT_CAPACITY = 2
  OSPREY_UDP_PACKET_CAPACITY = 1
  SEND_CHECK_LIMIT = 2
  Registrations <- MCRegistrations
  Clients = {a, b}
  Requests <- MCRequests
  None = None
  MaxPackets = 3
  MaxHangs = 1
SPECIFICATION Spec
INVARIANTS
  TypeOK
  AnsweredAsOwed
  AtMostOnce
PROPERTIES
  Released
CHECK_DEADLOCK FALSE
