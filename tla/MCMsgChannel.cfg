SPECIFICATION Spec
CONSTANTS
  Server = server
  Client = client
  short = short
  long = long
  Message = {short, long}
  SizeOf <- MCSizeOf
  MAX_MSG_QUEUE_SIZE = 26
  MAX_MESSAGE_SIZE = 64
  FRAGMENT_SIZE = 16
  DataSize = {4}
  Wire <- MCWire
  MaxSequence <- MCMaxSequence
  MaxReliable <- MCMaxReliable
INVARIANTS
  TypeOK
  Intact
  UnreliableInOrder
  NoReliableLost
PROPERTIES
  Carries
  ReliableInOrder
