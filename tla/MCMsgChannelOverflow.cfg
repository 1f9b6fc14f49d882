SPECIFICATION OverflowSpec
CONSTANTS
  Server = server
  Client = client
  disconnect = disconnect
  Message = {m1, disconnect}
  SizeOf <- MCSizeOf
  MAX_MSG_QUEUE_SIZE = 16
  MAX_MESSAGE_SIZE = 32
  FRAGMENT_SIZE = 32
  DataSize = {4}
  Wire <- MCWire
  MaxSequence <- MCMaxSequence
  MaxReliable <- MCMaxReliable
PROPERTY DisconnectArrives
CHECK_DEADLOCK FALSE
