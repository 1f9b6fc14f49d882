SPECIFICATION LiveSpec
CONSTANTS
  Server = server
  Client = client
  short = short
  long = long
  Message = {short, long}
  SizeOf <- MCSizeOf
  MAX_MSG_QUEUE_SIZE = 32
  MAX_MESSAGE_SIZE = 32
  FRAGMENT_SIZE = 16
  DataSize = {4}
  Wire <- MCWire
  MaxSequence <- MCMaxSequence
  MaxReliable <- MCMaxReliable
PROPERTY ArrivesOrJams
CHECK_DEADLOCK FALSE
