SPECIFICATION Spec
CONSTANTS
  MaxClients = 2
  Capacity = 9
  Rounds = 4
  Fragments = {0, 1, 2, 4}
  Bounds <- MCBounds
INVARIANTS
  PlayersInGame
  ClientsAgree
  EverybodyIsTold
CHECK_DEADLOCK FALSE
