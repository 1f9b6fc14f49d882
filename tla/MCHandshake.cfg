SPECIFICATION Spec
CONSTANTS
  ann = ann
  cyd = cyd
  Client = {ann, cyd}
  Host <- MCHost
  Lan = {"h"}
  MAX_ASYNC_CLIENTS = 2
  MAX_CHALLENGES = 1
  si_maxPlayers = 2
  MIN_RECONNECT_TIME = 2
  serverZombieTimeout = 2
  serverClientTimeout = 1
  Settings <- MCSettings
  MaxChallenge = 2
INVARIANTS
  OneSlotEach
  ClientNumAgrees
  OnlyAdmitted
CHECK_DEADLOCK FALSE
