SPECIFICATION Spec
CONSTANTS
  EventPool = {e1, e2, e3}
  None = None
  Entities = {door}
  Threads = {script}
  Defs = {activate}
  Delays = {0, 2}
  MAX_EVENTSPERFRAME = 2
  Bounds <- MCBounds
SYMMETRY Pool
INVARIANTS
  TypeOK
  PoolWhole
  Sorted
  OwnersAlive
PROPERTIES
  OnTime
  ImplementsTimetable
CHECK_DEADLOCK FALSE
