SPECIFICATION Spec
CONSTANTS
  Player = player
  Observers = {observer}
  name = name
  team = team
  red = red
  blue = blue
  Key = {name, team}
  Value = {red, blue}
  Forced <- MCForced
  MaxGame = 2
  MaxChanges = 1
  MaxForced = 1
INVARIANTS
  ObserversAgree
  PlayerAgrees
CHECK_DEADLOCK FALSE
