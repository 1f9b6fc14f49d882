SPECIFICATION FairSpec
CONSTANTS
  Size = 2
  MaxDownloads = 2
  MaxConnects = 1
INVARIANTS
  TypeOK
  EndsWhole
PROPERTIES
  BoxesEnd
  CancelsEnd
\* The player may stay in the game, with nothing to download.
CHECK_DEADLOCK FALSE
