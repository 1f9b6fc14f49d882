SPECIFICATION Spec
CONSTANTS
  N = 3
  Bounds <- MCBounds
INVARIANTS
  NextMatches
  EnoughPlayers
  OneVoteEach
  VotesShown
  NotStalled
PROPERTY LivesDecide
