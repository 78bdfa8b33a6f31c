\* Two ranks; a call is sent once.
CONSTANTS
  World = 2
  Attempts = 1
SPECIFICATION FairSpec
PROPERTIES EveryRankLeaves
CHECK_DEADLOCK FALSE
