\* Six ranks: the last partitions have three.
CONSTANTS
  World = 6
  Ops <- NeighbourOps
  LocalStep <- UnevenStep
SPECIFICATION Spec
INVARIANTS FinishedHasExchangedAll
CHECK_DEADLOCK FALSE
