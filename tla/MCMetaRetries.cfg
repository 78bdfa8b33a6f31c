\* Two ranks; every call may be sent twice.
CONSTANTS
  World = 2
  Attempts = 2
SPECIFICATION FairSpec
INVARIANTS IdsAreUnique WaitIsForAll
PROPERTIES EveryWaiterLeaves
CHECK_DEADLOCK FALSE
