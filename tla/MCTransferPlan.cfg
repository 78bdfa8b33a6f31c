\* Crossed shardings with pruned plans, replicas with full ones, and metadata
\* that is refused.
CONSTANTS
  Deployments <- AllDeployments
  Embed = 1
  LmHead = 2
  PruneThreshold = 10
SPECIFICATION FairSpec
INVARIANTS PairsAgree EveryCellOnce DeliveredWhole LoadedWeights
PROPERTIES EveryTransferEnds
CHECK_DEADLOCK FALSE
