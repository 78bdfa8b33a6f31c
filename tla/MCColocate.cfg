\* Four ranks, uneven plans and budgets, in several chunks and in one; and
\* the same in stages.
CONSTANTS
  World = 4
  Ops <- UnevenOps
  LocalStep <- UnevenStep
  StagesWorld = 4
  StagesPlan <- FullPlan
SPECIFICATION TransportSpec
INVARIANTS PeerStillOwesBatch EveryPairMeetsOnce
PROPERTIES ImplementsExchange EveryExchangeEnds
CHECK_DEADLOCK FALSE
