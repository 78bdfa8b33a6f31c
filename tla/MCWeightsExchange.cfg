\* Three devices, two engines, from the bootstrap through two steps, in both
\* modes, any steps validated.
CONSTANTS
  d1 = d1
  d2 = d2
  d3 = d3
  e1 = e1
  e2 = e2
  Devices = {d1, d2, d3}
  Engines = {e1, e2}
  EngineOf <- MCEngineOf
  WorkerRank <- MCWorkerRank
  TrainRank <- MCTrainRank
  Root = d2
  Steps = 2
SPECIFICATION ExchangeSpec
INVARIANTS
  LoadsWholeCheckpoint WeightsNeverShareDevice
  MappedBuffersLive CacheAfterBuffersFreed StepLeavesNoKeys TriedBeforeUse
  MappingIsWhole
PROPERTIES EveryUpdateEnds
CHECK_DEADLOCK FALSE
