\* Two devices, a step that may be validated on disk.
CONSTANTS
  d1 = d1
  d2 = d2
  d3 = d3
  e1 = e1
  e2 = e2
  Devices = {d1, d2}
  Engines = {e1, e2}
  EngineOf <- MCSingleEngineOf
  Root = d1
  Steps = 1
SPECIFICATION Spec
INVARIANTS NoReaderFails
CHECK_DEADLOCK FALSE
