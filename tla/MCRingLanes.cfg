\* One stream, fewer segments than lanes, three steps, no timeouts.
CONSTANTS
  t1 = t1
  i1 = i1
  i2 = i2
  Senders = {t1}
  Receivers = {i1}
  SlotsPerPeer = 3
  Count <- LanesCount
  Multicast = {}
  MaxSequence = 3
  MayTimeout = FALSE
SPECIFICATION FairSpec
INVARIANTS NoMissedEpoch SenderReturnIsDelivered
PROPERTIES EveryStepCompletes
CHECK_DEADLOCK FALSE
