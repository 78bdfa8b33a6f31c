\* A multicast sender, two receivers, timeouts at any wait, two steps.
CONSTANTS
  t1 = t1
  i1 = i1
  i2 = i2
  Senders = {t1}
  Receivers = {i1, i2}
  SlotsPerPeer = 1
  Count <- BroadcastCount
  Multicast = {t1}
  MaxSequence = 2
  MayTimeout = TRUE
SPECIFICATION FairSpec
INVARIANTS ReceiverReturnIsCurrent SuccessLeavesSlotsFree SlotExclusive IInv
PROPERTIES FullSlotIsFrozen ImplementsDelivery EveryLaunchReturns
CHECK_DEADLOCK FALSE
