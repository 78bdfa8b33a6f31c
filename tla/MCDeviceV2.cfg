\* Deployments with LSA and GIN peers, several launches, timeouts.
CONSTANT Deployments <- PassDeployments
SPECIFICATION FairSpec
INVARIANTS BothEndsAgree StreamsAgree EveryByteOnce StepsInOrder NoOverwrite
  ReceiverReturnIsCurrent SenderReturnIsDelivered PeerHasReset NoCreditInAdvance
PROPERTY EveryLaunchCompletes
CHECK_DEADLOCK FALSE
