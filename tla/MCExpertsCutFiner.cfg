\* Experts on twice as many ranks as the rest of the model is cut among: the
\* weights of some shards are loaded in the wrong place.
CONSTANTS
  Deployments <- FinerDeployments
  Embed = 1
  LmHead = 2
  PruneThreshold = 10
SPECIFICATION Spec
INVARIANT LoadedWeights
CHECK_DEADLOCK FALSE
