\* A sender with two GIN receivers: its channels differ from theirs.
CONSTANT Deployments <- GinDeployments
SPECIFICATION FairSpec
INVARIANT BothEndsAgree
CHECK_DEADLOCK FALSE
