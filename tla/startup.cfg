SPECIFICATION FairSpec
CONSTANTS
    Envs <- ValuesMC
    None = None
    MaxInt = 10000
    MaxPods = 2
    MaxFaults = 1
INVARIANTS IInv PublishedIsConfigured ReadyMeansConfigured
PROPERTIES EventuallyReady RefusesOnlyBad
