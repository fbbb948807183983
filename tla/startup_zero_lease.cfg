SPECIFICATION FairSpec
CONSTANTS
    Envs <- ZeroMC
    None = None
    MaxInt = 10000
    MaxPods = 1
    MaxFaults = 0
PROPERTIES ZeroDisables
