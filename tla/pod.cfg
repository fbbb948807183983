SPECIFICATION FairSystemSpec
CONSTANTS
    N = 2
    AddTwice = TRUE
    MaxPods = 3
    MaxFaults = 3
    MaxOtherFaults = 2
INVARIANTS SystemIInv OvnFindsConf ReadyMeansHeld OrderlyPodReturnsAll
PROPERTIES RefusedOnlyBesideStop EventuallyUp EventuallyGone
CHECK_DEADLOCK FALSE
