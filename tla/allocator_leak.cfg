SPECIFICATION Spec
CONSTANTS
    N = 2
    AddTwice = TRUE
    MaxPods = 2
    MaxFaults = 0
INVARIANTS DeletedPodHoldsNothing
CHECK_DEADLOCK FALSE
