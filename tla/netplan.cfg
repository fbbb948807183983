SPECIFICATION FairSpec
CONSTANTS
    TicksPerSecond = 2
    Cooldown = 4
    MaxBack = 3
    MaxForward = 2
    MaxFaults = 2
INVARIANTS IInv CooldownEnds
PROPERTIES AppliesSpaced AppliedAgain
