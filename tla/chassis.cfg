SPECIFICATION FairSpec
CONSTANTS
    None = None
    MaxReprovisions = 2
    MaxTouches = 1
    MaxFaults = 2
INVARIANTS IInv
PROPERTIES KeepsPromise EventuallyRegistered
