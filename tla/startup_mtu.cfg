SPECIFICATION Spec
CONSTANTS
    Envs <- NegativeMC
    None = None
    MaxInt = 10000
    MaxPods = 1
    MaxFaults = 0
INVARIANTS DhcpMtuInRange
