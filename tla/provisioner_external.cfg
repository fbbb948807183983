SPECIFICATION FairSpec
CONSTANTS
    h1 = h1  h2 = h2  a1 = a1  a2 = a2  n1 = n1  n2 = n2  g1 = g1  g2 = g2
    HostNames = {h1, h2}
    Addrs = {a1, a2}
    Nets = {n1, n2}
    NetOf <- McNetOf
    VtepCidr = n2
    Gateways = {g1, g2}
    OobGateways = {og}
    ExclusiveRoutes = TRUE
    None = None  Torn = Torn  Absent = Absent  Empty = Empty
    Mode = "external-ipam"
    Bootstrap = TRUE
    Labels <- McLabels
    Allocs <- McOneAlloc
    FlannelNets = {fn}
    OobAddrs = {o1}
    MaxChanges = 1
    MaxFaults = 1
INVARIANTS UndisturbedPassPublishes PassPublishesOneReading ReadyMeansProvisioned
PROPERTIES PublishesWhatOnePassRead RefusedForCause KeepsPromise EventuallyPublished
