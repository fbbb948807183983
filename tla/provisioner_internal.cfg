SPECIFICATION FairSpec
CONSTANTS
    h1 = h1  h2 = h2  a1 = a1  a2 = a2  n1 = n1  n2 = n2  g1 = g1  g2 = g2
    HostNames = {h1, h2}
    Addrs = {a1, a2}
    Nets = {n1, n2}
    NetOf <- McNetOf
    VtepCidr = n2
    Gateways = {g1, g2}
    OobGateways = {og}
    FlannelNets = {fn}
    ExclusiveRoutes = FALSE
    None = None  Torn = Torn  Absent = Absent  Empty = Empty
    Mode = "internal-ipam"
    Bootstrap = FALSE
    Labels <- McLabels
    Allocs <- McAllocs
    OobAddrs = {o1}
    MaxChanges = 2
    MaxFaults = 1
INVARIANTS IInv DhcpServesThisVtep
PROPERTIES KeepsOutline StaysPublished EventuallyPublished EventuallyServes
