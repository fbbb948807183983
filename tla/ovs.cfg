SPECIFICATION Spec
CONSTANTS
    Bridges = {b1, b2}
    Ports = {p1}
    QuotedNames = {p1}
    Types = {dpdk}
    Maps <- MapsMC
    Foreign <- ForeignMC
    KeyOrder <- KeyOrderMC
    SystemIDs <- SystemIDsMC
    Plain = {"w", "dpf-id", "iface-id"}
    None = None
    MaxFaults = 1
INVARIANTS IInv AddedWhole
PROPERTIES ReadsWhatIsWritten ReadsSystemID
