SPECIFICATION Spec
CONSTANTS
    Nodes = {w1, w2}
    Labels = {zone}
    None = None
    PodTemplates <- McPods
    Settings = {TRUE, FALSE}
    MaxChanges = 1
INVARIANTS IInv KeepsSchedulable
PROPERTIES NoVFOnlyWithoutDPU RunsWhereAsked
