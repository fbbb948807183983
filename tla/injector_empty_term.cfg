SPECIFICATION Spec
CONSTANTS
    Nodes = {w1, w2, w3}
    Labels = {zone}
    None = None
    PodTemplates <- McPodsEmptyTerm
    Settings = {FALSE}
    MaxChanges = 0
PROPERTIES RunsWhereAsked
