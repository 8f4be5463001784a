\* One invocation at a time, two bundles, exact reads, whole batches.
SPECIFICATION Spec
CONSTANTS
    o1 = o1
    o2 = o2
    Rules = {r1, r2}
    Bundles = {b1, b2}
    Objects = {o1, o2}
    Specs <- MCSpecs
    Syncs = {s1}
    Clients = {c1}
    Absent = Absent
    DefaultRule = DefaultRule
    StaleReads = FALSE
    PartialBatches = FALSE
    MaxSyncs = 2
    MaxEdits = 3
SYMMETRY Symmetry
PROPERTIES
    CompletedSyncAgrees
