\* Two overlapping invocations, one client, stale reads, partial batches.
SPECIFICATION Spec
CONSTANTS
    o1 = o1
    o2 = o2
    Rules = {r1}
    Bundles = {b1}
    Objects = {o1, o2}
    Specs <- MCSpecs
    Syncs = {s1, s2}
    Clients = {c1}
    Absent = Absent
    DefaultRule = DefaultRule
    StaleReads = TRUE
    PartialBatches = TRUE
    MaxSyncs = 3
    MaxEdits = 3
SYMMETRY Symmetry
INVARIANTS
    TypeOK
    VersionIdentifiesItem
    LegalSuccession
    ActivationWasDeployed
    DeployedWasAccepted
PROPERTIES
    LifecycleSpec
