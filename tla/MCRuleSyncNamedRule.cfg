\* One invocation for a rule group with two rules.
SPECIFICATION Spec
CONSTANTS
    o1 = o1
    o2 = o2
    Rules = {r1, r2}
    Bundles = {b1}
    Objects = {o1, o2}
    Specs <- MCOneSpec
    Syncs = {s1}
    Clients = {c1}
    Absent = Absent
    DefaultRule = DefaultRule
    StaleReads = FALSE
    PartialBatches = FALSE
    MaxSyncs = 1
    MaxEdits = 2
PROPERTIES
    NamedRuleAloneFails
