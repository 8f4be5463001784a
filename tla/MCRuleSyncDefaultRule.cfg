\* A rule group without rules, one environment that serves several invocations.
SPECIFICATION Spec
CONSTANTS
    o1 = o1
    o2 = o2
    Rules = {r1}
    Bundles = {b1}
    Objects = {o1, o2}
    Specs <- MCOneSpec
    Syncs = {s1}
    Clients = {c1}
    Absent = Absent
    DefaultRule = DefaultRule
    StaleReads = FALSE
    PartialBatches = FALSE
    MaxSyncs = 2
    MaxEdits = 2
PROPERTIES
    NoRulesMeansDefaultRule
