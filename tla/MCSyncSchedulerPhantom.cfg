\* One bundle, one event.
SPECIFICATION Spec
CONSTANTS
    Bundles = {b1}
    Arns = {a1}
    Reachable = {}
    Events = {e1}
    NoArn = NoArn
    Absent = Absent
    First = Absent
    PartialReads = FALSE
    MaxRetries = 2
    MaxRequests = 3
INVARIANTS
    EveryBundleHasArn
