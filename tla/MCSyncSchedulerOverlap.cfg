\* Two events: calls and timestamps of one run meet the run of the other; scans and
\* batch reads may leave items out.
SPECIFICATION Spec
CONSTANTS
    Bundles = {b1, b2}
    Arns = {a1, a2}
    Reachable = {}
    Events = {e1, e2}
    NoArn = NoArn
    Absent = Absent
    First = a1
    PartialReads = TRUE
    MaxRetries = 0
    MaxRequests = 2
SYMMETRY Symmetry
INVARIANTS
    TypeOK
    CarriedWasTargeted
    ArnLostOnlyByDelete
