\* Two events, so that a late call of one meets the calls of the other.
SPECIFICATION FairSpec
CONSTANTS
    Bundles = {b1}
    Arns = {a1}
    Reachable = {a1}
    Events = {e1, e2}
    NoArn = NoArn
    Absent = Absent
    First = Absent
    PartialReads = FALSE
    MaxRetries = 0
    MaxRequests = 4
PROPERTIES
    Converges
