\* Two rule groups, one event at a time, exact reads.
SPECIFICATION FairSpec
CONSTANTS
    Bundles = {b1, b2}
    Arns = {a1, a2}
    Reachable = {a1}
    Events = {e1}
    NoArn = NoArn
    Absent = Absent
    First = a1
    PartialReads = FALSE
    MaxRetries = 1
    MaxRequests = 2
PROPERTIES
    Converges
    StampedAgain
