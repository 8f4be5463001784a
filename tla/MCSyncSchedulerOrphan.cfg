\* One bundle and its rule group.
SPECIFICATION FairSpec
CONSTANTS
    Bundles = {b1}
    Arns = {a1}
    Reachable = {a1}
    Events = {e1}
    NoArn = NoArn
    Absent = Absent
    First = Absent
    PartialReads = FALSE
    MaxRetries = 0
    MaxRequests = 4
PROPERTIES
    GroupsFollowTables
