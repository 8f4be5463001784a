\* Two invocations of an environment, chunks of two rules, two attempts for a query.
CONSTANTS
    KindOf <- MCKindOf
    Plans <- MCPlans
    ChunkSize = 2
    MaxAttempts = 2
    Capacity = 2
    TimeoutCost = 2
    Empty = {"unused", "subnet"}
    Paged = {"many"}
    MaxInvocations = 2
SPECIFICATION Spec
INVARIANTS TypeOK RefusedForACause SidsArePlaces OwnAddresses
PROPERTY InvocationsEnd
