\* Two requests of any kind, with outdated reads, cut scans, errors and crashes.
CONSTANTS
    q1 = q1  q2 = q2
    u1 = u1  u2 = u2
    o1 = o1  o2 = o2
    b1 = b1
    r1 = r1  r2 = r2
    Requests = {q1, q2}
    Users = {u1, u2}
    Objects = {o1, o2}
    Bundles = {b1}
    Rules = {r1, r2}
    Ownerships <- MCOwnerships
    Specs <- MCSpecs
    Calls <- MCCalls
    Absent = Absent
    OutdatedReads = TRUE
    LongTable = TRUE
SPECIFICATION Spec
SYMMETRY MCSymmetry
INVARIANTS TypeOK DanglingOnlyByRace AuditTrail OneWinner
PROPERTY OnlyOwnersChangeRules
CHECK_DEADLOCK FALSE
