CONSTANTS
    p1 = p1
    p2 = p2
    k1 = k1
    k2 = k2
    plot = plot
    table = table
    old = old
    new = new
    Processes = {p1, p2}
    Keys = {k1, k2}
    Contents = {old, new}
    Aliases = {plot, table}
    Outcomes <- SomeOutcomes
    Absent = Absent
    Torn = Torn
    Miss = Miss
    Unknown = Unknown
    NoExecution = NoExecution
    MaxFaults = 1
SPECIFICATION Spec
INVARIANTS
    LoadReturnsCommitted
    LatestIsVisible
    PreparedFaithful
