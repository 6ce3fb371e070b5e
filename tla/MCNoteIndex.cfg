SPECIFICATION FairSpec
CONSTANTS
    p1 = p1
    p2 = p2
    Paths <- MCPaths
    Notes = {p1}
    Absent = Absent
    MaxChanges = 3
    MaxScans = 1
INVARIANT SettledIsFaithful
PROPERTY IndexSettles
CHECK_DEADLOCK FALSE
