SPECIFICATION Spec
CONSTANTS
    p1 = p1
    p2 = p2
    Paths = {p1, p2}
    Plans <- MCPlans
    Absent = Absent
    MaxEdits = 1
    MaxCrashes = 1
    MaxAccepts = 2
INVARIANT NothingAppliedIsTrue
CHECK_DEADLOCK FALSE
