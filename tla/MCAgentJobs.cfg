SPECIFICATION Spec
CONSTANTS
    p1 = p1
    p2 = p2
    Paths = {p1, p2}
    Plans <- MCPlans
    Absent = Absent
    MaxEdits = 1
    MaxCrashes = 1
    MaxAccepts = 2
INVARIANTS
    OnlyWindowSaves
    WriteAheadJournal
    CommittedIsWhole
    RolledBackIsClean
    UndoneIsClean
    RecoverableUnlessTouched
CHECK_DEADLOCK FALSE
