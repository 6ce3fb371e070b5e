SPECIFICATION Spec
CONSTANTS
    p1 = p1
    p2 = p2
    n1 = n1
    n2 = n2
    NoNote = NoNote
    VaultPaths <- MCPaths
    Notes <- MCNotes
    MaxId = 2
    BatchSize = 1
SYMMETRY MCSymmetry
INVARIANTS
    NoteConservation
    DoomedOnlyWhenDue
    MovedNeverCopied
    ListedIsRecoverable
    UnlistedIsStranded
    OnlyRacingSaves
