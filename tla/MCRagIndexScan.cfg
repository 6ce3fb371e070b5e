SPECIFICATION RagSpec
CONSTANTS
  Paths = {1, 2}
  Texts <- MCTexts
  Binary = "binary"
  Pieces <- MCPieces
  Heads <- MCHeads
  Absent = Absent
  Flushers = {f1, f2}
  Models = {m, n}
  Batch = 1
  MaxEdits = 2
  MaxSwaps = 1
  MaxBuilds = 1
SYMMETRY MCSymmetry
INVARIANT ScanAgrees
CHECK_DEADLOCK FALSE
