SPECIFICATION Spec
CONSTANTS
  Workers = {w1, w2}
  Requests = {q1}
  Roots = {r1, r2}
  Extra = {p, q}
  MaxProfiles = 2
  MaxEdits = 3
  MaxCrashes = 1
SYMMETRY Symmetry
CHECK_DEADLOCK FALSE
INVARIANTS
  RequestSeesOneVault
  SavedIsLive
PROPERTY
  NoLostEdit
