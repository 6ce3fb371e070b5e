SPECIFICATION VaultSpec
CONSTANTS
 Paths = {"a", "b"}
 Candidates <- MCCandidates
 Retries = 2
 MaxInodes = 3
 MaxVersions = 3
 MaxOps = 1
 MaxShots = 2
INVARIANTS VisibleIsWhole ClaimHolds ConfigNamesHead SnapshotIsConsistent
PROPERTY Guarded
CHECK_DEADLOCK FALSE
