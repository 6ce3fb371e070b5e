CONSTANTS
  Files = {1, 2, 3, 4}
  Markdown = {1, 2, 3}
  Full <- MCFull
  Stem <- MCStem
  Texts <- MCTexts
  Refs <- MCRefs
  Tokens <- MCTokens
  Holds <- MCHolds
  Queries <- MCQueries
  Unreadable = {"binary"}
  Plain = {"alpha", "beta"}
  TagsOf <- MCTagsOf
  Score <- MCScore
  Missing = Missing
  Starts <- MCStarts
  Requests <- MCRequests
  Threshold = 84
  Top = 1
  MaxSemantic = 2
  MaxEdges = 3
  MaxLimit = 9
  MaxDepth = 3
  MaxEdits = 2
  MaxStores = 2
  MaxBuilds = 1
SPECIFICATION LinksSpec
INVARIANTS
  IndexCoheres
  GraphIsFaithful
CHECK_DEADLOCK FALSE
