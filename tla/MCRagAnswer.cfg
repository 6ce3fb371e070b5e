SPECIFICATION AnswerSpec
CONSTANTS
  Hits <- MCHits
  Graphs <- MCGraphs
  MaxHits = 2
  SeedTopK = 1
  K = 60
  LinkWeight = 1
  TopK = 3
  RerankTopK = 2
  MaxChunks = 2
  MaxTokens = 8
  PerDocument = 3
  MergeGap = 5
  Marks = {{1}, {2}, {9}, {1, 9}, {1000}}
  RequireCitation = TRUE
INVARIANTS
  LinksOnlyAdd
  PackWithinBudget
  AnswerIsGrounded
