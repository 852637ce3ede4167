SPECIFICATION Spec
CONSTANTS
  MaxPages = 2
  Surfaces = {1, 2}
  NumChunks = 2
  Docs <- MCDocs
INVARIANTS EveryPageIsMade
CHECK_DEADLOCK FALSE
