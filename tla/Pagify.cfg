SPECIFICATION Spec
CONSTANTS
  MaxPages = 4
  Surfaces = {1, 2, 3, 4}
  NumChunks = 2
  Docs <- MCDocs
INVARIANTS TypeOK PagifyInv PagesAreOwn TwoPassesAreOne LostOnlyAtSeams
PROPERTIES WrittenOnce
CHECK_DEADLOCK FALSE
