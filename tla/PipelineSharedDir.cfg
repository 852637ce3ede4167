SPECIFICATION Spec
CONSTANTS
  None = None
  short = short
  long = long
  Items = {short, long}
  Parts <- MCParts
  StemOf <- MCStemOf
  DirOf <- MCSharedDir
  Versions = {open, draft}
  Unreleased = {draft}
  Pages <- MCPages
  PagesOf <- MCPagesOf
  Flat = {"json"}
  Tree = {"core-xml"}
  Paged = {"html"}
  Partition = TRUE
  Workers = {w1, w2}
  Records = {r1, r2}
  BatchSize = 2
  MaxReceive = 2
  Budget = 0
  Margin = 0
SYMMETRY Symmetry
PROPERTIES OthersUntouched
CHECK_DEADLOCK FALSE
