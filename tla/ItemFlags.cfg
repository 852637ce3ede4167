SPECIFICATION Spec
CONSTANTS
  None = None
  v1 = v1
  p2 = p2
  x1 = x1
  Workers = {w1, w2}
  Records = {r1, r2}
  Versions = {v1, v2}
  Direct = {json, core}
  Pages = {p2}
  Families = {"html"}
  FamilyOf <- MCFamilyOf
  PagesOf <- MCPagesOf
  Skipped = {core}
  Unreleased = {v2}
  Partition = FALSE
  MaxReceive = 2
PROPERTIES DeletesOnlySuperseded
CHECK_DEADLOCK FALSE
