SPECIFICATION Spec
CONSTANTS
  None = None
  v1 = v1
  p2 = p2
  x1 = x1
  Workers = {w1}
  Records = {r1, r2, r3}
  Versions = {v1, v2}
  Direct = {json}
  Pages = {p1}
  Families = {"html"}
  FamilyOf <- MCFamilyOf
  PagesOf <- MCPagesOf
  Skipped = {}
  Unreleased = {v2}
  Partition = TRUE
  MaxReceive = 1
INVARIANTS SettledFollowsSource
CHECK_DEADLOCK FALSE
