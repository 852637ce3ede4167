SPECIFICATION FairSpec
CONSTANTS
  None = None
  v1 = v1
  p2 = p2
  x1 = x1
  Workers = {w1}
  Records = {r1, r2}
  Versions = {v1, v2}
  Direct = {json, core}
  Pages = {p2, x1}
  Families = {"html", "page-xml"}
  FamilyOf <- MCFamilyOf
  PagesOf <- MCPagesOf
  Skipped = {}
  Unreleased = {v2}
  Partition = TRUE
  MaxReceive = 2
INVARIANTS TypeOK SettledIsImage HandlerInv
PROPERTIES AcknowledgedIsPublished AcknowledgedIsRemoved MakeBeforeBreak ImplementsCatalogue EventuallyHandled
CHECK_DEADLOCK FALSE
