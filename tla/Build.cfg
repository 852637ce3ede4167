SPECIFICATION Spec
CONSTANTS
  None = None
  Items = {item1, item2}
  Versions = {open, draft, draft2}
  Unreleased = {draft, draft2}
  Transcribed = {open, draft}
  Configs <- MCConfigs
  MaxBuilds = 2
SYMMETRY Symmetry
INVARIANTS TypeOK BuildInv BuildIsExact BuildIsComplete BuildIsOwn PartitionSound
CHECK_DEADLOCK FALSE
