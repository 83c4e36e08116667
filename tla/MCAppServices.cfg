CONSTANTS
  Ids <- MCIds
  None = None
  MaxDeps = 3
  MaxAliases = 0
  Throws = TRUE
SPECIFICATION SiteSpec
INVARIANTS SiteIsMade
