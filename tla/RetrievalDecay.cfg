SPECIFICATION RetrievalSpec
CONSTANTS
  Document = {d1, d2}
  Versions = 2
  Profiles = 1
  Score = {0, 1}
  Acl <- Acls
  Search <- Searches
  MaxEvents = 1
SYMMETRY Documents
INVARIANT FresherFirst
CHECK_DEADLOCK FALSE
