SPECIFICATION SearchSpec
CONSTANTS
  Document = {d1, d2}
  Versions = 2
  Profiles = 2
  Score = {0, 1}
  Acl <- Acls
  Search <- Searches
  MaxEvents = 1
  Baseline = {b1, b2}
  Promoter = {p1, p2}
  Lister = {l1}
  Cleaner = {c1}
  MaxEvaluations = 2
  MaxPromotions = 2
  MaxCleanings = 1
SYMMETRY Alike
INVARIANTS
   NoStaleChunk PageIsFull
  
CHECK_DEADLOCK FALSE
