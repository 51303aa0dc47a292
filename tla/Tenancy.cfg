SPECIFICATION TenancySpec
CONSTANTS
  Profile = {p1, p2}
  Handler = {h1, h2}
  MaxSerial = 4
  MaxShared = 3
  User = {u1, u2}
  Invitation = {i1}
  Slot = {h1, h2}
  Role = {"editor"}
  MaxAsked = 4
  Importer = {h1, h2}
  Page = {p1, p2}
  MaxUrls = 2
  u1 = u1
  u2 = u2
  u3 = u3
  u4 = u4
  Url = {u1, u2, u3, u4}
  Sites <- SmallSites
  Seeds <- SmallSeeds
  Depths = {3}
  Portions = {1, 2}
  MaxChanges = 1
  Place = {d1, d2}
  FileName = {f1, f2}
  PageSizes = {1, 2}
  Caps = {2}
  MaxEntries = 2
  MaxMoves = 2
  Operator = {h1, h2}
  MaxScripts = 3
  MaxBeside = 2
  MaxRows = 2
  MaxFaults = 1
SYMMETRY Ids
INVARIANTS
  OneApplies LogIsTrue
  ErasureIsComplete 
   CrawlReaches GatheredWhole
  
PROPERTIES
  RollbackRestores
CHECK_DEADLOCK FALSE
