SPECIFICATION CorpusSpec
CONSTANTS
  Last = 2
  Runner = {r1, r2}
  MaxRuns = 3
  MaxEvents = 2
  Document = {d1, d2}
  Name = {x, y}
  Builder = {r1, r2}
  Saver = {s1}
  Setting = {k1}
  MaxMade = 3
  MaxVersions = 2
  MaxBuilds = 2
  MaxSaves = 1
  Exporter = {r1, r2}
  Planned = 2
  MaxTries = 2
SYMMETRY Ids
INVARIANTS
  UnchangedIsCurrent 
  GraphIsCurrent 
PROPERTIES
  RunBringsCurrent 
CHECK_DEADLOCK FALSE
