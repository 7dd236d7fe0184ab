\* Answers of two hits, and a slate of three, over five revisions; two commands
\* beside a daemon of two revisions; a breaker of short runs.
SPECIFICATION RetrievalSpec
CONSTANTS
  Revisions = {1, 2, 3, 4, 5}
  ArtifactOf <- MCArtifactOf
  Worlds <- MCWorlds
  QueryUnits = 3
  Limit = 2
  SlateLimit = 3
  Commands = {c1, c2}
  Bytes = {x}
  Absent = Absent
  MaxCommits = 2
  MaxStarts = 4
  TripThreshold = 3
  ProbeAfterSkips = 3
  CloseAfterProbes = 2
  Bodies <- MCBodies
  TargetBytes = 4
  ChunkMax = 9
  MinTail = 2
  WindowMax = 6
  WindowPreferred = 4
  WindowOverlap = 2
INVARIANTS
  ExactTierModelIndependent
  ConflictsRetained
  QualifiedCitesWords
  ChunksPartition
  WindowsCover
PROPERTIES
  OrderKeepsTiers
  RebuildMends
  ClosesAfterProbes
  BreakerRecovers
CHECK_DEADLOCK FALSE
