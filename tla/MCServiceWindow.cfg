SPECIFICATION ServiceSpec
CONSTANTS
  c1 = c1
  c2 = c2
  t1 = t1
  t2 = t2
  a = a
  b = b
  r1 = r1
  r2 = r2
  r3 = r3
  Claims = {c1, c2}
  Projects = {p1}
  Tasks = {t1}
  NoTask = NoTask
  Keys = {}
  NoKey = NoKey
  NoRecord = NoRecord
  NoContext = NoContext
  MaxSeq = 2
  MaxRevision = 2
  Text <- MCText
  Alike <- MCAlike
  SourceOf <- MCSource
  SlateMultiplier = 2
  MaxRecallClaims = 2
  MaxPerSource = 1
  MaxPage = 2
  Texts <- MCTexts
  Terms = {t, u}
  MaxMatches = 2
  MaxExcerpts = {2, 4, 5}
  FetchLimits = {4, 5}
  ClaimEvidence <- MCClaimEvidence
  RawSources <- MCRawSources
  MaxClaims = 2
  MaxRaw = 3
  LeadLimits = {3}
  MaxSources = 2
  MaxLeadBytes = 3
  MaxPacketBytes = 3
  MaxSpanBytes = 2
  Binary = {r3}
  Excerpted <- MCExcerpted
  Budgets = {3, 9, 12, 16, 20, 25}
  FixedHeader = 4
  Heading = 2
  ConflictLine = 2
  HitHeader = 3
  Marker = 2
  Unavailable <- MCUnavailable
  MaxHits = 2
  MaxConflicts = 2
INVARIANTS
  WindowAlwaysFound
CHECK_DEADLOCK FALSE
