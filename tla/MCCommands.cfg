\* Two commands of each kind, one change of accounts or catalogs, one failed probe;
\* two processes, a study of two pairs in a store of one or two rows.
SPECIFICATION CommandsSpec
CONSTANTS
  luna = luna
  best = best
  CompilerCommands = {k1, k2}
  Codex = codex
  Claude = claude
  ModelNames = {luna, best}
  Recommended <- MCRecommended
  Floating = {best}
  Unselected = Unselected
  MaxAccountChanges = 1
  MaxProbeFailures = 1
  plain = plain
  secret = secret
  s = s
  t = t
  x = x
  y = y
  w = w
  RememberCommands = {k1, k2}
  Notes = {plain, secret}
  Flagged = {secret}
  Compilations <- MCCompilations
  CompilerIds = {v1, v2}
  ExplicitKey = key
  Unstaged = Unstaged
  MaxAttempts = 2
  MaxPuts = 2
  Processes = {k1, k2}
  Studies = {e1}
  Pairs = {p1, p2}
  Caps = {1, 2}
  Retention = 0
  TrimBatch = 1
  Generations = {v1, v2}
  NoFile = NoFile
  MaxMinute = 1
  MaxCommands = 4
  Idle = Idle
SYMMETRY MCSymmetry
INVARIANTS
  OneClaimPerPassage
  ReportedIsStored
  FlaggedNeedsConsent
  GrowthStops
PROPERTIES
  CatalogFailureKeepsChoice
  StudiesKept
CHECK_DEADLOCK FALSE
