\* One source of two items, two artifacts of up to three revisions, one key,
\* two concurrent puts of one projection key.
SPECIFICATION MCSpec
CONSTANTS
  Projects = {p1}
  Tasks = {t1, t2}
  NoTask = NoTask
  Keys = {k1}
  NoKey = NoKey
  NoRecord = NoRecord
  MaxSeq = 5
  Artifacts = {a1, a2}
  Kinds = {d}
  Bodies = {b1, b2}
  NoOwner = NoOwner
  NoOrigin = NoOrigin
  MaxRevision = 3
  Sources = {s1}
  Names = {n1}
  Externals = {x1, x2}
  ExternalRevisions = {v1, v2}
  Cursors = {u1}
  NoCursor = NoCursor
  Healths = {"degraded"}
  NoSource = NoSource
  NoItem = NoItem
  Workers = {w1, w2}
  Idle = Idle
  ProjectionKeys = {q1}
  Texts = {x, y}
SYMMETRY MCSymmetry
INVARIANTS
  OneLiveIdentity
  OnlyForgetsBreakItems
  AnswerNamesRevision
  IndexFollowsProjections
PROPERTY
  PutsHitCurrent
CHECK_DEADLOCK FALSE
