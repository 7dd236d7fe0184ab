\* The items as verify reads them, against an agent that forgets.
SPECIFICATION MCSpec
CONSTANTS
  Projects = {p1}
  Tasks = {t1, t2}
  NoTask = NoTask
  Keys = {k1}
  NoKey = NoKey
  NoRecord = NoRecord
  MaxSeq = 3
  Artifacts = {a1, a2}
  Kinds = {d}
  Bodies = {b1, b2}
  NoOwner = NoOwner
  NoOrigin = NoOrigin
  MaxRevision = 3
  Sources = {s1}
  Names = {n1}
  Externals = {x1, x2}
  ExternalRevisions = {v1, v2}
  Cursors = {u1}
  NoCursor = NoCursor
  Healths = {"degraded"}
  NoSource = NoSource
  NoItem = NoItem
  Workers = {w1, w2}
  Idle = Idle
  ProjectionKeys = {q1}
  Texts = {x, y}
SYMMETRY MCSymmetry
INVARIANT VerifyAcceptsItems
CHECK_DEADLOCK FALSE
