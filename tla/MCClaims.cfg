\* One caller to seven commits, three callers with a key to four.
SPECIFICATION MCSpec
CONSTANTS
  Claims = {c1, c2, c3}
  Projects = {p1}
  Tasks = {t1, t2}
  NoTask = NoTask
  Keys = {k1}
  NoKey = NoKey
  NoRecord = NoRecord
  NoContext = NoContext
  MaxSeq = 7
  SharedMaxSeq = 4
  MaxRevision = 3
SYMMETRY MCSymmetry
INVARIANTS
  VerifyAccepts
  RevisionNeverBlocked
  AnswersStayReachable
  MigrationReconstructs
PROPERTIES
  ImplementsDisputes
CHECK_DEADLOCK FALSE
