\* Two processes that open one store, two connection tasks of the daemon, one
\* external object and one backup destination.
SPECIFICATION Spec
CONSTANTS
  Processes = {p1, p2}
  Tasks = {t1, t2}
  Blobs = {b1}
  Destinations = {d1}
  Nobody = Nobody
  Nothing = Nothing
  Foreign = Foreign
INVARIANTS
  RecoverySnapshot
  OpenIsComplete
PROPERTIES
  BackupIsCurrent
