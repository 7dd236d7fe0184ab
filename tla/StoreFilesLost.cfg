\* An object of the CAS is lost while a recovery snapshot is made.
SPECIFICATION Spec
CONSTANTS
  Processes = {p1, p2}
  Tasks = {t1, t2}
  Blobs = {b1}
  Destinations = {d1}
  Nobody = Nobody
  Nothing = Nothing
  Foreign = Foreign
INVARIANT SnapshotRetainsAll
