\* Two daemon processes, two data directories, one command, one upgrade of
\* the program, one crash.
SPECIFICATION Spec
CONSTANTS
  MaxProcesses = 2
  Dirs = {d1, d2}
  MainDir = d1
  MaxVersion = 2
  Upgrader = Upgrader
  Nobody = Nobody
  Commands = {c1}
  NoState = NoState
  MaxInterruptions = 1
INVARIANTS
  ListenerReachable
  StoreNotMigratedUnderneath
PROPERTY RunningAfter
