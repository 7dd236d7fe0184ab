--------------------------- MODULE UpgradeProofs ----------------------------
(***************************************************************************)
(* Proofs about Upgrade for any number of daemon processes, data           *)
(* directories, commands, versions and interruptions.                      *)
(*                                                                         *)
(* DaemonInv speaks of the processes alone: whoever is between taking and  *)
(* dropping a lock holds it, so that at most one process touches the       *)
(* socket path and at most one has a store open.  LockInv adds the upgrade *)
(* as a holder of the data lock, MemoryInv what its state file must say.   *)
(***************************************************************************)
EXTENDS Upgrade, TLAPS

Launches == [dir : Dirs, version : Versions, owner : {"memoree", "external"}]

DaemonTypes ==
  /\ stage \in [Processes -> Stages]
  /\ launch \in [Processes -> Launches]
  /\ signalled \subseteq Processes
  /\ dataLock \in [Dirs -> Processes \cup {Upgrader, Nobody}]
  /\ endpointLock \in Processes \cup {Nobody}
  /\ socket \in Processes \cup {Nobody}
  /\ schema \in [Dirs -> 0 .. MaxVersion]

\* Locks are held by the processes that are between taking and dropping them.
Holders ==
  /\ \A p \in Processes, d \in Dirs : dataLock[d] = p <=> HasStore(p) /\ Dir(p) = d
  /\ \A p \in Processes : endpointLock = p <=> OwnsEndpoint(p)

\* Only the default endpoint's own store is served by a managed daemon.
ManagedDir == \A p \in Processes : launch[p].owner = "memoree" => Dir(p) = MainDir

DaemonInv ==
  DaemonTypes /\ Holders /\ ManagedDir /\ ListenerReachable /\ StoreNotMigratedUnderneath

Pcs == {"idle", "probing", "stopping", "waiting", "locking", "reconciling",
        "unlocking", "restarting", "awaiting", "finishing"}

Upgrades == [pc : Pcs, version : 0 .. MaxVersion, prior : BOOLEAN, observed : BOOLEAN,
             stopped : BOOLEAN, child : Processes \cup {Nobody}]

\* The upgrade holds the data lock of its own directory in two of its stages.
LockInv ==
  /\ upgrade \in Upgrades
  /\ \A d \in Dirs :
       dataLock[d] = Upgrader <=> d = MainDir /\ upgrade.pc \in {"reconciling", "unlocking"}

\* No daemon answered when the upgrade came this far.
PastStop == {"locking", "reconciling", "unlocking", "restarting", "awaiting", "finishing"}

ServesMain == \E p \in Processes : stage[p] = "serving" /\ Dir(p) = MainDir

Current == IF UpgradeLocked THEN upgrade.version ELSE binary

Written(version, prior) ==
  upgradeState = [target |-> version, prior |-> prior, complete |-> FALSE]

Remembers(version) ==
  upgradeState.target = version /\ ~upgradeState.complete /\ upgradeState.prior

MemoryInv ==
  /\ binary \in Versions
  /\ owed \in 0 .. MaxVersion
  /\ owed <= Current /\ Current <= binary /\ Current \in Versions
  /\ owed = Current => Remembers(owed) /\ upgradeState # NoState
  /\ upgrade.pc \notin {"idle", "probing"} => Written(upgrade.version, upgrade.prior)
  /\ upgrade.pc \in {"stopping", "waiting"} => upgrade.prior
  /\ upgrade.pc \in PastStop =>
       (ServesMain => owed = 0) /\ (upgrade.observed => upgrade.stopped)
  /\ upgrade.pc = "finishing" => ~upgrade.prior

-----------------------------------------------------------------------------
(* The processes.                                                          *)

\* The first facts about constants that every lemma needs.
LEMMA Distinct ==
  /\ Nobody \notin Processes /\ Upgrader \notin Processes /\ Nobody # Upgrader
  /\ MainDir \in Dirs
  /\ MaxVersion \in Nat /\ 1 \in Versions
BY DaemonsAssumption DEF Processes, Versions

LEMMA DaemonInitially == DaemonsInit => DaemonInv
<1> SUFFICES ASSUME DaemonsInit PROVE DaemonInv
  OBVIOUS
<1> USE Distinct DEF DaemonsInit, NoLaunch
<1>1. DaemonTypes
  BY DEF DaemonTypes, Stages, Launches, Versions
<1>2. Holders /\ ManagedDir
  BY DEF Holders, ManagedDir, HasStore, OwnsEndpoint, Dir
<1>3. ListenerReachable /\ StoreNotMigratedUnderneath
  BY DEF ListenerReachable, StoreNotMigratedUnderneath, HasStore
<1> QED
  BY <1>1, <1>2, <1>3 DEF DaemonInv

\* Spawning touches no lock: a process that is new has neither.
LEMMA SpawnKeeps ==
  ASSUME DaemonInv, NEW p \in Processes, NEW dir \in Dirs, NEW version \in Versions,
         NEW who \in {"memoree", "external"}, who = "memoree" => dir = MainDir,
         Spawn(p, dir, version, who)
  PROVE  DaemonInv'
<1> USE DEF DaemonInv, Spawn, Reach, Fresh
<1>1. DaemonTypes'
  BY DEF DaemonTypes, Stages, Starting, Launches
<1>2. Holders'
  BY DEF DaemonTypes, Holders, HasStore, OwnsEndpoint, Dir
<1>3. ManagedDir'
  BY DEF DaemonTypes, ManagedDir, Dir, Launches
<1>4. ListenerReachable' /\ StoreNotMigratedUnderneath'
  BY DEF DaemonTypes, ListenerReachable, StoreNotMigratedUnderneath, HasStore, Dir
<1> QED
  BY <1>1, <1>2, <1>3, <1>4

\* The end of a process frees its locks and no others.
LEMMA ExitKeeps ==
  ASSUME DaemonInv, NEW p \in Processes, Exit(p)
  PROVE  DaemonInv'
<1> USE Distinct DEF DaemonInv, Exit, Reach
<1>1. DaemonTypes'
  BY DEF DaemonTypes, Stages, Launches, NoLaunch
<1>2. Holders'
  BY DEF DaemonTypes, Holders, HasStore, OwnsEndpoint, Dir
<1>3. ManagedDir'
  BY DEF DaemonTypes, ManagedDir, Dir, NoLaunch
<1>4. ListenerReachable' /\ StoreNotMigratedUnderneath'
  BY DEF DaemonTypes, ListenerReachable, StoreNotMigratedUnderneath, HasStore, Dir
<1> QED
  BY <1>1, <1>2, <1>3, <1>4

LEMMA SignalKeeps ==
  ASSUME DaemonInv, NEW p \in Processes, Signal(p)
  PROVE  DaemonInv'
BY DEF DaemonInv, Signal, DaemonTypes, Holders, ManagedDir, ListenerReachable,
       StoreNotMigratedUnderneath, HasStore, OwnsEndpoint, Dir

\* Under the data lock no other process has the store of the directory open.
LEMMA OpenStoreKeeps ==
  ASSUME DaemonInv, NEW p \in Processes, OpenStore(p)
  PROVE  DaemonInv'
<1> CASE ~Exit(p)
  <2> USE Distinct DEF DaemonInv, OpenStore, Reach
  <2>1. DaemonTypes'
    BY DEF DaemonTypes, Stages, Starting, Launches, Dir, Versions
  <2>2. Holders'
    BY DEF DaemonTypes, Holders, HasStore, OwnsEndpoint, Dir, Launches
  <2>3. ManagedDir' /\ ListenerReachable'
    BY DEF DaemonTypes, ManagedDir, Dir, ListenerReachable
  <2>4. StoreNotMigratedUnderneath'
    BY DEF DaemonTypes, Holders, StoreNotMigratedUnderneath, HasStore, Dir, Launches
  <2> QED
    BY <2>1, <2>2, <2>3, <2>4
<1> QED
  BY ExitKeeps

LEMMA TakeEndpointLockKeeps ==
  ASSUME DaemonInv, NEW p \in Processes, TakeEndpointLock(p)
  PROVE  DaemonInv'
<1> CASE ~Exit(p)
  <2> USE Distinct DEF DaemonInv, TakeEndpointLock, Reach
  <2>1. DaemonTypes'
    BY DEF DaemonTypes, Stages, Starting
  <2>2. Holders'
    BY DEF DaemonTypes, Holders, HasStore, OwnsEndpoint, Dir
  <2>3. ManagedDir' /\ ListenerReachable' /\ StoreNotMigratedUnderneath'
    BY DEF DaemonTypes, ManagedDir, Dir, ListenerReachable, StoreNotMigratedUnderneath,
           HasStore
  <2> QED
    BY <2>1, <2>2, <2>3
<1> QED
  BY ExitKeeps

LEMMA ProbeEndpointKeeps ==
  ASSUME DaemonInv, NEW p \in Processes, ProbeEndpoint(p)
  PROVE  DaemonInv'
<1> CASE ~Exit(p)
  <2> USE Distinct DEF DaemonInv, ProbeEndpoint, Reach
  <2>1. DaemonTypes'
    BY DEF DaemonTypes, Stages, Starting
  <2>2. Holders'
    BY DEF DaemonTypes, Holders, HasStore, OwnsEndpoint, Dir
  <2>3. ManagedDir' /\ ListenerReachable' /\ StoreNotMigratedUnderneath'
    BY DEF DaemonTypes, ManagedDir, Dir, ListenerReachable, StoreNotMigratedUnderneath,
           HasStore
  <2> QED
    BY <2>1, <2>2, <2>3
<1> QED
  BY ExitKeeps

\* The owner of the endpoint lock is the only process that may be serving.
LEMMA OwnerAlone ==
  ASSUME DaemonInv, NEW p \in Processes, OwnsEndpoint(p),
         NEW q \in Processes, stage[q] = "serving"
  PROVE  q = p
BY DEF DaemonInv, Holders, OwnsEndpoint

\* A stale socket is removed, or a socket of one's own bound or removed,
\* under the endpoint lock.
LEMMA SocketStepKeeps ==
  ASSUME DaemonInv, NEW p \in Processes,
         RemoveStaleSocket(p) \/ (Bind(p) /\ ~Exit(p)) \/ RemoveSocket(p)
  PROVE  DaemonInv'
<1> USE Distinct DEF DaemonInv, RemoveStaleSocket, Bind, RemoveSocket, Reach
<1>1. DaemonTypes'
  BY DEF DaemonTypes, Stages, Starting, Stopping
<1>2. Holders'
  BY DEF DaemonTypes, Holders, HasStore, OwnsEndpoint, Dir
<1>3. ListenerReachable'
  BY OwnerAlone DEF DaemonTypes, OwnsEndpoint, ListenerReachable
<1>4. ManagedDir' /\ StoreNotMigratedUnderneath'
  BY DEF DaemonTypes, ManagedDir, Dir, StoreNotMigratedUnderneath, HasStore
<1> QED
  BY <1>1, <1>2, <1>3, <1>4

LEMMA BindKeeps ==
  ASSUME DaemonInv, NEW p \in Processes, Bind(p)
  PROVE  DaemonInv'
BY SocketStepKeeps, ExitKeeps

LEMMA DropEndpointLockKeeps ==
  ASSUME DaemonInv, NEW p \in Processes, DropEndpointLock(p)
  PROVE  DaemonInv'
<1> USE Distinct DEF DaemonInv, DropEndpointLock, Reach
<1>1. DaemonTypes'
  BY DEF DaemonTypes, Stages, Stopping
<1>2. Holders'
  BY DEF DaemonTypes, Holders, HasStore, OwnsEndpoint, Dir
<1>3. ManagedDir' /\ ListenerReachable' /\ StoreNotMigratedUnderneath'
  BY DEF DaemonTypes, ManagedDir, Dir, ListenerReachable, StoreNotMigratedUnderneath,
         HasStore
<1> QED
  BY <1>1, <1>2, <1>3

LEMMA DropDataLockKeeps ==
  ASSUME DaemonInv, NEW p \in Processes, DropDataLock(p)
  PROVE  DaemonInv'
<1> USE Distinct DEF DaemonInv, DropDataLock, Reach
<1>1. DaemonTypes'
  BY DEF DaemonTypes, Stages, Stopping
<1>2. Holders'
  BY DEF DaemonTypes, Holders, HasStore, OwnsEndpoint, Dir
<1>3. ManagedDir' /\ ListenerReachable' /\ StoreNotMigratedUnderneath'
  BY DEF DaemonTypes, ManagedDir, Dir, ListenerReachable, StoreNotMigratedUnderneath,
         HasStore
<1> QED
  BY <1>1, <1>2, <1>3

LEMMA ServeStepKeeps ==
  ASSUME DaemonInv, NEW p \in Processes, ServeStep(p)
  PROVE  DaemonInv'
<1>1. CASE OpenStore(p) \/ TakeEndpointLock(p) \/ ProbeEndpoint(p)
  BY <1>1, OpenStoreKeeps, TakeEndpointLockKeeps, ProbeEndpointKeeps
<1>2. CASE RemoveStaleSocket(p) \/ Bind(p) \/ RemoveSocket(p)
  BY <1>2, SocketStepKeeps, BindKeeps
<1>3. CASE DropEndpointLock(p) \/ DropDataLock(p) \/ Leave(p)
  BY <1>3, DropEndpointLockKeeps, DropDataLockKeeps, ExitKeeps DEF Leave
<1> QED
  BY <1>1, <1>2, <1>3 DEF ServeStep

-----------------------------------------------------------------------------
(* Facts about the steps of processes that the upgrade relies on.          *)

\* The data locks the upgrade holds are none of a process' business.
LEMMA ServeLeavesUpgrader ==
  ASSUME DaemonInv, NEW p \in Processes, ServeStep(p) \/ Exit(p), NEW d \in Dirs
  PROVE  dataLock'[d] = Upgrader <=> dataLock[d] = Upgrader
<1> USE Distinct DEF DaemonInv, DaemonTypes, Holders
<1>1. CASE Exit(p)
  BY <1>1 DEF Exit
<1>2. CASE OpenStore(p) /\ ~Exit(p)
  BY <1>2 DEF OpenStore
<1>3. CASE DropDataLock(p)
  BY <1>3 DEF DropDataLock, HasStore
<1>4. CASE /\ \/ TakeEndpointLock(p) \/ ProbeEndpoint(p) \/ RemoveStaleSocket(p)
              \/ Bind(p) \/ RemoveSocket(p) \/ DropEndpointLock(p)
           /\ ~Exit(p)
  BY <1>4 DEF TakeEndpointLock, ProbeEndpoint, RemoveStaleSocket, Bind, RemoveSocket,
              DropEndpointLock
<1> QED
  BY <1>1, <1>2, <1>3, <1>4 DEF ServeStep, Leave

\* Only the stage of the process itself changes.
LEMMA ServeMoves ==
  ASSUME DaemonInv, NEW p \in Processes, ServeStep(p) \/ Exit(p)
  PROVE  /\ \A q \in Processes \ {p} : stage'[q] = stage[q] /\ Dir(q)' = Dir(q)
         /\ Exit(p) \/ launch' = launch
         /\ Exit(p) => stage'[p] = "dead"
<1> USE DEF DaemonInv, DaemonTypes, Reach, Dir
<1>1. CASE Exit(p)
  BY <1>1 DEF Exit
<1>2. CASE /\ OpenStore(p) \/ TakeEndpointLock(p) \/ ProbeEndpoint(p)
           /\ ~Exit(p)
  BY <1>2 DEF OpenStore, TakeEndpointLock, ProbeEndpoint
<1>3. CASE /\ RemoveStaleSocket(p) \/ Bind(p) \/ RemoveSocket(p)
           /\ ~Exit(p)
  BY <1>3 DEF RemoveStaleSocket, Bind, RemoveSocket
<1>4. CASE DropEndpointLock(p) \/ DropDataLock(p)
  BY <1>4 DEF DropEndpointLock, DropDataLock, Exit
<1> QED
  BY <1>1, <1>2, <1>3, <1>4 DEF ServeStep, Leave

\* Spawning, the end of a process and signals make no daemon serve.
LEMMA NoNewService ==
  ASSUME DaemonInv, NEW p \in Processes,
         Exit(p) \/ Signal(p)
           \/ \E dir \in Dirs, version \in Versions, who \in {"memoree", "external"} :
                Spawn(p, dir, version, who)
  PROVE  ServesMain' => ServesMain
BY DEF DaemonInv, DaemonTypes, ServesMain, Dir, Exit, Signal, Spawn, Reach

\* Nobody answers: no daemon serves.
LEMMA NoAnswer ==
  ASSUME DaemonInv, Responder = Nobody
  PROVE  ~ServesMain
BY Distinct DEF DaemonInv, DaemonTypes, ListenerReachable, Responder, ServesMain

LEMMA ResponderServes ==
  ASSUME DaemonInv, Responder # Nobody
  PROVE  Responder \in Processes /\ stage[Responder] = "serving"
BY DEF DaemonInv, DaemonTypes, Responder

-----------------------------------------------------------------------------
(* The upgrade.                                                            *)

IInv == DaemonInv /\ LockInv /\ MemoryInv

LEMMA Initially == Init => IInv
<1> SUFFICES ASSUME Init PROVE IInv
  OBVIOUS
<1> USE Distinct DEF Init, NotRunning
<1>1. DaemonInv
  BY DaemonInitially
<1>2. LockInv
  BY DEF LockInv, Upgrades, Pcs, DaemonsInit
<1>3. MemoryInv
  BY DEF MemoryInv, Current, UpgradeLocked, Versions, PastStop
<1> QED
  BY <1>1, <1>2, <1>3 DEF IInv

\* Steps of a process: what an upgrade owes is settled by a daemon that serves.
LEMMA DaemonStepsKeep ==
  ASSUME IInv, NEW p \in Processes, DaemonSteps(p) \/ DaemonCrashes(p)
  PROVE  IInv'
<1>1. ServeStep(p) \/ Exit(p)
  BY DEF DaemonSteps, DaemonCrashes, Crash
<1>2. DaemonInv'
  BY <1>1, ServeStepKeeps, ExitKeeps DEF IInv
<1>3. UNCHANGED <<binary, upgrade, upgradeState>>
  BY DEF DaemonSteps, DaemonCrashes, OtherVars
<1>4. LockInv'
  BY <1>1, <1>3, ServeLeavesUpgrader DEF IInv, LockInv
<1>5. owed' \in {0, owed} /\ (ServesMain' /\ ~ServesMain => owed' = 0)
  <2>1. CASE DaemonSteps(p)
    BY <1>1, <2>1, ServeMoves DEF IInv, DaemonSteps, ServesMain, Dir
  <2>2. CASE DaemonCrashes(p)
    BY <2>2, NoNewService DEF IInv, DaemonCrashes, Crash
  <2> QED
    BY <2>1, <2>2
<1>6. MemoryInv'
  BY <1>3, <1>5, Distinct
     DEF IInv, MemoryInv, Current, UpgradeLocked, Remembers, Written, Versions
<1> QED
  BY <1>2, <1>4, <1>6 DEF IInv

\* What the rest of the machine does leaves the upgrade and its file alone.
LEMMA OthersKeep ==
  ASSUME IInv,
         UNCHANGED <<binary, upgrade, upgradeState, owed, dataLock>>,
         DaemonInv', ServesMain' => ServesMain
  PROVE  IInv'
BY DEF IInv, LockInv, MemoryInv, Current, UpgradeLocked, Remembers, Written

LEMMA CommandsKeep ==
  ASSUME IInv, NEW c \in Commands,
         \/ CommandChecks(c) \/ CommandStarts(c) \/ RestartChecks(c)
         \/ RestartSignals(c) \/ RestartSeesStopped(c) \/ RestartFails(c)
  PROVE  IInv'
<1> USE DEF CommandOnly, daemonVars
<1>1. CASE CommandStarts(c)
  <2>1. PICK p \in Processes, version \in Versions :
          Spawn(p, MainDir, version, "memoree")
    BY <1>1 DEF CommandStarts, IInv, MemoryInv
  <2> QED
    BY <1>1, <2>1, SpawnKeeps, NoNewService, OthersKeep, Distinct
       DEF CommandStarts, Spawn, IInv
<1>2. CASE RestartSignals(c)
  <2>1. PICK p \in Processes : Signal(p)
    BY <1>2, ResponderServes DEF RestartSignals, IInv
  <2> QED
    BY <1>2, <2>1, SignalKeeps, NoNewService, OthersKeep
       DEF RestartSignals, Signal, IInv
<1>3. CASE CommandChecks(c) \/ RestartChecks(c) \/ RestartSeesStopped(c) \/ RestartFails(c)
  <2>1. UNCHANGED <<daemonVars, CommandOnly>>
    BY <1>3 DEF CommandChecks, RestartChecks, RestartSeesStopped, RestartFails
  <2>2. DaemonInv' /\ (ServesMain' => ServesMain)
    BY <2>1 DEF IInv, DaemonInv, DaemonTypes, Holders, ManagedDir, ListenerReachable,
                StoreNotMigratedUnderneath, HasStore, OwnsEndpoint, Dir, ServesMain
  <2> QED
    BY <2>1, <2>2, OthersKeep
<1> QED
  BY <1>1, <1>2, <1>3

LEMMA SupervisorsKeep ==
  ASSUME IInv, NEW p \in Processes, NEW dir \in Dirs,
         SupervisorStarts(p, dir) \/ SupervisorStops(p)
  PROVE  IInv'
<1> USE DEF upgradeVars
<1>1. CASE SupervisorStarts(p, dir)
  <2>1. PICK version \in Versions : Spawn(p, dir, version, "external")
    BY <1>1 DEF SupervisorStarts, IInv, MemoryInv
  <2> QED
    BY <1>1, <2>1, SpawnKeeps, NoNewService, OthersKeep
       DEF SupervisorStarts, Spawn, IInv
<1>2. CASE SupervisorStops(p)
  BY <1>2, SignalKeeps, NoNewService, OthersKeep DEF SupervisorStops, Signal, IInv
<1> QED
  BY <1>1, <1>2

LEMMA DaemonsAlone ==
  ASSUME DaemonInv, UNCHANGED daemonVars
  PROVE  DaemonInv' /\ (ServesMain' <=> ServesMain)
BY DEF daemonVars, DaemonInv, DaemonTypes, Holders, ManagedDir, ListenerReachable,
       StoreNotMigratedUnderneath, HasStore, OwnsEndpoint, Dir, ServesMain

\* What an upgrade owes is not owed by the program that replaces it.
LEMMA ReplaceBinaryKeeps ==
  ASSUME IInv, ReplaceBinary
  PROVE  IInv'
<1> USE Distinct DEF ReplaceBinary
<1>1. DaemonInv' /\ (ServesMain' <=> ServesMain)
  BY DaemonsAlone DEF IInv
<1>2. LockInv'
  BY DEF IInv, LockInv, daemonVars
<1>3. MemoryInv'
  BY <1>1 DEF IInv, LockInv, Upgrades, MemoryInv, Current, UpgradeLocked, Remembers, Written,
              Versions
<1> QED
  BY <1>1, <1>2, <1>3 DEF IInv

\* A step of the upgrade that takes and drops no data lock.
LEMMA LockKept ==
  ASSUME LockInv, upgrade' \in Upgrades, dataLock' = dataLock,
         upgrade.pc \notin {"reconciling", "unlocking"},
         upgrade'.pc \notin {"reconciling", "unlocking"}
  PROVE  LockInv'
BY DEF LockInv

LEMMA NotRunningUpgrade == NotRunning \in Upgrades /\ NotRunning.pc = "idle"
BY Distinct DEF NotRunning, Upgrades, Pcs

\* A run that ends before it is complete leaves its record behind.
LEMMA RunEnds ==
  ASSUME IInv, UpgradeLocked, upgrade' = NotRunning,
         UNCHANGED <<binary, owed, upgradeState>>
  PROVE  MemoryInv'
BY Distinct, NotRunningUpgrade
   DEF IInv, LockInv, Upgrades, MemoryInv, Current, UpgradeLocked, Remembers, Written,
       PastStop, Versions

\* What a run past its first write has to keep.
LEMMA RunGoesOn ==
  ASSUME IInv, upgrade.pc \notin {"idle", "probing"}, upgrade'.pc \notin {"idle", "probing"},
         upgrade'.version = upgrade.version, upgrade'.prior = upgrade.prior,
         UNCHANGED <<binary, owed, upgradeState>>,
         upgrade'.pc \in {"stopping", "waiting"} => upgrade.prior,
         upgrade'.pc \in PastStop =>
           /\ ServesMain' => ServesMain
           /\ upgrade.pc \in PastStop \/ ~ServesMain
           /\ upgrade'.observed => upgrade'.stopped,
         upgrade'.pc = "finishing" => ~upgrade.prior
  PROVE  MemoryInv'
BY DEF IInv, MemoryInv, Current, UpgradeLocked, Remembers, Written

LEMMA UpgradeBeginKeeps ==
  ASSUME IInv, NEW legacy \in BOOLEAN, UpgradeBegin(legacy)
  PROVE  IInv'
<1> USE Distinct
<1>1. UNCHANGED <<daemonVars, binary, upgradeState, owed>> /\ ~UpgradeLocked
  BY DEF UpgradeBegin, OtherVars
<1>2. DaemonInv'
  BY <1>1, DaemonsAlone DEF IInv
<1>3. /\ upgrade' \in Upgrades /\ upgrade'.pc = "probing"
      /\ upgrade'.version = binary
  <2>1. upgrade' = [pc |-> "probing", version |-> binary, prior |-> legacy, observed |-> FALSE,
                    stopped |-> FALSE, child |-> Nobody]
    BY DEF UpgradeBegin, NotRunning
  <2>2. binary \in 0 .. MaxVersion
    BY DEF IInv, MemoryInv, Versions
  <2> QED
    BY <2>1, <2>2 DEF Upgrades, Pcs
<1>4. LockInv'
  BY <1>1, <1>3, LockKept DEF IInv, UpgradeLocked, daemonVars
<1>5. MemoryInv'
  BY <1>1, <1>3
     DEF IInv, MemoryInv, Current, UpgradeLocked, Remembers, Written, PastStop
<1> QED
  BY <1>2, <1>4, <1>5 DEF IInv

\* The first write keeps what an interrupted run of this version recorded.
LEMMA UpgradeProbeKeeps ==
  ASSUME IInv, UpgradeProbe
  PROVE  IInv'
<1> DEFINE prior == Responder # Nobody \/ upgrade.prior \/ Resumable
           deferred == Responder # Nobody /\ launch[Responder].owner = "external"
<1> USE Distinct
<1>1. /\ UNCHANGED <<daemonVars, binary, owed>> /\ upgrade.pc = "probing"
      /\ upgradeState' = [target |-> upgrade.version, prior |-> prior, complete |-> FALSE]
      /\ upgrade' = IF deferred THEN NotRunning
                    ELSE [upgrade EXCEPT !.pc = IF Responder = Nobody THEN "locking"
                                                                      ELSE "stopping",
                                         !.prior = prior, !.observed = Responder # Nobody]
  BY DEF UpgradeProbe, OtherVars
<1>2. DaemonInv' /\ (ServesMain' <=> ServesMain) /\ (Responder = Nobody => ~ServesMain)
  BY <1>1, DaemonsAlone, NoAnswer DEF IInv
<1>3. /\ prior \in BOOLEAN /\ (Responder # Nobody => prior)
      /\ owed = upgrade.version => prior
  BY <1>1 DEF IInv, LockInv, Upgrades, MemoryInv, Current, UpgradeLocked, Remembers,
              Resumable
<1>4. upgrade.version \in Versions /\ upgrade \in Upgrades
  BY <1>1 DEF IInv, LockInv, MemoryInv, Current, UpgradeLocked
<1> HIDE DEF prior, deferred
<1>5. upgradeState' # NoState
  <2>1. upgradeState' \in [target : Versions, prior : BOOLEAN, complete : BOOLEAN]
    BY <1>1, <1>3, <1>4
  <2> QED
    BY <2>1, UpgradeAssumption
<1>6. CASE deferred
  <2>1. LockInv'
    BY <1>1, <1>6, LockKept, NotRunningUpgrade DEF IInv, daemonVars
  <2>2. prior
    BY <1>3, <1>6 DEF deferred
  <2>3. owed <= upgrade.version /\ upgrade.version <= binary /\ owed \in Nat /\ binary \in Nat
    BY <1>1, <1>4 DEF IInv, MemoryInv, Current, UpgradeLocked, Versions
  <2>4. upgradeState'.target = upgrade.version /\ ~upgradeState'.complete /\ upgradeState'.prior
    BY <1>1, <2>2
  <2>5. owed' = owed /\ binary' = binary /\ upgrade'.pc = "idle" /\ Current' = binary
    BY <1>1, <1>6, NotRunningUpgrade DEF Current, UpgradeLocked
  <2>6. owed = binary => owed = upgrade.version
    BY <2>3, <1>4 DEF Versions
  <2>7. MemoryInv'
    BY <1>5, <2>3, <2>4, <2>5, <2>6 DEF IInv, MemoryInv, Remembers, PastStop
  <2> QED
    BY <1>2, <2>1, <2>7 DEF IInv
<1>7. CASE ~deferred
  <2>1. /\ upgrade' \in Upgrades
        /\ upgrade'.pc = IF Responder = Nobody THEN "locking" ELSE "stopping"
        /\ upgrade'.version = upgrade.version /\ upgrade'.prior = prior
        /\ upgrade'.observed <=> Responder # Nobody
    BY <1>1, <1>3, <1>4, <1>7 DEF Upgrades, Pcs
  <2>2. LockInv'
    BY <1>1, <2>1, LockKept DEF IInv, daemonVars
  <2>3. /\ upgrade'.pc \in {"locking", "stopping"}
        /\ upgrade'.pc = "locking" => ~ServesMain' /\ ~upgrade'.observed
        /\ upgrade'.pc = "stopping" => prior
    BY <1>2, <1>3, <2>1
  <2>4. /\ Written(upgrade.version, upgrade.prior)'
        /\ upgradeState'.target = upgrade.version /\ ~upgradeState'.complete
        /\ prior => upgradeState'.prior
    BY <1>1, <2>1 DEF Written
  <2>5. MemoryInv'
    BY <1>1, <1>3, <1>4, <1>5, <2>1, <2>3, <2>4
       DEF IInv, MemoryInv, Current, UpgradeLocked, Remembers, Written, PastStop
  <2> QED
    BY <1>2, <2>2, <2>5 DEF IInv
<1> QED
  BY <1>6, <1>7

LEMMA UpgradeSignalsKeep ==
  ASSUME IInv, UpgradeSignals
  PROVE  IInv'
<1>1. PICK p \in Processes : p = Responder /\ Signal(p)
  BY ResponderServes DEF UpgradeSignals, IInv
<1>2. DaemonInv' /\ dataLock' = dataLock
  BY <1>1, SignalKeeps DEF IInv, Signal
<1>3. /\ UNCHANGED <<binary, upgradeState>> /\ upgrade.pc = "stopping"
      /\ upgrade' = [upgrade EXCEPT !.pc = "waiting", !.child = p]
      /\ owed' \in {owed, upgrade.version}
  BY <1>1 DEF UpgradeSignals, OtherVars
<1>4. upgrade \in Upgrades
  BY DEF IInv, LockInv
<1>5. /\ upgrade' \in Upgrades /\ upgrade'.pc = "waiting"
      /\ upgrade'.version = upgrade.version /\ upgrade'.prior = upgrade.prior
  BY <1>3, <1>4 DEF Upgrades, Pcs
<1>6. LockInv'
  BY <1>2, <1>3, <1>5, LockKept DEF IInv
<1>7. /\ Written(upgrade.version, upgrade.prior) /\ upgrade.prior
      /\ upgrade.version \in Versions
  BY <1>3 DEF IInv, MemoryInv, Current, UpgradeLocked
<1>8. Remembers(upgrade.version) /\ upgradeState # NoState
  <2>1. upgradeState \in [target : Versions, prior : BOOLEAN, complete : BOOLEAN]
    BY <1>7 DEF Written
  <2> QED
    BY <1>7, <2>1, UpgradeAssumption DEF Written, Remembers
<1>9. /\ Current' = upgrade.version /\ Current = upgrade.version
      /\ binary' = binary /\ owed' \in 0 .. MaxVersion /\ owed' <= upgrade.version
  BY <1>3, <1>5, <1>7, Distinct DEF IInv, MemoryInv, Current, UpgradeLocked, Versions
<1>10. owed' = upgrade.version => Remembers(owed)'
  BY <1>3, <1>8 DEF Remembers
<1>11. Written(upgrade.version, upgrade.prior)' /\ upgradeState' # NoState
  BY <1>3, <1>5, <1>7, <1>8 DEF Written
<1>12. MemoryInv'
  BY <1>5, <1>7, <1>9, <1>10, <1>11 DEF IInv, MemoryInv, PastStop
<1> QED
  BY <1>2, <1>6, <1>12 DEF IInv

\* Steps that wait for the daemon to go, and those that give up.
LEMMA UpgradeWaitsKeep ==
  ASSUME IInv, UpgradeSeesStopped \/ UpgradeStopFails
  PROVE  IInv'
<1>1. UNCHANGED <<daemonVars, binary, upgradeState, owed>>
  BY DEF UpgradeSeesStopped, UpgradeStopFails, OtherVars
<1>2. DaemonInv' /\ (ServesMain' <=> ServesMain) /\ dataLock' = dataLock
  BY <1>1, DaemonsAlone DEF IInv, daemonVars
<1>3. upgrade \in Upgrades /\ upgrade.pc \in {"stopping", "waiting"}
  BY DEF IInv, LockInv, UpgradeSeesStopped, UpgradeStopFails
<1>4. CASE UpgradeSeesStopped
  <2>1. upgrade' = [upgrade EXCEPT !.pc = "locking", !.stopped = TRUE, !.child = Nobody]
    BY <1>4 DEF UpgradeSeesStopped
  <2>2. /\ upgrade' \in Upgrades /\ upgrade'.pc = "locking" /\ upgrade'.stopped
        /\ upgrade'.version = upgrade.version /\ upgrade'.prior = upgrade.prior
    BY <1>3, <2>1 DEF Upgrades, Pcs
  <2>3. ~ServesMain
    BY <1>4, NoAnswer DEF UpgradeSeesStopped, IInv
  <2>4. MemoryInv'
    BY <1>1, <1>2, <1>3, <2>2, <2>3, RunGoesOn
  <2> QED
    BY <1>2, <1>3, <2>2, <2>4, LockKept DEF IInv
<1>5. CASE UpgradeStopFails
  <2>1. upgrade' = NotRunning
    BY <1>5 DEF UpgradeStopFails
  <2> QED
    BY <1>1, <1>2, <1>3, <2>1, RunEnds, LockKept, NotRunningUpgrade
       DEF IInv, UpgradeLocked
<1> QED
  BY <1>4, <1>5

\* The upgrade takes or drops the data lock no process holds.
LEMMA HoldsDataLockKeeps ==
  ASSUME DaemonInv, NEW holder \in {Upgrader, Nobody}, HoldsDataLock(holder),
         dataLock[MainDir] \in {Upgrader, Nobody}, schema' = schema
  PROVE  DaemonInv' /\ (ServesMain' <=> ServesMain)
BY Distinct
   DEF HoldsDataLock, DaemonInv, DaemonTypes, Holders, ManagedDir, ListenerReachable,
       StoreNotMigratedUnderneath, HasStore, OwnsEndpoint, Dir, ServesMain

\* The data lock and the stage of the upgrade change together.
LEMMA LockMoves ==
  ASSUME IInv, upgrade' \in Upgrades, NEW holder \in {Upgrader, Nobody},
         dataLock' = [dataLock EXCEPT ![MainDir] = holder],
         holder = Upgrader <=> upgrade'.pc \in {"reconciling", "unlocking"}
  PROVE  LockInv'
BY Distinct DEF IInv, DaemonInv, DaemonTypes, LockInv

LEMMA UpgradeLocksDataKeeps ==
  ASSUME IInv, UpgradeLocksData
  PROVE  IInv'
<1>1. /\ UNCHANGED <<schema, binary, upgradeState, owed>>
      /\ upgrade.pc = "locking" /\ upgrade \in Upgrades
  BY DEF UpgradeLocksData, OtherVars, IInv, LockInv
<1>2. CASE dataLock[MainDir] = Nobody
  <2>1. HoldsDataLock(Upgrader) /\ upgrade' = [upgrade EXCEPT !.pc = "reconciling"]
    BY <1>2 DEF UpgradeLocksData, GoTo
  <2>2. /\ upgrade' \in Upgrades /\ upgrade'.pc = "reconciling"
        /\ upgrade'.version = upgrade.version /\ upgrade'.prior = upgrade.prior
        /\ upgrade'.observed = upgrade.observed /\ upgrade'.stopped = upgrade.stopped
    BY <1>1, <2>1 DEF Upgrades, Pcs
  <2>3. DaemonInv' /\ (ServesMain' <=> ServesMain)
    BY <1>1, <1>2, <2>1, HoldsDataLockKeeps DEF IInv
  <2>4. LockInv'
    BY <2>1, <2>2, LockMoves DEF HoldsDataLock
  <2>5. MemoryInv'
    BY <1>1, <2>2, <2>3, RunGoesOn DEF IInv, MemoryInv, PastStop
  <2> QED
    BY <2>3, <2>4, <2>5 DEF IInv
<1>3. CASE dataLock[MainDir] # Nobody
  <2>1. UNCHANGED daemonVars /\ upgrade' = NotRunning
    BY <1>1, <1>3 DEF UpgradeLocksData, daemonVars
  <2> QED
    BY <1>1, <2>1, DaemonsAlone, RunEnds, LockKept, NotRunningUpgrade
       DEF IInv, UpgradeLocked, daemonVars
<1> QED
  BY <1>2, <1>3

\* The store is migrated under the data lock: no process has it open.
LEMMA UpgradeReconcilesKeeps ==
  ASSUME IInv, UpgradeReconciles
  PROVE  IInv'
<1>1. /\ UNCHANGED <<stage, launch, signalled, dataLock, endpointLock, socket>>
      /\ UNCHANGED <<binary, upgradeState, owed>>
      /\ upgrade.pc = "reconciling" /\ upgrade \in Upgrades
      /\ upgrade' = [upgrade EXCEPT !.pc = "unlocking"]
      /\ schema' \in {schema, [schema EXCEPT ![MainDir] = upgrade.version]}
  BY DEF UpgradeReconciles, OtherVars, GoTo, IInv, LockInv
<1>2. dataLock[MainDir] = Upgrader /\ upgrade.version \in 0 .. MaxVersion
  BY <1>1, Distinct DEF IInv, LockInv, Upgrades
<1>3. DaemonInv' /\ (ServesMain' <=> ServesMain)
  <2>1. \A p \in Processes : HasStore(p) => Dir(p) # MainDir
    BY <1>2, Distinct DEF IInv, DaemonInv, Holders
  <2> QED
    BY <1>1, <1>2, <2>1, Distinct
       DEF IInv, DaemonInv, DaemonTypes, Holders, ManagedDir, ListenerReachable,
           StoreNotMigratedUnderneath, HasStore, OwnsEndpoint, Dir, Launches, ServesMain
<1>4. /\ upgrade' \in Upgrades /\ upgrade'.pc = "unlocking"
      /\ upgrade'.version = upgrade.version /\ upgrade'.prior = upgrade.prior
      /\ upgrade'.observed = upgrade.observed /\ upgrade'.stopped = upgrade.stopped
  BY <1>1 DEF Upgrades, Pcs
<1>5. LockInv'
  BY <1>1, <1>4 DEF IInv, LockInv
<1>6. MemoryInv'
  BY <1>1, <1>3, <1>4, RunGoesOn DEF IInv, MemoryInv, PastStop
<1> QED
  BY <1>3, <1>5, <1>6 DEF IInv

LEMMA UpgradeUnlocksKeep ==
  ASSUME IInv, UpgradeRefused \/ UpgradeVerifyFails \/ UpgradeUnlocksData
  PROVE  IInv'
<1>1. /\ UNCHANGED <<schema, binary, upgradeState, owed>> /\ HoldsDataLock(Nobody)
      /\ upgrade.pc \in {"reconciling", "unlocking"} /\ upgrade \in Upgrades
  BY DEF UpgradeRefused, UpgradeVerifyFails, UpgradeUnlocksData, OtherVars, IInv, LockInv
<1>2. DaemonInv' /\ (ServesMain' <=> ServesMain)
  <2>1. dataLock[MainDir] = Upgrader
    BY <1>1, Distinct DEF IInv, LockInv
  <2> QED
    BY <1>1, <2>1, HoldsDataLockKeeps DEF IInv
<1>3. CASE UpgradeRefused \/ UpgradeVerifyFails
  <2>1. upgrade' = NotRunning
    BY <1>3 DEF UpgradeRefused, UpgradeVerifyFails
  <2>2. LockInv'
    BY <1>1, <2>1, LockMoves, Distinct, NotRunningUpgrade DEF HoldsDataLock
  <2> QED
    BY <1>1, <1>2, <2>1, <2>2, RunEnds DEF IInv, UpgradeLocked
<1>4. CASE UpgradeUnlocksData
  <2>1. /\ upgrade' = [upgrade EXCEPT !.pc = IF ShouldRestart THEN "restarting"
                                                             ELSE "finishing"]
        /\ upgrade.pc = "unlocking"
    BY <1>4 DEF UpgradeUnlocksData, GoTo
  <2>2. /\ upgrade' \in Upgrades
        /\ upgrade'.pc = IF ShouldRestart THEN "restarting" ELSE "finishing"
        /\ upgrade'.version = upgrade.version /\ upgrade'.prior = upgrade.prior
        /\ upgrade'.observed = upgrade.observed /\ upgrade'.stopped = upgrade.stopped
    BY <1>1, <2>1 DEF Upgrades, Pcs
  <2>3. LockInv'
    BY <1>1, <2>2, LockMoves, Distinct DEF HoldsDataLock
  <2>4. ~ShouldRestart => ~upgrade.prior
    BY <2>1 DEF ShouldRestart, IInv, MemoryInv, PastStop
  <2>5. MemoryInv'
    BY <1>1, <1>2, <2>1, <2>2, <2>4, RunGoesOn DEF IInv, MemoryInv, PastStop
  <2> QED
    BY <1>2, <2>3, <2>5 DEF IInv
<1> QED
  BY <1>3, <1>4

LEMMA UpgradeStartsKeep ==
  ASSUME IInv, UpgradeStarts
  PROVE  IInv'
<1>1. PICK p \in Processes :
        /\ Spawn(p, MainDir, binary, "memoree")
        /\ upgrade' = [upgrade EXCEPT !.pc = "awaiting", !.child = p]
  BY DEF UpgradeStarts
<1>2. PICK version \in Versions : Spawn(p, MainDir, version, "memoree")
  BY <1>1 DEF IInv, MemoryInv
<1>3. /\ UNCHANGED <<binary, upgradeState, owed, dataLock>>
      /\ upgrade.pc = "restarting" /\ upgrade \in Upgrades
  BY <1>1 DEF UpgradeStarts, OtherVars, Spawn, IInv, LockInv
<1>4. DaemonInv' /\ (ServesMain' => ServesMain)
  BY <1>2, SpawnKeeps, NoNewService, Distinct DEF IInv
<1>5. /\ upgrade' \in Upgrades /\ upgrade'.pc = "awaiting"
      /\ upgrade'.version = upgrade.version /\ upgrade'.prior = upgrade.prior
      /\ upgrade'.observed = upgrade.observed /\ upgrade'.stopped = upgrade.stopped
  BY <1>1, <1>3 DEF Upgrades, Pcs
<1>6. LockInv'
  BY <1>3, <1>5, LockKept DEF IInv
<1>7. MemoryInv'
  BY <1>3, <1>4, <1>5, RunGoesOn DEF IInv, MemoryInv, PastStop
<1> QED
  BY <1>4, <1>6, <1>7 DEF IInv

\* An upgrade is complete only if it owes nothing.
LEMMA EndsKeeps ==
  ASSUME IInv, upgrade.pc \in PastStop \ {"reconciling", "unlocking"},
         NEW complete \in BOOLEAN, Ends(complete),
         complete => owed # upgrade.version
  PROVE  IInv'
<1>1. /\ UNCHANGED <<daemonVars, binary, owed>> /\ upgrade' = NotRunning
      /\ upgradeState' = [upgradeState EXCEPT !.complete = complete]
  BY DEF Ends, OtherVars
<1>2. DaemonInv'
  BY <1>1, DaemonsAlone DEF IInv
<1>3. LockInv'
  BY <1>1, LockKept, NotRunningUpgrade DEF IInv, daemonVars
<1>4. /\ Written(upgrade.version, upgrade.prior) /\ upgrade.version \in Versions
      /\ Current = upgrade.version /\ upgrade.prior \in BOOLEAN
  BY DEF IInv, LockInv, Upgrades, MemoryInv, Current, UpgradeLocked, PastStop
<1>5. upgradeState' = [target |-> upgrade.version, prior |-> upgrade.prior,
                       complete |-> complete]
  BY <1>1, <1>4 DEF Written
<1>6. upgradeState' # NoState
  <2>1. upgradeState' \in [target : Versions, prior : BOOLEAN, complete : BOOLEAN]
    BY <1>4, <1>5
  <2> QED
    BY <2>1, UpgradeAssumption
<1>7. owed = binary => Remembers(owed)'
  <2> SUFFICES ASSUME owed = binary PROVE Remembers(owed)'
    OBVIOUS
  <2>1. owed = upgrade.version
    BY <1>4 DEF IInv, MemoryInv, Versions
  <2>2. Remembers(owed) /\ ~complete
    BY <1>4, <2>1 DEF IInv, MemoryInv
  <2>3. upgrade.prior
    BY <1>4, <2>2 DEF Remembers, Written
  <2> QED
    BY <1>1, <1>5, <2>1, <2>2, <2>3 DEF Remembers
<1>8. upgrade'.pc = "idle" /\ Current' = binary /\ owed' = owed /\ binary' = binary
  BY <1>1, NotRunningUpgrade DEF Current, UpgradeLocked
<1>9. owed <= binary
  BY <1>4 DEF IInv, MemoryInv, Versions
<1>10. MemoryInv'
  BY <1>6, <1>7, <1>8, <1>9, Distinct DEF IInv, MemoryInv, PastStop, Versions
<1> QED
  BY <1>2, <1>3, <1>10 DEF IInv

LEMMA UpgradeEndsKeep ==
  ASSUME IInv, UpgradeRestartFails \/ UpgradeSeesDaemon \/ UpgradeFinishes
  PROVE  IInv'
<1>1. CASE UpgradeRestartFails
  BY <1>1, EndsKeeps DEF UpgradeRestartFails, PastStop
<1>2. CASE UpgradeSeesDaemon
  <2>1. PICK complete \in BOOLEAN :
          /\ Ends(complete)
          /\ complete => launch[Responder].owner = "memoree"
    BY <1>2 DEF UpgradeSeesDaemon
  <2>2. upgrade.pc = "awaiting" /\ Responder # Nobody
    BY <1>2 DEF UpgradeSeesDaemon
  <2>3. complete => ServesMain
    BY <2>1, <2>2, ResponderServes DEF IInv, DaemonInv, ManagedDir, ServesMain
  <2>4. complete => owed # upgrade.version
    BY <2>2, <2>3 DEF IInv, MemoryInv, PastStop, Current, UpgradeLocked, Versions
  <2> QED
    BY <2>1, <2>2, <2>4, EndsKeeps DEF PastStop
<1>3. CASE UpgradeFinishes
  <2>1. upgrade.pc = "finishing" /\ Ends(TRUE)
    BY <1>3 DEF UpgradeFinishes
  <2>2. owed # upgrade.version
    BY <2>1 DEF IInv, MemoryInv, Written, Remembers, Current, UpgradeLocked
  <2> QED
    BY <2>1, <2>2, EndsKeeps DEF PastStop
<1> QED
  BY <1>1, <1>2, <1>3

\* The kernel drops the locks of an interrupted upgrade; its file stays.
LEMMA UpgradeInterruptedKeeps ==
  ASSUME IInv, UpgradeInterrupted
  PROVE  IInv'
<1>1. /\ UNCHANGED <<stage, launch, signalled, endpointLock, socket, schema>>
      /\ UNCHANGED <<binary, upgradeState, owed>>
      /\ upgrade' = NotRunning /\ UpgradeLocked
      /\ dataLock' = [d \in Dirs |-> IF dataLock[d] = Upgrader THEN Nobody
                                      ELSE dataLock[d]]
  BY DEF UpgradeInterrupted
<1>2. DaemonInv'
  BY <1>1, Distinct
     DEF IInv, DaemonInv, DaemonTypes, Holders, ManagedDir, ListenerReachable,
         StoreNotMigratedUnderneath, HasStore, OwnsEndpoint, Dir
<1>3. LockInv'
  BY <1>1, Distinct, NotRunningUpgrade DEF IInv, LockInv
<1>4. MemoryInv'
  BY <1>1, RunEnds
<1> QED
  BY <1>2, <1>3, <1>4 DEF IInv

LEMMA UpgradeStepKeeps ==
  ASSUME IInv, UpgradeStep
  PROVE  IInv'
<1>1. CASE UpgradeProbe \/ UpgradeSignals \/ UpgradeSeesStopped \/ UpgradeStopFails
  BY <1>1, UpgradeProbeKeeps, UpgradeSignalsKeep, UpgradeWaitsKeep
<1>2. CASE \/ UpgradeLocksData \/ UpgradeReconciles \/ UpgradeRefused
           \/ UpgradeUnlocksData
  BY <1>2, UpgradeLocksDataKeeps, UpgradeReconcilesKeeps, UpgradeUnlocksKeep
<1>3. CASE \/ UpgradeStarts \/ UpgradeRestartFails \/ UpgradeSeesDaemon
           \/ UpgradeFinishes
  BY <1>3, UpgradeStartsKeep, UpgradeEndsKeep
<1> QED
  BY <1>1, <1>2, <1>3 DEF UpgradeStep

LEMMA NextKeeps == IInv /\ [Next]_vars => IInv'
<1> SUFFICES ASSUME IInv, [Next]_vars PROVE IInv'
  OBVIOUS
<1>1. CASE UNCHANGED vars
  BY <1>1, DaemonsAlone, OthersKeep DEF vars, daemonVars, IInv
<1>2. CASE \E legacy \in BOOLEAN : UpgradeBegin(legacy)
  BY <1>2, UpgradeBeginKeeps
<1>3. CASE UpgradeStep \/ UpgradeVerifyFails \/ UpgradeInterrupted
  BY <1>3, UpgradeStepKeeps, UpgradeUnlocksKeep, UpgradeInterruptedKeeps
<1>4. CASE \E c \in Commands :
             \/ CommandChecks(c) \/ CommandStarts(c) \/ RestartChecks(c)
             \/ RestartSignals(c) \/ RestartSeesStopped(c) \/ RestartFails(c)
  BY <1>4, CommandsKeep
<1>5. CASE \E p \in Processes : DaemonSteps(p) \/ DaemonCrashes(p)
  BY <1>5, DaemonStepsKeep
<1>6. CASE \E p \in Processes :
             SupervisorStops(p) \/ \E dir \in Dirs : SupervisorStarts(p, dir)
  BY <1>6, SupervisorsKeep, Distinct
<1>7. CASE ReplaceBinary
  BY <1>7, ReplaceBinaryKeeps
<1> QED
  BY <1>1, <1>2, <1>3, <1>4, <1>5, <1>6, <1>7 DEF Next

-----------------------------------------------------------------------------
(* Theorems.                                                               *)

\* The invariant of every run of the machine: the locks are held as the code
\* takes and drops them, and the state file says what an upgrade still owes.
THEOREM LocksAndMemory == Spec => []IInv
BY Initially, NextKeeps, PTL DEF Spec

\* Types, and each lock has the holders that are between taking and dropping it.
THEOREM LocksHeld == Spec => []TypeOK
<1>1. IInv => TypeOK
  BY DEF IInv, DaemonInv, DaemonTypes, Holders, LockInv, Upgrades, MemoryInv, TypeOK,
         Launches, Dir
<1> QED
  BY <1>1, LocksAndMemory, PTL

\* No start of a daemon, of whatever data directory, unlinks a live listener.
THEOREM LiveListenerStays == Spec => []ListenerReachable
<1>1. IInv => ListenerReachable
  BY DEF IInv, DaemonInv
<1> QED
  BY <1>1, LocksAndMemory, PTL

\* No store changes its schema under a daemon that has it open.
THEOREM NoMigrationUnderneath == Spec => []StoreNotMigratedUnderneath
<1>1. IInv => StoreNotMigratedUnderneath
  BY DEF IInv, DaemonInv
<1> QED
  BY <1>1, LocksAndMemory, PTL

\* However often an upgrade is interrupted, what it stopped is on record for
\* the next run of the same version.
THEOREM InterruptionRemembered == Spec => []StopRemembered
<1>1. IInv => StopRemembered
  BY DEF IInv, MemoryInv, Current, Remembers, StopRemembered
<1> QED
  BY <1>1, LocksAndMemory, PTL
=============================================================================
