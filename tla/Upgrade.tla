------------------------------ MODULE Upgrade -------------------------------
(***************************************************************************)
(* Who starts and stops daemons (src/src/main.rs, src/src/upgrade.rs): an  *)
(* `upgrade apply` that may be interrupted anywhere and run again, commands*)
(* that start a daemon when none answers or restart it, supervisors that   *)
(* run daemons of their own, and the replacement of the installed program. *)
(*                                                                         *)
(* Abstractions: the phases of the upgrade state are `complete` or not; a  *)
(* run of `upgrade apply` with an explicit endpoint defers to the owner of *)
(* that endpoint and is left out, as are the v0.2 compatibility path, the  *)
(* models and the skills.                                                  *)
(***************************************************************************)
EXTENDS Daemons

CONSTANTS
  Commands,          \* command-line processes
  NoState,           \* upgrade-state.json was never written
  MaxInterruptions   \* bound on the crashes of one behaviour (model bound)

ASSUME UpgradeAssumption ==
  NoState \notin [target : Versions, prior : BOOLEAN, complete : BOOLEAN]

VARIABLES
  binary,         \* the version of the installed program
  upgradeState,   \* upgrade-state.json
  upgrade,        \* locals of the running `upgrade apply`
  command,        \* how far each command is, and the daemon it is stopping
  interruptions,  \* crashes and failed verifications so far
  owed            \* the target of an upgrade that stopped a running daemon
                  \* when no daemon served the store since; 0 otherwise

upgradeVars == <<binary, upgradeState, upgrade, command, interruptions, owed>>
vars == <<stage, launch, signalled, dataLock, endpointLock, socket, schema,
          binary, upgradeState, upgrade, command, interruptions, owed>>

NotRunning == [pc |-> "idle", version |-> 0, prior |-> FALSE, observed |-> FALSE,
               stopped |-> FALSE, child |-> Nobody]

\* UpgradeLock: held from the first to the last step of `upgrade apply`.
UpgradeLocked == upgrade.pc # "idle"

GoTo(pc) == upgrade' = [upgrade EXCEPT !.pc = pc]

\* What the steps of `upgrade apply` leave alone.
OtherVars == <<binary, command, interruptions>>

-----------------------------------------------------------------------------
(* upgrade apply.                                                          *)

\* The installer says when it saw a daemon answer before it replaced it.
UpgradeBegin(legacyWasRunning) ==
  /\ ~UpgradeLocked
  /\ legacyWasRunning => Responder # Nobody
  /\ upgrade' = [NotRunning EXCEPT !.pc = "probing", !.version = binary,
                                   !.prior = legacyWasRunning]
  /\ UNCHANGED <<daemonVars, OtherVars, upgradeState, owed>>

\* An interrupted run for the same version remembers that a daemon ran.
Resumable ==
  /\ upgradeState # NoState
  /\ upgradeState.target = upgrade.version
  /\ ~upgradeState.complete
  /\ upgradeState.prior

\* The probe and the first write.  A daemon of a supervisor ends the run.
UpgradeProbe ==
  LET prior == Responder # Nobody \/ upgrade.prior \/ Resumable IN
  /\ upgrade.pc = "probing"
  /\ upgradeState' = [target |-> upgrade.version, prior |-> prior, complete |-> FALSE]
  /\ upgrade' = IF Responder # Nobody /\ launch[Responder].owner = "external"
                THEN NotRunning
                ELSE [upgrade EXCEPT !.pc = IF Responder = Nobody THEN "locking"
                                                                  ELSE "stopping",
                                     !.prior = prior, !.observed = Responder # Nobody]
  /\ UNCHANGED <<daemonVars, OtherVars, owed>>

\* stop_local_daemon probes again and signals the process that answers.
UpgradeSignals ==
  /\ upgrade.pc = "stopping"
  /\ Responder # Nobody
  /\ Signal(Responder)
  /\ upgrade' = [upgrade EXCEPT !.pc = "waiting", !.child = Responder]
  /\ owed' = IF Dir(Responder) = MainDir THEN upgrade.version ELSE owed
  /\ UNCHANGED <<OtherVars, upgradeState>>

UpgradeSeesStopped ==
  /\ \/ upgrade.pc = "stopping"
     \/ upgrade.pc = "waiting" /\ ~Alive(upgrade.child)
  /\ Responder = Nobody
  /\ upgrade' = [upgrade EXCEPT !.pc = "locking", !.stopped = TRUE, !.child = Nobody]
  /\ UNCHANGED <<daemonVars, OtherVars, upgradeState, owed>>

\* The process did not stop in five seconds, or another one answers.
UpgradeStopFails ==
  /\ upgrade.pc = "waiting"
  /\ Alive(upgrade.child) \/ Responder \notin {Nobody, upgrade.child}
  /\ upgrade' = NotRunning
  /\ UNCHANGED <<daemonVars, OtherVars, upgradeState, owed>>

HoldsDataLock(holder) ==
  /\ dataLock' = [dataLock EXCEPT ![MainDir] = holder]
  /\ UNCHANGED <<stage, launch, signalled, endpointLock, socket>>

\* Faulty variant: the data lock is not asked for.
UpgradeLocksDataAnyway ==
  /\ upgrade.pc = "locking"
  /\ GoTo("reconciling")
  /\ UNCHANGED <<daemonVars, OtherVars, upgradeState, owed>>

\* Another holder of the data lock ends the run.
UpgradeLocksData ==
  /\ upgrade.pc = "locking"
  /\ IF dataLock[MainDir] = Nobody
     THEN HoldsDataLock(Upgrader) /\ GoTo("reconciling")
     ELSE upgrade' = NotRunning /\ UNCHANGED <<dataLock, stage, launch, signalled,
                                               endpointLock, socket>>
  /\ UNCHANGED <<schema, OtherVars, upgradeState, owed>>

\* The store, if there is one, is opened and so migrated, and verified.
UpgradeReconciles ==
  /\ upgrade.pc = "reconciling"
  /\ schema[MainDir] <= upgrade.version
  /\ schema' = IF schema[MainDir] = 0 THEN schema
               ELSE [schema EXCEPT ![MainDir] = upgrade.version]
  /\ GoTo("unlocking")
  /\ UNCHANGED <<stage, launch, signalled, dataLock, endpointLock, socket,
                 OtherVars, upgradeState, owed>>

\* Store::open refuses a store of a newer program.
UpgradeRefused ==
  /\ upgrade.pc = "reconciling"
  /\ schema[MainDir] > upgrade.version
  /\ upgrade' = NotRunning
  /\ HoldsDataLock(Nobody)
  /\ UNCHANGED <<schema, OtherVars, upgradeState, owed>>

\* Store::verify reports an issue; the daemon stays stopped.
UpgradeVerifyFails ==
  /\ upgrade.pc = "unlocking"
  /\ schema[MainDir] # 0
  /\ interruptions < MaxInterruptions
  /\ interruptions' = interruptions + 1
  /\ upgrade' = NotRunning
  /\ HoldsDataLock(Nobody)
  /\ UNCHANGED <<schema, binary, command, upgradeState, owed>>

\* Faulty variant: only a daemon this very run stopped is started again.
ShouldRestartStopped == upgrade.prior /\ upgrade.stopped

ShouldRestart == upgrade.prior /\ (upgrade.stopped \/ ~upgrade.observed)

UpgradeUnlocksData ==
  /\ upgrade.pc = "unlocking"
  /\ HoldsDataLock(Nobody)
  /\ GoTo(IF ShouldRestart THEN "restarting" ELSE "finishing")
  /\ UNCHANGED <<schema, OtherVars, upgradeState, owed>>

UpgradeStarts ==
  /\ upgrade.pc = "restarting"
  /\ \E p \in Processes :
       /\ Spawn(p, MainDir, binary, "memoree")
       /\ upgrade' = [upgrade EXCEPT !.pc = "awaiting", !.child = p]
  /\ UNCHANGED <<OtherVars, upgradeState, owed>>

Ends(complete) ==
  /\ upgradeState' = [upgradeState EXCEPT !.complete = complete]
  /\ upgrade' = NotRunning
  /\ UNCHANGED <<daemonVars, OtherVars, owed>>

\* No process can be started, as when the executable of this run was replaced
\* meanwhile, or the child exits or is too late.
UpgradeRestartFails ==
  /\ \/ /\ upgrade.pc = "restarting"
        /\ binary # upgrade.version \/ \A p \in Processes : stage[p] # "new"
     \/ upgrade.pc = "awaiting" /\ (Responder = Nobody \/ ~Alive(upgrade.child))
  /\ Ends(FALSE)

\* The daemon that answers, the child or not, has to be of this version and
\* a managed one.
UpgradeSeesDaemon ==
  /\ upgrade.pc = "awaiting"
  /\ Responder # Nobody
  /\ Ends(/\ launch[Responder].version = upgrade.version
          /\ launch[Responder].owner = "memoree")

UpgradeFinishes == upgrade.pc = "finishing" /\ Ends(TRUE)

UpgradeStep ==
  \/ UpgradeProbe
  \/ UpgradeSignals \/ UpgradeSeesStopped \/ UpgradeStopFails
  \/ UpgradeLocksData \/ UpgradeReconciles \/ UpgradeRefused \/ UpgradeUnlocksData
  \/ UpgradeStarts \/ UpgradeRestartFails \/ UpgradeSeesDaemon \/ UpgradeFinishes

UpgradeInterrupted ==
  /\ UpgradeLocked
  /\ interruptions < MaxInterruptions
  /\ interruptions' = interruptions + 1
  /\ upgrade' = NotRunning
  /\ dataLock' = [d \in Dirs |-> IF dataLock[d] = Upgrader THEN Nobody ELSE dataLock[d]]
  /\ UNCHANGED <<stage, launch, signalled, endpointLock, socket, schema,
                 binary, command, upgradeState, owed>>

-----------------------------------------------------------------------------
(* Commands.                                                               *)

Waiting == [pc |-> "idle", target |-> Nobody]

CommandGoesTo(c, pc, target) ==
  command' = [command EXCEPT ![c] = [pc |-> pc, target |-> target]]

CommandOnly == <<binary, interruptions, upgradeState, upgrade, owed>>

\* dispatch: no daemon answers and ensure_upgrade_not_in_progress could take
\* the upgrade lock, which it gives back at once.
CommandChecks(c) ==
  /\ command[c].pc = "idle"
  /\ Responder = Nobody
  /\ ~UpgradeLocked
  /\ CommandGoesTo(c, "spawning", Nobody)
  /\ UNCHANGED <<daemonVars, CommandOnly>>

CommandStarts(c) ==
  /\ command[c].pc = "spawning"
  /\ \E p \in Processes : Spawn(p, MainDir, binary, "memoree")
  /\ CommandGoesTo(c, "idle", Nobody)
  /\ UNCHANGED CommandOnly

\* daemon stop and daemon restart check the upgrade lock once, at the start.
RestartChecks(c) ==
  /\ command[c].pc = "idle"
  /\ ~UpgradeLocked
  /\ CommandGoesTo(c, "stopping", Nobody)
  /\ UNCHANGED <<daemonVars, CommandOnly>>

RestartSignals(c) ==
  /\ command[c].pc = "stopping"
  /\ Responder # Nobody
  /\ Signal(Responder)
  /\ CommandGoesTo(c, "waiting", Responder)
  /\ UNCHANGED CommandOnly

\* The daemon is gone: stop ends, restart starts another one.
RestartSeesStopped(c) ==
  /\ \/ command[c].pc = "stopping"
     \/ command[c].pc = "waiting" /\ ~Alive(command[c].target)
  /\ Responder = Nobody
  /\ \E pc \in {"idle", "spawning"} : CommandGoesTo(c, pc, Nobody)
  /\ UNCHANGED <<daemonVars, CommandOnly>>

RestartFails(c) ==
  /\ command[c].pc = "waiting"
  /\ Alive(command[c].target) \/ Responder \notin {Nobody, command[c].target}
  /\ CommandGoesTo(c, "idle", Nobody)
  /\ UNCHANGED <<daemonVars, CommandOnly>>

-----------------------------------------------------------------------------
(* The rest of the machine.                                                *)

\* `memoree serve` under a supervisor, which also stops it.
SupervisorStarts(p, dir) ==
  /\ ~UpgradeLocked
  /\ Spawn(p, dir, binary, "external")
  /\ UNCHANGED upgradeVars

SupervisorStops(p) ==
  /\ launch[p].owner = "external"
  /\ Signal(p)
  /\ UNCHANGED upgradeVars

ReplaceBinary ==
  /\ binary < MaxVersion
  /\ binary' = binary + 1
  /\ UNCHANGED <<daemonVars, upgradeState, upgrade, command, interruptions, owed>>

\* A daemon that serves the store settles what an upgrade owes.
DaemonSteps(p) ==
  /\ ServeStep(p)
  /\ owed' = IF stage'[p] = "serving" /\ Dir(p) = MainDir THEN 0 ELSE owed
  /\ UNCHANGED <<OtherVars, upgradeState, upgrade>>

DaemonCrashes(p) ==
  /\ interruptions < MaxInterruptions
  /\ interruptions' = interruptions + 1
  /\ Crash(p)
  /\ UNCHANGED <<binary, upgradeState, upgrade, command, owed>>

Init ==
  /\ DaemonsInit
  /\ binary = 1
  /\ upgradeState = NoState
  /\ upgrade = NotRunning
  /\ command = [c \in Commands |-> Waiting]
  /\ interruptions = 0
  /\ owed = 0

Next ==
  \/ \E legacy \in BOOLEAN : UpgradeBegin(legacy)
  \/ UpgradeStep
  \/ UpgradeVerifyFails
  \/ UpgradeInterrupted
  \/ \E c \in Commands :
       \/ CommandChecks(c) \/ CommandStarts(c)
       \/ RestartChecks(c) \/ RestartSignals(c) \/ RestartSeesStopped(c)
       \/ RestartFails(c)
  \/ \E p \in Processes :
       \/ DaemonSteps(p) \/ DaemonCrashes(p)
       \/ SupervisorStops(p)
       \/ \E dir \in Dirs : SupervisorStarts(p, dir)
  \/ ReplaceBinary

\* The operating system schedules a process that can run, and a user whose
\* daemon an upgrade stopped repeats the upgrade, as the README asks.
Fairness ==
  /\ \A p \in Processes : WF_vars(DaemonSteps(p))
  /\ WF_vars(UpgradeStep)
  /\ WF_vars(UpgradeBegin(FALSE))

Spec == Init /\ [][Next]_vars /\ Fairness

-----------------------------------------------------------------------------
(* Invariants.                                                             *)

\* The variables have their types, and each lock is held by the processes that
\* are between taking and dropping it, by these only, and one at a time.
TypeOK ==
  /\ stage \in [Processes -> Stages]
  /\ \A p \in Processes :
       /\ Dir(p) \in Dirs /\ launch[p].version \in Versions
       /\ launch[p].owner \in {"memoree", "external"}
  /\ signalled \subseteq Processes
  /\ dataLock \in [Dirs -> Processes \cup {Upgrader, Nobody}]
  /\ endpointLock \in Processes \cup {Nobody}
  /\ socket \in Processes \cup {Nobody}
  /\ schema \in [Dirs -> 0 .. MaxVersion]
  /\ binary \in Versions
  /\ owed \in 0 .. MaxVersion
  /\ upgrade.child \in Processes \cup {Nobody}
  /\ \A p \in Processes :
       /\ HasStore(p) <=> dataLock[Dir(p)] = p
       /\ OwnsEndpoint(p) <=> endpointLock = p

\* A live listener can never be unlinked: as long as a daemon serves, the
\* path leads to it, whichever data directories other starts belong to.
ListenerReachable ==
  \A p \in Processes : stage[p] = "serving" => socket = p

\* No daemon works on a store that another program version migrated while
\* the daemon had it open.
StoreNotMigratedUnderneath ==
  \A p \in Processes : HasStore(p) => schema[Dir(p)] = launch[p].version

\* An interrupted upgrade is remembered: if it stopped a daemon and none was
\* started since, the next run for this version starts one.
StopRemembered ==
  owed = binary /\ ~UpgradeLocked =>
    /\ upgradeState.target = binary
    /\ ~upgradeState.complete
    /\ upgradeState.prior

-----------------------------------------------------------------------------
(* Liveness.                                                               *)

Exhausted == \A p \in Processes : stage[p] \in Stopping \cup {"dead"}

Supervised == \E p \in Processes : Alive(p) /\ launch[p].owner = "external"

\* Running before means running after: a daemon an upgrade stopped is serving
\* again some time later, if the upgrade is repeated, unless a supervisor's
\* daemon is in the way, another version is installed or every process of the
\* model had its turn.
RunningAfter ==
  owed # 0 ~> owed = 0 \/ owed # binary \/ Supervised \/ Exhausted
=============================================================================
