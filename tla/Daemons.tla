------------------------------ MODULE Daemons -------------------------------
(***************************************************************************)
(* Daemon processes on one Unix endpoint (src/src/main.rs, serve_daemon;   *)
(* src/src/transport.rs, serve): the data lock of each data directory, the *)
(* endpoint lock beside the socket, and the socket path.                   *)
(*                                                                         *)
(* Processes share nothing but the file system, and each may die between   *)
(* any two of its steps: its locks are released by the kernel, its socket  *)
(* stays behind.  A process is one incarnation and is never started twice. *)
(*                                                                         *)
(* Abstractions: a store is its schema version, and each program version   *)
(* has a schema of its own; Store::open migrates in one step.              *)
(***************************************************************************)
EXTENDS Naturals

CONSTANTS
  MaxProcesses,\* bound on the daemon processes of one behaviour (model bound)
  Dirs,        \* data directories
  MainDir,     \* the one the default endpoint belongs to
  MaxVersion,  \* program versions are 1 .. MaxVersion
  Upgrader,    \* the process that runs `upgrade apply`
  Nobody       \* no holder of a lock, no socket at the path

ASSUME DaemonsAssumption ==
  /\ MaxProcesses \in Nat
  /\ {Nobody, Upgrader} \cap 1 .. MaxProcesses = {}
  /\ Nobody # Upgrader
  /\ MainDir \in Dirs
  /\ MaxVersion \in Nat \ {0}

VARIABLES
  stage,         \* how far each process is in serve_daemon
  launch,        \* its data directory, program version and lifecycle owner
  signalled,     \* the processes with a pending SIGTERM
  dataLock,      \* memoreed.lock of each data directory
  endpointLock,  \* the lock file beside the socket
  socket,        \* the process whose listener the socket path leads to
  schema         \* schema version of the store of each data directory

daemonVars == <<stage, launch, signalled, dataLock, endpointLock, socket, schema>>

Versions == 1 .. MaxVersion

\* In the order they are spawned.
Processes == 1 .. MaxProcesses

\* In the order serve_daemon and serve go through them.
Starting == {"started", "opened", "owning", "stale", "clear"}
Stopping == {"closing", "released", "unlocked"}
Stages == {"new", "dead", "serving"} \cup Starting \cup Stopping

Alive(p) == stage[p] \notin {"new", "dead"}

\* The processes that have the store of their directory open, under its lock.
HasStore(p) == stage[p] \in {"opened", "owning", "stale", "clear", "serving",
                             "closing", "released"}

\* The processes between taking the endpoint lock and dropping it.
OwnsEndpoint(p) == stage[p] \in {"owning", "stale", "clear", "serving", "closing"}

\* The process that answers a doctor request on the endpoint.
Responder ==
  IF socket # Nobody /\ stage[socket] = "serving" THEN socket ELSE Nobody

Reach(p, s) == stage' = [stage EXCEPT ![p] = s]

Dir(p) == launch[p].dir

-----------------------------------------------------------------------------
(* Starting.                                                               *)

Fresh(p) == stage[p] = "new" /\ \A q \in 1 .. p - 1 : stage[q] # "new"

Spawn(p, dir, version, owner) ==
  /\ Fresh(p)
  /\ Reach(p, "started")
  /\ launch' = [launch EXCEPT ![p] = [dir |-> dir, version |-> version,
                                      owner |-> owner]]
  /\ UNCHANGED <<signalled, dataLock, endpointLock, socket, schema>>

NoLaunch == [dir |-> MainDir, version |-> 1, owner |-> "external"]

\* The end of a process, in order or not: the kernel releases its locks.
Exit(p) ==
  /\ Reach(p, "dead")
  /\ launch' = [launch EXCEPT ![p] = NoLaunch]
  /\ signalled' = signalled \ {p}
  /\ dataLock' = [d \in Dirs |-> IF dataLock[d] = p THEN Nobody ELSE dataLock[d]]
  /\ endpointLock' = IF endpointLock = p THEN Nobody ELSE endpointLock
  /\ UNCHANGED <<socket, schema>>

\* The data lock, and under it Store::open, which creates or migrates the
\* store and refuses one of a newer program.
OpenStore(p) ==
  /\ stage[p] = "started"
  /\ IF dataLock[Dir(p)] = Nobody /\ schema[Dir(p)] <= launch[p].version
     THEN /\ dataLock' = [dataLock EXCEPT ![Dir(p)] = p]
          /\ schema' = [schema EXCEPT ![Dir(p)] = launch[p].version]
          /\ Reach(p, "opened")
          /\ UNCHANGED <<launch, signalled, endpointLock, socket>>
     ELSE Exit(p)

TakeEndpointLock(p) ==
  /\ stage[p] = "opened"
  /\ IF endpointLock = Nobody
     THEN /\ endpointLock' = p
          /\ Reach(p, "owning")
          /\ UNCHANGED <<launch, signalled, dataLock, socket, schema>>
     ELSE Exit(p)

\* A connection to the socket path tells a live listener from a stale socket.
ProbeEndpoint(p) ==
  /\ stage[p] = "owning"
  /\ IF Responder # Nobody
     THEN Exit(p)
     ELSE /\ Reach(p, IF socket = Nobody THEN "clear" ELSE "stale")
          /\ UNCHANGED <<launch, signalled, dataLock, endpointLock, socket, schema>>

RemoveStaleSocket(p) ==
  /\ stage[p] = "stale"
  /\ socket' = Nobody
  /\ Reach(p, "clear")
  /\ UNCHANGED <<launch, signalled, dataLock, endpointLock, schema>>

Bind(p) ==
  /\ stage[p] = "clear"
  /\ IF socket = Nobody
     THEN /\ socket' = p
          /\ Reach(p, "serving")
          /\ UNCHANGED <<launch, signalled, dataLock, endpointLock, schema>>
     ELSE Exit(p)

-----------------------------------------------------------------------------
(* Stopping.                                                               *)

\* SIGTERM, or an interrupt from a terminal.
Signal(p) ==
  /\ stage[p] = "serving"
  /\ signalled' = signalled \cup {p}
  /\ UNCHANGED <<stage, launch, dataLock, endpointLock, socket, schema>>

\* The shutdown branch of the accept loop unlinks the socket path, whatever
\* is there, while it holds the endpoint lock.
RemoveSocket(p) ==
  /\ stage[p] = "serving"
  /\ p \in signalled
  /\ socket' = Nobody
  /\ Reach(p, "closing")
  /\ UNCHANGED <<launch, signalled, dataLock, endpointLock, schema>>

DropEndpointLock(p) ==
  /\ stage[p] = "closing"
  /\ endpointLock' = Nobody
  /\ Reach(p, "released")
  /\ UNCHANGED <<launch, signalled, dataLock, socket, schema>>

\* Faulty variant: the socket is cleaned up last.
DropDataLockUnlinking(p) ==
  /\ stage[p] = "released"
  /\ dataLock' = [dataLock EXCEPT ![Dir(p)] = Nobody]
  /\ socket' = Nobody
  /\ Reach(p, "unlocked")
  /\ UNCHANGED <<launch, signalled, endpointLock, schema>>

DropDataLock(p) ==
  /\ stage[p] = "released"
  /\ dataLock' = [dataLock EXCEPT ![Dir(p)] = Nobody]
  /\ Reach(p, "unlocked")
  /\ UNCHANGED <<launch, signalled, endpointLock, socket, schema>>

Leave(p) == stage[p] = "unlocked" /\ Exit(p)

Crash(p) == Alive(p) /\ Exit(p)

\* The steps a process makes by itself.
ServeStep(p) ==
  \/ OpenStore(p) \/ TakeEndpointLock(p)
  \/ ProbeEndpoint(p) \/ RemoveStaleSocket(p) \/ Bind(p)
  \/ RemoveSocket(p) \/ DropEndpointLock(p) \/ DropDataLock(p) \/ Leave(p)

DaemonsInit ==
  /\ stage = [p \in Processes |-> "new"]
  /\ launch = [p \in Processes |-> NoLaunch]
  /\ signalled = {}
  /\ dataLock = [d \in Dirs |-> Nobody]
  /\ endpointLock = Nobody
  /\ socket = Nobody
  /\ schema = [d \in Dirs |-> 0]
=============================================================================
