------------------------------ MODULE Semantic ------------------------------
(***************************************************************************)
(* SemanticManager (src/src/semantic.rs): the dense model of a data        *)
(* directory and the vector projection built with it.                      *)
(*                                                                         *)
(* `memoree semantic` (src/src/main.rs) installs and rebuilds in its own   *)
(* process, without the data lock, beside a running daemon and beside      *)
(* other commands, and may end between any two steps.                      *)
(*                                                                         *)
(* Abstractions: the revisions of the store are its commits 1 .. seq, all  *)
(* of them documents; the files of a model are their bytes.  The model id  *)
(* and revision are pinned by the program and equal for all processes, so  *)
(* they are left out; the digests of the bytes are not pinned, and neither *)
(* the rows of the projection nor their reuse name them.                   *)
(***************************************************************************)
EXTENDS Naturals, FiniteSets

CONSTANTS
  Commands,   \* `memoree semantic` processes
  Bytes,      \* model files, as far as their digests tell them apart
  Absent,     \* no such file or directory
  MaxCommits, \* bound on revisions
  MaxStarts   \* bound on commands started

VARIABLES
  seq,        \* commit sequence of the store
  model,      \* semantic/model
  previous,   \* semantic/model.previous
  manifest,   \* semantic/model-manifest.json
  vectors,    \* rows of the projection: the model that embedded each revision
  indexed,    \* its indexed_commit_seq, Absent before the first build
  command,    \* where each command stands; history: another one committed
              \* a projection since it read the rows
  starts,     \* commands started, for the bound
  daemon      \* cached manifest, loaded runtime and current search

fileVars == <<model, previous, manifest>>
projectionState == <<vectors, indexed>>
semanticVars ==
  <<seq, model, previous, manifest, vectors, indexed, command, starts, daemon>>

NoCommand == [at |-> "idle", bytes |-> Absent, loaded |-> Absent, docs |-> 0,
              existing |-> {}, overtaken |-> FALSE]

NoSearch == [at |-> "idle", current |-> 0, indexed |-> Absent, ready |-> FALSE]

Starts == starts < MaxStarts /\ starts' = starts + 1

StageTo(c, to) == command' = [command EXCEPT ![c].at = to]
StageAt(c, where) == command[c].at = where

-----------------------------------------------------------------------------
(* install_model, install_model_from_directory.                            *)

\* The bytes were downloaded or copied to a staging directory and verified.
StageModel(c, bytes) ==
  /\ StageAt(c, "idle")
  /\ Starts
  /\ command' = [command EXCEPT ![c] = [NoCommand EXCEPT !.at = "staged", !.bytes = bytes]]
  /\ UNCHANGED <<seq, fileVars, projectionState, daemon>>

RemovePrevious(c) ==
  /\ StageAt(c, "staged")
  /\ previous' = Absent
  /\ StageTo(c, "cleared")
  /\ UNCHANGED <<starts, seq, model, manifest, projectionState, daemon>>

MoveModelAway(c) ==
  /\ StageAt(c, "cleared")
  /\ IF model = Absent THEN UNCHANGED <<model, previous>>
     ELSE model' = Absent /\ previous' = model
  /\ StageTo(c, "moved")
  /\ UNCHANGED <<starts, seq, manifest, projectionState, daemon>>

\* rename does not replace a directory that holds files.
PlaceModel(c) ==
  /\ StageAt(c, "moved") /\ model = Absent
  /\ model' = command[c].bytes
  /\ StageTo(c, "placed")
  /\ UNCHANGED <<starts, seq, previous, manifest, projectionState, daemon>>

\* Another command placed its model first.
PlaceFails(c) ==
  /\ StageAt(c, "moved") /\ model # Absent
  /\ command' = [command EXCEPT ![c] = NoCommand]
  /\ UNCHANGED <<starts, seq, fileVars, projectionState, daemon>>

RemoveMoved(c) ==
  /\ StageAt(c, "placed")
  /\ previous' = Absent
  /\ StageTo(c, "tidied")
  /\ UNCHANGED <<starts, seq, model, manifest, projectionState, daemon>>

WriteManifest(c) ==
  /\ StageAt(c, "tidied")
  /\ manifest' = command[c].bytes
  /\ StageTo(c, "installed")
  /\ UNCHANGED <<starts, seq, model, previous, projectionState, daemon>>

-----------------------------------------------------------------------------
(* semantic_documents and rebuild.                                         *)

\* load_manifest: the files are read and compared with their digests.
Verified(bytes) == bytes # Absent /\ model = bytes

CollectDocuments(c) ==
  /\ \/ StageAt(c, "installed") /\ UNCHANGED starts
     \/ StageAt(c, "idle") /\ Starts
  /\ command' = [command EXCEPT ![c].at = "collected", ![c].docs = seq]
  /\ UNCHANGED <<seq, fileVars, projectionState, daemon>>

\* Faulty variant: the revisions up to the counter are taken for embedded.
RowsByCounter == IF indexed = Absent THEN {} ELSE 1 .. indexed

RowsThere == DOMAIN vectors

\* The manifest, which an install has cached, and the rows there are.
ReadExisting(c) ==
  LET known == IF command[c].bytes # Absent THEN command[c].bytes ELSE manifest IN
  /\ StageAt(c, "collected")
  /\ command[c].bytes # Absent \/ Verified(manifest)
  /\ command' = [command EXCEPT ![c].at = "planned", ![c].existing = RowsThere,
                                ![c].bytes = known]
  /\ UNCHANGED <<starts, seq, fileVars, projectionState, daemon>>

\* The model is loaded only if there is something to embed; its files are
\* verified once more.
Changed(c) == (1 .. command[c].docs) \ command[c].existing

LoadForRebuild(c) ==
  /\ StageAt(c, "planned")
  /\ \/ Changed(c) = {} /\ StageTo(c, "ready")
     \/ /\ Changed(c) # {} /\ Verified(command[c].bytes)
        /\ command' = [command EXCEPT ![c].at = "ready", ![c].loaded = model]
  /\ UNCHANGED <<starts, seq, fileVars, projectionState, daemon>>

\* The plans of the other commands are out of date.
Overtakes(c) ==
  command' = [d \in Commands |->
    IF d = c THEN NoCommand
    ELSE IF command[d].at \in {"planned", "ready"} THEN [command[d] EXCEPT !.overtaken = TRUE]
    ELSE command[d]]

\* One transaction: stale rows go, changed ones are embedded, the counter moves.
CommitProjection(c) ==
  LET docs == 1 .. command[c].docs
      stale == command[c].existing \ docs
      kept == (DOMAIN vectors \ stale) \cup Changed(c)
  IN
  /\ StageAt(c, "ready")
  /\ vectors' = [r \in kept |-> IF r \in Changed(c) THEN command[c].loaded ELSE vectors[r]]
  /\ indexed' = command[c].docs
  /\ Overtakes(c)
  /\ UNCHANGED <<starts, seq, fileVars, daemon>>

\* An error, or the end of the process, at any step.
CommandEnds(c) ==
  /\ command[c].at # "idle"
  /\ command' = [command EXCEPT ![c] = NoCommand]
  /\ UNCHANGED <<starts, seq, fileVars, projectionState, daemon>>

-----------------------------------------------------------------------------
(* The daemon.                                                             *)

\* A mutation. Searches hold the connection mutex, so none is running.
CommitRevision ==
  /\ daemon.search.at = "idle" /\ seq < MaxCommits
  /\ seq' = seq + 1
  /\ UNCHANGED <<starts, fileVars, projectionState, command, daemon>>

\* The manifest of the process: cached, or read and verified.
KnownManifest == IF daemon.cached # Absent THEN daemon.cached
                 ELSE IF Verified(manifest) THEN manifest ELSE Absent

\* load_model compares every file with the manifest of the process.
Loadable(bytes) == Verified(bytes)

\* Status and query embedding: the manifest, the projection's meta rows, and
\* the model, which is loaded by the first search that needs it.
SearchBegins ==
  /\ daemon.search.at = "idle"
  /\ manifest # Absent /\ indexed # Absent /\ KnownManifest # Absent
  /\ daemon.runtime # Absent \/ Loadable(KnownManifest)
  /\ daemon' = [cached |-> KnownManifest,
                runtime |-> IF daemon.runtime # Absent THEN daemon.runtime ELSE model,
                search |-> [NoSearch EXCEPT !.at = "embedded", !.current = seq,
                                                !.indexed = indexed]]
  /\ UNCHANGED <<starts, seq, fileVars, projectionState, command>>

\* Disabled, or an error that leaves the lexical answer.
SearchWithout ==
  /\ daemon.search.at = "idle"
  /\ \/ manifest = Absent \/ indexed = Absent \/ KnownManifest = Absent
     \/ daemon.runtime = Absent /\ ~Loadable(KnownManifest)
  /\ daemon' = [daemon EXCEPT !.search = NoSearch]
  /\ UNCHANGED <<starts, seq, fileVars, projectionState, command>>

\* A search without limits of horizon or time: every revision is eligible.
EligibleRevisions == 1 .. seq

Ready(search) == search.indexed >= search.current /\ EligibleRevisions \subseteq DOMAIN vectors

\* The rows of the eligible revisions, read by a statement of its own.
SearchReadsRows ==
  /\ daemon.search.at = "embedded"
  /\ daemon' = [daemon EXCEPT !.search = [NoSearch EXCEPT !.ready = Ready(daemon.search)]]
  /\ UNCHANGED <<starts, seq, fileVars, projectionState, command>>

SemanticStart == daemon' = [cached |-> Absent, runtime |-> Absent, search |-> NoSearch]

RestartSemantic ==
  SemanticStart /\ UNCHANGED <<starts, seq, fileVars, projectionState, command>>

SemanticInit ==
  /\ seq = 1
  /\ model = Absent /\ previous = Absent /\ manifest = Absent
  /\ vectors = [r \in {} |-> Absent] /\ indexed = Absent
  /\ command = [c \in Commands |-> NoCommand] /\ starts = 0
  /\ daemon = [cached |-> Absent, runtime |-> Absent, search |-> NoSearch]

SemanticNext ==
  \/ \E c \in Commands :
       \/ \E bytes \in Bytes : StageModel(c, bytes)
       \/ RemovePrevious(c)
       \/ MoveModelAway(c)
       \/ PlaceModel(c)
       \/ PlaceFails(c)
       \/ RemoveMoved(c)
       \/ WriteManifest(c)
       \/ CollectDocuments(c)
       \/ ReadExisting(c)
       \/ LoadForRebuild(c)
       \/ CommitProjection(c)
       \/ CommandEnds(c)
  \/ CommitRevision
  \/ SearchBegins
  \/ SearchWithout
  \/ SearchReadsRows
  \/ RestartSemantic

SemanticSpec == SemanticInit /\ [][SemanticNext]_semanticVars

-----------------------------------------------------------------------------
(* Properties.                                                             *)

\* Rebuilds that race can leave a counter that says more than the rows there
\* are. The next one that no other overtakes leaves a vector of every document
\* it was given and of nothing else, whatever rows and counter it found.
RebuildMends ==
  [][\A c \in Commands :
       CommitProjection(c) /\ ~command[c].overtaken =>
         /\ DOMAIN vectors' = 1 .. command[c].docs
         /\ indexed' = command[c].docs]_semanticVars

=============================================================================
