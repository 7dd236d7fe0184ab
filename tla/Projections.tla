---------------------------- MODULE Projections -----------------------------
(***************************************************************************)
(* Retrieval projections (src/src/store.rs): derived texts that adapters   *)
(* attach to one revision of an artifact, and their full-text index.       *)
(*                                                                         *)
(* projection.put checks the artifact twice with the connection mutex      *)
(* released in between, then once more inside its transaction, so a put is *)
(* three steps and other mutations run between them.                       *)
(*                                                                         *)
(* Abstractions: a projection is its unique key (revision, projection_key) *)
(* and its text, which stands for the payload digest; evidence spans are   *)
(* valid for the revision they were checked against, which is immutable.   *)
(***************************************************************************)
EXTENDS Artifacts

CONSTANTS
  Workers,         \* connection tasks that may be serving a put
  Idle,            \* a worker that serves no put
  ProjectionKeys,  \* adapter keys of projections
  Texts            \* projected texts, as far as digests tell them apart

VARIABLES
  projections,    \* rows of retrieval_projections
  projectionFts,  \* rows of projection_fts
  puts            \* the put each worker is serving, between its steps

projectionVars == <<projections, projectionFts>>

PutRequests == [op : {"projection.put"}, artifact : Artifacts,
                revision : 1 .. MaxRevision, key : ProjectionKeys, text : Texts]

PutRows == [request : PutRequests, ambient : Contexts, key : OptionalKeys,
            stage : {"read", "compared"}]

ASSUME ProjectionsAssumption == Idle \notin PutRows

ProjectionRows == [artifact : Artifacts, revision : 1 .. MaxRevision,
                   key : ProjectionKeys, text : Texts,
                   status : {"active", "dropped"}, seq : Nat]

\* The row of the unique key a request names, if there is one.
StoredFor(request) ==
  {p \in projections : /\ p.artifact = request.artifact
                       /\ p.revision = request.revision /\ p.key = request.key}

IndexRow(p) ==
  [artifact |-> p.artifact, revision |-> p.revision, key |-> p.key, text |-> p.text]

\* Faulty variant: the index row of the previous text stays.
IndexUntouched(p) == projectionFts

\* DELETE FROM projection_fts WHERE projection_id = ...
IndexWithout(p) ==
  {row \in projectionFts :
     ~(row.artifact = p.artifact /\ row.revision = p.revision /\ row.key = p.key)}

Serves(w, request, ambient, key, stage) ==
  puts' = [puts EXCEPT ![w] = [request |-> request, ambient |-> ambient,
                               key |-> key, stage |-> stage]]

Done(w) == puts' = [puts EXCEPT ![w] = Idle]

AtStage(w, stage) == puts[w] # Idle /\ puts[w].stage = stage

-----------------------------------------------------------------------------
(* projection.put.                                                         *)

\* First lock: the revision exists, in scope, and its artifact is active.
PutRead(w, request, ambient, key) ==
  /\ puts[w] = Idle
  /\ request.revision <= artHead[request.artifact]
  /\ InWriteScope(ambient, artOwner[request.artifact])
  /\ Active(request.artifact)
  /\ Serves(w, request, ambient, key, "read")
  /\ UNCHANGED <<artifactVars, projectionVars, ledgerVars>>

\* Second lock: the revision is current, or the call ends in an error.
PutCompare(w) ==
  /\ AtStage(w, "read")
  /\ IF artHead[puts[w].request.artifact] = puts[w].request.revision
     THEN puts' = [puts EXCEPT ![w].stage = "compared"]
     ELSE Done(w)
  /\ UNCHANGED <<artifactVars, projectionVars, ledgerVars>>

\* Faulty variant: the transaction relies on the checks made before it.
PutAdmittedBefore(request, ambient) == InWriteScope(ambient, artOwner[request.artifact])

\* What the transaction asks again, before it looks up the key.
PutAdmitted(request, ambient) ==
  /\ InWriteScope(ambient, artOwner[request.artifact])
  /\ Active(request.artifact)
  /\ artHead[request.artifact] = request.revision

\* The transaction refuses the put, or answers it from its key.
PutEnds(w) ==
  /\ AtStage(w, "compared")
  /\ \/ ~PutAdmitted(puts[w].request, puts[w].ambient)
     \/ ~FreshKey(puts[w].ambient, puts[w].key)
  /\ Done(w)
  /\ UNCHANGED <<artifactVars, projectionVars, ledgerVars>>

Committing(w) ==
  /\ AtStage(w, "compared")
  /\ PutAdmitted(puts[w].request, puts[w].ambient)
  /\ FreshKey(puts[w].ambient, puts[w].key)

Satisfied(request) ==
  {p \in StoredFor(request) : p.status = "active" /\ p.text = request.text}

\* An active projection with the same digest: answered with its commit.
PutHeld(w) ==
  /\ Committing(w)
  /\ \E p \in Satisfied(puts[w].request) :
       RecordIdempotency(puts[w].ambient, puts[w].key, puts[w].request, p.seq)
  /\ Done(w)
  /\ UNCHANGED <<artifactVars, projectionVars, commitSeq>>

\* A new row, or another text or a new life for the row of the same key.
PutCommit(w) ==
  LET request == puts[w].request
      new == [artifact |-> request.artifact, revision |-> request.revision,
              key |-> request.key, text |-> request.text, status |-> "active",
              seq |-> NextCommitSeq]
  IN
  /\ Committing(w)
  /\ Satisfied(request) = {}
  /\ MaySpendSeq
  /\ projections' = (projections \ StoredFor(request)) \cup {new}
  /\ projectionFts' = IndexWithout(new) \cup {IndexRow(new)}
  /\ Commit(puts[w].ambient, puts[w].key, request)
  /\ Done(w)
  /\ UNCHANGED artifactVars

-----------------------------------------------------------------------------
(* projection.drop, in one transaction.                                    *)

DropRequest(p) ==
  [op |-> "projection.drop", artifact |-> p.artifact, revision |-> p.revision,
   key |-> p.key]

DropAdmitted(p, ambient, key) ==
  /\ InWriteScope(ambient, artOwner[p.artifact])
  /\ FreshKey(ambient, key)

DropHeld(p, ambient, key) ==
  /\ DropAdmitted(p, ambient, key)
  /\ key # NoKey
  /\ p.status = "dropped"
  /\ RecordIdempotency(ambient, key, DropRequest(p), p.seq)
  /\ UNCHANGED <<artifactVars, projectionVars, puts, commitSeq>>

ProjectionDrop(p, ambient, key) ==
  /\ DropAdmitted(p, ambient, key)
  /\ p.status = "active"
  /\ MaySpendSeq
  /\ projections' = (projections \ {p})
                      \cup {[p EXCEPT !.status = "dropped", !.seq = NextCommitSeq]}
  /\ projectionFts' = IndexWithout(p)
  /\ Commit(ambient, key, DropRequest(p))
  /\ UNCHANGED <<artifactVars, puts>>

-----------------------------------------------------------------------------
ProjectionsInit ==
  /\ projections = {}
  /\ projectionFts = {}
  /\ puts = [w \in Workers |-> Idle]

ProjectionsNext(ambient, key) ==
  \/ \E w \in Workers, request \in PutRequests : PutRead(w, request, ambient, key)
  \/ \E p \in projections :
       \/ DropHeld(p, ambient, key)
       \/ ProjectionDrop(p, ambient, key)

\* The steps that take no new input.
PutsNext ==
  \E w \in Workers :
    \/ PutCompare(w)
    \/ PutEnds(w)
    \/ PutHeld(w)
    \/ PutCommit(w)

-----------------------------------------------------------------------------
(* What Store::verify asks of the index.                                   *)

IndexRowsOf(p) ==
  {row \in projectionFts :
     row.artifact = p.artifact /\ row.revision = p.revision /\ row.key = p.key}

MalformedProjectionFts ==
  {p \in projections :
     IndexRowsOf(p) # IF p.status = "active" THEN {IndexRow(p)} ELSE {}}

OrphanedProjectionFts ==
  {row \in projectionFts : ~\E p \in projections : row \in IndexRowsOf(p)}

\* A projection is of a revision that exists, and is the row of its key.
BrokenProjections ==
  {p \in projections : p.revision \notin 1 .. artHead[p.artifact] \/ StoredFor(p) # {p}}

-----------------------------------------------------------------------------
(* Properties.                                                             *)

\* The index holds the text of every active projection, and nothing else: a
\* text that was replaced or dropped cannot match any more, and verify has no
\* complaint about projections.
IndexFollowsProjections ==
  /\ MalformedProjectionFts = {}
  /\ OrphanedProjectionFts = {}
  /\ BrokenProjections = {}

\* A put never attaches a text to a revision that is no longer current or to
\* an artifact that was forgotten, whatever happened since its first check.
PutsHitCurrent ==
  [][\A p \in projections' \ projections :
       p.status = "active" =>
         Active(p.artifact) /\ p.revision = artHead[p.artifact]
    ]_<<artifactVars, projectionVars, puts, ledgerVars>>
=============================================================================
