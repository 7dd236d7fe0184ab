------------------------------ MODULE Remember ------------------------------
(***************************************************************************)
(* Remember (src/src/main.rs, remember.rs, checkpoint.rs): how a note      *)
(* becomes an artifact, its claims and their retrieval anchors by separate *)
(* keyed mutations, and how a staged checkpoint gets there.  A command may *)
(* end anywhere and be run again, an answer may be lost, and the compiler  *)
(* may answer the same note differently each time.                         *)
(*                                                                         *)
(* Abstractions: one session and one scope; a raw note is a compilation    *)
(* without claims; a statement is its type and its wording, and comes with *)
(* its anchors; a payload is compared as a whole, as its digest would be.  *)
(***************************************************************************)
EXTENDS Naturals, FiniteSets

CONSTANTS
  RememberCommands, \* processes
  Notes,            \* texts
  Flagged,          \* texts that carry sensitive flags
  Compilations,     \* [Notes -> sets of proposals <<spans, statement, anchors>>]
  CompilerIds,      \* provider, model and version, as the provenance names them
  ExplicitKey,      \* a key that callers may pass
  Unstaged,         \* no pending checkpoint
  MaxAttempts,      \* bound on commands
  MaxPuts           \* bound on checkpoints

Plans == UNION {Compilations[note] : note \in Notes}

Proposals == UNION Plans

\* A compilation that repeats a statement is refused; one that words a passage
\* twice is not.
ASSUME RememberAssumption ==
  \A plan \in Plans : \A q, r \in plan : q[2] = r[2] => q = r

VARIABLES
  staged,    \* the pending checkpoint of the session
  puts,      \* checkpoints written, for the bound
  attempts,  \* commands started, for the bound
  keys,      \* idempotency records: [key, payload, id]
  artifacts, \* [id, note, compiler, consented]
  claims,    \* [id, artifact, spans, statement]
  anchors,   \* retrieval anchors: [claim, spans, words]
  command    \* [RememberCommands -> its progress]

rememberVars == <<staged, puts, attempts, keys, artifacts, claims, anchors, command>>

NoNote == [note |-> Unstaged, flagged |-> FALSE]

NoCommand == [at |-> "idle", read |-> NoNote, title |-> "caller", consent |-> FALSE,
              key |-> ExplicitKey, compiler |-> Unstaged, plan |-> {}, todo |-> {},
              artifact |-> 0, claim |-> 0]

\* The default key is made from the note and its title.
KeyOf(title, note) == <<title, note>>

CommandAt(p, to) == command' = [command EXCEPT ![p].at = to]

-----------------------------------------------------------------------------
(* Checkpoints.                                                            *)

PutCheckpoint(note) ==
  /\ puts < MaxPuts /\ puts' = puts + 1
  /\ staged' = [note |-> note, flagged |-> note \in Flagged]
  /\ UNCHANGED <<attempts, keys, artifacts, claims, anchors, command>>

\* drop_checkpoint reads the note before it takes the lock, then removes the file.
DropReads(p) ==
  /\ command[p].at = "idle" /\ staged # NoNote
  /\ CommandAt(p, "dropping")
  /\ UNCHANGED <<staged, puts, attempts, keys, artifacts, claims, anchors>>

DropRemoves(p) ==
  /\ command[p].at = "dropping"
  /\ staged' = NoNote
  /\ CommandAt(p, "idle")
  /\ UNCHANGED <<puts, attempts, keys, artifacts, claims, anchors>>

\* Faulty variant: the note is read again when its flags have been seen.
PromotedNoteReread(p) == IF staged = NoNote THEN command[p].read.note ELSE staged.note

\* promote_pending_checkpoint goes on with the note whose flags it has read.
PromotedNote(p) == command[p].read.note

\* Consent that no flag asks for changes nothing, and is left out.
StartPromote(p, consent, key) ==
  /\ command[p].at = "idle" /\ staged # NoNote
  /\ attempts < MaxAttempts /\ attempts' = attempts + 1
  /\ staged.flagged <=> consent
  /\ command' = [command EXCEPT ![p] =
       [NoCommand EXCEPT !.at = "read", !.read = staged, !.title = "checkpoint",
                         !.consent = consent, !.key = key]]
  /\ UNCHANGED <<staged, puts, keys, artifacts, claims, anchors>>

\* remember with a text of its own.
StartRemember(p, note, key) ==
  /\ command[p].at = "idle"
  /\ attempts < MaxAttempts /\ attempts' = attempts + 1
  /\ command' = [command EXCEPT ![p] =
       [NoCommand EXCEPT !.at = "read", !.consent = TRUE, !.key = key,
                         !.read = [note |-> note, flagged |-> note \in Flagged]]]
  /\ UNCHANGED <<staged, puts, keys, artifacts, claims, anchors>>

-----------------------------------------------------------------------------
(* The claim compiler and the preview.                                     *)

CompileNote(p) ==
  /\ command[p].at = "read"
  /\ \E plan \in Compilations[PromotedNote(p)], id \in CompilerIds :
       command' = [command EXCEPT ![p].at = "compiled", ![p].plan = plan, ![p].todo = plan,
                                  ![p].read = [@ EXCEPT !.note = PromotedNote(p)],
                                  ![p].compiler = id]
  /\ UNCHANGED <<staged, puts, attempts, keys, artifacts, claims, anchors>>

\* A preview, a failed compiler, an unreachable daemon or the end of the process.
CommandEnds(p) ==
  /\ command[p].at \notin {"idle", "dropping"}
  /\ command' = [command EXCEPT ![p] = NoCommand]
  /\ UNCHANGED <<staged, puts, attempts, keys, artifacts, claims, anchors>>

-----------------------------------------------------------------------------
(* The mutations, each keyed by the logical operation and its part.        *)

Recorded(key) == {k \in keys : k.key = key}

\* Faulty variant: a recorded key answers whatever is asked under it.
ReplaysRegardless(key, payload) == Recorded(key) # {}

Replays(key, payload) == \E k \in Recorded(key) : k.payload = payload

Fresh(key) == Recorded(key) = {}

NextId == 1 + Cardinality(keys)

Conflicts(key, payload) == ~Fresh(key) /\ ~Replays(key, payload)

IdOf(key) == (CHOOSE k \in Recorded(key) : TRUE).id

Records(key, payload) == keys' = keys \cup {[key |-> key, payload |-> payload, id |-> NextId]}

\* A command that is refused reports the error of its first refused mutation.
Refused(p) == command' = [command EXCEPT ![p].at = "refused"]

ArtifactKey(p) == <<command[p].key, "artifact">>

ArtifactPayload(p) == <<command[p].title, command[p].read.note, command[p].compiler>>

Placed(p, id) == command' = [command EXCEPT ![p].at = "placed", ![p].artifact = id]

PutArtifact(p) ==
  /\ command[p].at = "compiled"
  /\ \/ /\ Fresh(ArtifactKey(p))
        /\ Records(ArtifactKey(p), ArtifactPayload(p))
        /\ artifacts' = artifacts \cup {[id |-> NextId, note |-> command[p].read.note,
                                         compiler |-> command[p].compiler,
                                         consented |-> command[p].consent]}
        /\ Placed(p, NextId) \/ command' = [command EXCEPT ![p] = NoCommand]
     \/ /\ Replays(ArtifactKey(p), ArtifactPayload(p))
        /\ Placed(p, IdOf(ArtifactKey(p)))
        /\ UNCHANGED <<keys, artifacts>>
     \/ /\ Conflicts(ArtifactKey(p), ArtifactPayload(p))
        /\ Refused(p) /\ UNCHANGED <<keys, artifacts>>
  /\ UNCHANGED <<staged, puts, attempts, claims, anchors>>

\* Faulty variant: the wording is part of a claim's identity.
ClaimKeyWithStatement(p, proposal) ==
  <<command[p].key, "claim", proposal[1], proposal[2]>>

\* The identity of a claim is the source passage, not what was made of it.
ClaimKey(p, proposal) == <<command[p].key, "claim", proposal[1]>>

ClaimPayload(p, proposal) == <<command[p].artifact, proposal[1], proposal[2]>>

\* A claim with anchors goes on to place them.
Asserted(p, proposal, id) ==
  command' = [command EXCEPT
    ![p].at = IF proposal[3] = {} THEN "placed" ELSE "anchoring",
    ![p].claim = id,
    ![p].todo = IF proposal[3] = {} THEN @ \ {proposal} ELSE {proposal} \cup @]

AssertClaim(p) ==
  /\ command[p].at = "placed"
  /\ \E proposal \in command[p].todo :
       LET key == ClaimKey(p, proposal)
           payload == ClaimPayload(p, proposal)
       IN \/ /\ Fresh(key) /\ Records(key, payload)
             /\ claims' = claims \cup {[id |-> NextId, artifact |-> command[p].artifact,
                                        spans |-> proposal[1], statement |-> proposal[2]]}
             /\ \/ Asserted(p, proposal, NextId)
                \/ command' = [command EXCEPT ![p] = NoCommand]
          \/ /\ Replays(key, payload)
             /\ Asserted(p, proposal, IdOf(key)) /\ UNCHANGED <<keys, claims>>
          \/ Conflicts(key, payload) /\ Refused(p) /\ UNCHANGED <<keys, claims>>
  /\ UNCHANGED <<staged, puts, attempts, artifacts, anchors>>

AnchorKey(p, proposal) == <<command[p].key, "anchors", proposal[1]>>

\* Refused anchors are passed over: they only route.
PutAnchors(p) ==
  /\ command[p].at = "anchoring"
  /\ \E proposal \in command[p].todo :
       /\ \E c \in claims : /\ c.id = command[p].claim
                            /\ c.spans = proposal[1] /\ c.statement = proposal[2]
       /\ LET key == AnchorKey(p, proposal)
              payload == <<command[p].claim, proposal[3], command[p].compiler>>
          IN IF Fresh(key)
             THEN /\ Records(key, payload)
                  /\ anchors' = {a \in anchors : a.key # key}
                       \cup {[key |-> key, claim |-> command[p].claim,
                              spans |-> proposal[1], words |-> proposal[3]]}
             ELSE UNCHANGED <<keys, anchors>>
       /\ command' = [command EXCEPT ![p].at = "placed", ![p].todo = @ \ {proposal}]
  /\ UNCHANGED <<staged, puts, attempts, artifacts, claims>>

ReportRemember(p) ==
  /\ command[p].at = "placed" /\ command[p].todo = {}
  /\ CommandAt(p, "reported")
  /\ UNCHANGED <<staged, puts, attempts, keys, artifacts, claims, anchors>>

-----------------------------------------------------------------------------
RememberInit ==
  /\ staged = NoNote /\ puts = 0 /\ attempts = 0
  /\ keys = {} /\ artifacts = {} /\ claims = {} /\ anchors = {}
  /\ command = [p \in RememberCommands |-> NoCommand]

RememberNext ==
  \/ \E note \in Notes : PutCheckpoint(note)
  \/ \E p \in RememberCommands :
       \/ DropReads(p) \/ DropRemoves(p)
       \/ \E consent \in BOOLEAN, key \in {KeyOf("checkpoint", staged.note), ExplicitKey} :
            StartPromote(p, consent, key)
       \/ \E note \in Notes : \E key \in {KeyOf("caller", note), ExplicitKey} :
            StartRemember(p, note, key)
       \/ CompileNote(p) \/ CommandEnds(p)
       \/ PutArtifact(p) \/ AssertClaim(p) \/ PutAnchors(p) \/ ReportRemember(p)

RememberSpec == RememberInit /\ [][RememberNext]_rememberVars

-----------------------------------------------------------------------------
(* The invariant from which the properties follow.                         *)

StagedRows == [note : Notes \cup {Unstaged}, flagged : BOOLEAN]

OperationKeys == ({"caller", "checkpoint"} \X (Notes \cup {Unstaged})) \cup {ExplicitKey}

CommandRows ==
  [at : {"idle", "dropping", "read", "compiled", "placed", "anchoring", "reported", "refused"},
   read : StagedRows, title : {"caller", "checkpoint"}, consent : BOOLEAN,
   key : OperationKeys, compiler : CompilerIds \cup {Unstaged},
   plan : Plans \cup {{}}, todo : SUBSET Proposals, artifact : Nat, claim : Nat]

ClaimRows == [id : Nat, artifact : Nat,
              spans : {q[1] : q \in Proposals}, statement : {q[2] : q \in Proposals}]

RememberTypeOK ==
  /\ staged \in StagedRows
  /\ IsFiniteSet(keys)
  /\ claims \subseteq ClaimRows
  /\ command \in [RememberCommands -> CommandRows]

\* A key is recorded once, and no two records have the same id.
KeysOnce ==
  /\ \A r \in keys : r.id \in 1 .. Cardinality(keys)
  /\ \A r, s \in keys : r.key = s.key \/ r.id = s.id => r = s

\* What is recorded under a key is what was stored.
RecordedIsStored ==
  \A r \in keys :
    /\ r.key[2] = "artifact" =>
         \E a \in artifacts : a.id = r.id /\ a.note = r.payload[2] /\ a.compiler = r.payload[3]
    /\ r.key[2] = "claim" =>
         \E c \in claims : /\ c.id = r.id /\ c.artifact = r.payload[1]
                           /\ c.spans = r.payload[2] /\ c.statement = r.payload[3]

\* A claim was recorded under the operation that made its artifact.
ClaimsKeyed ==
  \A c \in claims :
    \E a, r \in keys : /\ a.id = c.artifact
                       /\ r.id = c.id
                       /\ r.key = <<a.key[1], "claim", c.spans>>
                       /\ r.payload = <<c.artifact, c.spans, c.statement>>

\* The claim of the artifact that a proposal asks for.
ClaimStored(artifact, proposal) ==
  \E c \in claims : /\ c.artifact = artifact
                    /\ c.spans = proposal[1] /\ c.statement = proposal[2]

\* A command that placed its artifact has the one of its key, and the claims
\* of all proposals that it has dealt with.
PlacedOK(c) ==
  /\ \E r \in keys : r.key = <<c.key, "artifact">> /\ r.id = c.artifact
  /\ \E a \in artifacts :
       a.id = c.artifact /\ a.note = c.read.note /\ a.compiler = c.compiler
  /\ \A proposal \in c.plan \ c.todo : ClaimStored(c.artifact, proposal)

CommandOK(c) ==
  /\ c.at \notin {"idle", "dropping"} =>
       c.read.note \in Notes /\ (c.read.note \in Flagged => c.consent)
  /\ c.todo \subseteq c.plan
  /\ c.at = "compiled" => c.todo = c.plan
  /\ c.at \in {"placed", "anchoring", "reported"} => PlacedOK(c)
  /\ c.at = "anchoring" =>
       \E proposal \in c.plan, stored \in claims :
         /\ stored.id = c.claim /\ stored.artifact = c.artifact
         /\ stored.spans = proposal[1] /\ stored.statement = proposal[2]
  /\ c.at = "reported" => c.todo = {}

CommandsOK == \A p \in RememberCommands : CommandOK(command[p])

\* The flags of a staged note are those of its text.
StagedOK == staged = NoNote \/ (staged.note \in Notes /\ staged.flagged = (staged.note \in Flagged))

-----------------------------------------------------------------------------
(* Properties.                                                             *)

\* The passages of a note become one claim each, however often and with
\* whatever compilations the command is run again under its key.
OneClaimPerPassage ==
  \A c, d \in claims : c.artifact = d.artifact /\ c.spans = d.spans => c = d

\* What a finished command reports is what the store holds: its note, made by
\* its compiler, and each claim of its plan, worded as the plan says, although
\* other commands wrote part of it.
ReportedIsStored ==
  \A p \in RememberCommands :
    command[p].at = "reported" =>
      /\ \E a \in artifacts : /\ a.id = command[p].artifact
                              /\ a.note = command[p].read.note
                              /\ a.compiler = command[p].compiler
      /\ \A proposal \in command[p].plan :
           \E c \in claims : /\ c.artifact = command[p].artifact
                             /\ c.spans = proposal[1] /\ c.statement = proposal[2]

\* A checkpoint with sensitive flags becomes memory only where its promotion
\* allowed them, although checkpoints are replaced while one is promoted.
FlaggedNeedsConsent == \A a \in artifacts : a.note \in Flagged => a.consented

\* The properties hold because of this.
RememberInv ==
  /\ RememberTypeOK /\ KeysOnce /\ RecordedIsStored /\ ClaimsKeyed
  /\ CommandsOK /\ StagedOK /\ FlaggedNeedsConsent
=============================================================================
