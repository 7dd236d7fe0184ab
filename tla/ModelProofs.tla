----------------------------- MODULE ModelProofs -----------------------------
(***************************************************************************)
(* Proofs about Remember, Compiler and Reranker, the clients of models.    *)
(* For any number of commands, texts, compilations and interruptions, a    *)
(* passage becomes one claim, a finished command reports what is stored,   *)
(* and flags are only overridden with consent; whatever becomes of         *)
(* accounts and catalogs, a discovery that failed changes no preference;   *)
(* and for any thresholds the breaker closes after enough probes in a row. *)
(***************************************************************************)
EXTENDS Remember, Compiler, Reranker, Search, ListLemmas, FiniteSetTheorems, TLAPS

-----------------------------------------------------------------------------
(* The idempotency records.                                                *)

\* A fresh key is recorded under an id that no other record has.
LEMMA RecordsKeys ==
  ASSUME IsFiniteSet(keys), KeysOnce, NEW key, NEW payload, Fresh(key), Records(key, payload)
  PROVE  /\ IsFiniteSet(keys') /\ KeysOnce'
         /\ NextId \in Nat /\ \A r \in keys : r.id # NextId /\ r.key # key
         /\ keys' = keys \cup {[key |-> key, payload |-> payload, id |-> NextId]}
  <1> DEFINE row == [key |-> key, payload |-> payload, id |-> NextId]
  <1>1. /\ row.key = key /\ row.payload = payload /\ row.id = NextId
        /\ keys' = keys \cup {row}
    BY DEF Records
  <1>2. Cardinality(keys) \in Nat /\ NextId = Cardinality(keys) + 1
    BY FS_CardinalityType DEF NextId
  <1>3. \A r \in keys : r.id \in 1 .. Cardinality(keys) /\ r.id # NextId /\ r.key # key
    BY <1>2 DEF KeysOnce, Fresh, Recorded
  <1> HIDE DEF row
  <1>4. row \notin keys
    BY <1>1, <1>3
  <1>5. IsFiniteSet(keys') /\ Cardinality(keys') = Cardinality(keys) + 1
    BY <1>1, <1>4, FS_AddElement
  <1>6. \A r \in keys' : r.id \in 1 .. Cardinality(keys')
    BY <1>1, <1>2, <1>3, <1>5
  <1>7. \A r, s \in keys' : r.key = s.key \/ r.id = s.id => r = s
    BY <1>1, <1>3 DEF KeysOnce
  <1>8. KeysOnce'
    BY <1>6, <1>7 DEF KeysOnce
  <1> QED BY <1>1, <1>2, <1>3, <1>5, <1>8 DEF row

\* A replayed key answers with the id of its record.
LEMMA IdOfRow ==
  ASSUME KeysOnce, NEW key, NEW payload, Replays(key, payload)
  PROVE  \E r \in keys : r.key = key /\ r.payload = payload /\ r.id = IdOf(key)
  <1>1. PICK r \in keys : r.key = key /\ r.payload = payload
    BY DEF Replays, Recorded
  <1>2. \A s \in Recorded(key) : s = r
    BY <1>1 DEF Recorded, KeysOnce
  <1>3. (CHOOSE s \in Recorded(key) : TRUE) = r
    <2>1. r \in Recorded(key)
      BY <1>1 DEF Recorded
    <2> QED BY <1>2, <2>1
  <1> QED BY <1>1, <1>3 DEF IdOf

-----------------------------------------------------------------------------
(* What does not disturb a command.                                        *)

StoreGrows == keys \subseteq keys' /\ artifacts \subseteq artifacts' /\ claims \subseteq claims'

LEMMA PlacedStays ==
  ASSUME NEW c, PlacedOK(c), StoreGrows
  PROVE  PlacedOK(c)'
  BY DEF PlacedOK, ClaimStored, StoreGrows

LEMMA CommandStays ==
  ASSUME NEW c, CommandOK(c), StoreGrows
  PROVE  CommandOK(c)'
  BY PlacedStays DEF CommandOK, StoreGrows

\* One command goes on, while the others find a store that has grown.
LEMMA CommandGoesOn ==
  ASSUME command \in [RememberCommands -> CommandRows], CommandsOK, StoreGrows,
         NEW p \in RememberCommands, NEW new \in CommandRows, CommandOK(new)',
         command' = [command EXCEPT ![p] = new]
  PROVE  command' \in [RememberCommands -> CommandRows] /\ CommandsOK'
  <1>1. /\ command' \in [RememberCommands -> CommandRows] /\ command'[p] = new
        /\ \A q \in RememberCommands \ {p} : command'[q] = command[q]
    OBVIOUS
  <1>2. ASSUME NEW q \in RememberCommands
        PROVE  CommandOK(command[q])'
    <2>1. CASE q = p
      BY <1>1, <2>1
    <2>2. CASE q # p
      <3>1. CommandOK(command[q])
        BY DEF CommandsOK
      <3> DEFINE c == command[q]
      <3>2. \A d : CommandOK(d) => CommandOK(d)'
        BY CommandStays
      <3> QED BY <1>1, <2>2, <3>1, <3>2
    <2> QED BY <2>1, <2>2
  <1> QED BY <1>1, <1>2 DEF CommandsOK

\* A step that leaves the store alone.
LEMMA StoreKept ==
  ASSUME RememberInv, UNCHANGED <<keys, artifacts, claims>>,
         command' \in [RememberCommands -> CommandRows], CommandsOK',
         staged' \in StagedRows, StagedOK'
  PROVE  RememberInv'
  <1>1. StoreGrows
    BY DEF StoreGrows
  <1>2. RememberTypeOK'
    BY DEF RememberInv, RememberTypeOK
  <1>3. KeysOnce' /\ RecordedIsStored' /\ ClaimsKeyed' /\ FlaggedNeedsConsent'
    BY DEF RememberInv, KeysOnce, RecordedIsStored, ClaimsKeyed, FlaggedNeedsConsent
  <1> QED BY <1>2, <1>3 DEF RememberInv

LEMMA NoCommandOK ==
  /\ NoCommand \in CommandRows /\ CommandOK(NoCommand)
  /\ NoCommand.at = "idle"
  <1>1. NoCommand \in CommandRows
    BY DEF NoCommand, CommandRows, NoNote, StagedRows, OperationKeys
  <1> QED BY <1>1 DEF NoCommand, CommandOK

\* A command ends, and the store is as it was.
LEMMA EndStep ==
  ASSUME RememberInv, NEW p \in RememberCommands, UNCHANGED <<staged, keys, artifacts, claims>>,
         command' = [command EXCEPT ![p] = NoCommand]
  PROVE  RememberInv'
  <1>1. CommandOK(NoCommand)'
    BY NoCommandOK, CommandStays DEF StoreGrows
  <1>2. command' \in [RememberCommands -> CommandRows] /\ CommandsOK'
    BY <1>1, NoCommandOK, CommandGoesOn DEF RememberInv, RememberTypeOK, StoreGrows
  <1> QED BY <1>2, StoreKept DEF RememberInv, RememberTypeOK, StagedOK

-----------------------------------------------------------------------------
(* Checkpoints, and commands before they write.                            *)

\* A command goes on, and the store is as it was.
LEMMA CommandStep ==
  ASSUME RememberInv, NEW p \in RememberCommands, UNCHANGED <<keys, artifacts, claims>>,
         staged' = staged \/ staged' = NoNote,
         NEW new \in CommandRows, CommandOK(new), command' = [command EXCEPT ![p] = new]
  PROVE  RememberInv'
  <1>1. CommandOK(new)'
    BY CommandStays DEF StoreGrows
  <1>2. command' \in [RememberCommands -> CommandRows] /\ CommandsOK'
    BY <1>1, CommandGoesOn DEF RememberInv, RememberTypeOK, StoreGrows
  <1>3. staged' \in StagedRows /\ StagedOK'
    <2>1. CASE staged' = staged
      BY <2>1 DEF RememberInv, RememberTypeOK, StagedOK
    <2>2. CASE staged' = NoNote
      <3>1. NoNote \in StagedRows
        BY DEF NoNote, StagedRows
      <3> QED BY <2>2, <3>1 DEF StagedOK
    <2> QED BY <2>1, <2>2
  <1> QED BY <1>2, <1>3, StoreKept

\* What is staged is replaced or removed.
LEMMA StagedStep ==
  ASSUME RememberInv, UNCHANGED <<keys, artifacts, claims, command>>,
         staged' \in StagedRows, StagedOK'
  PROVE  RememberInv'
  <1>1. CommandsOK'
    <2>1. ASSUME NEW q \in RememberCommands PROVE CommandOK(command[q])'
      <3>1. \A d : CommandOK(d) => CommandOK(d)'
        BY CommandStays DEF StoreGrows
      <3> QED BY <3>1 DEF RememberInv, CommandsOK
    <2> QED BY <2>1 DEF CommandsOK
  <1> QED BY <1>1, StoreKept DEF RememberInv, RememberTypeOK

LEMMA PutCheckpointStep ==
  ASSUME RememberInv, NEW note \in Notes, PutCheckpoint(note)
  PROVE  RememberInv'
  <1>1. staged' = [note |-> note, flagged |-> note \in Flagged]
    BY DEF PutCheckpoint
  <1>2. staged' \in StagedRows /\ StagedOK'
    BY <1>1 DEF StagedRows, StagedOK
  <1> QED BY <1>2, StagedStep DEF PutCheckpoint

\* The fields that a change of `at` leaves alone.
LEMMA AtChanged ==
  ASSUME NEW c \in CommandRows,
         NEW at \in {"idle", "dropping", "read", "compiled", "placed", "anchoring",
                     "reported", "refused"},
         NEW new, new = [c EXCEPT !.at = at]
  PROVE  /\ new \in CommandRows /\ new.at = at /\ new.read = c.read
         /\ new.title = c.title /\ new.consent = c.consent /\ new.key = c.key
         /\ new.compiler = c.compiler /\ new.plan = c.plan /\ new.todo = c.todo
         /\ new.artifact = c.artifact /\ new.claim = c.claim
  BY DEF CommandRows

LEMMA CommandTyped ==
  ASSUME RememberInv, NEW p \in RememberCommands
  PROVE  command[p] \in CommandRows /\ CommandOK(command[p])
  BY DEF RememberInv, RememberTypeOK, CommandsOK

\* A command whose `at` changes, to a state that asks nothing new of it.
LEMMA AtStep ==
  ASSUME RememberInv, NEW p \in RememberCommands,
         NEW at \in {"idle", "dropping", "refused", "reported"}, CommandAt(p, at),
         at = "refused" => command[p].at \notin {"idle", "dropping"},
         at = "reported" => command[p].at = "placed" /\ command[p].todo = {},
         UNCHANGED <<staged, keys, artifacts, claims>>
  PROVE  RememberInv'
  <1> DEFINE c == command[p]
             new == [c EXCEPT !.at = at]
  <1>1. c \in CommandRows /\ CommandOK(c)
    BY CommandTyped
  <1>2. /\ new \in CommandRows /\ new.at = at /\ new.read = c.read
        /\ new.title = c.title /\ new.consent = c.consent /\ new.key = c.key
        /\ new.compiler = c.compiler /\ new.plan = c.plan /\ new.todo = c.todo
        /\ new.artifact = c.artifact /\ new.claim = c.claim
    BY <1>1, AtChanged
  <1>3. command' = [command EXCEPT ![p] = new]
    BY DEF CommandAt
  <1> HIDE DEF new
  <1>4. CommandOK(new)
    BY <1>1, <1>2 DEF CommandOK, PlacedOK
  <1> QED BY <1>2, <1>3, <1>4, CommandStep

LEMMA DropRemovesStep ==
  ASSUME RememberInv, NEW p \in RememberCommands, DropRemoves(p)
  PROVE  RememberInv'
  <1> DEFINE c == command[p]
             new == [c EXCEPT !.at = "idle"]
  <1>1. c \in CommandRows /\ CommandOK(c)
    BY CommandTyped
  <1>2. /\ new \in CommandRows /\ new.at = "idle" /\ new.plan = c.plan /\ new.todo = c.todo
    BY <1>1, AtChanged
  <1>3. /\ command' = [command EXCEPT ![p] = new] /\ staged' = NoNote
        /\ UNCHANGED <<keys, artifacts, claims>>
    BY DEF CommandAt, DropRemoves
  <1> HIDE DEF new
  <1>4. CommandOK(new)
    BY <1>1, <1>2 DEF CommandOK
  <1> QED BY <1>2, <1>3, <1>4, CommandStep

LEMMA StartPromoteStep ==
  ASSUME RememberInv, NEW p \in RememberCommands, NEW consent \in BOOLEAN,
         NEW key \in {KeyOf("checkpoint", staged.note), ExplicitKey},
         StartPromote(p, consent, key)
  PROVE  RememberInv'
  <1> DEFINE new == [NoCommand EXCEPT !.at = "read", !.read = staged, !.title = "checkpoint",
                                      !.consent = consent, !.key = key]
  <1>1. /\ staged # NoNote /\ (staged.flagged <=> consent)
        /\ command' = [command EXCEPT ![p] = new]
        /\ UNCHANGED <<staged, keys, artifacts, claims>>
    BY DEF StartPromote
  <1>2. /\ staged \in StagedRows /\ staged.note \in Notes
        /\ staged.flagged = (staged.note \in Flagged)
    BY <1>1 DEF RememberInv, RememberTypeOK, StagedOK
  <1>3. key \in OperationKeys
    BY <1>2 DEF OperationKeys, KeyOf
  <1>4. /\ new \in CommandRows /\ new.at = "read" /\ new.read = staged
        /\ new.consent = consent /\ new.plan = {} /\ new.todo = {}
    BY <1>2, <1>3, NoCommandOK DEF CommandRows, NoCommand
  <1> HIDE DEF new
  <1>5. CommandOK(new)
    BY <1>1, <1>2, <1>4 DEF CommandOK
  <1> QED BY <1>1, <1>4, <1>5, CommandStep

LEMMA StartRememberStep ==
  ASSUME RememberInv, NEW p \in RememberCommands, NEW note \in Notes,
         NEW key \in {KeyOf("caller", note), ExplicitKey}, StartRemember(p, note, key)
  PROVE  RememberInv'
  <1> DEFINE read == [note |-> note, flagged |-> note \in Flagged]
             new == [NoCommand EXCEPT !.at = "read", !.consent = TRUE, !.key = key,
                                      !.read = read]
  <1>1. /\ command' = [command EXCEPT ![p] = new]
        /\ UNCHANGED <<staged, keys, artifacts, claims>>
    BY DEF StartRemember
  <1>2. read \in StagedRows /\ read.note = note
    BY DEF StagedRows
  <1>3. key \in OperationKeys
    BY DEF OperationKeys, KeyOf
  <1> HIDE DEF read
  <1>4. /\ new \in CommandRows /\ new.at = "read" /\ new.read = read
        /\ new.consent = TRUE /\ new.plan = {} /\ new.todo = {}
    BY <1>2, <1>3, NoCommandOK DEF CommandRows, NoCommand
  <1> HIDE DEF new
  <1>5. CommandOK(new)
    BY <1>2, <1>4 DEF CommandOK
  <1> QED BY <1>1, <1>4, <1>5, CommandStep

LEMMA CompileNoteStep ==
  ASSUME RememberInv, NEW p \in RememberCommands, CompileNote(p)
  PROVE  RememberInv'
  <1> DEFINE c == command[p]
  <1>1. c \in CommandRows /\ CommandOK(c)
    BY CommandTyped
  <1>2. PICK plan \in Compilations[PromotedNote(p)], id \in CompilerIds :
          command' = [command EXCEPT ![p].at = "compiled", ![p].plan = plan, ![p].todo = plan,
                                     ![p].read = [@ EXCEPT !.note = PromotedNote(p)],
                                     ![p].compiler = id]
    BY DEF CompileNote
  <1>3. c.at = "read" /\ PromotedNote(p) = c.read.note /\ c.read.note \in Notes
    BY <1>1 DEF CompileNote, PromotedNote, CommandOK
  <1>4. plan \in Plans /\ plan \subseteq Proposals
    BY <1>2, <1>3 DEF Plans, Proposals
  <1> DEFINE read == [c.read EXCEPT !.note = c.read.note]
             new == [c EXCEPT !.at = "compiled", !.plan = plan, !.todo = plan,
                              !.read = read, !.compiler = id]
  <1>5. read \in StagedRows /\ read.note = c.read.note
    <2>1. c.read \in StagedRows
      BY <1>1 DEF CommandRows
    <2> QED BY <2>1 DEF StagedRows
  <1>6. command' = [command EXCEPT ![p] = new]
    <2>1. command \in [RememberCommands -> CommandRows]
      BY DEF RememberInv, RememberTypeOK
    <2> QED BY <1>2, <1>3, <2>1
  <1> HIDE DEF read
  <1>7. /\ new \in CommandRows /\ new.at = "compiled" /\ new.read = read
        /\ new.consent = c.consent /\ new.plan = plan /\ new.todo = plan
    BY <1>1, <1>4, <1>5 DEF CommandRows
  <1> HIDE DEF new
  <1>8. CommandOK(new)
    BY <1>1, <1>3, <1>5, <1>7 DEF CommandOK
  <1>9. UNCHANGED <<staged, keys, artifacts, claims>>
    BY DEF CompileNote
  <1> QED BY <1>6, <1>7, <1>8, <1>9, CommandStep

LEMMA CommandEndsStep ==
  ASSUME RememberInv, NEW p \in RememberCommands, CommandEnds(p)
  PROVE  RememberInv'
  BY EndStep DEF CommandEnds

LEMMA DropReadsStep ==
  ASSUME RememberInv, NEW p \in RememberCommands, DropReads(p)
  PROVE  RememberInv'
  BY AtStep DEF DropReads

LEMMA ReportStep ==
  ASSUME RememberInv, NEW p \in RememberCommands, ReportRemember(p)
  PROVE  RememberInv'
  BY AtStep DEF ReportRemember

LEMMA RefusedStep ==
  ASSUME RememberInv, NEW p \in RememberCommands, Refused(p),
         command[p].at \in {"compiled", "placed"},
         UNCHANGED <<staged, keys, artifacts, claims>>
  PROVE  RememberInv'
  BY AtStep DEF Refused, CommandAt

-----------------------------------------------------------------------------
(* The mutations.                                                          *)

\* The command that goes on from a mutation, or ends.
LEMMA CommandsGoOn ==
  ASSUME RememberInv, StoreGrows, NEW p \in RememberCommands,
         NEW new \in CommandRows, CommandOK(new)',
         \/ command' = [command EXCEPT ![p] = new]
         \/ command' = [command EXCEPT ![p] = NoCommand]
  PROVE  command' \in [RememberCommands -> CommandRows] /\ CommandsOK'
  <1>1. command \in [RememberCommands -> CommandRows] /\ CommandsOK
    BY DEF RememberInv, RememberTypeOK
  <1>2. NoCommand \in CommandRows /\ CommandOK(NoCommand)'
    BY NoCommandOK, CommandStays
  <1>3. CASE command' = [command EXCEPT ![p] = new]
    BY <1>1, <1>3, CommandGoesOn
  <1>4. CASE command' = [command EXCEPT ![p] = NoCommand]
    BY <1>1, <1>2, <1>4, CommandGoesOn
  <1> QED BY <1>3, <1>4

\* The command that has its artifact.
LEMMA PlacedCommand ==
  ASSUME RememberInv, StoreGrows, NEW p \in RememberCommands,
         command[p].at = "compiled", NEW id \in Nat,
         \E r \in keys' : r.key = ArtifactKey(p) /\ r.id = id,
         \E a \in artifacts' : /\ a.id = id /\ a.note = command[p].read.note
                               /\ a.compiler = command[p].compiler,
         Placed(p, id) \/ command' = [command EXCEPT ![p] = NoCommand]
  PROVE  command' \in [RememberCommands -> CommandRows] /\ CommandsOK'
  <1> DEFINE c == command[p]
             new == [c EXCEPT !.at = "placed", !.artifact = id]
  <1>1. c \in CommandRows /\ CommandOK(c)
    BY CommandTyped
  <1>2. /\ new \in CommandRows /\ new.at = "placed" /\ new.read = c.read /\ new.artifact = id
        /\ new.consent = c.consent /\ new.key = c.key /\ new.compiler = c.compiler
        /\ new.plan = c.plan /\ new.todo = c.todo
    BY <1>1 DEF CommandRows
  <1>3. \/ command' = [command EXCEPT ![p] = new]
        \/ command' = [command EXCEPT ![p] = NoCommand]
    BY DEF Placed, RememberInv, RememberTypeOK
  <1>4. c.todo = c.plan /\ c.read.note \in Notes /\ (c.read.note \in Flagged => c.consent)
    BY <1>1 DEF CommandOK
  <1>5. /\ \E r \in keys' : r.key = <<c.key, "artifact">> /\ r.id = id
        /\ \E a \in artifacts' : a.id = id /\ a.note = c.read.note /\ a.compiler = c.compiler
    BY DEF ArtifactKey
  <1> HIDE DEF new
  <1>6. \A d : /\ d = new
               => CommandOK(d)'
    <2> SUFFICES ASSUME NEW d, d = new PROVE CommandOK(d)'
      OBVIOUS
    <2>1. PlacedOK(d)'
      BY <1>2, <1>4, <1>5 DEF PlacedOK
    <2> QED BY <1>2, <1>4, <2>1 DEF CommandOK
  <1>7. PICK d : d = new
    OBVIOUS
  <1> QED BY <1>2, <1>3, <1>6, <1>7, CommandsGoOn

LEMMA PutArtifactStep ==
  ASSUME RememberInv, NEW p \in RememberCommands, PutArtifact(p)
  PROVE  RememberInv'
  <1> DEFINE c == command[p]
             row == [key |-> ArtifactKey(p), payload |-> ArtifactPayload(p), id |-> NextId]
             stored == [id |-> NextId, note |-> c.read.note, compiler |-> c.compiler,
                        consented |-> c.consent]
  <1>1. c \in CommandRows /\ CommandOK(c) /\ c.at = "compiled" /\ UNCHANGED <<staged, claims>>
    BY CommandTyped DEF PutArtifact
  <1>2. IsFiniteSet(keys) /\ KeysOnce
    BY DEF RememberInv, RememberTypeOK
  <1>3. CASE /\ Fresh(ArtifactKey(p))
             /\ Records(ArtifactKey(p), ArtifactPayload(p))
             /\ artifacts' = artifacts \cup {stored}
             /\ Placed(p, NextId) \/ command' = [command EXCEPT ![p] = NoCommand]
    <2>1. /\ IsFiniteSet(keys') /\ KeysOnce' /\ NextId \in Nat
          /\ keys' = keys \cup {row}
      BY <1>2, <1>3, RecordsKeys
    <2>2. /\ row.key = ArtifactKey(p) /\ row.id = NextId
          /\ row.key[2] = "artifact" /\ row.payload[2] = c.read.note /\ row.payload[3] = c.compiler
      BY DEF ArtifactKey, ArtifactPayload
    <2>3. /\ stored.id = NextId /\ stored.note = c.read.note
          /\ stored.compiler = c.compiler /\ stored.consented = c.consent
          /\ artifacts' = artifacts \cup {stored}
      BY <1>3
    <2>4. NextId \in Nat /\ (Placed(p, NextId) \/ command' = [command EXCEPT ![p] = NoCommand])
      BY <1>3, <2>1
    <2> HIDE DEF row, stored
    <2>5. StoreGrows
      BY <1>1, <2>1, <2>3 DEF StoreGrows
    <2>6. RecordedIsStored' /\ ClaimsKeyed'
      <3>1. RecordedIsStored'
        BY <1>1, <2>1, <2>2, <2>3 DEF RememberInv, RecordedIsStored
      <3>2. ClaimsKeyed'
        <4>1. keys \subseteq keys' /\ claims' = claims
          BY <1>1, <2>5 DEF StoreGrows
        <4> QED BY <4>1 DEF RememberInv, ClaimsKeyed
      <3> QED BY <3>1, <3>2
    <2>7. FlaggedNeedsConsent'
      BY <1>1, <2>3 DEF RememberInv, FlaggedNeedsConsent, CommandOK
    <2>8. command' \in [RememberCommands -> CommandRows] /\ CommandsOK'
      <3>1. \E r \in keys' : r.key = ArtifactKey(p) /\ r.id = NextId
        BY <2>1, <2>2
      <3>2. \E a \in artifacts' : a.id = NextId /\ a.note = c.read.note /\ a.compiler = c.compiler
        BY <2>3
      <3> QED BY <1>1, <2>4, <2>5, <3>1, <3>2, PlacedCommand
    <2> QED BY <1>1, <2>1, <2>6, <2>7, <2>8 DEF RememberInv, RememberTypeOK, StagedOK
  <1>4. CASE /\ Replays(ArtifactKey(p), ArtifactPayload(p))
             /\ Placed(p, IdOf(ArtifactKey(p))) /\ UNCHANGED <<keys, artifacts>>
    <2>1. PICK r \in keys : /\ r.key = ArtifactKey(p) /\ r.payload = ArtifactPayload(p)
                            /\ r.id = IdOf(ArtifactKey(p))
      BY <1>2, <1>4, IdOfRow
    <2>2. IdOf(ArtifactKey(p)) \in Nat
      BY <1>2, <2>1, FS_CardinalityType DEF KeysOnce
    <2>3. \E a \in artifacts : /\ a.id = IdOf(ArtifactKey(p)) /\ a.note = c.read.note
                               /\ a.compiler = c.compiler
      BY <2>1 DEF RememberInv, RecordedIsStored, ArtifactKey, ArtifactPayload
    <2>4. StoreGrows
      BY <1>1, <1>4 DEF StoreGrows
    <2>5. command' \in [RememberCommands -> CommandRows] /\ CommandsOK'
      BY <1>1, <1>4, <2>1, <2>2, <2>3, <2>4, PlacedCommand
    <2> QED BY <1>1, <1>4, <2>5, StoreKept DEF RememberInv, RememberTypeOK, StagedOK
  <1>5. CASE Refused(p) /\ UNCHANGED <<keys, artifacts>>
    BY <1>1, <1>5, RefusedStep
  <1> QED BY <1>3, <1>4, <1>5 DEF PutArtifact

\* The command that has a claim for the proposal.
LEMMA AssertedCommand ==
  ASSUME RememberInv, StoreGrows, NEW p \in RememberCommands, command[p].at = "placed",
         NEW proposal \in command[p].todo, NEW id \in Nat,
         NEW stored \in claims',
         stored.id = id, stored.artifact = command[p].artifact,
         stored.spans = proposal[1], stored.statement = proposal[2],
         Asserted(p, proposal, id) \/ command' = [command EXCEPT ![p] = NoCommand]
  PROVE  command' \in [RememberCommands -> CommandRows] /\ CommandsOK'
  <1> DEFINE c == command[p]
             at == IF proposal[3] = {} THEN "placed" ELSE "anchoring"
             todo == IF proposal[3] = {} THEN c.todo \ {proposal} ELSE {proposal} \cup c.todo
             new == [c EXCEPT !.at = at, !.claim = id, !.todo = todo]
  <1>1. c \in CommandRows /\ CommandOK(c) /\ c.todo \in SUBSET Proposals
    BY CommandTyped DEF CommandRows
  <1>2. at \in {"placed", "anchoring"} /\ todo \in SUBSET Proposals
    BY <1>1
  <1>3. todo \subseteq c.plan /\ c.todo \ {proposal} \subseteq todo /\ proposal \in c.plan
    BY <1>1 DEF CommandOK
  <1>4. \/ command' = [command EXCEPT ![p] = new]
        \/ command' = [command EXCEPT ![p] = NoCommand]
    BY DEF Asserted, RememberInv, RememberTypeOK
  <1> HIDE DEF at, todo
  <1>5. /\ new \in CommandRows /\ new.at = at /\ new.read = c.read /\ new.artifact = c.artifact
        /\ new.consent = c.consent /\ new.key = c.key /\ new.compiler = c.compiler
        /\ new.plan = c.plan /\ new.todo = todo /\ new.claim = id
    BY <1>1, <1>2 DEF CommandRows
  <1> HIDE DEF new
  <1>6. PICK before : before = c
    OBVIOUS
  <1>7. PlacedOK(before)' /\ c.read.note \in Notes /\ (c.read.note \in Flagged => c.consent)
    <2>1. PlacedOK(before) /\ c.read.note \in Notes /\ (c.read.note \in Flagged => c.consent)
      BY <1>1, <1>6 DEF CommandOK
    <2> QED BY <2>1, PlacedStays
  <1>8. PICK after : after = new
    OBVIOUS
  <1>9. CommandOK(after)'
    <2>1. ASSUME NEW q \in after.plan \ after.todo
          PROVE  ClaimStored(after.artifact, q)'
      <3>1. CASE q = proposal
        BY <1>5, <1>8, <3>1 DEF ClaimStored
      <3>2. CASE q # proposal
        <4>1. q \in before.plan \ before.todo
          BY <1>3, <1>5, <1>6, <1>8, <3>2
        <4>2. ClaimStored(before.artifact, q)'
          BY <1>7, <4>1 DEF PlacedOK
        <4> QED BY <1>5, <1>6, <1>8, <4>2
      <3> QED BY <3>1, <3>2
    <2>2. PlacedOK(after)'
      BY <1>5, <1>6, <1>7, <1>8, <2>1 DEF PlacedOK
    <2> QED BY <1>2, <1>3, <1>5, <1>7, <1>8, <2>2 DEF CommandOK
  <1> QED BY <1>4, <1>5, <1>8, <1>9, CommandsGoOn

LEMMA AssertClaimStep ==
  ASSUME RememberInv, NEW p \in RememberCommands, AssertClaim(p)
  PROVE  RememberInv'
  <1> DEFINE c == command[p]
  <1>1. /\ c \in CommandRows /\ CommandOK(c) /\ c.at = "placed" /\ PlacedOK(c)
        /\ UNCHANGED <<staged, artifacts>>
    BY CommandTyped DEF AssertClaim, CommandOK
  <1>2. IsFiniteSet(keys) /\ KeysOnce
    BY DEF RememberInv, RememberTypeOK
  <1>3. PICK proposal \in c.todo :
          \/ /\ Fresh(ClaimKey(p, proposal))
             /\ Records(ClaimKey(p, proposal), ClaimPayload(p, proposal))
             /\ claims' = claims \cup {[id |-> NextId, artifact |-> command[p].artifact,
                                        spans |-> proposal[1], statement |-> proposal[2]]}
             /\ \/ Asserted(p, proposal, NextId)
                \/ command' = [command EXCEPT ![p] = NoCommand]
          \/ /\ Replays(ClaimKey(p, proposal), ClaimPayload(p, proposal))
             /\ Asserted(p, proposal, IdOf(ClaimKey(p, proposal))) /\ UNCHANGED <<keys, claims>>
          \/ Refused(p) /\ UNCHANGED <<keys, claims>>
    BY DEF AssertClaim
  <1> DEFINE key == ClaimKey(p, proposal)
             payload == ClaimPayload(p, proposal)
             row == [key |-> key, payload |-> payload, id |-> NextId]
             stored == [id |-> NextId, artifact |-> c.artifact,
                        spans |-> proposal[1], statement |-> proposal[2]]
  <1>4. /\ key = <<c.key, "claim", proposal[1]>>
        /\ payload = <<c.artifact, proposal[1], proposal[2]>>
        /\ proposal \in Proposals /\ c.artifact \in Nat
    BY <1>1 DEF ClaimKey, ClaimPayload, CommandRows
  <1>5. CASE /\ Fresh(key) /\ Records(key, payload) /\ claims' = claims \cup {stored}
             /\ Asserted(p, proposal, NextId) \/ command' = [command EXCEPT ![p] = NoCommand]
    <2>1. /\ IsFiniteSet(keys') /\ KeysOnce' /\ NextId \in Nat
          /\ keys' = keys \cup {row}
      BY <1>2, <1>5, RecordsKeys
    <2>2. /\ row.key = <<c.key, "claim", proposal[1]>> /\ row.id = NextId
          /\ row.payload = <<c.artifact, proposal[1], proposal[2]>>
      BY <1>4
    <2>3. /\ stored.id = NextId /\ stored.artifact = c.artifact
          /\ stored.spans = proposal[1] /\ stored.statement = proposal[2]
          /\ claims' = claims \cup {stored}
      BY <1>5
    <2>4. stored \in ClaimRows
      BY <1>4, <2>1 DEF ClaimRows
    <2>5. Asserted(p, proposal, NextId) \/ command' = [command EXCEPT ![p] = NoCommand]
      BY <1>5
    <2> HIDE DEF row, stored, key, payload
    <2>6. StoreGrows
      BY <1>1, <2>1, <2>3 DEF StoreGrows
    <2>7. RecordedIsStored'
      <3>1. ASSUME NEW r \in keys'
            PROVE  /\ r.key[2] = "artifact" =>
                       \E a \in artifacts' : /\ a.id = r.id /\ a.note = r.payload[2]
                                             /\ a.compiler = r.payload[3]
                   /\ r.key[2] = "claim" =>
                       \E d \in claims' : /\ d.id = r.id /\ d.artifact = r.payload[1]
                                          /\ d.spans = r.payload[2] /\ d.statement = r.payload[3]
        <4>1. CASE r \in keys
          BY <4>1, <2>6 DEF RememberInv, RecordedIsStored, StoreGrows
        <4>2. CASE r = row
          BY <4>2, <2>2, <2>3
        <4> QED BY <2>1, <4>1, <4>2
      <3> QED BY <3>1 DEF RecordedIsStored
    <2>8. ClaimsKeyed'
      <3>1. ASSUME NEW d \in claims'
            PROVE  \E a, r \in keys' : /\ a.id = d.artifact /\ r.id = d.id
                                       /\ r.key = <<a.key[1], "claim", d.spans>>
                                       /\ r.payload = <<d.artifact, d.spans, d.statement>>
        <4>1. CASE d \in claims
          BY <4>1, <2>6 DEF RememberInv, ClaimsKeyed, StoreGrows
        <4>2. CASE d = stored
          <5>1. PICK a \in keys : a.key = <<c.key, "artifact">> /\ a.id = c.artifact
            BY <1>1 DEF PlacedOK
          <5>2. a.key[1] = c.key /\ a \in keys' /\ row \in keys'
            BY <2>1, <5>1
          <5> QED BY <2>2, <2>3, <4>2, <5>1, <5>2
        <4> QED BY <2>3, <4>1, <4>2
      <3> QED BY <3>1 DEF ClaimsKeyed
    <2>9. command' \in [RememberCommands -> CommandRows] /\ CommandsOK'
      BY <1>1, <2>1, <2>3, <2>5, <2>6, AssertedCommand
    <2>10. FlaggedNeedsConsent' /\ claims' \subseteq ClaimRows
      BY <1>1, <2>3, <2>4 DEF RememberInv, FlaggedNeedsConsent, RememberTypeOK
    <2> QED BY <1>1, <2>1, <2>7, <2>8, <2>9, <2>10 DEF RememberInv, RememberTypeOK, StagedOK
  <1>6. CASE /\ Replays(key, payload)
             /\ Asserted(p, proposal, IdOf(key)) /\ UNCHANGED <<keys, claims>>
    <2>1. PICK r \in keys : r.key = key /\ r.payload = payload /\ r.id = IdOf(key)
      BY <1>2, <1>6, IdOfRow
    <2>2. IdOf(key) \in Nat
      BY <1>2, <2>1, FS_CardinalityType DEF KeysOnce
    <2>3. PICK d \in claims : /\ d.id = r.id /\ d.artifact = r.payload[1]
                              /\ d.spans = r.payload[2] /\ d.statement = r.payload[3]
      BY <1>4, <2>1 DEF RememberInv, RecordedIsStored
    <2>4. StoreGrows /\ d \in claims'
      BY <1>1, <1>6 DEF StoreGrows
    <2>5. /\ d.id = IdOf(key) /\ d.artifact = c.artifact
          /\ d.spans = proposal[1] /\ d.statement = proposal[2]
      BY <1>4, <2>1, <2>3
    <2>6. Asserted(p, proposal, IdOf(key)) /\ UNCHANGED <<keys, claims>>
      BY <1>6
    <2> HIDE DEF key, payload
    <2>7. command' \in [RememberCommands -> CommandRows] /\ CommandsOK'
      BY <1>1, <2>2, <2>4, <2>5, <2>6, AssertedCommand
    <2> QED BY <1>1, <2>6, <2>7, StoreKept DEF RememberInv, RememberTypeOK, StagedOK
  <1>7. CASE Refused(p) /\ UNCHANGED <<keys, claims>>
    BY <1>1, <1>7, RefusedStep
  <1> QED BY <1>3, <1>5, <1>6, <1>7

\* An id names one claim, and a passage of an artifact has one.
LEMMA ClaimsOnce ==
  RememberInv =>
    \A c, d \in claims :
      c.id = d.id \/ (c.artifact = d.artifact /\ c.spans = d.spans) => c = d
  <1> SUFFICES ASSUME RememberInv, NEW c \in claims, NEW d \in claims,
                      c.id = d.id \/ (c.artifact = d.artifact /\ c.spans = d.spans)
               PROVE  c = d
    OBVIOUS
  <1>1. PICK a, r \in keys : /\ a.id = c.artifact /\ r.id = c.id
                             /\ r.key = <<a.key[1], "claim", c.spans>>
                             /\ r.payload = <<c.artifact, c.spans, c.statement>>
    BY DEF RememberInv, ClaimsKeyed
  <1>2. PICK b, s \in keys : /\ b.id = d.artifact /\ s.id = d.id
                             /\ s.key = <<b.key[1], "claim", d.spans>>
                             /\ s.payload = <<d.artifact, d.spans, d.statement>>
    BY DEF RememberInv, ClaimsKeyed
  <1>3. r = s
    <2>1. CASE c.id = d.id
      BY <1>1, <1>2, <2>1 DEF RememberInv, KeysOnce
    <2>2. CASE c.artifact = d.artifact /\ c.spans = d.spans
      <3>1. a = b
        BY <1>1, <1>2, <2>2 DEF RememberInv, KeysOnce
      <3> QED BY <1>1, <1>2, <2>2, <3>1 DEF RememberInv, KeysOnce
    <2> QED BY <2>1, <2>2
  <1>4. c \in ClaimRows /\ d \in ClaimRows
    BY DEF RememberInv, RememberTypeOK
  <1>5. c.id = d.id /\ c.artifact = d.artifact /\ c.spans = d.spans /\ c.statement = d.statement
    BY <1>1, <1>2, <1>3
  <1> QED BY <1>4, <1>5 DEF ClaimRows

LEMMA PutAnchorsStep ==
  ASSUME RememberInv, NEW p \in RememberCommands, PutAnchors(p)
  PROVE  RememberInv'
  <1> DEFINE c == command[p]
  <1>1. /\ c \in CommandRows /\ CommandOK(c) /\ c.at = "anchoring" /\ PlacedOK(c)
        /\ UNCHANGED <<staged, artifacts, claims>>
    BY CommandTyped DEF PutAnchors, CommandOK
  <1>2. IsFiniteSet(keys) /\ KeysOnce
    BY DEF RememberInv, RememberTypeOK
  <1>3. PICK proposal \in c.todo :
          /\ \E d \in claims : d.id = c.claim /\ d.spans = proposal[1] /\ d.statement = proposal[2]
          /\ \/ /\ Fresh(AnchorKey(p, proposal))
                /\ Records(AnchorKey(p, proposal), <<c.claim, proposal[3], c.compiler>>)
             \/ UNCHANGED keys
          /\ command' = [command EXCEPT ![p].at = "placed", ![p].todo = @ \ {proposal}]
    BY DEF PutAnchors
  <1>4. ClaimStored(c.artifact, proposal)
    <2>1. PICK d \in claims : /\ d.id = c.claim
                              /\ d.spans = proposal[1] /\ d.statement = proposal[2]
      BY <1>3
    <2>2. PICK stored \in claims : stored.id = c.claim /\ stored.artifact = c.artifact
      BY <1>1 DEF CommandOK
    <2>3. d = stored
      BY <2>1, <2>2, ClaimsOnce
    <2> QED BY <2>1, <2>2, <2>3 DEF ClaimStored
  <1>5. IsFiniteSet(keys') /\ KeysOnce' /\ RecordedIsStored' /\ keys \subseteq keys'
    <2>1. CASE /\ Fresh(AnchorKey(p, proposal))
               /\ Records(AnchorKey(p, proposal), <<c.claim, proposal[3], c.compiler>>)
      <3> DEFINE key == AnchorKey(p, proposal)
                 payload == <<c.claim, proposal[3], c.compiler>>
                 row == [key |-> key, payload |-> payload, id |-> NextId]
      <3>1. key[2] = "anchors"
        BY DEF AnchorKey
      <3> HIDE DEF key, payload
      <3>2. IsFiniteSet(keys') /\ KeysOnce' /\ keys' = keys \cup {row}
        BY <1>2, <2>1, RecordsKeys DEF key, payload
      <3>3. row.key = key
        OBVIOUS
      <3> HIDE DEF row
      <3>4. RecordedIsStored'
        BY <1>1, <3>1, <3>2, <3>3 DEF RememberInv, RecordedIsStored
      <3> QED BY <3>2, <3>4
    <2>2. CASE UNCHANGED keys
      BY <1>1, <1>2, <2>2 DEF RememberInv, RecordedIsStored, KeysOnce
    <2> QED BY <1>3, <2>1, <2>2
  <1>6. StoreGrows
    BY <1>1, <1>5 DEF StoreGrows
  <1> DEFINE todo == c.todo \ {proposal}
             new == [c EXCEPT !.at = "placed", !.todo = todo]
  <1>7. command' = [command EXCEPT ![p] = new]
    BY <1>3 DEF RememberInv, RememberTypeOK
  <1>8. /\ new \in CommandRows /\ new.at = "placed" /\ new.read = c.read
        /\ new.artifact = c.artifact /\ new.consent = c.consent /\ new.key = c.key
        /\ new.compiler = c.compiler /\ new.plan = c.plan /\ new.todo = todo
    BY <1>1 DEF CommandRows
  <1> HIDE DEF new
  <1>9. CommandOK(new)
    <2>1. ASSUME NEW q \in new.plan \ new.todo
          PROVE  ClaimStored(new.artifact, q)
      <3>1. CASE q = proposal
        BY <1>4, <1>8, <3>1
      <3>2. CASE q # proposal
        BY <1>1, <1>8, <3>2 DEF PlacedOK
      <3> QED BY <3>1, <3>2
    <2>2. PlacedOK(new)
      BY <1>1, <1>8, <2>1 DEF PlacedOK
    <2> QED BY <1>1, <1>8, <2>2 DEF CommandOK
  <1>10. command' \in [RememberCommands -> CommandRows] /\ CommandsOK'
    <2>1. PICK after : after = new
      OBVIOUS
    <2>2. CommandOK(after)'
      BY <1>6, <1>9, <2>1, CommandStays
    <2> QED BY <1>6, <1>7, <1>8, <2>1, <2>2, CommandsGoOn
  <1>11. ClaimsKeyed' /\ FlaggedNeedsConsent'
    BY <1>1, <1>5 DEF RememberInv, ClaimsKeyed, FlaggedNeedsConsent
  <1> QED BY <1>1, <1>5, <1>10, <1>11 DEF RememberInv, RememberTypeOK, StagedOK

-----------------------------------------------------------------------------
(* The specification.                                                      *)

LEMMA RememberInitInv == RememberInit => RememberInv
  <1> SUFFICES ASSUME RememberInit PROVE RememberInv
    OBVIOUS
  <1>1. NoNote \in StagedRows
    BY DEF NoNote, StagedRows
  <1>2. RememberTypeOK
    BY <1>1, NoCommandOK, FS_EmptySet DEF RememberInit, RememberTypeOK
  <1>3. CommandsOK
    BY NoCommandOK DEF RememberInit, CommandsOK
  <1>4. KeysOnce /\ RecordedIsStored /\ ClaimsKeyed /\ StagedOK /\ FlaggedNeedsConsent
    BY DEF RememberInit, KeysOnce, RecordedIsStored, ClaimsKeyed, StagedOK, FlaggedNeedsConsent
  <1> QED BY <1>2, <1>3, <1>4 DEF RememberInv

LEMMA RememberStepInv == RememberInv /\ [RememberNext]_rememberVars => RememberInv'
  <1> SUFFICES ASSUME RememberInv, [RememberNext]_rememberVars PROVE RememberInv'
    OBVIOUS
  <1>1. ASSUME NEW note \in Notes, PutCheckpoint(note) PROVE RememberInv'
    BY <1>1, PutCheckpointStep
  <1>2. ASSUME NEW p \in RememberCommands,
               DropReads(p) \/ DropRemoves(p) \/ CompileNote(p) \/ CommandEnds(p)
        PROVE  RememberInv'
    BY <1>2, DropReadsStep, DropRemovesStep, CompileNoteStep, CommandEndsStep
  <1>3. ASSUME NEW p \in RememberCommands,
               \/ \E consent \in BOOLEAN, key \in {KeyOf("checkpoint", staged.note), ExplicitKey} :
                    StartPromote(p, consent, key)
               \/ \E note \in Notes : \E key \in {KeyOf("caller", note), ExplicitKey} :
                    StartRemember(p, note, key)
        PROVE  RememberInv'
    BY <1>3, StartPromoteStep, StartRememberStep
  <1>4. ASSUME NEW p \in RememberCommands,
               PutArtifact(p) \/ AssertClaim(p) \/ PutAnchors(p) \/ ReportRemember(p)
        PROVE  RememberInv'
    BY <1>4, PutArtifactStep, AssertClaimStep, PutAnchorsStep, ReportStep
  <1>5. CASE UNCHANGED rememberVars
    <2>1. staged' \in StagedRows /\ StagedOK' /\ UNCHANGED <<keys, artifacts, claims, command>>
      BY <1>5 DEF rememberVars, RememberInv, RememberTypeOK, StagedOK
    <2> QED BY <2>1, StagedStep
  <1> QED BY <1>1, <1>2, <1>3, <1>4, <1>5 DEF RememberNext

\* Whatever commands, interruptions and answers of the compiler come: what is
\* recorded under a key is what was stored for it, and a command that goes on
\* has the artifact of its key and the claims it is done with.
THEOREM RememberInvHolds == RememberSpec => []RememberInv
  BY RememberInitInv, RememberStepInv, PTL DEF RememberSpec

\* A passage of an artifact is one claim, for any number of commands that are
\* run again under one key with whatever the compiler answers.
THEOREM PassageIsOneClaim == RememberSpec => []OneClaimPerPassage
  <1>1. RememberInv => OneClaimPerPassage
    BY ClaimsOnce DEF OneClaimPerPassage
  <1> QED BY <1>1, RememberInvHolds, PTL

\* A command that finished reports the artifact of its note, and a claim that
\* is worded as its plan says for every proposal, whoever wrote them.
THEOREM ReportIsStored == RememberSpec => []ReportedIsStored
  <1>1. RememberInv => ReportedIsStored
    <2> SUFFICES ASSUME RememberInv, NEW p \in RememberCommands, command[p].at = "reported"
                 PROVE  /\ \E a \in artifacts : /\ a.id = command[p].artifact
                                                /\ a.note = command[p].read.note
                                                /\ a.compiler = command[p].compiler
                        /\ \A proposal \in command[p].plan :
                             \E c \in claims : /\ c.artifact = command[p].artifact
                                               /\ c.spans = proposal[1]
                                               /\ c.statement = proposal[2]
      BY DEF ReportedIsStored
    <2>1. PlacedOK(command[p]) /\ command[p].todo = {}
      BY CommandTyped DEF CommandOK
    <2> QED BY <2>1 DEF PlacedOK, ClaimStored
  <1> QED BY <1>1, RememberInvHolds, PTL

\* A flagged text is only stored by a command that was told to.
THEOREM FlagsAreOverridden == RememberSpec => []FlaggedNeedsConsent
  <1>1. RememberInv => FlaggedNeedsConsent
    BY DEF RememberInv
  <1> QED BY <1>1, RememberInvHolds, PTL

-----------------------------------------------------------------------------
(* Compiler.                                                               *)

LEMMA RunTyped ==
  ASSUME CompilerInv, NEW p \in CompilerCommands
  PROVE  run[p] \in Runs /\ run \in [CompilerCommands -> Runs]
  BY DEF CompilerInv, CompilerTypeOK

LEMMA NoRunTyped == NoRun \in Runs /\ NoRun.at = "idle"
  BY DEF NoRun, Runs, Unseen, ProviderStatuses

\* What a compilation of a command depends on, apart from where it stands.
OfferedBy(c, choice) ==
  /\ ~\E v \in Providers : c.seen[v].state = "catalog_unavailable"
  /\ c.seen[choice.provider].state = "ready" /\ choice.provider \in Providers
  /\ choice.model \in c.seen[choice.provider].models \ Floating

RunOK(c) ==
  c.at = "compiling" =>
    c.chosen \in Selections /\ (c.chosen.origin = "api_key" \/ OfferedBy(c, c.chosen))

LEMMA OfferedMeans ==
  ASSUME NEW p \in CompilerCommands, NEW choice
  PROVE  (~CatalogMissing(p) /\ Usable(p, choice)) <=> OfferedBy(run[p], choice)
  BY DEF CatalogMissing, Usable, ReadyFor, Selectable, OfferedBy

LEMMA CompilingMeans == CompilingOffered <=> \A p \in CompilerCommands : RunOK(run[p])
  BY OfferedMeans DEF CompilingOffered, RunOK

\* One command goes on.
LEMMA RunStep ==
  ASSUME CompilerInv, account' \in [Providers -> Accounts],
         catalog' \in [Providers -> SUBSET ModelNames],
         selection' \in Selections \cup {Unselected},
         NEW p \in CompilerCommands, NEW new \in Runs, RunOK(new),
         run' = [run EXCEPT ![p] = new]
  PROVE  CompilerInv'
  <1>1. /\ run' \in [CompilerCommands -> Runs] /\ run'[p] = new
        /\ \A q \in CompilerCommands \ {p} : run'[q] = run[q]
    BY DEF CompilerInv, CompilerTypeOK
  <1>2. CompilerTypeOK'
    BY <1>1 DEF CompilerTypeOK
  <1>3. \A q \in CompilerCommands : RunOK(run[q])
    BY CompilingMeans DEF CompilerInv
  <1>4. \A q \in CompilerCommands : RunOK(run'[q])
    BY <1>1, <1>3
  <1>5. CompilingOffered'
    BY <1>4 DEF CompilingOffered, RunOK, OfferedBy, CatalogMissing, Usable, ReadyFor, Selectable
  <1> QED BY <1>2, <1>5 DEF CompilerInv

\* A command that ends, or compiles nothing.
LEMMA EndsStep ==
  ASSUME CompilerInv, UNCHANGED <<account, catalog>>,
         selection' \in Selections \cup {Unselected}, NEW p \in CompilerCommands, RunOver(p)
  PROVE  CompilerInv'
  BY NoRunTyped, RunStep DEF RunOver, RunOK, CompilerInv, CompilerTypeOK

LEMMA SettledTyped ==
  ASSUME CompilerInv, NEW v \in Providers
  PROVE  Settled(v) \in ProviderStatuses
  BY DEF Settled, ProviderStatuses, CompilerInv, CompilerTypeOK, Accounts

LEMMA ProbeStep ==
  ASSUME CompilerInv, NEW p \in CompilerCommands, NEW v \in Providers, Probe(p, v)
  PROVE  CompilerInv'
  <1>1. PICK status \in ProviderStatuses : run' = [run EXCEPT ![p].seen[v] = status]
    <2>1. \A status \in Missed(v) : status \in ProviderStatuses
      BY DEF Missed, ProviderStatuses
    <2> QED BY <2>1, SettledTyped DEF Probe
  <1> DEFINE c == run[p]
             seen == [c.seen EXCEPT ![v] = status]
             new == [c EXCEPT !.seen = seen]
  <1>2. c \in Runs /\ c.at = "probing" /\ c.seen \in [Providers -> ProviderStatuses]
    BY RunTyped DEF Probe, Runs
  <1>3. seen \in [Providers -> ProviderStatuses]
    BY <1>2
  <1>4. run' = [run EXCEPT ![p] = new]
    BY <1>1, RunTyped
  <1> HIDE DEF seen
  <1>5. new \in Runs /\ new.at = "probing"
    BY <1>2, <1>3 DEF Runs
  <1> HIDE DEF new
  <1> QED BY <1>4, <1>5, RunStep DEF Probe, RunOK, CompilerInv, CompilerTypeOK

LEMMA LoadSelectionStep ==
  ASSUME CompilerInv, NEW p \in CompilerCommands, LoadSelection(p)
  PROVE  CompilerInv'
  <1> DEFINE new == [run[p] EXCEPT !.at = "deciding", !.loaded = selection]
  <1>1. selection \in Selections \cup {Unselected} /\ UNCHANGED <<account, catalog, selection>>
    BY DEF LoadSelection, CompilerInv, CompilerTypeOK
  <1>2. new \in Runs /\ new.at = "deciding"
    BY <1>1, RunTyped DEF Runs
  <1>3. run' = [run EXCEPT ![p] = new]
    BY RunTyped DEF LoadSelection
  <1> HIDE DEF new
  <1> QED BY <1>1, <1>2, <1>3, RunStep DEF RunOK, CompilerInv, CompilerTypeOK

\* A choice with which a command goes on to compile.
LEMMA CompilesStep ==
  ASSUME CompilerInv, UNCHANGED <<account, catalog>>,
         selection' \in Selections \cup {Unselected}, NEW p \in CompilerCommands,
         NEW choice \in Selections, Compiles(p, choice),
         choice.origin = "api_key" \/ OfferedBy(run[p], choice)
  PROVE  CompilerInv'
  <1> DEFINE c == run[p]
             new == [c EXCEPT !.at = "compiling", !.chosen = choice]
  <1>1. c \in Runs /\ run' = [run EXCEPT ![p] = new]
    BY RunTyped DEF Compiles
  <1>2. new \in Runs /\ new.chosen = choice /\ new.seen = c.seen
    BY <1>1 DEF Runs
  <1> HIDE DEF new
  <1>3. RunOK(new)
    BY <1>2 DEF RunOK, OfferedBy
  <1> QED BY <1>1, <1>2, <1>3, RunStep DEF CompilerInv, CompilerTypeOK

LEMMA ResolveStep ==
  ASSUME CompilerInv, NEW p \in CompilerCommands, ResolveRecorded(p) \/ ResolveFirst(p)
  PROVE  CompilerInv'
  <1>1. CASE ResolveRecorded(p)
    <2>1. run[p].loaded \in Selections /\ OfferedBy(run[p], run[p].loaded)
      BY <1>1, RunTyped, OfferedMeans DEF ResolveRecorded, Runs
    <2>2. selection' \in Selections \cup {Unselected}
      BY <1>1 DEF ResolveRecorded, CompilerInv, CompilerTypeOK
    <2> QED BY <1>1, <2>1, <2>2, CompilesStep DEF ResolveRecorded
  <1>2. CASE ResolveFirst(p)
    <2>1. PICK v \in ReadyFor(p), m \in ModelNames, origin \in {"auto", "prompted"} :
            /\ m \in Selectable(p, v) /\ ~CatalogMissing(p)
            /\ Selects(Choice(v, m, origin)) /\ Compiles(p, Choice(v, m, origin))
      BY <1>2 DEF ResolveFirst
    <2> DEFINE choice == Choice(v, m, origin)
    <2>2. v \in Providers
      BY <2>1 DEF ReadyFor
    <2>3. choice \in Selections /\ choice.provider = v /\ choice.model = m
      BY <2>2 DEF Choice, Selections
    <2>4. Selects(choice) /\ Compiles(p, choice)
      BY <2>1
    <2> HIDE DEF choice
    <2>5. OfferedBy(run[p], choice)
      BY <2>1, <2>3, OfferedMeans DEF Usable
    <2> QED BY <1>2, <2>3, <2>4, <2>5, CompilesStep DEF ResolveFirst, Selects
  <1> QED BY <1>1, <1>2

LEMMA CompileWithKeyStep ==
  ASSUME CompilerInv, NEW p \in CompilerCommands, CompileWithKey(p)
  PROVE  CompilerInv'
  <1> DEFINE choice == Choice(Codex, Recommended[Codex], "api_key")
  <1>1. choice \in Selections /\ choice.origin = "api_key"
    BY CompilerAssumption DEF Choice, Selections, Providers
  <1>2. Compiles(p, choice) /\ UNCHANGED <<account, catalog, selection>>
    BY DEF CompileWithKey
  <1> HIDE DEF choice
  <1> QED BY <1>1, <1>2, CompilesStep DEF CompilerInv, CompilerTypeOK

\* What a command writes as the selection, and that its discovery offered it.
LEMMA WritesOffered ==
  ASSUME CompilerInv, NEW p \in CompilerCommands,
         ConfigureWrites(p) \/ UpgradeWrites(p) \/ CompileEnds(p), selection' # selection
  PROVE  selection' \in Selections /\ OfferedBy(run[p], selection')
  <1>1. CASE ConfigureWrites(p)
    <2>1. PICK choice \in ConfigureChoices(p) :
            choice.model \in Selectable(p, choice.provider) /\ selection' = choice
      BY <1>1 DEF ConfigureWrites, Selects
    <2>2. PICK v \in ReadyFor(p), m \in ModelNames, origin \in {"explicit", "auto"} :
            choice = Choice(v, m, origin)
      BY CompilerAssumption DEF ConfigureChoices, ReadyFor, Providers
    <2>3. v \in Providers
      BY <2>2 DEF ReadyFor
    <2>4. choice \in Selections /\ choice.provider = v
      BY <2>2, <2>3 DEF Choice, Selections
    <2>5. ~CatalogMissing(p) /\ Usable(p, choice)
      BY <1>1, <2>1, <2>2, <2>4 DEF ConfigureWrites, Usable
    <2> QED BY <2>1, <2>4, <2>5, OfferedMeans
  <1>2. CASE UpgradeWrites(p)
    <2>1. PICK v \in ReadyFor(p), origin \in {"legacy", "auto"} :
            /\ Recommended[v] \in Selectable(p, v)
            /\ selection' = Choice(v, Recommended[v], origin)
      BY <1>2 DEF UpgradeWrites, Selects
    <2>2. v \in Providers /\ Recommended[v] \in ModelNames
      BY <2>1, CompilerAssumption DEF ReadyFor, Providers
    <2>3. selection' \in Selections /\ selection'.provider = v /\ selection'.model = Recommended[v]
      BY <2>1, <2>2 DEF Choice, Selections
    <2>4. ~CatalogMissing(p)
      BY <1>2 DEF UpgradeWrites, UpgradeBlocked
    <2>5. PICK choice : choice = selection'
      OBVIOUS
    <2> QED BY <2>1, <2>3, <2>4, <2>5, OfferedMeans DEF Usable
  <1>3. CASE CompileEnds(p)
    <2>1. /\ run[p].at = "compiling" /\ run[p].chosen.origin # "api_key"
          /\ selection' = run[p].chosen
      BY <1>3 DEF CompileEnds, Selects
    <2> QED BY <2>1, CompilingMeans DEF CompilerInv, RunOK
  <1> QED BY <1>1, <1>2, <1>3

LEMMA WriteStep ==
  ASSUME CompilerInv, NEW p \in CompilerCommands,
         ConfigureWrites(p) \/ UpgradeWrites(p) \/ CompileEnds(p) \/ CommandStops(p)
  PROVE  CompilerInv'
  <1>1. selection' \in Selections \cup {Unselected}
    <2>1. CASE selection' = selection
      BY <2>1 DEF CompilerInv, CompilerTypeOK
    <2>2. CASE selection' # selection
      BY <2>2, WritesOffered DEF CommandStops
    <2> QED BY <2>1, <2>2
  <1> QED BY <1>1, EndsStep DEF ConfigureWrites, UpgradeWrites, CompileEnds, CommandStops

LEMMA CommandBeginsStep ==
  ASSUME CompilerInv, NEW p \in CompilerCommands,
         NEW kind \in {"configure", "remember", "upgrade"}, CommandBegins(p, kind)
  PROVE  CompilerInv'
  <1> DEFINE new == [NoRun EXCEPT !.kind = kind, !.at = "probing"]
  <1>1. new \in Runs /\ new.at = "probing"
    BY NoRunTyped DEF Runs
  <1>2. run' = [run EXCEPT ![p] = new] /\ UNCHANGED <<account, catalog, selection>>
    BY DEF CommandBegins
  <1> HIDE DEF new
  <1> QED BY <1>1, <1>2, RunStep DEF RunOK, CompilerInv, CompilerTypeOK

\* Accounts and catalogs are only seen by probes.
LEMMA AroundStep ==
  ASSUME CompilerInv, account' \in [Providers -> Accounts],
         catalog' \in [Providers -> SUBSET ModelNames], UNCHANGED <<selection, run>>
  PROVE  CompilerInv'
  BY DEF CompilerInv, CompilerTypeOK, CompilingOffered, CatalogMissing, Usable, ReadyFor,
         Selectable

LEMMA AccountChangesStep ==
  ASSUME CompilerInv, NEW v \in Providers, AccountChanges(v)
  PROVE  CompilerInv'
  <1>1. account' \in [Providers -> Accounts] /\ catalog' \in [Providers -> SUBSET ModelNames]
    BY DEF AccountChanges, CompilerInv, CompilerTypeOK
  <1> QED BY <1>1, AroundStep DEF AccountChanges

LEMMA CompilerInitInv == CompilerInit => CompilerInv
  <1> SUFFICES ASSUME CompilerInit PROVE CompilerInv
    OBVIOUS
  <1>1. CompilerTypeOK
    BY NoRunTyped, CompilerAssumption
       DEF CompilerInit, CompilerTypeOK, Accounts, Providers
  <1>2. CompilingOffered
    BY NoRunTyped DEF CompilerInit, CompilingOffered
  <1> QED BY <1>1, <1>2 DEF CompilerInv

LEMMA CompilerStepInv == CompilerInv /\ [CompilerNext]_compilerVars => CompilerInv'
  <1> SUFFICES ASSUME CompilerInv, [CompilerNext]_compilerVars PROVE CompilerInv'
    OBVIOUS
  <1>1. ASSUME NEW p \in CompilerCommands,
               \/ \E kind \in {"configure", "remember", "upgrade"} : CommandBegins(p, kind)
               \/ \E v \in Providers : Probe(p, v)
               \/ LoadSelection(p) \/ CompileWithKey(p)
        PROVE  CompilerInv'
    BY <1>1, CommandBeginsStep, ProbeStep, LoadSelectionStep, CompileWithKeyStep
  <1>2. ASSUME NEW p \in CompilerCommands,
               \/ ConfigureWrites(p) \/ UpgradeWrites(p) \/ CompileEnds(p) \/ CommandStops(p)
               \/ ResolveRecorded(p) \/ ResolveFirst(p)
        PROVE  CompilerInv'
    BY <1>2, WriteStep, ResolveStep
  <1>3. ASSUME NEW v \in Providers, AccountChanges(v) PROVE CompilerInv'
    BY <1>3, AccountChangesStep
  <1>4. CASE UNCHANGED compilerVars
    BY <1>4, AroundStep DEF compilerVars, CompilerInv, CompilerTypeOK
  <1> QED BY <1>1, <1>2, <1>3, <1>4 DEF CompilerNext

\* A compilation that will write the selection runs with a choice that the
\* complete discovery of its own command offered.
THEOREM CompilerInvHolds == CompilerSpec => []CompilerInv
  BY CompilerInitInv, CompilerStepInv, PTL DEF CompilerSpec

\* Whatever changes the recorded selection was offered by the writer's own
\* discovery, in which every tool that is logged in had listed its models.
THEOREM FailuresKeepChoice == CompilerSpec => CatalogFailureKeepsChoice
  <1> DEFINE Kept == selection' # selection =>
                       \E p \in CompilerCommands :
                         /\ run[p].at \in {"deciding", "compiling"} /\ run'[p] # run[p]
                         /\ ~CatalogMissing(p) /\ Usable(p, selection')
  <1>1. CompilerInv /\ [CompilerNext]_compilerVars => [Kept]_compilerVars
    <2> SUFFICES ASSUME CompilerInv, CompilerNext, selection' # selection
                 PROVE  \E p \in CompilerCommands :
                          /\ run[p].at \in {"deciding", "compiling"} /\ run'[p] # run[p]
                          /\ ~CatalogMissing(p) /\ Usable(p, selection')
      OBVIOUS
    <2>1. PICK p \in CompilerCommands :
            ConfigureWrites(p) \/ UpgradeWrites(p) \/ ResolveFirst(p) \/ CompileEnds(p)
      BY DEF CompilerNext, CommandBegins, Probe, LoadSelection, ResolveRecorded,
             CompileWithKey, CommandStops, AccountChanges
    <2>2. run[p].at \in {"deciding", "compiling"}
      BY <2>1 DEF ConfigureWrites, UpgradeWrites, ResolveFirst, CompileEnds
    <2>3. run'[p].at # run[p].at
      <3>1. CASE ConfigureWrites(p) \/ UpgradeWrites(p) \/ CompileEnds(p)
        BY <2>2, <3>1, RunTyped, NoRunTyped DEF ConfigureWrites, UpgradeWrites, CompileEnds, RunOver
      <3>2. CASE ResolveFirst(p)
        BY <3>2, RunTyped DEF ResolveFirst, Compiles, Runs
      <3> QED BY <2>1, <3>1, <3>2
    <2>4. ~CatalogMissing(p) /\ Usable(p, selection')
      <3>1. CASE ConfigureWrites(p) \/ UpgradeWrites(p) \/ CompileEnds(p)
        <4>1. PICK choice : choice = selection'
          OBVIOUS
        <4> QED BY <3>1, <4>1, WritesOffered, OfferedMeans
      <3>2. CASE ResolveFirst(p)
        BY <3>2 DEF ResolveFirst, Selects, Choice, Usable
      <3> QED BY <2>1, <3>1, <3>2
    <2> QED BY <2>2, <2>3, <2>4
  <1> QED BY <1>1, CompilerInvHolds, PTL DEF CompilerSpec, CatalogFailureKeepsChoice

-----------------------------------------------------------------------------
(* The reranker's breaker.                                                 *)

LEMMA PhasesDiffer == "Closed" # "Open" /\ "Closed" # "HalfOpen" /\ "Open" # "HalfOpen"
  OBVIOUS

\* The inductive invariant holds when a daemon starts.
LEMMA BreakerStarts == RerankerInit => BreakerSound
  BY BreakerAssumption DEF RerankerInit, BreakerSound, Phases

\* A daemon's start resets the breaker.
LEMMA ResetIsSound == Reset => BreakerSound'
  BY BreakerAssumption DEF Reset, BreakerSound, Phases

\* Scores of a closed breaker and the skips of an open one keep the invariant.
LEMMA ScoresKeepSound ==
  ASSUME BreakerSound, ScoreWithin \/ ScoreOver \/ Skips
  PROVE  BreakerSound'
<1>1. CASE ScoreWithin
  BY <1>1, BreakerAssumption DEF ScoreWithin, BreakerSound, Phases
<1>2. CASE ScoreOver
  BY <1>2, BreakerAssumption DEF ScoreOver, BreakerSound, Phases
<1>3. CASE Skips
  BY <1>3, BreakerAssumption DEF Skips, BreakerSound, Phases
<1> QED BY <1>1, <1>2, <1>3

\* So do probes, whether they are answered in time, too late or not at all.
LEMMA ProbesKeepSound ==
  ASSUME BreakerSound, ProbeWithin \/ ProbeOver \/ Abort
  PROVE  BreakerSound'
<1>1. CASE ProbeWithin
  <2>1. GoodSoFar \in 0 .. CloseAfterProbes - 1
    BY BreakerAssumption DEF BreakerSound, GoodSoFar
  <2> QED BY <1>1, <2>1, BreakerAssumption DEF ProbeWithin, BreakerSound, Phases
<1>2. CASE ProbeOver
  BY <1>2, BreakerAssumption DEF ProbeOver, BreakerSound, Phases
<1>3. CASE Abort
  BY <1>3, BreakerAssumption DEF Abort, BreakerSound, breakerVars, Phases
<1> QED BY <1>1, <1>2, <1>3

\* No step of a daemon disturbs the breaker in another way.
LEMMA StepKeepsSound == BreakerSound /\ [RerankerNext]_rerankerVars => BreakerSound'
<1> SUFFICES ASSUME BreakerSound, [RerankerNext]_rerankerVars PROVE BreakerSound'
  OBVIOUS
<1>1. CASE Order
  <2>1. ScoreWithin \/ ScoreOver \/ Skips \/ ProbeWithin \/ ProbeOver \/ Abort
    BY <1>1 DEF Order, OrderSkipped, OrderInTime, OrderTooSlow, OrderErrs
  <2> QED BY <2>1, ScoresKeepSound, ProbesKeepSound
<1>2. CASE RestartReranker
  BY <1>2, ResetIsSound DEF RestartReranker, RerankerStart
<1>3. CASE InstallReranker \/ HostChanges \/ UNCHANGED rerankerVars
  BY <1>3 DEF InstallReranker, HostChanges, rerankerVars, breakerVars, BreakerSound
<1> QED BY <1>1, <1>2, <1>3 DEF RerankerNext

\* The counters agree with the phase in every reachable state: a closed breaker
\* is never due to trip, and no search waits for more skips than a probe needs.
THEOREM BreakerAgrees == RerankerSpec => []BreakerSound
  BY BreakerStarts, StepKeepsSound, PTL DEF RerankerSpec

-----------------------------------------------------------------------------
\* Every success of a probe is one of the answers in time since the last late
\* one: the breaker never counts an answer from before.
ProbesInRow == streak \in 0 .. CloseAfterProbes /\ good <= streak

BreakerInv == BreakerSound /\ ProbesInRow

LEMMA ProbesStart == RerankerInit => ProbesInRow
  BY BreakerAssumption DEF RerankerInit, ProbesInRow

LEMMA AnsweredCounts ==
  ASSUME ProbesInRow, Answered
  PROVE  /\ streak' \in 0 .. CloseAfterProbes
         /\ streak' >= streak
         /\ streak' = streak + 1 \/ streak' = CloseAfterProbes
  BY BreakerAssumption DEF ProbesInRow, Answered

LEMMA AnswersKeepRow ==
  ASSUME BreakerInv, OrderInTime
  PROVE  ProbesInRow'
<1>1. BreakerSound /\ ProbesInRow /\ Answered
  BY DEF BreakerInv, OrderInTime
<1>2. streak' \in 0 .. CloseAfterProbes /\ streak' >= streak
       /\ (streak' = streak + 1 \/ streak' = CloseAfterProbes)
  BY <1>1, AnsweredCounts
<1>3. good \in 0 .. CloseAfterProbes - 1 /\ streak \in 0 .. CloseAfterProbes /\ good <= streak
  BY <1>1 DEF BreakerSound, ProbesInRow
<1>4. CASE ScoreWithin
  BY <1>2, <1>3, <1>4, BreakerAssumption DEF ScoreWithin, ProbesInRow
<1>5. CASE ProbeWithin
  <2>1. GoodSoFar = good \/ GoodSoFar = 0
    BY DEF GoodSoFar
  <2>2. good' = 0 \/ (good' = GoodSoFar + 1 /\ GoodSoFar + 1 < CloseAfterProbes)
    BY <1>3, <1>5, <2>1, BreakerAssumption DEF ProbeWithin
  <2> QED BY <1>2, <1>3, <2>1, <2>2, BreakerAssumption DEF ProbesInRow
<1> QED BY <1>4, <1>5 DEF OrderInTime

LEMMA RowKept ==
  ASSUME BreakerInv, [RerankerNext]_rerankerVars
  PROVE  ProbesInRow'
<1>1. CASE OrderSkipped
  BY <1>1 DEF BreakerInv, OrderSkipped, Skips, ProbesInRow
<1>2. CASE OrderInTime
  BY <1>2, AnswersKeepRow
<1>3. CASE OrderTooSlow
  <2>1. streak' = 0 /\ good' = 0
    BY <1>3, BreakerAssumption
    DEF BreakerInv, BreakerSound, OrderTooSlow, ScoreOver, ProbeOver
  <2> QED BY <2>1, BreakerAssumption DEF ProbesInRow
<1>4. CASE OrderErrs
  <2>1. streak' = 0 /\ good' = 0
    BY <1>4, PhasesDiffer
    DEF BreakerInv, BreakerSound, OrderErrs, Abort, ProbeDue, breakerVars
  <2> QED BY <2>1, BreakerAssumption DEF ProbesInRow
<1>5. CASE RestartReranker
  BY <1>5, BreakerAssumption DEF RestartReranker, RerankerStart, Reset, ProbesInRow
<1>6. CASE InstallReranker \/ HostChanges \/ UNCHANGED rerankerVars
  BY <1>6
  DEF BreakerInv, InstallReranker, HostChanges, rerankerVars, breakerVars, ProbesInRow
<1> QED BY <1>1, <1>2, <1>3, <1>4, <1>5, <1>6 DEF RerankerNext, Order

\* A half-open breaker never counts more successes than there were answers in
\* time in a row.
THEOREM BreakerCountsRow == RerankerSpec => []BreakerInv
<1>1. RerankerInit => BreakerInv
  BY BreakerStarts, ProbesStart DEF BreakerInv
<1>2. BreakerInv /\ [RerankerNext]_rerankerVars => BreakerInv'
  BY StepKeepsSound, RowKept DEF BreakerInv
<1> QED BY <1>1, <1>2, PTL DEF RerankerSpec

\* A breaker closes by the last probe of the row, or because a daemon starts.
LEMMA ClosingStep ==
  ASSUME BreakerInv, RerankerNext, phase # "Closed", phase' = "Closed"
  PROVE  streak' >= CloseAfterProbes
<1>1. ~OrderSkipped
  BY DEF OrderSkipped, Skips
<1>2. CASE OrderInTime
  <2>1. ProbeWithin /\ Answered
    BY <1>2 DEF OrderInTime, ScoreWithin
  <2>2. GoodSoFar + 1 >= CloseAfterProbes
    BY <2>1, PhasesDiffer DEF ProbeWithin
  <2>3. GoodSoFar \in Nat /\ GoodSoFar <= streak
    BY BreakerAssumption DEF BreakerInv, BreakerSound, ProbesInRow, GoodSoFar
  <2>4. streak' = streak + 1 \/ streak' = CloseAfterProbes
    BY <2>1, AnsweredCounts DEF BreakerInv
  <2>5. streak \in Nat
    BY BreakerAssumption DEF BreakerInv, ProbesInRow
  <2> QED BY <2>2, <2>3, <2>4, <2>5, BreakerAssumption
<1>3. ~OrderTooSlow
  BY PhasesDiffer DEF OrderTooSlow, ScoreOver, ProbeOver
<1>4. ~OrderErrs
  BY PhasesDiffer DEF OrderErrs, Abort, ProbeDue, breakerVars
<1>5. CASE RestartReranker
  BY <1>5, BreakerAssumption DEF RestartReranker, RerankerStart
<1>6. ~InstallReranker /\ ~HostChanges
  BY DEF InstallReranker, HostChanges, breakerVars
<1> QED BY <1>1, <1>2, <1>3, <1>4, <1>5, <1>6 DEF RerankerNext, Order

\* One answer in time never brings a tripped reranker back while more are
\* wanted: for every threshold, the breaker of a running daemon closes after
\* CloseAfterProbes answers in time in a row.
THEOREM ClosingNeedsProbes == RerankerSpec => ClosesAfterProbes
<1>1. BreakerInv /\ [RerankerNext]_rerankerVars =>
        [phase # "Closed" /\ phase' = "Closed" => streak' >= CloseAfterProbes]_rerankerVars
  BY ClosingStep
<1> QED BY <1>1, BreakerCountsRow, PTL DEF RerankerSpec, ClosesAfterProbes

-----------------------------------------------------------------------------
(* Lists: what is put in an order.                                         *)

StrictOrder(P, before) ==
  /\ \A i, j \in P : i = j \/ <<i, j>> \in before \/ <<j, i>> \in before
  /\ \A i \in P : <<i, i>> \notin before
  /\ \A i, j, k \in P : <<i, j>> \in before /\ <<j, k>> \in before => <<i, k>> \in before

IsArranged(a, P, before) ==
  /\ a \in Seq(P) /\ Len(a) = Cardinality(P)
  /\ \A i \in P : \E k \in DOMAIN a : a[k] = i
  /\ \A k, l \in DOMAIN a : k < l => <<a[k], a[l]>> \in before
  /\ \A k \in DOMAIN a : Cardinality({j \in P : <<j, a[k]>> \in before}) = k - 1

\* An order without ties puts every member at a place of its own: as many
\* members are before it as places.
LEMMA ArrangedIs ==
  ASSUME NEW P, IsFiniteSet(P), NEW before, StrictOrder(P, before)
  PROVE  IsArranged(Arranged(P, before), P, before)
  <1> DEFINE n == Cardinality(P)
             first(i) == {j \in P : <<j, i>> \in before}
             ahead == [i \in P |-> Cardinality(first(i))]
             at(k) == CHOOSE i \in P : ahead[i] = k - 1
  <1>1. n \in Nat /\ \A i : IsFiniteSet(first(i)) /\ Cardinality(first(i)) \in Nat
    BY FS_CardinalityType, FS_Subset
  <1>2. \A i \in P : first(i) \subseteq P /\ i \notin first(i)
    BY DEF StrictOrder
  <1>3. ASSUME NEW i \in P, NEW j \in P, <<i, j>> \in before
        PROVE  first(i) \subseteq first(j) /\ i \in first(j)
    BY <1>3 DEF StrictOrder
  <1> HIDE DEF first
  <1>4. \A i \in P : ahead[i] \in 0 .. n - 1
    <2> TAKE i \in P
    <2>1. Cardinality(first(i)) <= n /\ Cardinality(first(i)) # n
      BY <1>1, <1>2, FS_Subset
    <2> QED BY <1>1, <2>1
  <1>5. \A i, j \in P : <<i, j>> \in before => ahead[i] < ahead[j]
    <2> TAKE i, j \in P
    <2> HAVE <<i, j>> \in before
    <2>1. first(i) \subseteq first(j) /\ i \in first(j) /\ i \notin first(i)
      BY <1>2, <1>3
    <2>2. Cardinality(first(i)) <= Cardinality(first(j))
          /\ Cardinality(first(i)) # Cardinality(first(j))
      BY <1>1, <2>1, FS_Subset
    <2> QED BY <1>1, <2>2
  <1>6. \A i, j \in P : ahead[i] = ahead[j] => i = j
    <2> HIDE DEF ahead
    <2>1. \A i \in P : ahead[i] \in Int
      BY <1>1, <1>4
    <2> TAKE i, j \in P
    <2>2. ahead[i] = ahead[j] => ~(ahead[i] < ahead[j]) /\ ~(ahead[j] < ahead[i])
      BY <2>1
    <2> QED BY <1>5, <2>2 DEF StrictOrder
  <1>7. \A k \in 1 .. n : \E i \in P : ahead[i] = k - 1
    <2>1. ahead \in [P -> 0 .. n - 1]
      BY <1>4
    <2> HIDE DEF ahead
    <2>2. ahead \in Injection(P, 0 .. n - 1)
      BY <1>6, <2>1, Zenon DEF Injection, IsInjective
    <2>3. IsFiniteSet(0 .. n - 1) /\ Cardinality(0 .. n - 1) = n
      BY <1>1, FS_Interval
    <2>4. ahead \in Surjection(P, 0 .. n - 1)
      BY <2>2, <2>3, FS_Injection
    <2>5. \A k \in 1 .. n : k - 1 \in 0 .. n - 1
      BY <1>1
    <2> QED BY <2>4, <2>5 DEF Surjection
  <1> HIDE DEF n
  <1>8. Arranged(P, before) = [k \in 1 .. n |-> at(k)]
    BY DEF Arranged, n, first
  <1>9. \A k \in 1 .. n : at(k) \in P /\ ahead[at(k)] = k - 1
    <2> HIDE DEF ahead
    <2> QED BY <1>7
  <1>10. \A i \in P : ahead[i] + 1 \in 1 .. n /\ at(ahead[i] + 1) = i
    <2> HIDE DEF ahead
    <2> TAKE i \in P
    <2>1. ahead[i] + 1 \in 1 .. n /\ ahead[i] \in Int
      BY <1>1, <1>4 DEF n
    <2>2. PICK k \in 1 .. n : k = ahead[i] + 1
      BY <2>1
    <2>3. k - 1 = ahead[i]
      BY <2>1, <2>2
    <2>4. at(k) \in P /\ ahead[at(k)] = ahead[i]
      BY <1>9, <2>3
    <2> QED BY <1>6, <2>1, <2>2, <2>4
  <1>11. ASSUME NEW k \in 1 .. n, NEW l \in 1 .. n, k < l
         PROVE  <<at(k), at(l)>> \in before
    <2> HIDE DEF ahead, at
    <2>1. /\ at(k) \in P /\ at(l) \in P
          /\ ahead[at(k)] = k - 1 /\ ahead[at(l)] = l - 1 /\ k - 1 < l - 1
      BY <1>9, <1>11
    <2>2. at(k) # at(l)
      BY <1>11, <2>1
    <2>3. <<at(l), at(k)>> \notin before
      BY <1>5, <2>1
    <2> QED BY <2>1, <2>2, <2>3 DEF StrictOrder
  <1>12. \A k \in 1 .. n : Cardinality({j \in P : <<j, at(k)>> \in before}) = k - 1
    <2> TAKE k \in 1 .. n
    <2>1. at(k) \in P /\ ahead[at(k)] = k - 1
      BY <1>9
    <2> HIDE DEF at
    <2> QED BY <2>1 DEF first
  <1> DEFINE a == Arranged(P, before)
  <1> HIDE DEF at, ahead
  <1>13. a \in [1 .. n -> P] /\ \A k \in 1 .. n : a[k] = at(k)
    BY <1>8, <1>9
  <1>14. a \in Seq(P) /\ Len(a) = n /\ DOMAIN a = 1 .. n
    <2>1. n \in Nat
      BY <1>1 DEF n
    <2> HIDE DEF a
    <2> QED BY <1>13, <2>1, FunctionIsSeq
  <1>15. \A i \in P : \E k \in DOMAIN a : a[k] = i
    BY <1>10, <1>13, <1>14
  <1>16. \A k, l \in DOMAIN a : k < l => <<a[k], a[l]>> \in before
    BY <1>11, <1>13, <1>14
  <1>17. \A k \in DOMAIN a : Cardinality({j \in P : <<j, a[k]>> \in before}) = k - 1
    BY <1>12, <1>13, <1>14
  <1> HIDE DEF a
  <1>18. IsArranged(a, P, before)
    BY <1>14, <1>15, <1>16, <1>17 DEF IsArranged, n
  <1> QED BY <1>18 DEF a

IsAscending(a, P) ==
  /\ a \in Seq(P) /\ Len(a) = Cardinality(P) /\ DOMAIN a = 1 .. Cardinality(P)
  /\ Cardinality(P) \in Nat
  /\ \A i \in P : \E k \in DOMAIN a : a[k] = i
  /\ \A k, l \in DOMAIN a : k < l => a[k] < a[l]
  /\ \A k, l \in DOMAIN a : k # l => a[k] # a[l]

\* Numbers in ascending order.
LEMMA AscendingIs ==
  ASSUME NEW P \in SUBSET Int, IsFiniteSet(P)
  PROVE  IsAscending(Ascending(P), P)
  <1> DEFINE R == {p \in P \X P : p[1] < p[2]}
             a == Ascending(P)
  <1>1. \A i, j \in P : <<i, j>> \in R <=> i < j
    OBVIOUS
  <1>2. a = Arranged(P, R)
    BY Zenon DEF Ascending
  <1> HIDE DEF R, a
  <1>3. StrictOrder(P, R)
    <2>1. \A i, j, k \in P : i \in Int /\ j \in Int /\ k \in Int
      OBVIOUS
    <2> QED BY <1>1, <2>1 DEF StrictOrder
  <1>4. IsArranged(a, P, R)
    BY <1>2, <1>3, ArrangedIs
  <1>5. a \in Seq(P) /\ Len(a) = Cardinality(P) /\ \A i \in P : \E k \in DOMAIN a : a[k] = i
    BY <1>4 DEF IsArranged
  <1>6. Cardinality(P) \in Nat /\ DOMAIN a = 1 .. Cardinality(P)
    BY <1>5, FS_CardinalityType, SeqIs
  <1>7. \A k \in DOMAIN a : a[k] \in P /\ a[k] \in Int /\ k \in Int
    <2>1. \A k \in DOMAIN a : a[k] \in P
      BY <1>5, SeqIs
    <2>2. \A k \in DOMAIN a : k \in Int
      BY <1>6
    <2> QED BY <2>1, <2>2
  <1>8. \A k, l \in DOMAIN a : k < l => a[k] < a[l]
    BY <1>1, <1>4, <1>7 DEF IsArranged
  <1>9. \A k, l \in DOMAIN a : k # l => a[k] # a[l]
    BY <1>7, <1>8
  <1> QED BY <1>5, <1>6, <1>8, <1>9 DEF IsAscending, a

IsThose(t, s, P) ==
  /\ Len(t) = Cardinality(P) /\ DOMAIN t = DOMAIN Ascending(P)
  /\ \A k \in DOMAIN t : Ascending(P)[k] \in P /\ t[k] = s[Ascending(P)[k]]

\* The hits at some positions, in their order.
LEMMA ThoseAre ==
  ASSUME NEW S, NEW s \in Seq(S), NEW P \in SUBSET DOMAIN s
  PROVE  /\ Those(s, P) \in Seq(S) /\ IsThose(Those(s, P), s, P)
         /\ IsFiniteSet(P) /\ IsAscending(Ascending(P), P)
         /\ ToSet(Those(s, P)) = {s[i] : i \in P}
  <1> DEFINE a == Ascending(P)
             t == Those(s, P)
  <1>1. Len(s) \in Nat /\ DOMAIN s = 1 .. Len(s) /\ \A i \in DOMAIN s : s[i] \in S
    BY SeqIs
  <1>2. P \in SUBSET Int /\ IsFiniteSet(P)
    <2>1. P \in SUBSET (1 .. Len(s))
      BY <1>1
    <2>2. IsFiniteSet(P)
      BY <1>1, <2>1, BoundedFinite
    <2> QED BY <2>1, <2>2
  <1>3. IsAscending(a, P)
    BY <1>2, AscendingIs
  <1>4. t = [k \in DOMAIN a |-> s[a[k]]]
    BY Zenon DEF Those
  <1> HIDE DEF a, t
  <1>5. \A k \in DOMAIN a : a[k] \in P /\ s[a[k]] \in S
    <2>1. a \in Seq(P)
      BY <1>3 DEF IsAscending
    <2> QED BY <1>1, <2>1, SeqIs
  <1>6. DOMAIN a = 1 .. Cardinality(P) /\ Cardinality(P) \in Nat
    BY <1>3 DEF IsAscending
  <1>7. t \in Seq(S) /\ Len(t) = Cardinality(P) /\ DOMAIN t = DOMAIN a
    BY <1>4, <1>5, <1>6, FunctionIsSeq
  <1>8. IsThose(t, s, P)
    BY <1>4, <1>5, <1>7 DEF IsThose, a
  <1>9. ToSet(t) = {s[i] : i \in P}
    <2>1. \A i \in P : \E k \in DOMAIN a : a[k] = i
      BY <1>3 DEF IsAscending
    <2>2. ToSet(t) = {t[k] : k \in DOMAIN t}
      BY DEF ToSet
    <2> QED BY <1>4, <1>5, <1>7, <2>1, <2>2
  <1> QED BY <1>2, <1>3, <1>7, <1>8, <1>9 DEF t, a

-----------------------------------------------------------------------------
(* Lists of hits.                                                          *)

Channels == {"lexical", "trigram", "anchor", "projection", "dense"}

HitRecords ==
  [id : Revisions, via : SUBSET Channels, score : Int,
   span : {"row", "projection", "dense", "lexical"}]

IsWorld == world \in [Revisions -> Rows]

IsList(s) ==
  /\ s \in Seq(HitRecords)
  /\ \A i, j \in DOMAIN s : s[i].id = s[j].id => i = j

\* Which revisions the channels of words found.
Worded(s) ==
  {p \in Revisions \X {"lexical", "trigram"} :
     \E i \in DOMAIN s : s[i].id = p[1] /\ p[2] \in s[i].via}

LEMMA RevisionsAreInt == Revisions \in SUBSET Int /\ IsFiniteSet(Revisions)
  <1>1. Revisions \in SUBSET Nat /\ IsFiniteSet(Revisions)
    BY SearchAssumption, Zenon
  <1> QED BY <1>1

LEMMA WorldTyped ==
  ASSUME IsWorld, NEW r \in Revisions
  PROVE  /\ world[r].units \in Nat /\ world[r].lex \in Nat /\ world[r].tri \in Nat
         /\ world[r].fuzzy \in Nat /\ world[r].sem \in Nat /\ world[r].proj \in Nat
         /\ world[r].type \in {"claim", "artifact"}
  BY DEF IsWorld, Rows

LEMMA HitTyped ==
  ASSUME NEW s \in Seq(HitRecords), NEW i \in DOMAIN s
  PROVE  /\ s[i] \in HitRecords /\ s[i].id \in Revisions /\ s[i].via \in SUBSET Channels
         /\ s[i].score \in Int
         /\ s[i] = [id |-> s[i].id, via |-> s[i].via, score |-> s[i].score, span |-> s[i].span]
  <1>1. s[i] \in HitRecords
    BY SeqIs
  <1> QED BY <1>1 DEF HitRecords

\* t lists the hits of s, found by the same channels.
SameFound(t, s) ==
  /\ t \in Seq(HitRecords) /\ DOMAIN t = DOMAIN s
  /\ \A i \in DOMAIN s : t[i].id = s[i].id /\ t[i].via = s[i].via

LEMMA SameFoundIsList ==
  ASSUME NEW s, IsList(s), NEW t, SameFound(t, s)
  PROVE  IsList(t) /\ Worded(t) = Worded(s) /\ Ids(t) = Ids(s)
  <1>1. /\ t \in Seq(HitRecords) /\ DOMAIN t = DOMAIN s
        /\ \A i \in DOMAIN s : t[i].id = s[i].id /\ t[i].via = s[i].via
    BY DEF SameFound
  <1>2. IsList(t)
    BY <1>1 DEF IsList
  <1>3. Ids(t) = Ids(s)
    BY <1>1 DEF Ids
  <1>4. Worded(t) = Worded(s)
    BY <1>1 DEF Worded
  <1> QED BY <1>2, <1>3, <1>4

\* h is a hit of s that a channel may have found too, or one it found first.
IsMerged(h, s, found, channel, span) ==
  /\ h.id \in found => channel \in h.via
  /\ \/ \E j \in DOMAIN s : /\ h.id = s[j].id /\ h.span = s[j].span
                           /\ h.via \in {s[j].via, s[j].via \cup {channel}}
     \/ h.via = {channel} /\ h.span = span

\* What merging a channel makes of a list: it stays one, and only the channels
\* of words change what they found.
LEMMA MergedIs ==
  ASSUME NEW s, IsList(s), NEW found \in SUBSET Revisions, NEW channel \in Channels,
         NEW span \in {"row", "projection", "dense", "lexical"}
  PROVE  /\ IsList(Merged(s, found, channel, span))
         /\ channel \notin {"lexical", "trigram"} =>
              Worded(Merged(s, found, channel, span)) = Worded(s)
         /\ \A i \in DOMAIN Merged(s, found, channel, span) :
              IsMerged(Merged(s, found, channel, span)[i], s, found, channel, span)
  <1> DEFINE fresh == found \ Ids(s)
             new == Ascending(fresh)
             known == [i \in DOMAIN s |->
                         IF s[i].id \in found THEN [s[i] EXCEPT !.via = @ \cup {channel}] ELSE s[i]]
             added == [k \in DOMAIN new |-> Hit(new[k], channel, span)]
             m == Merged(s, found, channel, span)
  <1>1. fresh \in SUBSET Int /\ IsFiniteSet(fresh) /\ fresh \subseteq Revisions
    BY RevisionsAreInt, FS_Subset
  <1>2. IsAscending(new, fresh)
    BY <1>1, AscendingIs
  <1>3. m = known \o added
    BY Zenon DEF Merged
  <1>4. s \in Seq(HitRecords) /\ DOMAIN s = 1 .. Len(s) /\ Len(s) \in Nat
    BY SeqIs DEF IsList
  <1>5. \A i \in DOMAIN s : /\ known[i] \in HitRecords /\ known[i].id = s[i].id
                            /\ known[i].via \in {s[i].via, s[i].via \cup {channel}}
                            /\ known[i].span = s[i].span
                            /\ known[i].id \in found => channel \in known[i].via
    <2> TAKE i \in DOMAIN s
    <2>1. s[i] \in HitRecords
      BY <1>4, HitTyped
    <2> DEFINE h == s[i]
    <2>2. h \in HitRecords /\ known[i] = IF h.id \in found
                                         THEN [h EXCEPT !.via = @ \cup {channel}] ELSE h
      BY <2>1
    <2> HIDE DEF h, known
    <2>3. /\ known[i] \in HitRecords /\ known[i].id = h.id
          /\ known[i].via \in {h.via, h.via \cup {channel}} /\ known[i].span = h.span
          /\ known[i].id \in found => channel \in known[i].via
      BY <2>2 DEF HitRecords
    <2> QED BY <2>3 DEF h
  <1>6. DOMAIN known = DOMAIN s
    OBVIOUS
  <1> HIDE DEF new
  <1>7. /\ new \in Seq(fresh) /\ DOMAIN new = 1 .. Cardinality(fresh) /\ Cardinality(fresh) \in Nat
        /\ \A k, l \in DOMAIN new : k # l => new[k] # new[l]
    BY <1>2 DEF IsAscending
  <1>8. \A k \in DOMAIN new : new[k] \in fresh
    BY <1>7, SeqIs
  <1>9. \A k \in DOMAIN new : /\ added[k] \in HitRecords /\ added[k].id = new[k]
                              /\ added[k].via = {channel} /\ added[k].span = span
    <2> TAKE k \in DOMAIN new
    <2>1. new[k] \in Revisions /\ added[k] = Hit(new[k], channel, span)
      BY <1>1, <1>8
    <2> HIDE DEF added
    <2> QED BY <2>1 DEF Hit, HitRecords, Channels
  <1>10. DOMAIN added = DOMAIN new
    OBVIOUS
  <1> HIDE DEF fresh, known, added, m
  <1> DEFINE n == Len(s)
             c == Cardinality(fresh)
  <1>11. known \in Seq(HitRecords) /\ Len(known) = n /\ added \in Seq(HitRecords) /\ Len(added) = c
    <2>1. known = [i \in DOMAIN s |-> known[i]] /\ added = [k \in DOMAIN new |-> added[k]]
      BY <1>6, <1>10 DEF known, added
    <2>2. known \in [1 .. n -> HitRecords] /\ added \in [1 .. c -> HitRecords]
      BY <1>4, <1>5, <1>7, <1>9, <2>1
    <2> QED BY <1>4, <1>7, <2>2, FunctionIsSeq
  <1>12. /\ m \in Seq(HitRecords) /\ Len(m) = n + c
         /\ \A i \in 1 .. n : m[i] = known[i]
         /\ \A i \in 1 .. n + c : i > n => m[i] = added[i - n] /\ i - n \in 1 .. c
    <2> HIDE DEF n, c
    <2>1. /\ m \in Seq(HitRecords) /\ Len(m) = Len(known) + Len(added)
          /\ \A i \in 1 .. Len(known) : m[i] = known[i]
          /\ \A i \in 1 .. Len(m) :
               i > Len(known) => /\ m[i] = added[i - Len(known)]
                                 /\ i - Len(known) \in 1 .. Len(added)
      <3>1. known \in Seq(HitRecords) /\ added \in Seq(HitRecords) /\ m = known \o added
        BY <1>3, <1>11
      <3> QED BY <3>1, ConcatIs
    <2> QED BY <1>11, <2>1
  <1>13. n \in Nat /\ c \in Nat /\ DOMAIN m = 1 .. n + c
    BY <1>4, <1>7, <1>12, SeqIs
  <1> HIDE DEF n, c
  <1>14. \A i \in DOMAIN m : i \in 1 .. n \/ (i > n /\ i - n \in 1 .. c /\ i \in Int)
    BY <1>12, <1>13
  <1>15. DOMAIN s = 1 .. n /\ DOMAIN new = 1 .. c
    BY <1>4, <1>7 DEF n, c
  <1>16. \A i \in 1 .. n : m[i].id = s[i].id /\ m[i].id \in Ids(s)
    BY <1>5, <1>12, <1>15 DEF Ids
  <1>17. \A i \in DOMAIN m : i > n => /\ m[i].id = new[i - n] /\ m[i].id \notin Ids(s)
                                     /\ m[i].via = {channel} /\ m[i].span = span
    <2> TAKE i \in DOMAIN m
    <2> HAVE i > n
    <2>1. m[i] = added[i - n] /\ i - n \in DOMAIN new
      BY <1>12, <1>13, <1>15
    <2> QED BY <1>8, <1>9, <2>1 DEF fresh
  <1>18. IsList(m)
    <2>1. ASSUME NEW i \in DOMAIN m, NEW j \in DOMAIN m, m[i].id = m[j].id
          PROVE  i = j
      <3>1. CASE i \in 1 .. n /\ j \in 1 .. n
        BY <2>1, <3>1, <1>15, <1>16 DEF IsList
      <3>2. CASE i > n /\ j > n
        <4>1. new[i - n] = new[j - n] /\ i - n \in DOMAIN new /\ j - n \in DOMAIN new
          BY <2>1, <3>2, <1>12, <1>13, <1>15, <1>17
        <4>2. i - n = j - n /\ i \in Int /\ j \in Int /\ n \in Int
          BY <1>7, <1>13, <4>1
        <4> QED BY <4>2
      <3>3. ~(i \in 1 .. n /\ j > n) /\ ~(j \in 1 .. n /\ i > n)
        BY <2>1, <1>16, <1>17
      <3> QED BY <3>1, <3>2, <3>3, <1>14
    <2> QED BY <1>12, <2>1 DEF IsList
  <1>19. ASSUME channel \notin {"lexical", "trigram"}
         PROVE  Worded(m) = Worded(s)
    <2>1. \A i \in 1 .. n : \A c2 \in {"lexical", "trigram"} : c2 \in m[i].via <=> c2 \in s[i].via
      BY <1>5, <1>12, <1>15, <1>19
    <2>2. \A i \in DOMAIN m : i > n => m[i].via \cap {"lexical", "trigram"} = {}
      BY <1>17, <1>19
    <2>3. 1 .. n \subseteq DOMAIN m
      BY <1>13
    <2>4. ASSUME NEW p \in Revisions \X {"lexical", "trigram"}
          PROVE  (\E i \in DOMAIN m : m[i].id = p[1] /\ p[2] \in m[i].via)
                   <=> \E i \in DOMAIN s : s[i].id = p[1] /\ p[2] \in s[i].via
      <3>1. p[2] \in {"lexical", "trigram"}
        OBVIOUS
      <3> QED BY <1>14, <1>15, <1>16, <2>1, <2>2, <2>3, <3>1
    <2> QED BY <2>4 DEF Worded
  <1>20. ASSUME NEW i \in DOMAIN m PROVE IsMerged(m[i], s, found, channel, span)
    <2>1. CASE i \in 1 .. n
      <3>1. m[i] = known[i] /\ i \in DOMAIN s
        BY <2>1, <1>12, <1>15
      <3> QED BY <3>1, <1>5 DEF IsMerged
    <2>2. CASE i > n
      <3>1. m[i].via = {channel} /\ m[i].span = span
        BY <2>2, <1>17
      <3> QED BY <3>1 DEF IsMerged
    <2> QED BY <2>1, <2>2, <1>14
  <1> QED BY <1>18, <1>19, <1>20 DEF m

-----------------------------------------------------------------------------
(* The channels.                                                           *)

\* A list whose hits cite the row they are.
CitesRows(s) == \A i \in DOMAIN s : s[i].span = "row"

LEMMA MergedRows ==
  ASSUME NEW s, IsList(s), CitesRows(s), NEW found \in SUBSET Revisions, NEW channel \in Channels
  PROVE  CitesRows(Merged(s, found, channel, "row"))
  <1> DEFINE m == Merged(s, found, channel, "row")
  <1>1. \A i \in DOMAIN m : IsMerged(m[i], s, found, channel, "row")
    BY MergedIs
  <1> HIDE DEF m
  <1>2. \A i \in DOMAIN m : m[i].span = "row"
    BY <1>1 DEF IsMerged, CitesRows
  <1> QED BY <1>2 DEF m, CitesRows

LEMMA LexicalIsList == IsWorld => IsList(LexicalCandidates) /\ CitesRows(LexicalCandidates)
  <1> SUFFICES ASSUME IsWorld PROVE IsList(LexicalCandidates) /\ CitesRows(LexicalCandidates)
    OBVIOUS
  <1> DEFINE full == {r \in Revisions : Eligible(r) /\ world[r].lex > 0}
             fuzzy == {r \in Revisions : Eligible(r) /\ world[r].tri > 0}
             lexical == Merged(<<>>, full, "lexical", "row")
  <1>1. IsList(<<>>) /\ CitesRows(<<>>)
    BY DEF IsList, CitesRows
  <1>2. full \in SUBSET Revisions /\ fuzzy \in SUBSET Revisions
    OBVIOUS
  <1>3. "lexical" \in Channels /\ "trigram" \in Channels
    BY DEF Channels
  <1> HIDE DEF full, fuzzy
  <1>4. IsList(lexical) /\ CitesRows(lexical)
    BY <1>1, <1>2, <1>3, MergedIs, MergedRows
  <1> HIDE DEF lexical
  <1> DEFINE both == Merged(lexical, fuzzy, "trigram", "row")
  <1>5. IsList(both) /\ CitesRows(both)
    BY <1>2, <1>3, <1>4, MergedIs, MergedRows
  <1>6. LexicalCandidates \in {lexical, both}
    BY DEF LexicalCandidates, lexical, full, fuzzy
  <1> HIDE DEF both
  <1> QED BY <1>4, <1>5, <1>6

\* What a hit cites was put there by a channel that found it, and the evidence
\* of a derived text only where the row's own words do not qualify.
Sourced(h) ==
  /\ h.span # "lexical"
  /\ h.span = "dense" => "dense" \in h.via
  /\ h.span = "projection" => "projection" \in h.via /\ ~LexicalQualified(h)

\* A list whose channels of words found what the lexical step found.
Gathered(s) ==
  /\ IsList(s) /\ Worded(s) = Worded(LexicalCandidates)
  /\ \A i \in DOMAIN s : Sourced(s[i])

LEMMA AnchoredGathers == IsWorld => Gathered(WithAnchored(LexicalCandidates))
  <1> SUFFICES ASSUME IsWorld PROVE Gathered(WithAnchored(LexicalCandidates))
    OBVIOUS
  <1> DEFINE s == LexicalCandidates
             found == {r \in Revisions : AnchorEligible(r) /\ world[r].anchored}
             known == {Entity(r) : r \in Ids(s)}
             more == {r \in found : Entity(r) \notin known}
  <1>1. IsList(s) /\ CitesRows(s)
    BY LexicalIsList
  <1>2. more \in SUBSET Revisions /\ "anchor" \in Channels
    BY DEF Channels
  <1>3. WithAnchored(s) = Merged(s, more, "anchor", "row")
    BY DEF WithAnchored
  <1> HIDE DEF s, more
  <1>a. CitesRows(WithAnchored(s))
    BY <1>1, <1>2, <1>3, MergedRows
  <1>b. IsList(WithAnchored(s)) /\ Worded(WithAnchored(s)) = Worded(s)
    BY <1>1, <1>2, <1>3, MergedIs
  <1>4. /\ IsList(WithAnchored(s)) /\ Worded(WithAnchored(s)) = Worded(s)
        /\ CitesRows(WithAnchored(s))
    BY <1>a, <1>b
  <1>5. \A i \in DOMAIN WithAnchored(s) : Sourced(WithAnchored(s)[i])
    BY <1>4 DEF CitesRows, Sourced
  <1> QED BY <1>4, <1>5 DEF Gathered, s

\* A list in which some hits cite another span.
LEMMA RespannedFound ==
  ASSUME NEW s, s \in Seq(HitRecords), NEW span \in {"projection", "dense", "lexical"},
         NEW P, NEW t, t = [i \in DOMAIN s |-> IF i \in P THEN [s[i] EXCEPT !.span = span] ELSE s[i]]
  PROVE  SameFound(t, s)
  <1>1. DOMAIN s = 1 .. Len(s) /\ Len(s) \in Nat
    BY SeqIs
  <1>2. \A i \in DOMAIN s : t[i] \in HitRecords /\ t[i].id = s[i].id /\ t[i].via = s[i].via
    <2> TAKE i \in DOMAIN s
    <2> DEFINE h == s[i]
    <2>1. h \in HitRecords
      BY HitTyped
    <2>2. t[i] = IF i \in P THEN [h EXCEPT !.span = span] ELSE h
      OBVIOUS
    <2> HIDE DEF h
    <2>3. t[i] \in HitRecords /\ t[i].id = h.id /\ t[i].via = h.via
      BY <2>1, <2>2 DEF HitRecords
    <2> QED BY <2>3 DEF h
  <1>3. t \in Seq(HitRecords) /\ DOMAIN t = DOMAIN s
    <2>1. t \in [1 .. Len(s) -> HitRecords]
      BY <1>1, <1>2
    <2> QED BY <1>1, <2>1, FunctionIsSeq
  <1> QED BY <1>2, <1>3 DEF SameFound

\* A channel of derived texts or of similarity leaves what the hits cite sourced.
LEMMA MergedSourced ==
  ASSUME NEW s, IsList(s), \A i \in DOMAIN s : Sourced(s[i]), NEW found \in SUBSET Revisions,
         NEW channel \in {"projection", "dense"},
         NEW i \in DOMAIN Merged(s, found, channel, channel)
  PROVE  LET h == Merged(s, found, channel, channel)[i]
         IN Sourced(h) /\ (h.id \in found => channel \in h.via)
  <1> DEFINE h == Merged(s, found, channel, channel)[i]
  <1>1. IsMerged(h, s, found, channel, channel)
    BY MergedIs DEF Channels
  <1> HIDE DEF h
  <1>2. h.id \in found => channel \in h.via
    BY <1>1 DEF IsMerged
  <1>3. CASE h.via = {channel} /\ h.span = channel
    <2>1. h.via \cap {"lexical", "trigram"} = {}
      BY <1>3
    <2>2. ~LexicalQualified(h)
      BY <2>1 DEF LexicalQualified
    <2> QED BY <1>2, <1>3, <2>2 DEF Sourced, h
  <1>4. ASSUME NEW j \in DOMAIN s, h.id = s[j].id, h.span = s[j].span,
               h.via \in {s[j].via, s[j].via \cup {channel}}
        PROVE  Sourced(h)
    <2>1. h.via \cap {"lexical", "trigram"} = s[j].via \cap {"lexical", "trigram"}
      BY <1>4
    <2>2. LexicalQualified(h) <=> LexicalQualified(s[j])
      BY <1>4, <2>1 DEF LexicalQualified
    <2>3. Sourced(s[j])
      OBVIOUS
    <2> QED BY <1>4, <2>2, <2>3 DEF Sourced
  <1> QED BY <1>1, <1>2, <1>3, <1>4 DEF IsMerged, h

LEMMA ProjectionsGather ==
  ASSUME IsWorld, NEW s, Gathered(s)
  PROVE  Gathered(WithProjections(s))
  <1> DEFINE found == {r \in Revisions : ProjectionEligible(r) /\ world[r].proj > 0}
             merged == Merged(s, found, "projection", "projection")
             P == {i \in DOMAIN merged : merged[i].id \in found /\ ~LexicalQualified(merged[i])}
             t == WithProjections(s)
  <1>1. /\ found \in SUBSET Revisions /\ "projection" \in Channels /\ IsList(s)
        /\ Worded(s) = Worded(LexicalCandidates) /\ \A i \in DOMAIN s : Sourced(s[i])
    BY DEF Channels, Gathered
  <1>2. t = [i \in DOMAIN merged |->
               IF i \in P THEN [merged[i] EXCEPT !.span = "projection"] ELSE merged[i]]
    BY DEF WithProjections
  <1> HIDE DEF found
  <1>3. /\ IsList(merged) /\ Worded(merged) = Worded(s)
        /\ \A i \in DOMAIN merged : Sourced(merged[i])
        /\ \A i \in DOMAIN merged : merged[i].id \in found => "projection" \in merged[i].via
    BY <1>1, MergedIs, MergedSourced
  <1> HIDE DEF merged, t
  <1>4. SameFound(t, merged)
    BY <1>2, <1>3, RespannedFound DEF IsList
  <1>5. IsList(t) /\ Worded(t) = Worded(merged)
    BY <1>3, <1>4, SameFoundIsList
  <1>6. ASSUME NEW i \in DOMAIN t PROVE Sourced(t[i])
    <2> DEFINE h == merged[i]
    <2>1. i \in DOMAIN merged /\ t[i].id = h.id /\ t[i].via = h.via
      BY <1>4 DEF SameFound
    <2>2. LexicalQualified(t[i]) <=> LexicalQualified(h)
      BY <2>1 DEF LexicalQualified
    <2>3. h \in HitRecords /\ t[i] = IF i \in P THEN [h EXCEPT !.span = "projection"] ELSE h
      BY <1>2, <1>3, <2>1, HitTyped DEF IsList
    <2>4. i \in P => "projection" \in h.via /\ ~LexicalQualified(h)
      BY <1>3, <2>1
    <2>5. Sourced(h)
      BY <1>3, <2>1
    <2> HIDE DEF h, P
    <2>6. t[i].span = IF i \in P THEN "projection" ELSE h.span
      BY <2>3 DEF HitRecords
    <2> QED BY <2>1, <2>2, <2>4, <2>5, <2>6 DEF Sourced
  <1> QED BY <1>1, <1>3, <1>5, <1>6 DEF Gathered, t

LEMMA DenseGathers ==
  ASSUME IsWorld, NEW s, Gathered(s), NEW applied
  PROVE  Gathered(WithDense(s, applied))
  <1> DEFINE found == {r \in DenseFound :
                         Cardinality({o \in DenseFound : DenseBefore(o, r)}) < applied}
             merged == Merged(s, found, "dense", "dense")
             P == {i \in DOMAIN merged : merged[i].id \in found /\ world[merged[i].id].type = "artifact"}
             t == WithDense(s, applied)
  <1>1. /\ found \in SUBSET Revisions /\ "dense" \in Channels /\ IsList(s)
        /\ Worded(s) = Worded(LexicalCandidates) /\ \A i \in DOMAIN s : Sourced(s[i])
    BY DEF Channels, Gathered, DenseFound
  <1>2. t = [i \in DOMAIN merged |->
               IF i \in P THEN [merged[i] EXCEPT !.span = "dense"] ELSE merged[i]]
    BY DEF WithDense
  <1> HIDE DEF found
  <1>3. /\ IsList(merged) /\ Worded(merged) = Worded(s)
        /\ \A i \in DOMAIN merged : Sourced(merged[i])
        /\ \A i \in DOMAIN merged : merged[i].id \in found => "dense" \in merged[i].via
    BY <1>1, MergedIs, MergedSourced
  <1> HIDE DEF merged, t
  <1>4. SameFound(t, merged)
    BY <1>2, <1>3, RespannedFound DEF IsList
  <1>5. IsList(t) /\ Worded(t) = Worded(merged)
    BY <1>3, <1>4, SameFoundIsList
  <1>6. ASSUME NEW i \in DOMAIN t PROVE Sourced(t[i])
    <2> DEFINE h == merged[i]
    <2>1. i \in DOMAIN merged /\ t[i].id = h.id /\ t[i].via = h.via
      BY <1>4 DEF SameFound
    <2>2. LexicalQualified(t[i]) <=> LexicalQualified(h)
      BY <2>1 DEF LexicalQualified
    <2>3. h \in HitRecords /\ t[i] = IF i \in P THEN [h EXCEPT !.span = "dense"] ELSE h
      BY <1>2, <1>3, <2>1, HitTyped DEF IsList
    <2>4. i \in P => "dense" \in h.via
      BY <1>3, <2>1
    <2>5. Sourced(h)
      BY <1>3, <2>1
    <2> HIDE DEF h, P
    <2>6. t[i].span = IF i \in P THEN "dense" ELSE h.span
      BY <2>3 DEF HitRecords
    <2> QED BY <2>1, <2>2, <2>4, <2>5, <2>6 DEF Sourced
  <1> QED BY <1>1, <1>3, <1>5, <1>6 DEF Gathered, t

-----------------------------------------------------------------------------
(* Ranks of a hit, as far as the channels of words decide them.            *)

Words == {"lexical", "trigram"}

Alike(h, g) == h.id = g.id /\ h.via \cap Words = g.via \cap Words

LEMMA AlikeRanks ==
  ASSUME NEW h, NEW g, Alike(h, g)
  PROVE  /\ LexicalQualified(h) <=> LexicalQualified(g)
         /\ TrigramQualified(h) <=> TrigramQualified(g)
         /\ Qualified(h) <=> Qualified(g)
         /\ Exact(h) <=> Exact(g)
         /\ Conflicted(h) <=> Conflicted(g)
         /\ Exact(h) => /\ MatchedUnits(h) = world[h.id].units /\ Counted(h)
                        /\ MatchedUnits(g) = world[h.id].units /\ Counted(g)
  <1>1. h.id = g.id /\ h.via \cap Words = g.via \cap Words
    BY DEF Alike
  <1>2. "trigram" \in h.via <=> "trigram" \in g.via
    BY <1>1 DEF Words
  <1>3. LexicalQualified(h) <=> LexicalQualified(g)
    BY <1>1 DEF LexicalQualified, Words
  <1>4. TrigramQualified(h) <=> TrigramQualified(g)
    BY <1>1, <1>2 DEF TrigramQualified
  <1>5. Exact(h) <=> Exact(g)
    BY <1>1, <1>3 DEF Exact
  <1>6. ASSUME NEW x \in {h, g}, Exact(x)
        PROVE  MatchedUnits(x) = world[x.id].units /\ Counted(x)
    <2>1. x.via \cap {"lexical", "trigram"} # {}
      BY <1>6 DEF Exact, LexicalQualified
    <2> QED BY <2>1 DEF MatchedUnits, Counted
  <1> QED BY <1>1, <1>3, <1>4, <1>5, <1>6 DEF Qualified, Conflicted

LEMMA FoundByWords ==
  ASSUME NEW s, IsList(s), NEW i \in DOMAIN s, NEW c \in Words
  PROVE  c \in s[i].via <=> <<s[i].id, c>> \in Worded(s)
  <1>1. s[i].id \in Revisions
    BY HitTyped DEF IsList
  <1> QED BY <1>1 DEF Worded, Words, IsList

\* Hits of two lists whose channels of words found the same.
LEMMA WordedAlike ==
  ASSUME NEW s, IsList(s), NEW t, IsList(t), Worded(s) = Worded(t),
         NEW i \in DOMAIN s, NEW j \in DOMAIN t, s[i].id = t[j].id
  PROVE  Alike(s[i], t[j])
  <1>1. \A c \in Words : c \in s[i].via <=> c \in t[j].via
    BY FoundByWords
  <1> QED BY <1>1 DEF Alike

\* An exact hit of one is in the other.
LEMMA ExactIsThere ==
  ASSUME NEW s, IsList(s), NEW t, IsList(t), Worded(s) = Worded(t),
         NEW i \in DOMAIN s, Exact(s[i])
  PROVE  \E j \in DOMAIN t : t[j].id = s[i].id /\ Alike(s[i], t[j])
  <1>1. PICK c \in Words : c \in s[i].via
    BY DEF Exact, LexicalQualified, Words
  <1>2. <<s[i].id, c>> \in Worded(t)
    BY <1>1, FoundByWords
  <1>3. PICK j \in DOMAIN t : t[j].id = s[i].id
    BY <1>2 DEF Worded
  <1> QED BY <1>3, WordedAlike

-----------------------------------------------------------------------------
(* Fusion.                                                                 *)

LEMMA BetterFinite ==
  ASSUME NEW s, IsList(s), NEW channel, NEW r
  PROVE  Cardinality(Better(s, channel, r)) \in Nat
  <1>1. \A i \in DOMAIN s : s[i].id \in Revisions
    BY HitTyped DEF IsList
  <1>2. Better(s, channel, r) \subseteq Revisions
    BY <1>1 DEF Better
  <1> QED BY <1>2, RevisionsAreInt, FS_Subset, FS_CardinalityType

LEMMA FusedTyped ==
  ASSUME NEW s, IsList(s), NEW h
  PROVE  Fused(s, h) \in Int
  <1>1. ASSUME NEW channel, NEW weight \in Nat
        PROVE  Reciprocal(s, h, channel, weight) \in Int
    <2> DEFINE c == Cardinality(Better(s, channel, h.id))
    <2>1. c \in Nat
      BY BetterFinite
    <2> HIDE DEF c
    <2>2. 60 + 1 + c \in Nat /\ 60 + 1 + c > 0
      BY <2>1
    <2>3. (weight * 10000) \div (60 + 1 + c) \in Int
      BY <2>2
    <2> QED BY <2>3 DEF Reciprocal, RRF_K, c
  <1>2. LexicalShare(s, h) \in Int
    BY <1>1 DEF LexicalShare
  <1>3. OtherShares(s, h) \in Int
    BY <1>1 DEF OtherShares
  <1> QED BY <1>2, <1>3 DEF Fused

\* An exact hit has the score of its words: the same in every list whose
\* channels of words found the same.
LEMMA ExactScore ==
  ASSUME NEW s, IsList(s), NEW t, IsList(t), Worded(s) = Worded(t),
         NEW h, NEW g, Alike(h, g), Exact(h)
  PROVE  Fused(s, h) = Fused(t, g)
  <1>1. Exact(g) /\ h.id = g.id /\ ("lexical" \in h.via <=> "lexical" \in g.via)
    BY AlikeRanks DEF Alike, Words
  <1>2. Better(s, "lexical", h.id) = Better(t, "lexical", g.id)
    <2> DEFINE listed(u) == {u[i].id : i \in {j \in DOMAIN u : "lexical" \in u[j].via}}
    <2>1. ASSUME NEW u, IsList(u)
          PROVE  listed(u) = {r \in Revisions : <<r, "lexical">> \in Worded(u)}
      <3>1. \A i \in DOMAIN u : /\ u[i].id \in Revisions
                                /\ "lexical" \in u[i].via <=> <<u[i].id, "lexical">> \in Worded(u)
        BY <2>1, HitTyped, FoundByWords DEF IsList, Words
      <3>2. \A r \in Revisions : <<r, "lexical">> \in Worded(u) =>
              \E i \in DOMAIN u : u[i].id = r /\ "lexical" \in u[i].via
        BY DEF Worded
      <3> QED BY <3>1, <3>2
    <2>2. listed(s) = listed(t)
      BY <2>1
    <2> DEFINE best(o, r) == \/ ChannelScore("lexical", o) > ChannelScore("lexical", r)
                             \/ ChannelScore("lexical", o) = ChannelScore("lexical", r) /\ o > r
    <2>3. /\ Better(s, "lexical", h.id) = {o \in listed(s) : best(o, h.id)}
          /\ Better(t, "lexical", h.id) = {o \in listed(t) : best(o, h.id)}
      BY DEF Better
    <2> HIDE DEF listed, best
    <2>4. Better(s, "lexical", h.id) = Better(t, "lexical", h.id)
      BY <2>2, <2>3
    <2> QED BY <1>1, <2>4
  <1>3. LexicalShare(s, h) = LexicalShare(t, g)
    BY <1>1, <1>2 DEF LexicalShare, Reciprocal
  <1>4. Fused(s, h) = LexicalShare(s, h) + 0 /\ Fused(t, g) = LexicalShare(t, g) + 0
    BY <1>1 DEF Fused
  <1> QED BY <1>3, <1>4

Scored(s) == {[s[i] EXCEPT !.score = Fused(s, s[i])] : i \in DOMAIN s}

LEMMA ScoredAre ==
  ASSUME IsWorld, NEW s, IsList(s)
  PROVE  /\ Scored(s) \subseteq HitRecords /\ IsFiniteSet(Scored(s))
         /\ Cardinality(Scored(s)) = Len(s)
         /\ \A g, h \in Scored(s) : g.id = h.id => g = h
         /\ \A i \in DOMAIN s : LET h == [s[i] EXCEPT !.score = Fused(s, s[i])] IN
              h \in Scored(s) /\ h.score = Fused(s, s[i]) /\ h.id = s[i].id /\ h.via = s[i].via
                /\ h.span = s[i].span
  <1> DEFINE n == Len(s)
             f == [i \in 1 .. n |-> [s[i] EXCEPT !.score = Fused(s, s[i])]]
  <1>1. s \in Seq(HitRecords) /\ n \in Nat /\ DOMAIN s = 1 .. n
    BY SeqIs DEF IsList
  <1>2. \A i \in 1 .. n : /\ f[i] \in HitRecords /\ f[i].id = s[i].id /\ f[i].via = s[i].via
                          /\ f[i].score = Fused(s, s[i]) /\ f[i].span = s[i].span
    <2> TAKE i \in 1 .. n
    <2>1. s[i] \in HitRecords /\ Fused(s, s[i]) \in Int
      BY <1>1, HitTyped, FusedTyped
    <2> QED BY <2>1 DEF HitRecords
  <1>3. Scored(s) = {f[i] : i \in 1 .. n}
    BY <1>1 DEF Scored
  <1>4. \A i, j \in 1 .. n : f[i].id = f[j].id => i = j
    BY <1>1, <1>2 DEF IsList
  <1>5. f \in [1 .. n -> Scored(s)]
    BY <1>3
  <1> HIDE DEF f
  <1>6. f \in Injection(1 .. n, Scored(s))
    BY <1>4, <1>5, Zenon DEF Injection, IsInjective
  <1>7. f \in Surjection(1 .. n, Scored(s))
    BY <1>3, <1>5 DEF Surjection
  <1>8. IsFiniteSet(1 .. n) /\ Cardinality(1 .. n) = n
    BY <1>1, FS_Interval
  <1>9. IsFiniteSet(Scored(s)) /\ Cardinality(Scored(s)) = n
    BY <1>6, <1>7, <1>8, FS_Surjection
  <1>10. \A i \in DOMAIN s : f[i] = [s[i] EXCEPT !.score = Fused(s, s[i])]
    BY <1>1 DEF f
  <1>11. \A g, h \in Scored(s) : g.id = h.id => g = h
    BY <1>3, <1>4
  <1>12. Scored(s) \subseteq HitRecords
    BY <1>2, <1>3
  <1>13. \A i \in DOMAIN s : /\ f[i] \in Scored(s) /\ f[i].score = Fused(s, s[i])
                             /\ f[i].id = s[i].id /\ f[i].via = s[i].via /\ f[i].span = s[i].span
    BY <1>1, <1>2, <1>3
  <1> QED BY <1>9, <1>10, <1>11, <1>12, <1>13

\* The order of fusion has no ties between different revisions.
LEMMA FusedBeforeStrict ==
  ASSUME IsWorld, NEW g \in HitRecords, NEW h \in HitRecords, NEW k \in HitRecords
  PROVE  /\ ~FusedBefore(g, g)
         /\ g.id = h.id \/ FusedBefore(g, h) \/ FusedBefore(h, g)
         /\ FusedBefore(g, h) /\ FusedBefore(h, k) => FusedBefore(g, k)
  <1>1. \A x \in HitRecords : x.id \in Revisions /\ x.score \in Int
    BY DEF HitRecords
  <1>2. \A x \in HitRecords : x.id \in Int /\ MatchedUnits(x) \in Int
    <2> TAKE x \in HitRecords
    <2>1. x.id \in Revisions /\ x.id \in Int
      BY <1>1, RevisionsAreInt
    <2>2. world[x.id].units \in Int /\ world[x.id].proj \in Int
      BY <2>1, WorldTyped
    <2> QED BY <2>1, <2>2 DEF MatchedUnits
  <1>3. /\ g.id \in Int /\ g.score \in Int /\ MatchedUnits(g) \in Int
        /\ h.id \in Int /\ h.score \in Int /\ MatchedUnits(h) \in Int
        /\ k.id \in Int /\ k.score \in Int /\ MatchedUnits(k) \in Int
    BY <1>1, <1>2
  <1>4. ~FusedBefore(g, g)
    BY <1>3 DEF FusedBefore
  <1>5. g.id = h.id \/ FusedBefore(g, h) \/ FusedBefore(h, g)
    BY <1>3 DEF FusedBefore
  <1>6. FusedBefore(g, h) /\ FusedBefore(h, k) => FusedBefore(g, k)
    BY <1>3 DEF FusedBefore
  <1> QED BY <1>4, <1>5, <1>6

LEMMA IdsCounted ==
  ASSUME NEW X, IsFiniteSet(X), \A g, h \in X : g.id = h.id => g = h
  PROVE  Cardinality(X) = Cardinality({h.id : h \in X})
  <1> DEFINE T == {h.id : h \in X}
             f == [h \in X |-> h.id]
  <1>1. f \in [X -> T] /\ \A g, h \in X : f[g] = f[h] => g = h
    OBVIOUS
  <1>2. \A x \in T : \E h \in X : f[h] = x
    OBVIOUS
  <1> HIDE DEF f, T
  <1>3. f \in Injection(X, T)
    BY <1>1, Zenon DEF Injection, IsInjective
  <1>4. f \in Surjection(X, T)
    BY <1>1, <1>2 DEF Surjection
  <1>5. Cardinality(X) = Cardinality(T)
    BY <1>3, <1>4, FS_Surjection
  <1> QED BY <1>5 DEF T

\* f is the list of the hits of s with their scores, in the order of fusion.
IsFused(f, s) ==
  /\ IsList(f) /\ Len(f) = Len(s) /\ DOMAIN f = DOMAIN s
  /\ \A k \in DOMAIN f : f[k] \in Scored(s)
  /\ \A h \in Scored(s) : \E k \in DOMAIN f : f[k] = h
  /\ \A k, l \in DOMAIN f : k < l => FusedBefore(f[k], f[l])
  /\ \A k \in DOMAIN f : Cardinality({h \in Scored(s) : FusedBefore(h, f[k])}) = k - 1

LEMMA FusedOrderIs ==
  ASSUME IsWorld, NEW s, IsList(s)
  PROVE  IsFused(FusedOrder(s), s)
  <1> DEFINE P == Scored(s)
             R == {p \in P \X P : FusedBefore(p[1], p[2])}
             f == FusedOrder(s)
  <1>1. P \subseteq HitRecords /\ IsFiniteSet(P) /\ Cardinality(P) = Len(s)
        /\ \A g, h \in P : g.id = h.id => g = h
    BY ScoredAre
  <1>2. f = Arranged(P, R)
    BY DEF FusedOrder, Scored
  <1> HIDE DEF P
  <1>3. \A g, h \in P : <<g, h>> \in R <=> FusedBefore(g, h)
    OBVIOUS
  <1> HIDE DEF R, f
  <1>4. StrictOrder(P, R)
    <2>1. \A g, h \in P : g = h \/ FusedBefore(g, h) \/ FusedBefore(h, g)
      BY <1>1, FusedBeforeStrict
    <2>2. \A g \in P : ~FusedBefore(g, g)
      BY <1>1, FusedBeforeStrict
    <2>3. \A g, h, k \in P : FusedBefore(g, h) /\ FusedBefore(h, k) => FusedBefore(g, k)
      BY <1>1, FusedBeforeStrict
    <2> QED BY <1>3, <2>1, <2>2, <2>3 DEF StrictOrder
  <1>5. IsArranged(f, P, R)
    BY <1>1, <1>2, <1>4, ArrangedIs
  <1>6. f \in Seq(P) /\ Len(f) = Len(s)
    BY <1>1, <1>5 DEF IsArranged
  <1>7. Len(s) \in Nat /\ DOMAIN s = 1 .. Len(s) /\ DOMAIN f = 1 .. Len(s)
    BY <1>6, SeqIs DEF IsList
  <1>8. \A k \in DOMAIN f : f[k] \in P
    BY <1>6, SeqIs
  <1>9. \A k, l \in DOMAIN f : k < l => FusedBefore(f[k], f[l])
    BY <1>3, <1>5, <1>8 DEF IsArranged
  <1>10. \A k \in DOMAIN f : Cardinality({h \in P : FusedBefore(h, f[k])}) = k - 1
    <2> TAKE k \in DOMAIN f
    <2>1. {h \in P : <<h, f[k]>> \in R} = {h \in P : FusedBefore(h, f[k])}
      BY <1>3, <1>8
    <2> QED BY <1>5, <2>1 DEF IsArranged
  <1>11. f \in Seq(HitRecords)
    BY <1>1, <1>6
  <1>12. \A k, l \in DOMAIN f : f[k].id = f[l].id => k = l
    <2> TAKE k, l \in DOMAIN f
    <2> HAVE f[k].id = f[l].id
    <2>1. f[k] = f[l]
      BY <1>1, <1>8
    <2>2. ~FusedBefore(f[k], f[l]) /\ ~FusedBefore(f[l], f[k])
      BY <1>1, <1>8, <2>1, FusedBeforeStrict
    <2>3. ~(k < l) /\ ~(l < k) /\ k \in Int /\ l \in Int
      BY <1>7, <1>9, <2>2
    <2> QED BY <2>3
  <1>13. IsList(f)
    BY <1>11, <1>12 DEF IsList
  <1>14. \A h \in P : \E k \in DOMAIN f : f[k] = h
    BY <1>5 DEF IsArranged
  <1>15. IsFused(f, s)
    BY <1>6, <1>7, <1>8, <1>9, <1>10, <1>13, <1>14 DEF IsFused, P
  <1> QED BY <1>15 DEF f

-----------------------------------------------------------------------------
(* Exact hits lead, and are the same whatever other channels found.        *)

SameExact(f, g) ==
  \A k \in DOMAIN f :
    Exact(f[k]) => k \in DOMAIN g /\ Alike(f[k], g[k]) /\ f[k].score = g[k].score

ExactLead(f) == \A k, l \in DOMAIN f : l < k /\ Exact(f[k]) => Exact(f[l])

LEMMA AlikeTurned ==
  ASSUME NEW h, NEW g, Alike(h, g)
  PROVE  Alike(g, h)
  BY DEF Alike

LEMMA FusedLead ==
  ASSUME NEW s, NEW f, IsFused(f, s)
  PROVE  ExactLead(f)
  BY DEF IsFused, ExactLead, FusedBefore

LEMMA ScoredAgree ==
  ASSUME IsWorld, NEW s, IsList(s), NEW t, IsList(t), Worded(s) = Worded(t),
         NEW h \in Scored(s), Exact(h)
  PROVE  \E g \in Scored(t) : Alike(h, g) /\ h.score = g.score
  <1>1. PICK i \in DOMAIN s : h = [s[i] EXCEPT !.score = Fused(s, s[i])]
    BY DEF Scored
  <1>2. h.score = Fused(s, s[i]) /\ Alike(h, s[i])
    BY <1>1, ScoredAre DEF Alike
  <1>3. Exact(s[i])
    BY <1>2, AlikeRanks
  <1>4. PICK j \in DOMAIN t : Alike(s[i], t[j])
    BY <1>3, ExactIsThere
  <1> DEFINE g == [t[j] EXCEPT !.score = Fused(t, t[j])]
  <1>5. g \in Scored(t) /\ g.score = Fused(t, t[j]) /\ g.id = t[j].id /\ g.via = t[j].via
    BY ScoredAre
  <1> HIDE DEF g
  <1>6. h.score = g.score
    BY <1>2, <1>3, <1>4, <1>5, ExactScore
  <1>7. Alike(h, g)
    BY <1>2, <1>4, <1>5 DEF Alike
  <1> QED BY <1>5, <1>6, <1>7

LEMMA BeforeAgree ==
  ASSUME NEW h, NEW g, Alike(h, g), h.score = g.score, Exact(h),
         NEW x, NEW y, Alike(x, y), x.score = y.score, Exact(x)
  PROVE  FusedBefore(x, h) <=> FusedBefore(y, g)
  <1>1. /\ Exact(g) /\ Exact(y) /\ h.id = g.id /\ x.id = y.id
        /\ MatchedUnits(h) = MatchedUnits(g) /\ MatchedUnits(x) = MatchedUnits(y)
    BY AlikeRanks DEF Alike
  <1> QED BY <1>1 DEF FusedBefore

Ahead(s, h) == {x \in Scored(s) : FusedBefore(x, h)}

LEMMA AheadIds ==
  ASSUME IsWorld, NEW s, IsList(s), NEW t, IsList(t), Worded(s) = Worded(t),
         NEW h \in Scored(s), Exact(h), NEW g \in Scored(t), Alike(h, g), h.score = g.score
  PROVE  {x.id : x \in Ahead(s, h)} \subseteq {y.id : y \in Ahead(t, g)}
  <1> SUFFICES ASSUME NEW x \in Ahead(s, h)
               PROVE  \E y \in Ahead(t, g) : y.id = x.id
    OBVIOUS
  <1>1. x \in Scored(s) /\ FusedBefore(x, h)
    BY DEF Ahead
  <1>2. Exact(x)
    BY <1>1 DEF FusedBefore
  <1>3. PICK y \in Scored(t) : Alike(x, y) /\ x.score = y.score
    BY <1>1, <1>2, ScoredAgree
  <1>4. FusedBefore(y, g)
    BY <1>1, <1>2, <1>3, BeforeAgree
  <1> QED BY <1>3, <1>4 DEF Ahead, Alike

\* The exact hits of a fusion stand where they stand in the fusion of any other
\* list whose channels of words found the same.
LEMMA FusedAgree ==
  ASSUME IsWorld, NEW s, IsList(s), NEW t, IsList(t), Worded(s) = Worded(t),
         NEW f, IsFused(f, s), NEW e, IsFused(e, t)
  PROVE  SameExact(f, e)
  <1> SUFFICES ASSUME NEW k \in DOMAIN f, Exact(f[k])
               PROVE  k \in DOMAIN e /\ Alike(f[k], e[k]) /\ f[k].score = e[k].score
    BY DEF SameExact
  <1> DEFINE h == f[k]
  <1>1. h \in Scored(s) /\ Cardinality(Ahead(s, h)) = k - 1
    BY DEF IsFused, Ahead
  <1>2. PICK g \in Scored(t) : Alike(h, g) /\ h.score = g.score
    BY <1>1, ScoredAgree
  <1>3. PICK l \in DOMAIN e : e[l] = g
    BY <1>2 DEF IsFused
  <1>4. Cardinality(Ahead(t, g)) = l - 1
    BY <1>3 DEF IsFused, Ahead
  <1>5. Exact(h) /\ Exact(g) /\ Alike(g, h)
    BY <1>2, AlikeRanks, AlikeTurned
  <1> HIDE DEF h
  <1>6. {x.id : x \in Ahead(s, h)} = {y.id : y \in Ahead(t, g)}
    <2>1. {x.id : x \in Ahead(s, h)} \subseteq {y.id : y \in Ahead(t, g)}
      BY <1>1, <1>2, <1>5, AheadIds
    <2>2. {y.id : y \in Ahead(t, g)} \subseteq {x.id : x \in Ahead(s, h)}
      BY <1>1, <1>2, <1>5, AheadIds
    <2> QED BY <2>1, <2>2
  <1>7. ASSUME NEW u, IsList(u), NEW z
        PROVE  Cardinality(Ahead(u, z)) = Cardinality({x.id : x \in Ahead(u, z)})
    <2>1. Ahead(u, z) \subseteq Scored(u) /\ IsFiniteSet(Scored(u))
          /\ \A x, y \in Scored(u) : x.id = y.id => x = y
      BY <1>7, ScoredAre DEF Ahead
    <2>2. IsFiniteSet(Ahead(u, z))
      BY <2>1, FS_Subset
    <2>3. \A x, y \in Ahead(u, z) : x.id = y.id => x = y
      BY <2>1
    <2> QED BY <2>2, <2>3, IdsCounted
  <1>8. Cardinality(Ahead(s, h)) = Cardinality(Ahead(t, g))
    BY <1>6, <1>7
  <1>9. k \in Int /\ l \in Int
    <2>1. DOMAIN f = 1 .. Len(f) /\ DOMAIN e = 1 .. Len(e)
      BY SeqIs DEF IsFused, IsList
    <2> QED BY <2>1
  <1>10. k = l
    BY <1>1, <1>4, <1>8, <1>9
  <1> QED BY <1>2, <1>3, <1>10 DEF h

-----------------------------------------------------------------------------
(* Citations.                                                              *)

CitesWords(h) ==
  world[h.id].type = "artifact" =>
    /\ Qualified(h) => (h.span = "lexical" <=> HasWordChunk(h))
    /\ h.span = "dense" => "dense" \in h.via
    /\ h.span = "projection" => "projection" \in h.via /\ ~LexicalQualified(h)

LEMMA CitedIs ==
  ASSUME IsWorld, NEW s, s \in Seq(HitRecords), \A i \in DOMAIN s : Sourced(s[i])
  PROVE  /\ SameFound(CitedAll(s), s)
         /\ \A i \in DOMAIN s : CitedAll(s)[i].score = s[i].score /\ CitesWords(CitedAll(s)[i])
  <1> DEFINE t == CitedAll(s)
  <1>1. DOMAIN s = 1 .. Len(s) /\ Len(s) \in Nat
    BY SeqIs
  <1>2. DOMAIN t = DOMAIN s /\ \A i \in DOMAIN s : t[i] = Cited(s[i])
    BY DEF CitedAll
  <1>3. ASSUME NEW h \in HitRecords, Sourced(h)
        PROVE  /\ Cited(h) \in HitRecords /\ Cited(h).id = h.id /\ Cited(h).via = h.via
               /\ Cited(h).score = h.score /\ CitesWords(Cited(h))
    <2> DEFINE kept == \/ world[h.id].type = "claim"
                       \/ "projection" \in h.via /\ ~Qualified(h)
                       \/ ~HasWordChunk(h)
               g == Cited(h)
    <2>1. g = IF kept THEN h ELSE [h EXCEPT !.span = "lexical"]
      BY DEF Cited
    <2>2. Qualified(h) /\ world[h.id].type = "artifact" => (kept <=> ~HasWordChunk(h))
      OBVIOUS
    <2> HIDE DEF kept, g
    <2>3. /\ g \in HitRecords /\ g.id = h.id /\ g.via = h.via /\ g.score = h.score
          /\ g.span = IF kept THEN h.span ELSE "lexical"
      BY <2>1 DEF HitRecords
    <2>4. Alike(g, h)
      BY <2>3 DEF Alike
    <2>5. /\ Qualified(g) <=> Qualified(h)
          /\ LexicalQualified(g) <=> LexicalQualified(h)
          /\ HasWordChunk(g) <=> HasWordChunk(h)
      BY <2>3, <2>4, AlikeRanks DEF HasWordChunk
    <2>6. CitesWords(g)
      BY <1>3, <2>2, <2>3, <2>5 DEF CitesWords, Sourced
    <2> QED BY <2>3, <2>6 DEF g
  <1> HIDE DEF t
  <1>4. \A i \in DOMAIN s : s[i] \in HitRecords
    BY HitTyped
  <1>5. \A i \in DOMAIN s : /\ t[i] \in HitRecords /\ t[i].id = s[i].id /\ t[i].via = s[i].via
                            /\ t[i].score = s[i].score /\ CitesWords(t[i])
    BY <1>2, <1>3, <1>4
  <1>6. t \in Seq(HitRecords)
    <2>1. t = [i \in 1 .. Len(s) |-> t[i]]
      BY <1>1, <1>2 DEF t, CitedAll
    <2>2. t \in [1 .. Len(s) -> HitRecords]
      BY <1>1, <1>5, <2>1
    <2> QED BY <1>1, <2>2, FunctionIsSeq
  <1>7. SameFound(t, s)
    BY <1>2, <1>5, <1>6 DEF SameFound
  <1> QED BY <1>5, <1>7 DEF t

-----------------------------------------------------------------------------
(* Recency.                                                                *)

\* How many hits a hit passes.
Reach(done, h) ==
  {k \in 0 .. Min({Len(done), RECENCY_MAX_PROMOTION}) :
     \A j \in Len(done) - k + 1 .. Len(done) : Passes(h, done[j])}

IsInserted(t, done, h, p) ==
  /\ t \in Seq(HitRecords) /\ Len(t) = Len(done) + 1
  /\ p \in 0 .. 2 /\ p <= Len(done)
  /\ \A j \in 1 .. Len(done) - p : t[j] = done[j]
  /\ t[Len(done) - p + 1] = h
  /\ \A j \in Len(done) - p + 2 .. Len(done) + 1 : t[j] = done[j - 1]
  /\ \A j \in Len(done) - p + 1 .. Len(done) : Passes(h, done[j])

LEMMA ReachIs ==
  ASSUME NEW done \in Seq(HitRecords), NEW h
  PROVE  /\ Max(Reach(done, h)) \in Reach(done, h)
         /\ Max(Reach(done, h)) \in 0 .. 2 /\ Max(Reach(done, h)) <= Len(done)
  <1> DEFINE n == Len(done)
             T == Reach(done, h)
  <1>1. n \in Nat
    OBVIOUS
  <1>2. Min({n, 2}) \in Nat /\ Min({n, 2}) <= n /\ Min({n, 2}) <= 2
    <2> HIDE DEF n
    <2>1. Min({n, 2}) = IF n <= 2 THEN n ELSE 2
      BY <1>1, MinOfTwo
    <2> QED BY <1>1, <2>1
  <1> DEFINE m == Min({n, 2})
  <1>3. T \subseteq 0 .. m
    BY DEF Reach, RECENCY_MAX_PROMOTION
  <1>4. 0 \in T
    <2>1. 0 \in 0 .. m /\ n - 0 + 1 .. n = {}
      BY <1>1, <1>2
    <2> QED BY <2>1 DEF Reach, RECENCY_MAX_PROMOTION
  <1> HIDE DEF T, m
  <1>5. m \in Nat /\ m <= n /\ m <= 2
    BY <1>2 DEF m
  <1>6. Max(T) \in T
    <2>1. T \in SUBSET Nat /\ T # {} /\ \A x \in T : x <= m
      BY <1>3, <1>4, <1>5
    <2> QED BY <1>5, <2>1, Greatest
  <1> DEFINE p == Max(T)
  <1>7. p \in 0 .. m
    BY <1>3, <1>6
  <1> HIDE DEF p, n
  <1>8. p \in 0 .. 2 /\ p <= n
    BY <1>1, <1>5, <1>7
  <1> QED BY <1>6, <1>8 DEF p, T, n

LEMMA InsertedIs ==
  ASSUME NEW done \in Seq(HitRecords), NEW h \in HitRecords
  PROVE  IsInserted(Inserted(done, h), done, h, Max(Reach(done, h)))
  <1> DEFINE n == Len(done)
             p == Max(Reach(done, h))
             t == Inserted(done, h)
             i == n - p + 1
             a == SubSeq(done, 1, i - 1)
             b == SubSeq(done, i, n)
  <1>1. p \in Reach(done, h) /\ p \in 0 .. 2 /\ p <= n /\ n \in Nat
    BY ReachIs
  <1>2. t = a \o <<h>> \o b
    BY Zenon DEF Inserted, Reach, InsertAt
  <1>3. \A j \in n - p + 1 .. n : Passes(h, done[j])
    BY <1>1 DEF Reach
  <1> HIDE DEF p
  <1>4. i - 1 \in 0 .. n /\ i \in 1 .. n + 1 /\ n - i + 1 = p
    BY <1>1
  <1>5. /\ a \in Seq(HitRecords) /\ Len(a) = i - 1
        /\ \A j \in 1 .. i - 1 : a[j] = done[j]
    <2> DEFINE m == i - 1
    <2>1. m \in 0 .. n
      BY <1>4
    <2> HIDE DEF m, i
    <2>2. LET c == SubSeq(done, 1, m) IN
          /\ c \in Seq(HitRecords) /\ Len(c) = m
          /\ \A j \in 1 .. m : c[j] = done[j]
      BY <1>1, <2>1
    <2> QED BY <2>2 DEF m
  <1>6. /\ b \in Seq(HitRecords) /\ Len(b) = p
        /\ \A j \in 1 .. p : b[j] = done[i + j - 1]
    <2> HIDE DEF i
    <2>1. /\ b \in Seq(HitRecords) /\ Len(b) = n - i + 1
          /\ \A j \in 1 .. n - i + 1 : b[j] = done[i + j - 1]
      BY <1>1, <1>4
    <2> QED BY <1>4, <2>1
  <1> HIDE DEF a, b
  <1> DEFINE c == a \o <<h>>
  <1>7. /\ c \in Seq(HitRecords) /\ Len(c) = i
        /\ \A j \in 1 .. i - 1 : c[j] = a[j]
        /\ c[i] = h
    <2>1. a \in Seq(HitRecords) /\ <<h>> \in Seq(HitRecords) /\ Len(<<h>>) = 1
      BY <1>5
    <2>2. c \in Seq(HitRecords) /\ Len(c) = Len(a) + 1
          /\ (\A j \in 1 .. Len(a) : c[j] = a[j]) /\ c[Len(a) + 1] = h
      BY <2>1
    <2> HIDE DEF c
    <2>3. i \in Int
      BY <1>4
    <2> HIDE DEF i
    <2>4. Len(a) + 1 = i
      BY <1>5, <2>3
    <2> QED BY <1>5, <2>2, <2>4
  <1>8. t = c \o b
    BY <1>2
  <1> HIDE DEF c, t
  <1>9. /\ t \in Seq(HitRecords) /\ Len(t) = Len(c) + Len(b)
        /\ \A j \in 1 .. Len(c) : t[j] = c[j]
        /\ \A j \in 1 .. Len(t) : j > Len(c) => t[j] = b[j - Len(c)] /\ j - Len(c) \in 1 .. Len(b)
    <2>1. c \in Seq(HitRecords) /\ b \in Seq(HitRecords) /\ t = c \o b
      BY <1>6, <1>7, <1>8
    <2> QED BY <2>1, ConcatIs
  <1> HIDE DEF n
  <1>10. Len(t) = n + 1
    BY <1>1, <1>6, <1>7, <1>9
  <1>11. \A j \in 1 .. n - p : t[j] = done[j]
    BY <1>1, <1>5, <1>7, <1>9
  <1>12. t[n - p + 1] = h
    BY <1>1, <1>7, <1>9
  <1>13. \A j \in n - p + 2 .. n + 1 : t[j] = done[j - 1]
    <2> TAKE j \in n - p + 2 .. n + 1
    <2>1. j \in 1 .. Len(t) /\ j > Len(c) /\ j - i \in 1 .. p /\ i + (j - i) - 1 = j - 1
      BY <1>1, <1>7, <1>10
    <2>2. t[j] = b[j - i]
      BY <1>7, <1>9, <2>1
    <2> DEFINE k == j - i
    <2>3. k \in 1 .. p /\ i + k - 1 = j - 1
      BY <2>1
    <2> HIDE DEF k
    <2>4. b[k] = done[j - 1]
      BY <1>6, <2>3
    <2> QED BY <2>2, <2>4 DEF k
  <1>14. IsInserted(t, done, h, p)
    BY <1>1, <1>3, <1>9, <1>10, <1>11, <1>12, <1>13 DEF IsInserted, n
  <1> QED BY <1>14 DEF t, p

\* Only the score of a hit can differ.
SameHit(g, h) == g.id = h.id /\ g.via = h.via /\ g.span = h.span

LEMMA SameHitRanks ==
  ASSUME NEW g, NEW h, SameHit(g, h)
  PROVE  SameRank(g, h) /\ Alike(g, h) /\ (CitesWords(g) <=> CitesWords(h))
  <1>1. g.id = h.id /\ g.via = h.via /\ g.span = h.span
    BY DEF SameHit
  <1>2. Alike(g, h)
    BY <1>1 DEF Alike
  <1>3. /\ LexicalQualified(g) <=> LexicalQualified(h)
        /\ TrigramQualified(g) <=> TrigramQualified(h)
        /\ Qualified(g) <=> Qualified(h)
        /\ Exact(g) <=> Exact(h)
    BY <1>2, AlikeRanks
  <1>4. MatchedUnits(g) = MatchedUnits(h) /\ (Counted(g) <=> Counted(h))
    BY <1>1 DEF MatchedUnits, Counted
  <1>5. SameRank(g, h)
    BY <1>3, <1>4 DEF SameRank
  <1>6. CitesWords(g) <=> CitesWords(h)
    BY <1>1, <1>3 DEF CitesWords, HasWordChunk
  <1> QED BY <1>2, <1>5, <1>6

LEMMA SameRankTurns ==
  ASSUME NEW g, NEW h, SameRank(g, h)
  PROVE  SameRank(h, g) /\ (Exact(g) <=> Exact(h)) /\ (Qualified(g) <=> Qualified(h))
  BY DEF SameRank, Qualified

LEMMA SameRankJoins ==
  ASSUME NEW f, NEW g, NEW h, SameRank(f, g), SameRank(g, h)
  PROVE  SameRank(f, h)
  BY DEF SameRank

LEMMA WithBonusIs ==
  ASSUME NEW h \in HitRecords
  PROVE  WithBonus(h) \in HitRecords /\ SameHit(WithBonus(h), h)
  <1>1. h.score \in Int
    BY DEF HitRecords
  <1>2. h.score + h.score \div 10 \in Int
    BY <1>1
  <1> DEFINE g == [h EXCEPT !.score = @ + @ \div 10]
  <1>3. g \in HitRecords /\ SameHit(g, h) /\ SameHit(h, h)
    BY <1>1, <1>2 DEF HitRecords, SameHit
  <1> HIDE DEF g
  <1>4. WithBonus(h) \in {h, g}
    BY DEF WithBonus, g
  <1> QED BY <1>3, <1>4

\* The list after each step of recency.
Promotes(acc, s) ==
  /\ acc \in [0 .. Len(s) -> Seq(HitRecords)] /\ acc[0] = <<>>
  /\ \A i \in 1 .. Len(s) : acc[i] = Inserted(acc[i - 1], WithBonus(s[i]))

LEMMA RecencyRuns ==
  ASSUME NEW s \in Seq(HitRecords), request.recency
  PROVE  \E acc : Promotes(acc, s) /\ acc[Len(s)] = RecencyOrder(s)
  <1> DEFINE n == Len(s)
             D == 1 .. n
             A == Seq(HitRecords)
             b == [i \in DOMAIN s |-> WithBonus(s[i])]
             step == [p \in A \X HitRecords |-> Inserted(p[1], p[2])]
             iter[S \in SUBSET DOMAIN b] ==
               IF S = {} THEN <<>> ELSE Inserted(iter[S \ {Max(S)}], b[Max(S)])
  <1>1. RecencyOrder(s) = iter[DOMAIN b]
    BY Zenon DEF RecencyOrder, FoldLeft, MapThenFoldSet
  <1>2. n \in Nat /\ DOMAIN s = D /\ \A i \in D : s[i] \in HitRecords
    BY SeqIs
  <1>3. /\ b \in Seq(HitRecords) /\ Len(b) = n /\ DOMAIN b = D
        /\ \A i \in D : b[i] = WithBonus(s[i]) /\ b[i] \in HitRecords
    <2>1. \A i \in D : b[i] = WithBonus(s[i]) /\ WithBonus(s[i]) \in HitRecords
      BY <1>2, WithBonusIs
    <2>2. b \in [1 .. n -> HitRecords]
      BY <1>2, <2>1
    <2>3. b \in Seq(HitRecords) /\ Len(b) = n /\ DOMAIN b = D
      <3> HIDE DEF b, n
      <3> QED BY <1>2, <2>2, FunctionIsSeq
    <2> QED BY <2>1, <2>3
  <1>4. <<>> \in A
    OBVIOUS
  <1>5. step \in [A \X HitRecords -> A]
    <2>1. ASSUME NEW x \in A, NEW h \in HitRecords PROVE Inserted(x, h) \in A
      BY InsertedIs DEF IsInserted
    <2> HIDE DEF A
    <2> QED BY <2>1
  <1> HIDE DEF b, A
  <1>6. PICK f \in [SUBSET D -> A] : Folds(f, n, step, <<>>, b)
    <2> HIDE DEF step
    <2>1. PICK f \in [SUBSET DOMAIN b -> A] : Folds(f, Len(b), step, <<>>, b)
      BY <1>3, <1>4, <1>5, FoldExists
    <2> QED BY <1>3, <2>1
  <1> HIDE DEF n
  <1>7. ASSUME NEW S \in SUBSET D, S # {} PROVE Max(S) \in S /\ b[Max(S)] \in HitRecords
    <2>1. S \in SUBSET Nat /\ \A i \in S : i <= n
      BY <1>2
    <2>2. Max(S) \in S
      BY <1>2, <1>7, <2>1, Greatest
    <2> QED BY <1>3, <2>2
  <1>8. f = [S \in SUBSET D |-> IF S = {} THEN <<>> ELSE Inserted(f[S \ {Max(S)}], b[Max(S)])]
    <2>1. ASSUME NEW S \in SUBSET D, S # {}
          PROVE  f[S] = Inserted(f[S \ {Max(S)}], b[Max(S)])
      <3>1. f[S] = step[<<f[S \ {Max(S)}], b[Max(S)]>>]
        BY <1>6, <2>1 DEF Folds
      <3>2. f[S \ {Max(S)}] \in A /\ b[Max(S)] \in HitRecords
        BY <1>6, <1>7, <2>1
      <3> QED BY <3>1, <3>2
    <2>2. f[{}] = <<>>
      BY <1>6 DEF Folds
    <2> QED BY <1>6, <2>1, <2>2
  <1>9. iter = [S \in SUBSET D |->
                  IF S = {} THEN <<>> ELSE Inserted(iter[S \ {Max(S)}], b[Max(S)])]
    <2>1. SUBSET D = SUBSET DOMAIN b
      BY <1>3
    <2>2. f = [S \in SUBSET DOMAIN b |->
                 IF S = {} THEN <<>> ELSE Inserted(f[S \ {Max(S)}], b[Max(S)])]
      BY <1>8, <2>1, Zenon
    <2>3. iter = [S \in SUBSET DOMAIN b |->
                    IF S = {} THEN <<>> ELSE Inserted(iter[S \ {Max(S)}], b[Max(S)])]
      BY <2>2, Zenon
    <2> QED BY <2>1, <2>3, Zenon
  <1> HIDE DEF iter
  <1>10. PICK acc : RunsOver(acc, A, step, <<>>, b) /\ acc[Len(b)] = iter[DOMAIN b]
    <2>1. iter[{}] = <<>>
      BY <1>9
    <2>2. ASSUME NEW S \in SUBSET DOMAIN b, S # {}, iter[S \ {Max(S)}] \in A
          PROVE  iter[S] = step[<<iter[S \ {Max(S)}], b[Max(S)]>>]
      <3>1. S \in SUBSET D /\ b[Max(S)] \in HitRecords
        BY <1>3, <1>7, <2>2
      <3>2. iter[S] = Inserted(iter[S \ {Max(S)}], b[Max(S)])
        BY <1>9, <2>2, <3>1
      <3> QED BY <2>2, <3>1, <3>2
    <2> HIDE DEF step
    <2>3. FoldOf(iter, A, HitRecords, step, <<>>, b)
      BY <1>3, <1>4, <1>5, <2>1, <2>2, Zenon DEF FoldOf
    <2>4. Accumulates(iter, A, step, <<>>, b)
      BY <2>3, FoldRuns
    <2> QED BY <2>4 DEF Accumulates
  <1>11. acc \in [0 .. n -> A] /\ acc[0] = <<>>
    BY <1>3, <1>10 DEF RunsOver
  <1>12. ASSUME NEW i \in D PROVE acc[i] = Inserted(acc[i - 1], WithBonus(s[i]))
    <2>1. acc[i] = step[<<acc[i - 1], b[i]>>]
      BY <1>3, <1>10 DEF RunsOver
    <2>2. acc[i - 1] \in A /\ b[i] \in HitRecords /\ b[i] = WithBonus(s[i])
      BY <1>2, <1>3, <1>11
    <2> QED BY <2>1, <2>2
  <1>13. Promotes(acc, s)
    BY <1>11, <1>12 DEF Promotes, n, A
  <1>14. acc[Len(s)] = RecencyOrder(s)
    BY <1>1, <1>3, <1>10 DEF n
  <1> QED BY <1>13, <1>14

\* Where recency has put the first i hits of s.
InPlace(a, s, i) ==
  /\ a \in Seq(HitRecords) /\ Len(a) = i
  /\ \A p \in 1 .. i : SameRank(a[p], s[p])
  /\ \A p \in 1 .. i : \E j \in 1 .. i : j <= p + 2 /\ SameHit(a[p], s[j])
  /\ \A j \in 1 .. i : \E p \in 1 .. i : SameHit(a[p], s[j])
  /\ \A p, q \in 1 .. i : a[p].id = a[q].id => p = q

LEMMA PlacedOne ==
  ASSUME NEW s, IsList(s), NEW i \in 1 .. Len(s), NEW a, InPlace(a, s, i - 1)
  PROVE  InPlace(Inserted(a, WithBonus(s[i])), s, i)
  <1> DEFINE h == WithBonus(s[i])
             t == Inserted(a, h)
             n == i - 1
             k == Max(Reach(a, h))
  <1>1. /\ s \in Seq(HitRecords) /\ DOMAIN s = 1 .. Len(s) /\ Len(s) \in Nat
        /\ \A j \in 1 .. Len(s) : s[j] \in HitRecords
    BY SeqIs DEF IsList
  <1>2. h \in HitRecords /\ SameHit(h, s[i])
    BY <1>1, WithBonusIs
  <1>3. /\ a \in Seq(HitRecords) /\ Len(a) = n
        /\ \A p \in 1 .. n : SameRank(a[p], s[p])
        /\ \A p \in 1 .. n : \E j \in 1 .. n : j <= p + 2 /\ SameHit(a[p], s[j])
        /\ \A j \in 1 .. n : \E p \in 1 .. n : SameHit(a[p], s[j])
        /\ \A p, q \in 1 .. n : a[p].id = a[q].id => p = q
    BY DEF InPlace
  <1>4. IsInserted(t, a, h, k)
    BY <1>2, <1>3, InsertedIs
  <1> HIDE DEF t, k, h
  <1>5. i \in Nat /\ i <= Len(s) /\ n \in Nat /\ n + 1 = i /\ i > n
    BY <1>1
  <1> HIDE DEF n
  <1>6. /\ t \in Seq(HitRecords) /\ Len(t) = i /\ k \in 0 .. 2 /\ k <= n
        /\ \A j \in 1 .. n - k : t[j] = a[j]
        /\ t[i - k] = h
        /\ \A j \in i - k + 1 .. i : t[j] = a[j - 1]
        /\ \A j \in i - k .. n : SameRank(h, a[j])
    <2>1. /\ t \in Seq(HitRecords) /\ Len(t) = n + 1 /\ k \in 0 .. 2 /\ k <= n
          /\ \A j \in 1 .. n - k : t[j] = a[j]
          /\ t[n - k + 1] = h
          /\ \A j \in n - k + 2 .. n + 1 : t[j] = a[j - 1]
          /\ \A j \in n - k + 1 .. n : SameRank(h, a[j])
      BY <1>3, <1>4 DEF IsInserted, Passes
    <2>2. n - k + 1 = i - k /\ n - k + 2 = i - k + 1
      BY <1>5, <2>1
    <2> QED BY <1>5, <2>1, <2>2
  <1>7. \A p \in 1 .. i : \/ p \in 1 .. n - k
                          \/ p = i - k
                          \/ p \in i - k + 1 .. i /\ p - 1 \in i - k .. n /\ p - 1 \in 1 .. n
    BY <1>5, <1>6
  <1>8. i - k \in 1 .. i /\ \A p \in 1 .. n - k : p \in 1 .. n /\ p \in 1 .. i /\ p < i - k
    BY <1>5, <1>6
  <1>9. SameRank(h, s[i])
    BY <1>2, SameHitRanks
  <1>10. \A p \in i - k .. n : SameRank(h, s[p])
    <2> TAKE p \in i - k .. n
    <2>1. p \in 1 .. n
      BY <1>5, <1>6
    <2>2. SameRank(h, a[p]) /\ SameRank(a[p], s[p])
      BY <1>3, <1>6, <2>1
    <2> QED BY <2>2, SameRankJoins
  <1>11. ASSUME NEW p \in 1 .. i PROVE SameRank(t[p], s[p])
    <2>1. CASE p \in 1 .. n - k
      BY <2>1, <1>3, <1>6, <1>8
    <2>2. CASE p = i - k
      <3>1. p \in i - k .. n \/ p = i
        BY <2>2, <1>5, <1>6
      <3> QED BY <2>2, <3>1, <1>6, <1>9, <1>10
    <2>3. CASE p \in i - k + 1 .. i /\ p - 1 \in i - k .. n
      <3>1. t[p] = a[p - 1] /\ SameRank(a[p - 1], h)
        BY <2>3, <1>6, SameRankTurns
      <3>2. p \in i - k .. n \/ p = i
        BY <2>3, <1>5, <1>6
      <3>3. SameRank(h, s[p])
        BY <3>2, <1>9, <1>10
      <3> QED BY <3>1, <3>3, SameRankJoins
    <2> QED BY <2>1, <2>2, <2>3, <1>7
  <1>12. ASSUME NEW p \in 1 .. i PROVE \E j \in 1 .. i : j <= p + 2 /\ SameHit(t[p], s[j])
    <2>1. CASE p \in 1 .. n - k
      <3>1. PICK j \in 1 .. n : j <= p + 2 /\ SameHit(a[p], s[j])
        BY <2>1, <1>3, <1>8
      <3>2. j \in 1 .. i /\ t[p] = a[p]
        BY <2>1, <1>5, <1>6, <3>1
      <3> QED BY <3>1, <3>2
    <2>2. CASE p = i - k
      <3>1. i \in 1 .. i /\ i <= p + 2
        BY <2>2, <1>5, <1>6
      <3> QED BY <2>2, <3>1, <1>2, <1>6
    <2>3. CASE p \in i - k + 1 .. i /\ p - 1 \in 1 .. n
      <3>1. PICK j \in 1 .. n : j <= p - 1 + 2 /\ SameHit(a[p - 1], s[j])
        BY <2>3, <1>3
      <3>2. j \in 1 .. i /\ j <= p + 2
        BY <3>1, <1>5
      <3> QED BY <2>3, <3>1, <3>2, <1>6
    <2> QED BY <2>1, <2>2, <2>3, <1>7
  <1>13. \A q \in 1 .. n : \E p \in 1 .. i : t[p] = a[q]
    <2> TAKE q \in 1 .. n
    <2>1. CASE q \in 1 .. n - k
      BY <2>1, <1>6, <1>8
    <2>2. CASE q \notin 1 .. n - k
      <3>1. q + 1 \in i - k + 1 .. i /\ q + 1 \in 1 .. i /\ q + 1 - 1 = q
        BY <2>2, <1>5, <1>6
      <3>2. t[q + 1] = a[q + 1 - 1]
        BY <1>6, <3>1
      <3> QED BY <3>1, <3>2
    <2> QED BY <2>1, <2>2
  <1>14. ASSUME NEW j \in 1 .. i PROVE \E p \in 1 .. i : SameHit(t[p], s[j])
    <2>1. CASE j = i
      BY <2>1, <1>2, <1>6, <1>8
    <2>2. CASE j # i
      <3>1. j \in 1 .. n
        BY <2>2, <1>5
      <3>2. PICK q \in 1 .. n : SameHit(a[q], s[j])
        BY <1>3, <3>1
      <3> QED BY <1>13, <3>2
    <2> QED BY <2>1, <2>2
  <1>15. \A q \in 1 .. n : a[q].id # h.id
    <2> TAKE q \in 1 .. n
    <2>1. PICK j \in 1 .. n : SameHit(a[q], s[j])
      BY <1>3
    <2>2. j \in DOMAIN s /\ i \in DOMAIN s /\ j # i
      BY <1>1, <1>5, <2>1
    <2>3. s[j].id # s[i].id
      BY <2>2 DEF IsList
    <2> QED BY <1>2, <2>1, <2>3 DEF SameHit
  <1>16. ASSUME NEW p \in 1 .. i, NEW q \in 1 .. i, t[p].id = t[q].id PROVE p = q
    <2> DEFINE from(x) == IF x \in 1 .. n - k THEN x ELSE x - 1
    <2>1. \A x \in 1 .. i : x # i - k => from(x) \in 1 .. n /\ t[x] = a[from(x)]
      BY <1>6, <1>7, <1>8
    <2>2. \A x, y \in 1 .. i : x # i - k /\ y # i - k /\ from(x) = from(y) => x = y
      BY <1>5, <1>6
    <2> HIDE DEF from
    <2>3. CASE p # i - k /\ q # i - k
      <3>1. a[from(p)].id = a[from(q)].id /\ from(p) \in 1 .. n /\ from(q) \in 1 .. n
        BY <1>16, <2>1, <2>3
      <3>2. from(p) = from(q)
        BY <1>3, <3>1
      <3> QED BY <2>2, <2>3, <3>2
    <2>4. ASSUME NEW x \in 1 .. i, x # i - k PROVE t[x].id # h.id
      BY <1>15, <2>1, <2>4
    <2> QED BY <1>6, <1>16, <2>3, <2>4
  <1>17. InPlace(t, s, i)
    BY <1>6, <1>11, <1>12, <1>14, <1>16 DEF InPlace
  <1> QED BY <1>17 DEF t, h

LEMMA PlacedAll ==
  ASSUME NEW s, IsList(s), NEW acc, Promotes(acc, s)
  PROVE  \A i \in 0 .. Len(s) : InPlace(acc[i], s, i)
  <1> DEFINE Good == {i \in 0 .. Len(s) : InPlace(acc[i], s, i)}
  <1>1. Len(s) \in Nat
    BY SeqIs DEF IsList
  <1>2. InPlace(<<>>, s, 0)
    BY DEF InPlace
  <1>3. 0 \in Good
    BY <1>1, <1>2 DEF Promotes
  <1>4. ASSUME NEW i \in 1 .. Len(s), i - 1 \in Good PROVE i \in Good
    <2>1. InPlace(acc[i - 1], s, i - 1) /\ i \in 0 .. Len(s)
      BY <1>4
    <2>2. acc[i] = Inserted(acc[i - 1], WithBonus(s[i]))
      BY DEF Promotes
    <2>3. InPlace(acc[i], s, i)
      BY <2>1, <2>2, PlacedOne
    <2> QED BY <2>1, <2>3
  <1> HIDE DEF Good
  <1>5. 0 .. Len(s) \subseteq Good
    BY <1>1, <1>3, <1>4, Climb
  <1> QED BY <1>5 DEF Good

\* Hits stay at places of their rank, and none moves up by more than two.
IsRecent(t, s) ==
  /\ IsList(t) /\ Len(t) = Len(s) /\ DOMAIN t = DOMAIN s
  /\ \A p \in DOMAIN s : SameRank(t[p], s[p])
  /\ \A p \in DOMAIN s : \E j \in DOMAIN s : j <= p + 2 /\ SameHit(t[p], s[j])
  /\ \A j \in DOMAIN s : \E p \in DOMAIN s : SameHit(t[p], s[j])

LEMMA RecencyIs ==
  ASSUME NEW s, IsList(s)
  PROVE  IsRecent(RecencyOrder(s), s)
  <1>1. s \in Seq(HitRecords) /\ DOMAIN s = 1 .. Len(s) /\ Len(s) \in Nat
    BY SeqIs DEF IsList
  <1>2. CASE ~request.recency
    <2>1. RecencyOrder(s) = s
      BY <1>2 DEF RecencyOrder
    <2>2. \A p \in DOMAIN s : SameHit(s[p], s[p]) /\ SameRank(s[p], s[p]) /\ p <= p + 2
      BY <1>1 DEF SameHit, SameRank
    <2> QED BY <2>1, <2>2 DEF IsRecent
  <1>3. CASE request.recency
    <2>1. PICK acc : Promotes(acc, s) /\ acc[Len(s)] = RecencyOrder(s)
      BY <1>1, <1>3, RecencyRuns
    <2> DEFINE t == RecencyOrder(s)
    <2>2. InPlace(t, s, Len(s))
      <3>1. Len(s) \in 0 .. Len(s)
        BY <1>1
      <3> QED BY <2>1, <3>1, PlacedAll
    <2> HIDE DEF t
    <2>3. t \in Seq(HitRecords) /\ Len(t) = Len(s) /\ DOMAIN t = DOMAIN s
      <3>1. t \in Seq(HitRecords) /\ Len(t) = Len(s)
        BY <2>2 DEF InPlace
      <3> QED BY <1>1, <3>1, SeqIs
    <2>4. IsList(t)
      BY <1>1, <2>2, <2>3 DEF InPlace, IsList
    <2>5. IsRecent(t, s)
      BY <1>1, <2>2, <2>3, <2>4 DEF InPlace, IsRecent
    <2> QED BY <2>5 DEF t
  <1> QED BY <1>2, <1>3

\* What recency keeps.
LEMMA RecentKeeps ==
  ASSUME NEW s, IsList(s), NEW t, IsRecent(t, s)
  PROVE  /\ Ids(t) = Ids(s) /\ Worded(t) = Worded(s)
         /\ \A p \in DOMAIN s : (Exact(t[p]) <=> Exact(s[p])) /\ (Qualified(t[p]) <=> Qualified(s[p]))
         /\ (\A p \in DOMAIN s : CitesWords(s[p])) => \A p \in DOMAIN t : CitesWords(t[p])
         /\ ExactLead(s) => ExactLead(t)
  <1>1. /\ DOMAIN t = DOMAIN s
        /\ \A p \in DOMAIN s : SameRank(t[p], s[p])
        /\ \A p \in DOMAIN s : \E j \in DOMAIN s : SameHit(t[p], s[j])
        /\ \A j \in DOMAIN s : \E p \in DOMAIN s : SameHit(t[p], s[j])
    BY DEF IsRecent
  <1>2. \A p \in DOMAIN s : (Exact(t[p]) <=> Exact(s[p])) /\ (Qualified(t[p]) <=> Qualified(s[p]))
    BY <1>1, SameRankTurns
  <1> DEFINE same(p, j) == t[p].id = s[j].id /\ t[p].via = s[j].via
  <1>a. /\ \A p \in DOMAIN t : \E j \in DOMAIN s : same(p, j)
        /\ \A j \in DOMAIN s : \E p \in DOMAIN t : same(p, j)
    BY <1>1 DEF SameHit
  <1>3. Ids(t) = Ids(s)
    <2>1. \A p \in DOMAIN t : t[p].id \in Ids(s)
      BY <1>a DEF Ids
    <2>2. \A j \in DOMAIN s : s[j].id \in Ids(t)
      BY <1>a DEF Ids
    <2> QED BY <2>1, <2>2, Zenon DEF Ids
  <1>4. Worded(t) = Worded(s)
    <2>1. ASSUME NEW x \in Revisions \X {"lexical", "trigram"}
          PROVE  (\E i \in DOMAIN t : t[i].id = x[1] /\ x[2] \in t[i].via)
                   <=> \E i \in DOMAIN s : s[i].id = x[1] /\ x[2] \in s[i].via
      <3>1. ASSUME NEW i \in DOMAIN t, t[i].id = x[1], x[2] \in t[i].via
            PROVE  \E j \in DOMAIN s : s[j].id = x[1] /\ x[2] \in s[j].via
        BY <1>a, <3>1
      <3>2. ASSUME NEW j \in DOMAIN s, s[j].id = x[1], x[2] \in s[j].via
            PROVE  \E i \in DOMAIN t : t[i].id = x[1] /\ x[2] \in t[i].via
        BY <1>a, <3>2
      <3> QED BY <3>1, <3>2
    <2> QED BY <2>1 DEF Worded
  <1>5. ASSUME \A p \in DOMAIN s : CitesWords(s[p]) PROVE \A p \in DOMAIN t : CitesWords(t[p])
    BY <1>1, <1>5, SameHitRanks
  <1>6. ExactLead(s) => ExactLead(t)
    BY <1>1, <1>2 DEF ExactLead
  <1> QED BY <1>2, <1>3, <1>4, <1>5, <1>6

-----------------------------------------------------------------------------
(* Recency and exact hits.                                                 *)

Lead(s, m) == m \in 0 .. Len(s) /\ \A k \in 1 .. Len(s) : Exact(s[k]) <=> k <= m

LEMMA LeadLength ==
  ASSUME NEW s, IsList(s), ExactLead(s)
  PROVE  \E m : Lead(s, m)
  <1> DEFINE n == Len(s)
             T == {0} \cup {k \in 1 .. n : Exact(s[k])}
             m == Max(T)
  <1>1. n \in Nat /\ DOMAIN s = 1 .. n
    BY SeqIs DEF IsList
  <1>2. T \in SUBSET Nat /\ T # {} /\ \A x \in T : x <= n
    BY <1>1
  <1>3. m \in T /\ \A x \in T : x <= m
    <2> HIDE DEF T
    <2> QED BY <1>1, <1>2, Greatest
  <1> HIDE DEF m
  <1>4. m \in 0 .. n
    BY <1>1, <1>3
  <1>5. ASSUME NEW k \in 1 .. n PROVE Exact(s[k]) <=> k <= m
    <2>1. Exact(s[k]) => k <= m
      BY <1>3
    <2>2. ASSUME k <= m PROVE Exact(s[k])
      <3>1. m \in 1 .. n /\ Exact(s[m])
        BY <1>3, <1>4, <2>2
      <3>2. k = m \/ k < m
        BY <1>4, <2>2
      <3> QED BY <1>1, <3>1, <3>2 DEF ExactLead
    <2> QED BY <2>1, <2>2
  <1>6. Lead(s, m)
    BY <1>4, <1>5 DEF Lead, n
  <1> QED BY <1>6

\* Hits that words found alike, at the same score.
Twins(h, g) == Alike(h, g) /\ h.score = g.score /\ Exact(h)

LEMMA TwinPasses ==
  ASSUME NEW h, NEW g, Twins(h, g), NEW x, NEW y, Twins(x, y)
  PROVE  Passes(h, x) <=> Passes(g, y)
  <1>1. /\ Alike(h, g) /\ h.score = g.score /\ Exact(h)
        /\ Alike(x, y) /\ x.score = y.score /\ Exact(x)
    BY DEF Twins
  <1>2. SameRank(h, x) <=> SameRank(g, y)
    <2>1. /\ LexicalQualified(h) <=> LexicalQualified(g)
          /\ TrigramQualified(h) <=> TrigramQualified(g)
          /\ Exact(h) /\ Exact(g)
          /\ MatchedUnits(h) = MatchedUnits(g) /\ Counted(h) /\ Counted(g)
      BY <1>1, AlikeRanks
    <2>2. /\ LexicalQualified(x) <=> LexicalQualified(y)
          /\ TrigramQualified(x) <=> TrigramQualified(y)
          /\ Exact(x) /\ Exact(y)
          /\ MatchedUnits(x) = MatchedUnits(y) /\ Counted(x) /\ Counted(y)
      BY <1>1, AlikeRanks
    <2> QED BY <2>1, <2>2 DEF SameRank
  <1> QED BY <1>1, <1>2 DEF Passes

TwinLists(a, b, n) ==
  /\ a \in Seq(HitRecords) /\ b \in Seq(HitRecords) /\ Len(a) = n /\ Len(b) = n
  /\ \A p \in 1 .. n : Twins(a[p], b[p])

LEMMA TwinBonus ==
  ASSUME NEW h \in HitRecords, NEW g \in HitRecords, Twins(h, g)
  PROVE  Twins(WithBonus(h), WithBonus(g))
  <1>1. /\ h.id = g.id /\ h.via \cap Words = g.via \cap Words /\ h.score = g.score
        /\ Alike(h, g) /\ Exact(h)
    BY DEF Twins, Alike
  <1>2. SameHit(WithBonus(h), h) /\ SameHit(WithBonus(g), g)
    BY WithBonusIs
  <1>3. Alike(WithBonus(h), WithBonus(g))
    BY <1>1, <1>2 DEF SameHit, Alike
  <1>4. Exact(WithBonus(h))
    BY <1>1, <1>2, SameHitRanks, AlikeRanks
  <1>5. WithBonus(h).score = WithBonus(g).score
    <2>1. RecencyEligible(h) <=> RecencyEligible(g)
      BY <1>1 DEF RecencyEligible
    <2>2. ASSUME NEW x \in HitRecords
          PROVE  WithBonus(x).score = IF RecencyEligible(x) /\ world[x.id].fresh
                                      THEN x.score + x.score \div 10 ELSE x.score
      BY DEF WithBonus, HitRecords
    <2> QED BY <1>1, <2>1, <2>2
  <1> QED BY <1>3, <1>4, <1>5 DEF Twins

LEMMA TwinInserted ==
  ASSUME NEW n \in Nat, NEW a, NEW b, TwinLists(a, b, n),
         NEW h \in HitRecords, NEW g \in HitRecords, Twins(h, g)
  PROVE  TwinLists(Inserted(a, h), Inserted(b, g), n + 1)
  <1> DEFINE k == Max(Reach(a, h))
             t == Inserted(a, h)
             u == Inserted(b, g)
  <1>1. /\ a \in Seq(HitRecords) /\ b \in Seq(HitRecords) /\ Len(a) = n /\ Len(b) = n
        /\ \A p \in 1 .. n : Twins(a[p], b[p])
    BY DEF TwinLists
  <1>2. Reach(a, h) = Reach(b, g)
    <2>1. \A j \in 1 .. n : Passes(h, a[j]) <=> Passes(g, b[j])
      BY <1>1, TwinPasses
    <2> DEFINE m == Min({n, RECENCY_MAX_PROMOTION})
    <2>2. m <= n /\ m \in Nat
      <3>1. Min({n, 2}) = IF n <= 2 THEN n ELSE 2
        BY MinOfTwo
      <3> QED BY <3>1 DEF RECENCY_MAX_PROMOTION
    <2>3. /\ Reach(a, h) = {x \in 0 .. m : \A j \in n - x + 1 .. n : Passes(h, a[j])}
          /\ Reach(b, g) = {x \in 0 .. m : \A j \in n - x + 1 .. n : Passes(g, b[j])}
      BY <1>1 DEF Reach
    <2> HIDE DEF m
    <2>4. \A x \in 0 .. m : \A j \in n - x + 1 .. n : j \in 1 .. n
      BY <2>2
    <2> QED BY <2>1, <2>3, <2>4
  <1>3. IsInserted(t, a, h, k) /\ IsInserted(u, b, g, k)
    BY <1>1, <1>2, InsertedIs
  <1> HIDE DEF t, u, k
  <1>4. /\ t \in Seq(HitRecords) /\ Len(t) = n + 1 /\ u \in Seq(HitRecords) /\ Len(u) = n + 1
        /\ k \in 0 .. 2 /\ k <= n
        /\ \A j \in 1 .. n - k : t[j] = a[j] /\ u[j] = b[j]
        /\ t[n - k + 1] = h /\ u[n - k + 1] = g
        /\ \A j \in n - k + 2 .. n + 1 : t[j] = a[j - 1] /\ u[j] = b[j - 1]
    BY <1>1, <1>3 DEF IsInserted
  <1>5. ASSUME NEW p \in 1 .. n + 1 PROVE Twins(t[p], u[p])
    <2>1. \/ p \in 1 .. n - k /\ p \in 1 .. n
          \/ p = n - k + 1
          \/ p \in n - k + 2 .. n + 1 /\ p - 1 \in 1 .. n
      BY <1>4
    <2> QED BY <2>1, <1>1, <1>4
  <1>6. TwinLists(t, u, n + 1)
    BY <1>4, <1>5 DEF TwinLists
  <1> QED BY <1>6 DEF t, u

\* While exact hits are placed, the lists of two searches are twins.
LEMMA TwinRuns ==
  ASSUME NEW s, IsList(s), NEW t, IsList(t), NEW m, Lead(s, m), Lead(t, m), SameExact(s, t),
         NEW acc, Promotes(acc, s), NEW bcc, Promotes(bcc, t)
  PROVE  TwinLists(acc[m], bcc[m], m)
  <1> DEFINE Good == {i \in 0 .. m : TwinLists(acc[i], bcc[i], i)}
  <1>1. /\ Len(s) \in Nat /\ DOMAIN s = 1 .. Len(s) /\ \A i \in 1 .. Len(s) : s[i] \in HitRecords
        /\ Len(t) \in Nat /\ DOMAIN t = 1 .. Len(t) /\ \A i \in 1 .. Len(t) : t[i] \in HitRecords
    BY SeqIs DEF IsList
  <1>2. m \in Nat /\ m <= Len(s) /\ m <= Len(t)
    BY <1>1 DEF Lead
  <1>3. 0 \in Good
    <2>1. TwinLists(<<>>, <<>>, 0)
      BY DEF TwinLists
    <2> QED BY <1>2, <2>1 DEF Promotes
  <1>4. ASSUME NEW i \in 1 .. m, i - 1 \in Good PROVE i \in Good
    <2>1. TwinLists(acc[i - 1], bcc[i - 1], i - 1) /\ i \in 0 .. m
      BY <1>4
    <2>2. i \in 1 .. Len(s) /\ i \in 1 .. Len(t) /\ i <= m /\ i - 1 \in Nat
      BY <1>2
    <2>3. acc[i] = Inserted(acc[i - 1], WithBonus(s[i])) /\ bcc[i] = Inserted(bcc[i - 1], WithBonus(t[i]))
      BY <2>2 DEF Promotes
    <2>4. Twins(s[i], t[i]) /\ s[i] \in HitRecords /\ t[i] \in HitRecords
      <3>1. Exact(s[i])
        BY <2>2 DEF Lead
      <3> QED BY <1>1, <2>2, <3>1 DEF SameExact, Twins
    <2>5. Twins(WithBonus(s[i]), WithBonus(t[i]))
          /\ WithBonus(s[i]) \in HitRecords /\ WithBonus(t[i]) \in HitRecords
      BY <2>4, TwinBonus, WithBonusIs
    <2>6. TwinLists(Inserted(acc[i - 1], WithBonus(s[i])), Inserted(bcc[i - 1], WithBonus(t[i])), i - 1 + 1)
      BY <2>1, <2>2, <2>5, TwinInserted
    <2>7. i - 1 + 1 = i
      BY <2>2
    <2>8. TwinLists(acc[i], bcc[i], i)
      BY <2>3, <2>6, <2>7
    <2> QED BY <2>1, <2>8
  <1> HIDE DEF Good
  <1>5. 0 .. m \subseteq Good
    BY <1>2, <1>3, <1>4, Climb
  <1>6. m \in 0 .. m
    BY <1>2
  <1> QED BY <1>5, <1>6 DEF Good

\* A hit that is not exact passes no exact hit.
LEMMA HeadStays ==
  ASSUME NEW s, IsList(s), NEW m, Lead(s, m), NEW acc, Promotes(acc, s)
  PROVE  \A p \in 1 .. m : acc[Len(s)][p] = acc[m][p]
  <1> DEFINE n == Len(s)
             Good == {d \in 0 .. n - m : \A p \in 1 .. m : acc[m + d][p] = acc[m][p]}
  <1>1. n \in Nat /\ DOMAIN s = 1 .. n /\ \A i \in 1 .. n : s[i] \in HitRecords
    BY SeqIs DEF IsList
  <1>2. m \in 0 .. n /\ \A k \in 1 .. n : Exact(s[k]) <=> k <= m
    BY DEF Lead
  <1> HIDE DEF n
  <1>3. n - m \in Nat /\ m + 0 = m /\ m + (n - m) = n
    BY <1>1, <1>2
  <1>4. 0 \in Good
    BY <1>3
  <1>5. ASSUME NEW d \in 1 .. n - m, d - 1 \in Good PROVE d \in Good
    <2> DEFINE i == m + d
               a == acc[i - 1]
               h == WithBonus(s[i])
               k == Max(Reach(a, h))
    <2>1. i \in 1 .. n /\ i > m /\ i - 1 \in 0 .. n /\ i - 1 >= m /\ m + (d - 1) = i - 1 /\ i \in Int
          /\ m \in Int /\ d \in 0 .. n - m
      BY <1>1, <1>2
    <2>2. \A p \in 1 .. m : acc[i - 1][p] = acc[m][p]
      BY <1>5, <2>1
    <2> HIDE DEF i
    <2>3. acc[i] = Inserted(a, h)
      BY <2>1 DEF Promotes, n
    <2>4. InPlace(a, s, i - 1)
      BY <2>1, PlacedAll DEF n
    <2>5. h \in HitRecords /\ ~Exact(h)
      <3>1. s[i] \in HitRecords /\ ~Exact(s[i])
        BY <1>1, <1>2, <2>1
      <3> QED BY <3>1, WithBonusIs, SameHitRanks, AlikeRanks
    <2>6. a \in Seq(HitRecords) /\ Len(a) = i - 1 /\ \A p \in 1 .. i - 1 : SameRank(a[p], s[p])
      BY <2>4 DEF InPlace
    <2>7. IsInserted(Inserted(a, h), a, h, k)
      BY <2>5, <2>6, InsertedIs
    <2> HIDE DEF a, h, k
    <2>8. /\ k \in 0 .. 2 /\ k <= i - 1
          /\ \A j \in 1 .. i - 1 - k : acc[i][j] = a[j]
          /\ \A j \in i - 1 - k + 1 .. i - 1 : SameRank(h, a[j])
      BY <2>3, <2>6, <2>7 DEF IsInserted, Passes
    <2>9. m <= i - 1 - k
      <3>1. SUFFICES ASSUME m > i - 1 - k PROVE FALSE
        BY <2>1, <2>8
      <3> DEFINE q == i - 1 - k + 1
      <3>2. q \in i - 1 - k + 1 .. i - 1 /\ q \in 1 .. i - 1 /\ q \in 1 .. n /\ q <= m
        BY <2>1, <2>8, <3>1, <1>1
      <3> HIDE DEF q
      <3>3. SameRank(h, a[q]) /\ SameRank(a[q], s[q]) /\ Exact(s[q])
        BY <1>2, <2>6, <2>8, <3>2
      <3> QED BY <2>5, <3>3, SameRankTurns
    <2>10. \A p \in 1 .. m : acc[i][p] = a[p]
      <3> TAKE p \in 1 .. m
      <3>1. p \in 1 .. i - 1 - k
        BY <2>1, <2>8, <2>9
      <3> QED BY <2>8, <3>1
    <2>11. \A p \in 1 .. m : acc[i][p] = acc[m][p]
      BY <2>2, <2>10 DEF a
    <2> QED BY <2>1, <2>11 DEF i
  <1> HIDE DEF Good
  <1>6. 0 .. n - m \subseteq Good
    BY <1>3, <1>4, <1>5, Climb
  <1>7. n - m \in 0 .. n - m
    BY <1>3
  <1>8. n - m \in Good
    BY <1>6, <1>7
  <1> QED BY <1>3, <1>8 DEF Good, n

\* As many exact hits lead one as the other.
LEMMA LeadsNoFewer ==
  ASSUME NEW x, IsList(x), NEW y, IsList(y), SameExact(x, y),
         NEW p, Lead(x, p), NEW q, Lead(y, q)
  PROVE  p <= q /\ p \in Int
  <1>1. /\ Len(x) \in Nat /\ DOMAIN x = 1 .. Len(x)
        /\ Len(y) \in Nat /\ DOMAIN y = 1 .. Len(y)
    BY SeqIs DEF IsList
  <1>2. p \in 0 .. Len(x) /\ q \in 0 .. Len(y)
    BY DEF Lead
  <1>3. ASSUME p # 0 PROVE p <= q
    <2>1. p \in 1 .. Len(x) /\ p <= p
      BY <1>1, <1>2, <1>3
    <2>2. Exact(x[p])
      BY <2>1 DEF Lead
    <2>3. p \in DOMAIN y /\ Alike(x[p], y[p])
      BY <1>1, <2>1, <2>2 DEF SameExact
    <2>4. Exact(y[p])
      BY <2>2, <2>3, AlikeRanks
    <2> QED BY <1>1, <2>3, <2>4 DEF Lead
  <1> QED BY <1>1, <1>2, <1>3

LEMMA LeadsAgree ==
  ASSUME NEW x, IsList(x), NEW y, IsList(y), SameExact(x, y), SameExact(y, x),
         NEW p, Lead(x, p), NEW q, Lead(y, q)
  PROVE  p = q
  <1>1. p <= q /\ p \in Int /\ q <= p /\ q \in Int
    BY LeadsNoFewer
  <1> QED BY <1>1

\* Recency keeps what two lists have in common among their exact hits.
LEMMA RecencyAgree ==
  ASSUME NEW s, IsList(s), NEW t, IsList(t), ExactLead(s), ExactLead(t),
         SameExact(s, t), SameExact(t, s)
  PROVE  SameExact(RecencyOrder(s), RecencyOrder(t))
  <1>1. CASE ~request.recency
    BY <1>1 DEF RecencyOrder
  <1>2. CASE request.recency
    <2>1. s \in Seq(HitRecords) /\ t \in Seq(HitRecords)
      BY DEF IsList
    <2>2. /\ Len(s) \in Nat /\ DOMAIN s = 1 .. Len(s)
          /\ Len(t) \in Nat /\ DOMAIN t = 1 .. Len(t)
      BY <2>1, SeqIs
    <2>3. PICK acc : Promotes(acc, s) /\ acc[Len(s)] = RecencyOrder(s)
      BY <1>2, <2>1, RecencyRuns
    <2>4. PICK bcc : Promotes(bcc, t) /\ bcc[Len(t)] = RecencyOrder(t)
      BY <1>2, <2>1, RecencyRuns
    <2>5. PICK m : Lead(s, m)
      BY LeadLength
    <2>6. PICK l : Lead(t, l)
      BY LeadLength
    <2>7. m = l
      BY <2>5, <2>6, LeadsAgree
    <2>8. TwinLists(acc[m], bcc[m], m)
      BY <2>3, <2>4, <2>5, <2>6, <2>7, TwinRuns
    <2> DEFINE f == RecencyOrder(s)
               e == RecencyOrder(t)
    <2>9. /\ \A p \in 1 .. m : f[p] = acc[m][p]
          /\ \A p \in 1 .. m : e[p] = bcc[m][p]
      BY <2>3, <2>4, <2>5, <2>6, <2>7, HeadStays
    <2>10. IsRecent(f, s) /\ IsRecent(e, t)
      BY RecencyIs
    <2> HIDE DEF f, e
    <2>11. DOMAIN f = DOMAIN s /\ DOMAIN e = DOMAIN t
           /\ \A p \in DOMAIN s : Exact(f[p]) <=> Exact(s[p])
      BY <2>10, RecentKeeps DEF IsRecent
    <2>12. ASSUME NEW k \in DOMAIN f, Exact(f[k])
           PROVE  k \in DOMAIN e /\ Alike(f[k], e[k]) /\ f[k].score = e[k].score
      <3>1. k \in 1 .. Len(s) /\ k <= m
        BY <2>2, <2>5, <2>11, <2>12 DEF Lead
      <3>2. k \in 1 .. m /\ k \in DOMAIN e
        <4>1. m \in 0 .. Len(t)
          BY <2>6, <2>7 DEF Lead
        <4> QED BY <2>2, <2>11, <3>1, <4>1
      <3>3. Twins(f[k], e[k])
        BY <2>8, <2>9, <3>2 DEF TwinLists
      <3> QED BY <3>2, <3>3 DEF Twins
    <2>13. SameExact(f, e)
      BY <2>12 DEF SameExact
    <2> QED BY <2>13 DEF f, e
  <1> QED BY <1>1, <1>2

-----------------------------------------------------------------------------
(* The reranker.                                                           *)

\* As many members are not above a member as its place among them.
LEMMA AscendingRank ==
  ASSUME NEW P \in SUBSET Int, IsFiniteSet(P), NEW i \in P
  PROVE  \E k \in 1 .. Cardinality(P) : Ascending(P)[k] = i /\ Cardinality({j \in P : j <= i}) = k
  <1> DEFINE a == Ascending(P)
             X == {j \in P : j <= i}
  <1>1. IsAscending(a, P)
    BY AscendingIs
  <1> HIDE DEF a
  <1>2. /\ a \in Seq(P) /\ Len(a) = Cardinality(P) /\ DOMAIN a = 1 .. Cardinality(P)
        /\ Cardinality(P) \in Nat
        /\ \A x \in P : \E k \in DOMAIN a : a[k] = x
        /\ \A k, l \in DOMAIN a : k < l => a[k] < a[l]
        /\ \A k, l \in DOMAIN a : k # l => a[k] # a[l]
    BY <1>1 DEF IsAscending
  <1>3. PICK k \in DOMAIN a : a[k] = i
    BY <1>2
  <1> DEFINE f == [l \in 1 .. k |-> a[l]]
  <1>4. \A l \in DOMAIN a : a[l] \in P /\ a[l] \in Int
    <2>1. \A l \in DOMAIN a : a[l] \in P
      BY <1>2, SeqIs
    <2> QED BY <2>1
  <1>5. k \in Nat /\ 1 .. k \subseteq DOMAIN a
    BY <1>2, <1>3
  <1>6. \A l \in 1 .. k : a[l] \in X
    <2> TAKE l \in 1 .. k
    <2>1. l \in DOMAIN a /\ (l = k \/ l < k)
      BY <1>5
    <2>2. a[l] = i \/ a[l] < i
      BY <1>2, <1>3, <2>1
    <2> QED BY <1>4, <2>1, <2>2
  <1>7. \A x \in X : \E l \in 1 .. k : a[l] = x
    <2> TAKE x \in X
    <2>1. PICK l \in DOMAIN a : a[l] = x
      BY <1>2
    <2>2. ~(k < l)
      <3>1. ASSUME k < l PROVE FALSE
        <4>1. i < x /\ x <= i /\ x \in Int /\ i \in Int
          BY <1>2, <1>3, <2>1, <3>1
        <4> QED BY <4>1
      <3> QED BY <3>1
    <2> QED BY <1>2, <1>5, <2>1, <2>2
  <1>8. f \in [1 .. k -> X]
    BY <1>6
  <1>9. \A l, m \in 1 .. k : f[l] = f[m] => l = m
    BY <1>2, <1>5
  <1>10. \A x \in X : \E l \in 1 .. k : f[l] = x
    BY <1>7
  <1> HIDE DEF f, X
  <1>11. f \in Injection(1 .. k, X)
    BY <1>8, <1>9, Zenon DEF Injection, IsInjective
  <1>12. f \in Surjection(1 .. k, X)
    BY <1>8, <1>10 DEF Surjection
  <1>13. IsFiniteSet(1 .. k) /\ Cardinality(1 .. k) = k
    BY <1>5, FS_Interval
  <1>14. Cardinality(X) = k
    BY <1>11, <1>12, <1>13, FS_Surjection
  <1> QED BY <1>2, <1>3, <1>14 DEF a, X

IsOrderOf(order, P) ==
  /\ order \in Seq(P)
  /\ \A x \in P : \E k \in DOMAIN order : order[k] = x
  /\ \A k, l \in DOMAIN order : k # l => order[k] # order[l]

\* The part of an order that is in a set lists that set.
LEMMA PartOfOrder ==
  ASSUME NEW P, NEW order, IsOrderOf(order, P), NEW X \in SUBSET P,
         NEW K, K = {k \in DOMAIN order : order[k] \in X}
  PROVE  /\ Cardinality(X) \in Nat /\ DOMAIN Those(order, K) = 1 .. Cardinality(X)
         /\ \A k \in 1 .. Cardinality(X) : Those(order, K)[k] \in X
         /\ \A k, l \in 1 .. Cardinality(X) : Those(order, K)[k] = Those(order, K)[l] => k = l
  <1> DEFINE o == Those(order, K)
             a == Ascending(K)
             f == [k \in K |-> order[k]]
  <1>1. /\ order \in Seq(P)
        /\ \A x \in P : \E k \in DOMAIN order : order[k] = x
        /\ \A k, l \in DOMAIN order : k # l => order[k] # order[l]
    BY DEF IsOrderOf
  <1>2. K \in SUBSET DOMAIN order
    OBVIOUS
  <1>3. IsThose(o, order, K) /\ IsFiniteSet(K) /\ IsAscending(a, K)
    BY <1>1, <1>2, ThoseAre
  <1>4. f \in [K -> X] /\ \A k, l \in K : f[k] = f[l] => k = l
    BY <1>1
  <1>5. \A x \in X : \E k \in K : f[k] = x
    <2> TAKE x \in X
    <2>1. PICK k \in DOMAIN order : order[k] = x
      BY <1>1
    <2> QED BY <2>1
  <1> HIDE DEF f, o, a
  <1>6. f \in Injection(K, X)
    BY <1>4, Zenon DEF Injection, IsInjective
  <1>7. f \in Surjection(K, X)
    BY <1>4, <1>5 DEF Surjection
  <1>8. Cardinality(X) = Cardinality(K) /\ Cardinality(K) \in Nat
    BY <1>3, <1>6, <1>7, FS_Surjection, FS_CardinalityType
  <1>9. /\ DOMAIN o = DOMAIN a /\ DOMAIN a = 1 .. Cardinality(X)
        /\ \A k \in DOMAIN o : a[k] \in K /\ o[k] = order[a[k]]
        /\ \A k, l \in DOMAIN a : k # l => a[k] # a[l]
    BY <1>3, <1>8 DEF IsThose, IsAscending, a
  <1>10. \A k \in DOMAIN o : o[k] \in X
    BY <1>9
  <1>11. \A k, l \in DOMAIN o : o[k] = o[l] => k = l
    BY <1>1, <1>9
  <1> QED BY <1>8, <1>9, <1>10, <1>11 DEF o

LEMMA SlateIs ==
  ASSUME IsWorld, NEW s, IsList(s)
  PROVE  Slate(s) \subseteq {i \in DOMAIN s : ~Exact(s[i])}
  <1>1. s \in Seq(HitRecords) /\ DOMAIN s = 1 .. Len(s) /\ Len(s) \in Nat
    BY SeqIs DEF IsList
  <1>2. \A i \in DOMAIN s : world[s[i].id].sem \in Nat
    BY <1>1, HitTyped, WorldTyped
  <1>3. ASSUME NEW X \in SUBSET DOMAIN s, NEW n
        PROVE  FirstOf(Ascending(X), n) \subseteq X
    <2>1. X \in SUBSET (1 .. Len(s))
      BY <1>1
    <2>2. X \in SUBSET Int /\ IsFiniteSet(X)
      <3>1. Len(s) \in Nat
        BY <1>1
      <3>2. IsFiniteSet(X)
        BY <2>1, <3>1, BoundedFinite
      <3> QED BY <2>1, <3>2
    <2>3. Ascending(X) \in Seq(X)
      BY <2>2, AscendingIs DEF IsAscending
    <2>4. \A k \in DOMAIN Ascending(X) : Ascending(X)[k] \in X
      BY <2>3, SeqIs
    <2> QED BY <2>4 DEF FirstOf
  <1>4. ASSUME NEW tier \in SUBSET DOMAIN s, NEW room
        PROVE  TierSlate(s, tier, room) \subseteq tier
    <2> DEFINE sem(i) == world[s[i].id].sem
               R == {p \in tier \X tier : \/ sem(p[1]) > sem(p[2])
                                          \/ sem(p[1]) = sem(p[2]) /\ p[1] < p[2]}
               chosen == FirstOf(Ascending(tier), (room + 1) \div 2)
                           \cup FirstOf(Arranged(tier, R), room \div 2)
               a == Arranged(tier, R)
    <2>1. tier \in SUBSET (1 .. Len(s))
      BY <1>1
    <2>2. IsFiniteSet(tier)
      BY <1>1, <2>1, BoundedFinite
    <2>3. StrictOrder(tier, R)
      <3>1. \A i \in tier : sem(i) \in Int /\ i \in Int
        BY <1>2, <2>1
      <3>2. \A i, j \in tier : <<i, j>> \in R <=> sem(i) > sem(j) \/ (sem(i) = sem(j) /\ i < j)
        OBVIOUS
      <3> HIDE DEF R, sem
      <3>3. \A i \in tier : <<i, i>> \notin R
        BY <3>1, <3>2
      <3>4. \A i, j \in tier : i = j \/ <<i, j>> \in R \/ <<j, i>> \in R
        <4> TAKE i, j \in tier
        <4> DEFINE x == sem(i)
                   y == sem(j)
        <4>1. /\ x \in Int /\ i \in Int /\ y \in Int /\ j \in Int
              /\ <<i, j>> \in R <=> x > y \/ (x = y /\ i < j)
              /\ <<j, i>> \in R <=> y > x \/ (y = x /\ j < i)
          BY <3>1, <3>2
        <4> HIDE DEF x, y
        <4> QED BY <4>1
      <3>5. \A i, j, k \in tier : <<i, j>> \in R /\ <<j, k>> \in R => <<i, k>> \in R
        BY <3>1, <3>2
      <3> QED BY <3>3, <3>4, <3>5 DEF StrictOrder
    <2> HIDE DEF R
    <2>4. \A k \in DOMAIN a : a[k] \in tier
      <3>1. a \in Seq(tier)
        BY <2>2, <2>3, ArrangedIs DEF IsArranged
      <3> HIDE DEF a
      <3> QED BY <3>1, SeqIs
    <2> HIDE DEF a
    <2>5. \A n : FirstOf(a, n) \subseteq tier
      BY <2>4 DEF FirstOf
    <2>6. chosen \subseteq tier
      BY <1>3, <2>5 DEF a
    <2>7. TierSlate(s, tier, room)
            \in {tier, chosen \cup FirstOf(Ascending(tier \ chosen), room - Cardinality(chosen))}
      BY DEF TierSlate, R
    <2> HIDE DEF chosen
    <2>8. FirstOf(Ascending(tier \ chosen), room - Cardinality(chosen)) \subseteq tier \ chosen
      BY <1>3
    <2> QED BY <2>6, <2>7, <2>8
  <1>5. \A q : Tier(s, q) \subseteq {i \in DOMAIN s : ~Exact(s[i])}
    BY DEF Tier
  <1>6. \A q, room : TierSlate(s, Tier(s, q), room) \subseteq {i \in DOMAIN s : ~Exact(s[i])}
    BY <1>4, <1>5
  <1> QED BY <1>6 DEF Slate

\* t has the hits of s, the exact ones at their places and the others at places
\* of their tier.
IsReranked(t, s) ==
  /\ IsList(t) /\ Len(t) = Len(s) /\ DOMAIN t = DOMAIN s
  /\ \A p \in DOMAIN s : (Exact(t[p]) <=> Exact(s[p])) /\ (Qualified(t[p]) <=> Qualified(s[p]))
  /\ \A p \in DOMAIN s : Exact(s[p]) => t[p] = s[p]
  /\ \A p \in DOMAIN s : \E j \in DOMAIN s : t[p] = s[j]
  /\ \A j \in DOMAIN s : \E p \in DOMAIN s : t[p] = s[j]

LEMMA RerankedIs ==
  ASSUME IsWorld, NEW s, IsList(s), NEW order \in SetToSeqs(Slate(s))
  PROVE  IsReranked(Reranked(s, order), s)
  <1> DEFINE D == DOMAIN s
             P == Slate(s)
             t == Reranked(s, order)
             peers(i) == {j \in ToSet(order) : Qualified(s[j]) <=> Qualified(s[i])}
             K(i) == {k \in DOMAIN order : order[k] \in peers(i)}
             rank(i) == Cardinality({j \in peers(i) : j <= i})
             from == [i \in P |-> Those(order, K(i))[rank(i)]]
  <1>1. /\ s \in Seq(HitRecords) /\ D = 1 .. Len(s) /\ Len(s) \in Nat
        /\ \A i \in D : s[i] \in HitRecords
    BY SeqIs DEF IsList
  <1>2. P \subseteq D /\ \A i \in P : ~Exact(s[i])
    BY SlateIs
  <1> HIDE DEF P
  <1>3. P \in SUBSET Int /\ IsFiniteSet(P)
    <2>1. P \in SUBSET (1 .. Len(s))
      BY <1>1, <1>2
    <2>2. Len(s) \in Nat
      BY <1>1
    <2>3. IsFiniteSet(P)
      BY <2>1, <2>2, BoundedFinite
    <2> QED BY <2>1, <2>3
  <1>4. IsOrderOf(order, P)
    <2>1. order \in SetToSeqs(P)
      BY DEF P
    <2>2. order \in Seq(P) /\ \A x \in P : \E k \in DOMAIN order : order[k] = x
      BY <1>3, <2>1, Permuted
    <2>3. \A k, l \in DOMAIN order : k # l => order[k] # order[l]
      BY <2>1 DEF SetToSeqs
    <2> QED BY <2>2, <2>3 DEF IsOrderOf
  <1>5. ToSet(order) = P
    <2>1. order \in Seq(P) /\ \A x \in P : \E k \in DOMAIN order : order[k] = x
      BY <1>4 DEF IsOrderOf
    <2>2. \A k \in DOMAIN order : order[k] \in P
      BY <2>1, SeqIs
    <2> QED BY <2>1, <2>2 DEF ToSet
  <1>6. t = [i \in D |-> IF i \notin P THEN s[i] ELSE s[Those(order, K(i))[rank(i)]]]
    BY <1>5, Zenon DEF Reranked
  <1>7. ASSUME NEW i \in P
        PROVE  /\ i \in peers(i) /\ peers(i) \subseteq P
               /\ \E k \in 1 .. Cardinality(peers(i)) : Ascending(peers(i))[k] = i /\ rank(i) = k
               /\ from[i] = Those(order, K(i))[rank(i)] /\ from[i] \in peers(i)
    <2> DEFINE X == peers(i)
    <2>1. i \in X /\ X \subseteq P
      BY <1>5
    <2>2. X \in SUBSET Int /\ IsFiniteSet(X)
      BY <1>3, <2>1, FS_Subset
    <2>3. K(i) = {k \in DOMAIN order : order[k] \in X}
      OBVIOUS
    <2>4. rank(i) = Cardinality({j \in X : j <= i})
      OBVIOUS
    <2>5. from[i] = Those(order, K(i))[rank(i)]
      OBVIOUS
    <2> HIDE DEF X, K, rank, from
    <2>6. \E k \in 1 .. Cardinality(X) : Ascending(X)[k] = i /\ rank(i) = k
      BY <2>1, <2>2, <2>4, AscendingRank
    <2>7. \A k \in 1 .. Cardinality(X) : Those(order, K(i))[k] \in X
      BY <1>4, <2>1, <2>3, PartOfOrder
    <2> QED BY <2>1, <2>5, <2>6, <2>7 DEF X
  <1>8. ASSUME NEW i \in P, NEW j \in P, from[i] = from[j]
        PROVE  i = j
    <2>1. from[i] \in peers(i) /\ from[i] \in peers(j)
      BY <1>7, <1>8
    <2>2. Qualified(s[i]) <=> Qualified(s[j])
      BY <2>1
    <2>3. peers(i) = peers(j)
      BY <2>2
    <2> DEFINE X == peers(i)
               o == Those(order, K(i))
    <2>4. X \subseteq P /\ K(i) = {k \in DOMAIN order : order[k] \in X} /\ K(j) = K(i)
      BY <1>7, <2>3
    <2>5. PICK k \in 1 .. Cardinality(X) : Ascending(X)[k] = i /\ rank(i) = k
      BY <1>7
    <2>6. PICK l \in 1 .. Cardinality(X) : Ascending(X)[l] = j /\ rank(j) = l
      BY <1>7, <2>3
    <2>7. from[i] = o[k] /\ from[j] = o[l]
      BY <1>7, <2>4, <2>5, <2>6
    <2> HIDE DEF X, K, from
    <2>8. \A x, y \in 1 .. Cardinality(X) : o[x] = o[y] => x = y
      BY <1>4, <2>4, PartOfOrder
    <2> HIDE DEF o
    <2>9. k = l
      BY <1>8, <2>7, <2>8
    <2> QED BY <2>5, <2>6, <2>9
  <1>9. \A i \in P : from[i] \in P /\ (Qualified(s[from[i]]) <=> Qualified(s[i]))
    BY <1>7
  <1>10. t = [i \in D |-> IF i \notin P THEN s[i] ELSE s[from[i]]]
    BY <1>6
  <1>11. from = [i \in P |-> from[i]]
    OBVIOUS
  <1> HIDE DEF from, t, D
  <1>12. \A j \in P : \E i \in P : from[i] = j
    <2>1. from \in [P -> P] /\ \A i, j \in P : from[i] = from[j] => i = j
      BY <1>8, <1>9, <1>11
    <2>2. from \in Injection(P, P)
      BY <2>1, Zenon DEF Injection, IsInjective
    <2>3. from \in Surjection(P, P)
      BY <1>3, <2>2, FS_Injection
    <2> QED BY <2>3 DEF Surjection
  <1> DEFINE at(i) == IF i \notin P THEN i ELSE from[i]
  <1>13. \A i \in D : at(i) \in D /\ t[i] = s[at(i)]
                      /\ (Exact(s[at(i)]) <=> Exact(s[i])) /\ (Qualified(s[at(i)]) <=> Qualified(s[i]))
    BY <1>2, <1>9, <1>10
  <1>14. \A i, j \in D : at(i) = at(j) => i = j
    BY <1>8, <1>9
  <1>15. \A j \in D : \E i \in D : at(i) = j
    BY <1>2, <1>12
  <1>16. \A i \in D : Exact(s[i]) => t[i] = s[i]
    BY <1>2, <1>10
  <1> HIDE DEF at
  <1>17. t \in Seq(HitRecords) /\ Len(t) = Len(s) /\ DOMAIN t = D
    <2>1. t = [i \in D |-> t[i]]
      BY <1>10
    <2>2. t \in [1 .. Len(s) -> HitRecords]
      BY <1>1, <1>13, <2>1
    <2> QED BY <1>1, <2>2, FunctionIsSeq
  <1>18. IsList(t)
    <2>1. \A i, j \in DOMAIN t : t[i].id = t[j].id => i = j
      <3> TAKE i, j \in DOMAIN t
      <3> HAVE t[i].id = t[j].id
      <3>1. s[at(i)].id = s[at(j)].id /\ at(i) \in D /\ at(j) \in D
        BY <1>13, <1>17
      <3>2. at(i) = at(j)
        BY <3>1 DEF IsList, D
      <3> QED BY <1>14, <1>17, <3>2
    <2> QED BY <1>17, <2>1 DEF IsList
  <1>19. /\ \A p \in D : (Exact(t[p]) <=> Exact(s[p])) /\ (Qualified(t[p]) <=> Qualified(s[p]))
         /\ \A p \in D : \E j \in D : t[p] = s[j]
         /\ \A j \in D : \E p \in D : t[p] = s[j]
    BY <1>13, <1>15
  <1>20. IsReranked(t, s)
    BY <1>16, <1>17, <1>18, <1>19 DEF IsReranked, D
  <1> QED BY <1>20 DEF t

-----------------------------------------------------------------------------
(* A search reads one state of the store: what its steps compute from it they *)
(* would compute again.                                                    *)

Frozen == UNCHANGED <<request, world>>

LEMMA RowsStay ==
  ASSUME Frozen
  PROVE  /\ \A r : Entity(r)' = Entity(r)
         /\ \A r : Current(r)' <=> Current(r)
         /\ \A r : Eligible(r)' <=> Eligible(r)
         /\ \A c, r : ChannelScore(c, r)' = ChannelScore(c, r)
  <1>1. request' = request /\ world' = world
    BY DEF Frozen
  <1>2. \A r : Entity(r)' = Entity(r)
    BY <1>1 DEF Entity
  <1>3. \A r : Current(r)' <=> Current(r)
    BY <1>2 DEF Current
  <1>4. \A r : /\ OnSurface(r)' <=> OnSurface(r)
               /\ InHorizon(r)' <=> InHorizon(r)
    BY <1>1 DEF OnSurface, InHorizon
  <1>5. \A r : /\ ClaimEligible(r)' <=> ClaimEligible(r)
               /\ ArtifactEligible(r)' <=> ArtifactEligible(r)
    BY <1>1, <1>3, <1>4 DEF ClaimEligible, ArtifactEligible
  <1>6. \A r : Eligible(r)' <=> Eligible(r)
    BY <1>1, <1>4, <1>5 DEF Eligible
  <1>7. \A c, r : ChannelScore(c, r)' = ChannelScore(c, r)
    BY <1>1 DEF ChannelScore
  <1> QED BY <1>2, <1>3, <1>6, <1>7

LEMMA RanksStay ==
  ASSUME Frozen
  PROVE  /\ \A h : LexicalQualified(h)' <=> LexicalQualified(h)
         /\ \A h : TrigramQualified(h)' <=> TrigramQualified(h)
         /\ \A h : Qualified(h)' <=> Qualified(h)
         /\ \A h : Exact(h)' <=> Exact(h)
         /\ \A h : Conflicted(h)' <=> Conflicted(h)
         /\ \A h : MatchedUnits(h)' = MatchedUnits(h)
         /\ \A h : CitesWords(h)' <=> CitesWords(h)
         /\ \A g, h : SameRank(g, h)' <=> SameRank(g, h)
  <1>1. world' = world
    BY DEF Frozen
  <1>2. \A h : LexicalQualified(h)' <=> LexicalQualified(h)
    BY <1>1 DEF LexicalQualified
  <1>3. \A h : TrigramQualified(h)' <=> TrigramQualified(h)
    BY <1>1 DEF TrigramQualified
  <1>4. \A h : Qualified(h)' <=> Qualified(h)
    BY <1>2, <1>3 DEF Qualified
  <1>5. \A h : Exact(h)' <=> Exact(h)
    BY <1>1, <1>2 DEF Exact
  <1>6. \A h : Conflicted(h)' <=> Conflicted(h)
    BY <1>1 DEF Conflicted
  <1>7. \A h : MatchedUnits(h)' = MatchedUnits(h)
    BY <1>1 DEF MatchedUnits
  <1>8. \A h : CitesWords(h)' <=> CitesWords(h)
    BY <1>1, <1>2, <1>3, <1>4 DEF CitesWords, HasWordChunk
  <1>9. \A g, h : SameRank(g, h)' <=> SameRank(g, h)
    BY <1>2, <1>3, <1>5, <1>7 DEF SameRank
  <1> QED BY <1>2, <1>3, <1>4, <1>5, <1>6, <1>7, <1>8, <1>9

FullText == {r \in Revisions : Eligible(r) /\ world[r].lex > 0}
Fuzzy == {r \in Revisions : Eligible(r) /\ world[r].tri > 0}

WordedFrom(full, fuzzy) ==
  LET lexical == Merged(<<>>, full, "lexical", "row")
  IN IF \E i \in DOMAIN lexical : Exact(lexical[i]) THEN lexical
     ELSE Merged(lexical, fuzzy, "trigram", "row")

LEMMA LexicalStays ==
  ASSUME Frozen
  PROVE  LexicalCandidates' = LexicalCandidates
  <1>1. world' = world
    BY DEF Frozen
  <1>2. FullText' = FullText /\ Fuzzy' = Fuzzy
    BY <1>1, RowsStay DEF FullText, Fuzzy
  <1>3. LexicalCandidates = WordedFrom(FullText, Fuzzy)
    BY Zenon DEF LexicalCandidates, WordedFrom, FullText, Fuzzy
  <1>4. LexicalCandidates' = WordedFrom(FullText, Fuzzy)'
    BY Zenon DEF LexicalCandidates, WordedFrom, FullText, Fuzzy
  <1>5. WordedFrom(FullText, Fuzzy)' = WordedFrom(FullText, Fuzzy)
    BY <1>2, RanksStay DEF WordedFrom
  <1> QED BY <1>3, <1>4, <1>5

ScoreOrder(X) == {p \in X \X X : FusedBefore(p[1], p[2])}

LEMMA FusionStays ==
  ASSUME Frozen
  PROVE  \A s : FusedOrder(s)' = FusedOrder(s)
  <1>1. \A s, c, r : Better(s, c, r)' = Better(s, c, r)
    BY RowsStay DEF Better
  <1>2. \A s, h, c, w : Reciprocal(s, h, c, w)' = Reciprocal(s, h, c, w)
    BY <1>1 DEF Reciprocal
  <1>3. \A s, h : /\ LexicalShare(s, h)' = LexicalShare(s, h)
                  /\ OtherShares(s, h)' = OtherShares(s, h)
    BY <1>2 DEF LexicalShare, OtherShares
  <1>4. \A s, h : Fused(s, h)' = Fused(s, h)
    BY <1>3, RanksStay DEF Fused
  <1>5. \A g, h : FusedBefore(g, h)' <=> FusedBefore(g, h)
    BY RanksStay DEF FusedBefore
  <1>6. \A s : Scored(s)' = Scored(s)
    BY <1>4 DEF Scored
  <1>7. \A X : ScoreOrder(X)' = ScoreOrder(X)
    BY <1>5 DEF ScoreOrder
  <1>8. \A s : FusedOrder(s) = Arranged(Scored(s), ScoreOrder(Scored(s)))
    BY Zenon DEF FusedOrder, Scored, ScoreOrder
  <1>9. \A s : FusedOrder(s)' = Arranged(Scored(s)', ScoreOrder(Scored(s))')
    BY Zenon DEF FusedOrder, Scored, ScoreOrder
  <1> QED BY <1>6, <1>7, <1>8, <1>9

LEMMA InsertionsStay ==
  ASSUME Frozen
  PROVE  /\ \A h : WithBonus(h)' = WithBonus(h)
         /\ \A done, h : Inserted(done, h)' = Inserted(done, h)
         /\ \A acc, s : Promotes(acc, s)' <=> Promotes(acc, s)
  <1>1. world' = world
    BY DEF Frozen
  <1>2. \A h : RecencyEligible(h)' <=> RecencyEligible(h)
    BY <1>1, RowsStay DEF RecencyEligible
  <1>3. \A h : WithBonus(h)' = WithBonus(h)
    BY <1>1, <1>2 DEF WithBonus
  <1>4. \A g, h : Passes(g, h)' <=> Passes(g, h)
    BY RanksStay DEF Passes
  <1>5. \A done, h : Reach(done, h)' = Reach(done, h)
    BY <1>4 DEF Reach
  <1>6. \A done, h : Inserted(done, h) = InsertAt(done, Len(done) - Max(Reach(done, h)) + 1, h)
    BY Zenon DEF Inserted, Reach
  <1>7. \A done, h : Inserted(done, h)' = InsertAt(done, Len(done) - Max(Reach(done, h)') + 1, h)
    BY Zenon DEF Inserted, Reach
  <1>8. \A done, h : Inserted(done, h)' = Inserted(done, h)
    BY <1>5, <1>6, <1>7
  <1>9. \A acc, s : Promotes(acc, s)' <=> Promotes(acc, s)
    BY <1>3, <1>8 DEF Promotes
  <1> QED BY <1>3, <1>8, <1>9

\* The steps of recency leave no choice.
LEMMA PromotesOnce ==
  ASSUME NEW s, Len(s) \in Nat, NEW acc, Promotes(acc, s), NEW bcc, Promotes(bcc, s)
  PROVE  acc[Len(s)] = bcc[Len(s)]
  <1> DEFINE n == Len(s)
             Good == {i \in 0 .. n : acc[i] = bcc[i]}
  <1>1. n \in Nat /\ 0 \in Good
    BY DEF Promotes
  <1>2. ASSUME NEW i \in 1 .. n, i - 1 \in Good PROVE i \in Good
    BY <1>1, <1>2 DEF Promotes
  <1> HIDE DEF Good, n
  <1>3. 0 .. n \subseteq Good
    BY <1>1, <1>2, Climb
  <1>4. n \in 0 .. n
    BY <1>1
  <1> QED BY <1>3, <1>4 DEF Good, n

RecencyDefined ==
  \A s \in Seq(HitRecords) :
    request.recency => \E acc : Promotes(acc, s) /\ acc[Len(s)] = RecencyOrder(s)

LEMMA RecencyIsDefined == RecencyDefined
  BY RecencyRuns, Zenon DEF RecencyDefined

LEMMA RecencyStays ==
  ASSUME Frozen
  PROVE  \A s \in Seq(HitRecords) : RecencyOrder(s)' = RecencyOrder(s)
  <1> TAKE s \in Seq(HitRecords)
  <1>1. request' = request
    BY DEF Frozen
  <1>2. CASE ~request.recency
    <2>1. RecencyOrder(s) = s
      BY <1>2 DEF RecencyOrder
    <2>2. RecencyOrder(s)' = s
      BY <1>1, <1>2 DEF RecencyOrder
    <2> QED BY <2>1, <2>2
  <1>3. CASE request.recency
    <2>1. RecencyDefined /\ RecencyDefined'
      BY RecencyIsDefined, PTL
    <2>2. PICK acc : Promotes(acc, s) /\ acc[Len(s)] = RecencyOrder(s)
      BY <1>3, <2>1 DEF RecencyDefined
    <2>3. PICK bcc : Promotes(bcc, s)' /\ bcc[Len(s)] = RecencyOrder(s)'
      BY <1>1, <1>3, <2>1 DEF RecencyDefined
    <2>4. Promotes(bcc, s)
      BY <2>3, InsertionsStay
    <2>5. Len(s) \in Nat
      OBVIOUS
    <2> QED BY <2>2, <2>3, <2>4, <2>5, PromotesOnce
  <1> QED BY <1>2, <1>3

-----------------------------------------------------------------------------
(* The answer.                                                             *)

Window(s) == {i \in 1 .. Min({Limit, Len(s)}) : ~Exact(s[i]) /\ ~Conflicted(s[i])}
Beyond(s) == {i \in Limit + 1 .. Len(s) : Conflicted(s[i])}

\* Places are exchanged in pairs, and a conflicted hit is beyond the limit only
\* when no hit of the window could make room.
LEMMA RetainedIs ==
  ASSUME NEW s \in Seq(HitRecords), NEW t, t = RetainConflicted(s)
  PROVE  /\ t \in Seq(HitRecords) /\ Len(t) = Len(s)
         /\ \A m \in DOMAIN s : \E i \in DOMAIN t : t[i] = s[m]
         /\ (\E i \in Limit + 1 .. Len(s) : Conflicted(t[i])) =>
               \A j \in 1 .. Limit : Exact(t[j]) \/ Conflicted(t[j])
  <1> DEFINE W == Window(s)
             B == Beyond(s)
             w == Ascending(W)
             b == Ascending(B)
             c == Cardinality(W)
             d == Cardinality(B)
             n == Min({Len(w), Len(b)})
             out(k) == w[Len(w) - k + 1]
             partner(i) ==
               IF \E k \in 1 .. n : out(k) = i THEN b[CHOOSE k \in 1 .. n : out(k) = i]
               ELSE IF \E k \in 1 .. n : b[k] = i THEN out(CHOOSE k \in 1 .. n : b[k] = i)
               ELSE i
  <1>1. /\ Len(s) \in Nat /\ DOMAIN s = 1 .. Len(s) /\ \A i \in 1 .. Len(s) : s[i] \in HitRecords
    BY SeqIs
  <1>2. Limit \in Nat
    BY SearchAssumption, Zenon
  <1>3. t = [i \in DOMAIN s |-> s[partner(i)]]
    BY Zenon DEF RetainConflicted, Window, Beyond
  <1>4. Min({Limit, Len(s)}) = IF Limit <= Len(s) THEN Limit ELSE Len(s)
    BY <1>1, <1>2, MinOfTwo
  <1>5. W \in SUBSET DOMAIN s /\ B \in SUBSET DOMAIN s
        /\ (\A i \in W : i <= Limit) /\ (\A i \in B : i > Limit)
    <2> DEFINE m == Min({Limit, Len(s)})
    <2>1. m \in Nat /\ m <= Limit /\ m <= Len(s)
      BY <1>1, <1>2, <1>4
    <2>2. W \subseteq 1 .. m
      BY DEF Window
    <2> HIDE DEF m, W
    <2>3. W \in SUBSET DOMAIN s /\ \A i \in W : i <= Limit
      BY <1>1, <1>2, <2>1, <2>2
    <2>4. B \subseteq Limit + 1 .. Len(s)
      BY DEF Beyond
    <2> HIDE DEF B
    <2>5. B \in SUBSET DOMAIN s /\ \A i \in B : i > Limit
      BY <1>1, <1>2, <2>4
    <2> QED BY <2>3, <2>5
  <1>6. \A i \in W : ~Exact(s[i]) /\ ~Conflicted(s[i])
    BY DEF Window
  <1>7. \A i \in B : Conflicted(s[i])
    BY DEF Beyond
  <1>8. \A j \in DOMAIN s : j <= Limit => j \in W \/ Exact(s[j]) \/ Conflicted(s[j])
    BY <1>1, <1>2, <1>4 DEF Window
  <1>9. \A i \in DOMAIN s : i > Limit /\ Conflicted(s[i]) => i \in B
    BY <1>1, <1>2 DEF Beyond
  <1> HIDE DEF W, B
  <1>10. ASSUME NEW X \in SUBSET DOMAIN s PROVE IsAscending(Ascending(X), X)
    <2>1. X \in SUBSET (1 .. Len(s)) /\ Len(s) \in Nat
      BY <1>1
    <2>2. X \in SUBSET Int /\ IsFiniteSet(X)
      <3>1. IsFiniteSet(X)
        BY <2>1, BoundedFinite
      <3> QED BY <2>1, <3>1
    <2> QED BY <2>2, AscendingIs
  <1>11. IsAscending(w, W) /\ IsAscending(b, B)
    BY <1>5, <1>10
  <1> HIDE DEF w, b
  <1>12. /\ c \in Nat /\ Len(w) = c /\ DOMAIN w = 1 .. c
         /\ d \in Nat /\ Len(b) = d /\ DOMAIN b = 1 .. d
         /\ \A k \in 1 .. c : w[k] \in W
         /\ \A k \in 1 .. d : b[k] \in B
         /\ \A i \in W : \E k \in 1 .. c : w[k] = i
         /\ \A i \in B : \E k \in 1 .. d : b[k] = i
         /\ \A k, l \in 1 .. c : w[k] = w[l] => k = l
         /\ \A k, l \in 1 .. d : b[k] = b[l] => k = l
    <2>1. w \in Seq(W) /\ b \in Seq(B)
      BY <1>11 DEF IsAscending
    <2>2. (\A k \in DOMAIN w : w[k] \in W) /\ (\A k \in DOMAIN b : b[k] \in B)
      BY <2>1, SeqIs
    <2> QED BY <1>11, <2>2 DEF IsAscending
  <1>13. n \in Nat /\ n <= c /\ n <= d /\ (n = c \/ n = d)
    <2>1. n = IF c <= d THEN c ELSE d
      BY <1>12, MinOfTwo
    <2> QED BY <1>12, <2>1
  <1> HIDE DEF n, c, d
  <1>14. \A k \in 1 .. n : out(k) = w[c - k + 1] /\ c - k + 1 \in 1 .. c
    BY <1>12, <1>13
  <1>15. /\ \A k \in 1 .. n : out(k) \in W
         /\ \A k, l \in 1 .. n : out(k) = out(l) => k = l
    <2>1. \A k \in 1 .. n : out(k) \in W
      BY <1>12, <1>14
    <2>2. ASSUME NEW k \in 1 .. n, NEW l \in 1 .. n, out(k) = out(l) PROVE k = l
      <3>1. w[c - k + 1] = w[c - l + 1] /\ c - k + 1 \in 1 .. c /\ c - l + 1 \in 1 .. c
        BY <1>14, <2>2
      <3>2. c - k + 1 = c - l + 1
        BY <1>12, <3>1
      <3> QED BY <1>12, <1>13, <3>2
    <2> QED BY <2>1, <2>2
  <1>16. n = c => \A i \in W : \E k \in 1 .. n : out(k) = i
    <2> SUFFICES ASSUME n = c, NEW i \in W PROVE \E k \in 1 .. n : out(k) = i
      OBVIOUS
    <2>1. PICK k \in 1 .. c : w[k] = i
      BY <1>12
    <2> DEFINE l == c - k + 1
    <2>2. l \in 1 .. n /\ c - l + 1 = k
      BY <1>12
    <2> HIDE DEF l
    <2>3. out(l) = i
      BY <1>14, <2>1, <2>2
    <2> QED BY <2>2, <2>3
  <1>17. \A k \in 1 .. n : b[k] \in B /\ k \in 1 .. d
    BY <1>12, <1>13
  <1> HIDE DEF out
  <1>18. W \cap B = {}
    <2>1. ASSUME NEW i \in W, i \in B PROVE FALSE
      <3>1. i <= Limit /\ i > Limit /\ i \in Int
        BY <1>1, <1>5, <2>1
      <3> QED BY <1>2, <3>1
    <2> QED BY <2>1
  <1>19. \A k \in 1 .. n : partner(out(k)) = b[k]
    <2> TAKE k \in 1 .. n
    <2> DEFINE l == CHOOSE m \in 1 .. n : out(m) = out(k)
    <2>1. l \in 1 .. n /\ out(l) = out(k)
      BY Zenon
    <2>2. partner(out(k)) = b[l]
      BY Zenon
    <2> HIDE DEF l
    <2> QED BY <1>15, <2>1, <2>2
  <1>20. \A k \in 1 .. n : partner(b[k]) = out(k)
    <2> TAKE k \in 1 .. n
    <2>1. ~\E m \in 1 .. n : out(m) = b[k]
      BY <1>15, <1>17, <1>18
    <2> DEFINE l == CHOOSE m \in 1 .. n : b[m] = b[k]
    <2>2. l \in 1 .. n /\ b[l] = b[k]
      BY Zenon
    <2>3. partner(b[k]) = out(l)
      BY <2>1, Zenon
    <2> HIDE DEF l
    <2>4. l = k
      BY <1>12, <1>17, <2>2
    <2> QED BY <2>3, <2>4
  <1>21. \A i \in DOMAIN s : (\A k \in 1 .. n : out(k) # i /\ b[k] # i) => partner(i) = i
    BY Zenon
  <1> HIDE DEF partner
  <1>22. \A i \in DOMAIN s : \/ \E k \in 1 .. n : i = out(k) /\ partner(i) = b[k]
                             \/ \E k \in 1 .. n : i = b[k] /\ partner(i) = out(k)
                             \/ partner(i) = i /\ \A k \in 1 .. n : out(k) # i /\ b[k] # i
    BY <1>19, <1>20, <1>21
  <1>23. \A i \in DOMAIN s : partner(i) \in DOMAIN s /\ partner(partner(i)) = i
    BY <1>5, <1>15, <1>17, <1>19, <1>20, <1>22
  <1>24. \A i \in DOMAIN s : t[i] = s[partner(i)]
    BY <1>3
  <1>25. t \in Seq(HitRecords) /\ Len(t) = Len(s)
    <2>1. t \in [1 .. Len(s) -> HitRecords]
      BY <1>1, <1>3, <1>23
    <2> QED BY <1>1, <2>1, FunctionIsSeq
  <1>26. \A m \in DOMAIN s : \E i \in DOMAIN t : t[i] = s[m]
    <2>1. DOMAIN t = DOMAIN s
      BY <1>3
    <2> QED BY <1>23, <1>24, <2>1
  <1>27. ASSUME NEW i \in Limit + 1 .. Len(s), Conflicted(t[i]), NEW j \in 1 .. Limit
         PROVE  Exact(t[j]) \/ Conflicted(t[j])
    <2>1. i \in DOMAIN s /\ i > Limit /\ j \in DOMAIN s /\ j <= Limit /\ i \in Int /\ j \in Int
      BY <1>1, <1>2
    <2>2. i \notin W /\ j \notin B
      <3>1. ~(i <= Limit) /\ ~(j > Limit)
        BY <1>2, <2>1
      <3> QED BY <1>5, <3>1
    <2>3. partner(i) = i
      <3>1. \A k \in 1 .. n : i # out(k)
        BY <1>15, <2>2
      <3>2. ASSUME NEW k \in 1 .. n, partner(i) = out(k) PROVE FALSE
        <4>1. t[i] = s[out(k)]
          BY <1>24, <2>1, <3>2
        <4> QED BY <1>6, <1>15, <1>27, <4>1
      <3> QED BY <1>22, <2>1, <3>1, <3>2
    <2>4. i \in B /\ \A k \in 1 .. n : b[k] # i
      <3>1. Conflicted(s[i])
        BY <1>24, <1>27, <2>1, <2>3
      <3>2. \A k \in 1 .. n : b[k] # i
        <4>1. ASSUME NEW k \in 1 .. n, b[k] = i PROVE FALSE
          <5>1. partner(i) = out(k)
            BY <1>20, <4>1
          <5> QED BY <1>15, <2>2, <2>3, <5>1
        <4> QED BY <4>1
      <3> QED BY <1>9, <2>1, <3>1, <3>2
    <2>5. n = c
      <3>1. PICK k \in 1 .. d : b[k] = i
        BY <1>12, <2>4
      <3>2. n # d
        BY <2>4, <3>1
      <3> QED BY <1>13, <3>2
    <2>6. CASE j \in W
      <3>1. PICK k \in 1 .. n : out(k) = j
        BY <1>16, <2>5, <2>6
      <3>2. t[j] = s[b[k]]
        BY <1>19, <1>24, <2>1, <3>1
      <3> QED BY <1>7, <1>17, <3>2
    <2>7. CASE j \notin W
      <3>1. \A k \in 1 .. n : out(k) # j /\ b[k] # j
        BY <1>15, <1>17, <2>2, <2>7
      <3>2. t[j] = s[j]
        BY <1>21, <1>24, <2>1, <3>1
      <3> QED BY <1>8, <2>1, <2>7, <3>2
    <2> QED BY <2>6, <2>7
  <1> QED BY <1>25, <1>26, <1>27

Joined(S, h, f, g) == f \in Seq(S) /\ g \in Seq(S) /\ h = f \o g
ListsBoth(S, h, f, g) == h \in Seq(S) /\ ToSet(h) = ToSet(f) \cup ToSet(g)

\* What a concatenation lists.
LEMMA ConcatLists ==
  ASSUME NEW S, NEW h, NEW f, NEW g, Joined(S, h, f, g)
  PROVE  ListsBoth(S, h, f, g)
  <1>1. f \in Seq(S) /\ g \in Seq(S) /\ h = f \o g
    BY DEF Joined
  <1>2. /\ h \in Seq(S) /\ Len(h) = Len(f) + Len(g)
        /\ \A i \in 1 .. Len(f) : h[i] = f[i]
        /\ \A i \in 1 .. Len(h) : i > Len(f) => h[i] = g[i - Len(f)] /\ i - Len(f) \in 1 .. Len(g)
    BY <1>1, ConcatIs
  <1>3. /\ DOMAIN f = 1 .. Len(f) /\ Len(f) \in Nat
        /\ DOMAIN g = 1 .. Len(g) /\ Len(g) \in Nat /\ DOMAIN h = 1 .. Len(h)
    BY <1>2, SeqIs
  <1>4. \A i \in DOMAIN h : h[i] \in ToSet(f) \cup ToSet(g)
    <2> TAKE i \in DOMAIN h
    <2>1. CASE i <= Len(f)
      <3>1. i \in DOMAIN f /\ h[i] = f[i]
        BY <1>2, <1>3, <2>1
      <3> QED BY <3>1 DEF ToSet
    <2>2. CASE i > Len(f)
      <3>1. i - Len(f) \in DOMAIN g /\ h[i] = g[i - Len(f)]
        BY <1>2, <1>3, <2>2
      <3> QED BY <3>1 DEF ToSet
    <2> QED BY <1>3, <2>1, <2>2
  <1>5. \A i \in DOMAIN f : f[i] \in ToSet(h)
    <2> TAKE i \in DOMAIN f
    <2>1. i \in DOMAIN h /\ h[i] = f[i]
      BY <1>2, <1>3
    <2> QED BY <2>1 DEF ToSet
  <1>6. \A i \in DOMAIN g : g[i] \in ToSet(h)
    <2> TAKE i \in DOMAIN g
    <2>1. Len(f) + i \in DOMAIN h /\ Len(f) + i > Len(f) /\ (Len(f) + i) - Len(f) = i
      BY <1>2, <1>3
    <2>2. h[Len(f) + i] = g[i]
      BY <1>2, <1>3, <2>1
    <2> QED BY <2>1, <2>2 DEF ToSet
  <1>7. ToSet(h) = ToSet(f) \cup ToSet(g)
    <2>1. ToSet(h) \subseteq ToSet(f) \cup ToSet(g)
      <3>1. \A x \in ToSet(h) : \E i \in DOMAIN h : x = h[i]
        BY DEF ToSet
      <3> QED BY <1>4, <3>1
    <2>2. ToSet(f) \subseteq ToSet(h) /\ ToSet(g) \subseteq ToSet(h)
      <3>1. \A x \in ToSet(f) : \E i \in DOMAIN f : x = f[i]
        BY DEF ToSet
      <3>2. \A x \in ToSet(g) : \E i \in DOMAIN g : x = g[i]
        BY DEF ToSet
      <3> QED BY <1>5, <1>6, <3>1, <3>2
    <2> QED BY <2>1, <2>2
  <1> QED BY <1>2, <1>7 DEF ListsBoth

LEMMA AnchorsLeadIs ==
  ASSUME NEW s \in Seq(HitRecords)
  PROVE  AnchorsLead(s) \in Seq(HitRecords) /\ ToSet(AnchorsLead(s)) = ToSet(s)
  <1> DEFINE anchored == AnchoredEntities(s)
             at(q, a) == {i \in DOMAIN s : /\ Qualified(s[i]) <=> q
                                           /\ Entity(s[i].id) \in anchored <=> a}
             a1 == Those(s, at(TRUE, TRUE))
             a2 == Those(s, at(TRUE, FALSE))
             a3 == Those(s, at(FALSE, TRUE))
             a4 == Those(s, at(FALSE, FALSE))
  <1>1. CASE anchored = {}
    BY <1>1 DEF AnchorsLead
  <1>2. CASE anchored # {}
    <2> DEFINE b2 == a1 \o a2
               b3 == b2 \o a3
               b4 == b3 \o a4
    <2>1. AnchorsLead(s) = b4
      BY <1>2 DEF AnchorsLead
    <2>2. /\ at(TRUE, TRUE) \in SUBSET DOMAIN s /\ at(TRUE, FALSE) \in SUBSET DOMAIN s
          /\ at(FALSE, TRUE) \in SUBSET DOMAIN s /\ at(FALSE, FALSE) \in SUBSET DOMAIN s
          /\ DOMAIN s = at(TRUE, TRUE) \cup at(TRUE, FALSE) \cup at(FALSE, TRUE) \cup at(FALSE, FALSE)
      OBVIOUS
    <2> HIDE DEF at
    <2>3. /\ a1 \in Seq(HitRecords) /\ ToSet(a1) = {s[i] : i \in at(TRUE, TRUE)}
          /\ a2 \in Seq(HitRecords) /\ ToSet(a2) = {s[i] : i \in at(TRUE, FALSE)}
          /\ a3 \in Seq(HitRecords) /\ ToSet(a3) = {s[i] : i \in at(FALSE, TRUE)}
          /\ a4 \in Seq(HitRecords) /\ ToSet(a4) = {s[i] : i \in at(FALSE, FALSE)}
      BY <2>2, ThoseAre
    <2> HIDE DEF a1, a2, a3, a4
    <2>a. b2 = a1 \o a2 /\ b3 = b2 \o a3 /\ b4 = b3 \o a4
      OBVIOUS
    <2> HIDE DEF b2, b3, b4
    <2>4. b2 \in Seq(HitRecords) /\ ToSet(b2) = ToSet(a1) \cup ToSet(a2)
      <3>1. Joined(HitRecords, b2, a1, a2)
        BY <2>3, <2>a DEF Joined
      <3>2. ListsBoth(HitRecords, b2, a1, a2)
        BY <3>1, ConcatLists, Zenon
      <3> QED BY <3>2 DEF ListsBoth
    <2>5. b3 \in Seq(HitRecords) /\ ToSet(b3) = ToSet(b2) \cup ToSet(a3)
      <3>1. Joined(HitRecords, b3, b2, a3)
        BY <2>3, <2>4, <2>a DEF Joined
      <3>2. ListsBoth(HitRecords, b3, b2, a3)
        BY <3>1, ConcatLists, Zenon
      <3> QED BY <3>2 DEF ListsBoth
    <2>6. b4 \in Seq(HitRecords) /\ ToSet(b4) = ToSet(b3) \cup ToSet(a4)
      <3>1. Joined(HitRecords, b4, b3, a4)
        BY <2>3, <2>5, <2>a DEF Joined
      <3>2. ListsBoth(HitRecords, b4, b3, a4)
        BY <3>1, ConcatLists, Zenon
      <3> QED BY <3>2 DEF ListsBoth
    <2>7. ToSet(s) = {s[i] : i \in DOMAIN s}
      BY DEF ToSet
    <2> DEFINE x == ToSet(AnchorsLead(s))
    <2>8. x = ToSet(a1) \cup ToSet(a2) \cup ToSet(a3) \cup ToSet(a4)
      BY <2>1, <2>4, <2>5, <2>6
    <2> HIDE DEF x
    <2>9. x = {s[i] : i \in DOMAIN s}
      BY <2>2, <2>3, <2>8
    <2> QED BY <2>1, <2>6, <2>7, <2>9 DEF x
  <1> QED BY <1>1, <1>2

LEMMA PolicyIs ==
  ASSUME NEW s \in Seq(HitRecords)
  PROVE  /\ Policy(s) \in Seq(HitRecords)
         /\ ToSet(Policy(s)) = {h \in ToSet(s) : request.qualifiedOnly => Qualified(h)}
  <1> DEFINE P == {i \in DOMAIN s : Qualified(s[i])}
  <1>1. ToSet(s) = {s[i] : i \in DOMAIN s}
    BY DEF ToSet
  <1>2. Those(s, P) \in Seq(HitRecords) /\ ToSet(Those(s, P)) = {s[i] : i \in P}
    <2>1. P \in SUBSET DOMAIN s
      OBVIOUS
    <2> HIDE DEF P
    <2> QED BY <2>1, ThoseAre
  <1>3. {s[i] : i \in P} = {h \in ToSet(s) : Qualified(h)}
    BY <1>1
  <1>4. Policy(s) = IF request.qualifiedOnly THEN Those(s, P) ELSE s
    BY DEF Policy
  <1> HIDE DEF P
  <1>5. CASE request.qualifiedOnly
    BY <1>2, <1>3, <1>4, <1>5
  <1>6. CASE ~request.qualifiedOnly
    BY <1>4, <1>6
  <1> QED BY <1>5, <1>6

\* No conflicted hit is cut off while another could make room for it.
Retention(s, found) ==
  LET cut == {h \in ToSet(Policy(s)) : Conflicted(h) /\ h.id \notin Ids(found)}
  IN cut # {} => /\ Len(found) = Limit
                 /\ \A i \in DOMAIN found : Exact(found[i]) \/ Conflicted(found[i])

LEMMA AnswerRetains ==
  ASSUME NEW s \in Seq(HitRecords)
  PROVE  Retention(s, AnswerOf(s).hits)
  <1> DEFINE p == Policy(AnchorsLead(s))
             r == RetainConflicted(p)
             m == Min({Limit, Len(r)})
             f == AnswerOf(s).hits
  <1>1. p \in Seq(HitRecords) /\ ToSet(p) = ToSet(Policy(s))
    <2>1. AnchorsLead(s) \in Seq(HitRecords) /\ ToSet(AnchorsLead(s)) = ToSet(s)
      BY AnchorsLeadIs
    <2>2. p \in Seq(HitRecords)
          /\ ToSet(p) = {h \in ToSet(AnchorsLead(s)) : request.qualifiedOnly => Qualified(h)}
      BY <2>1, PolicyIs
    <2>3. ToSet(Policy(s)) = {h \in ToSet(s) : request.qualifiedOnly => Qualified(h)}
      BY PolicyIs
    <2> HIDE DEF p
    <2> QED BY <2>1, <2>2, <2>3
  <1>2. f = SubSeq(r, 1, m)
    BY DEF AnswerOf
  <1> HIDE DEF p, f
  <1>3. /\ r \in Seq(HitRecords) /\ Len(r) = Len(p)
        /\ \A l \in DOMAIN p : \E i \in DOMAIN r : r[i] = p[l]
        /\ (\E i \in Limit + 1 .. Len(p) : Conflicted(r[i])) =>
              \A j \in 1 .. Limit : Exact(r[j]) \/ Conflicted(r[j])
    BY <1>1, RetainedIs
  <1> HIDE DEF r
  <1>4. Limit \in Nat /\ Len(r) \in Nat /\ DOMAIN r = 1 .. Len(r)
    BY <1>3, SearchAssumption, SeqIs, Zenon
  <1>5. m = IF Limit <= Len(r) THEN Limit ELSE Len(r)
    BY <1>4, MinOfTwo
  <1> HIDE DEF m
  <1>6. m \in 0 .. Len(r) /\ m <= Limit
    <2> DEFINE n == Len(r)
    <2>1. n \in Nat /\ Limit \in Nat /\ m = IF Limit <= n THEN Limit ELSE n
      BY <1>4, <1>5
    <2> HIDE DEF n
    <2>2. m \in 0 .. n /\ m <= Limit
      BY <2>1
    <2> QED BY <2>2 DEF n
  <1>7. Len(f) = m /\ DOMAIN f = 1 .. m /\ \A i \in 1 .. m : f[i] = r[i]
    BY <1>2, <1>3, <1>4, <1>6
  <1>8. ASSUME NEW h \in ToSet(Policy(s)), Conflicted(h), h.id \notin Ids(f)
        PROVE  Len(f) = Limit /\ \A i \in DOMAIN f : Exact(f[i]) \/ Conflicted(f[i])
    <2>1. PICK l \in DOMAIN p : p[l] = h
      BY <1>1, <1>8 DEF ToSet
    <2>2. PICK i \in DOMAIN r : r[i] = h
      BY <1>3, <2>1
    <2>3. i \notin 1 .. m
      <3>1. ASSUME i \in 1 .. m PROVE h.id \in Ids(f)
        BY <1>7, <2>2, <3>1 DEF Ids
      <3> QED BY <1>8, <3>1
    <2>4. m = Limit /\ i \in Limit + 1 .. Len(p)
      <3> DEFINE n == Len(r)
      <3>1. /\ n \in Nat /\ Limit \in Nat /\ m = (IF Limit <= n THEN Limit ELSE n)
            /\ i \in 1 .. n /\ i \notin 1 .. m
        BY <1>4, <1>5, <2>2, <2>3
      <3> HIDE DEF n
      <3>2. m = Limit /\ i \in Limit + 1 .. n
        BY <3>1
      <3> QED BY <1>3, <3>2 DEF n
    <2>5. \A j \in 1 .. Limit : Exact(r[j]) \/ Conflicted(r[j])
      BY <1>3, <1>8, <2>2, <2>4
    <2> QED BY <1>7, <2>4, <2>5
  <1>9. Retention(s, f)
    BY <1>8 DEF Retention
  <1> QED BY <1>9 DEF f

\* The same in the next state.
LEMMA RetentionStays ==
  ASSUME Frozen
  PROVE  \A s, f : Retention(s, f)' <=> Retention(s, f)
  <1>1. request' = request
    BY DEF Frozen
  <1>2. \A s : Policy(s)' = Policy(s)
    BY <1>1, RanksStay DEF Policy
  <1> QED BY <1>2, RanksStay DEF Retention

-----------------------------------------------------------------------------
(* The exact tier.                                                         *)

\* The numbers up to m in ascending order.
LEMMA FirstAscend ==
  ASSUME NEW m \in Nat
  PROVE  DOMAIN Ascending(1 .. m) = 1 .. m /\ \A k \in 1 .. m : Ascending(1 .. m)[k] = k
  <1> DEFINE P == 1 .. m
             a == Ascending(P)
  <1>1. P \in SUBSET Int /\ IsFiniteSet(P) /\ Cardinality(P) = m
    BY FS_Interval
  <1>2. IsAscending(a, P)
    BY <1>1, AscendingIs
  <1>3. DOMAIN a = 1 .. m
    BY <1>1, <1>2 DEF IsAscending
  <1>4. ASSUME NEW i \in P PROVE a[i] = i
    <2>1. PICK k \in 1 .. Cardinality(P) : a[k] = i /\ Cardinality({j \in P : j <= i}) = k
      BY <1>1, AscendingRank
    <2>2. {j \in P : j <= i} = 1 .. i /\ i \in Nat
      OBVIOUS
    <2>3. Cardinality(1 .. i) = i
      BY <2>2, FS_Interval
    <2> QED BY <2>1, <2>2, <2>3
  <1> QED BY <1>3, <1>4

LEMMA ExactOfIs ==
  ASSUME NEW s, IsList(s), NEW m, Lead(s, m)
  PROVE  m \in Nat /\ m <= Len(s) /\ IdsOf(ExactOf(s)) = [k \in 1 .. m |-> s[k].id]
  <1> DEFINE P == {i \in DOMAIN s : Exact(s[i])}
             e == ExactOf(s)
  <1>1. DOMAIN s = 1 .. Len(s) /\ Len(s) \in Nat
    BY SeqIs DEF IsList
  <1>2. m \in 0 .. Len(s) /\ \A k \in 1 .. Len(s) : Exact(s[k]) <=> k <= m
    BY DEF Lead
  <1>3. P = 1 .. m
    BY <1>1, <1>2
  <1>4. e = Those(s, 1 .. m)
    BY <1>3 DEF ExactOf
  <1> HIDE DEF e
  <1>5. DOMAIN e = 1 .. m /\ \A k \in 1 .. m : e[k] = s[k]
    BY <1>2, <1>4, FirstAscend DEF Those
  <1>6. IdsOf(e) = [k \in 1 .. m |-> s[k].id]
    BY <1>5 DEF IdsOf
  <1> QED BY <1>1, <1>2, <1>6 DEF e

LEMMA ExactTierAgrees ==
  ASSUME NEW s, IsList(s), NEW t, IsList(t), ExactLead(s), ExactLead(t),
         SameExact(s, t), SameExact(t, s)
  PROVE  IsPrefix(IdsOf(ExactOf(t)), IdsOf(s)) /\ IdsOf(ExactOf(s)) = IdsOf(ExactOf(t))
  <1>1. PICK m : Lead(s, m)
    BY LeadLength
  <1>2. PICK l : Lead(t, l)
    BY LeadLength
  <1>3. m = l
    BY <1>1, <1>2, LeadsAgree
  <1>4. /\ m \in Nat /\ m <= Len(s)
        /\ IdsOf(ExactOf(s)) = [k \in 1 .. m |-> s[k].id]
        /\ IdsOf(ExactOf(t)) = [k \in 1 .. m |-> t[k].id]
    BY <1>1, <1>2, <1>3, ExactOfIs
  <1>5. DOMAIN s = 1 .. Len(s) /\ Len(s) \in Nat /\ s \in Seq(HitRecords)
    BY SeqIs DEF IsList
  <1>6. \A k \in 1 .. m : s[k].id = t[k].id
    <2> TAKE k \in 1 .. m
    <2>1. k \in DOMAIN s /\ Exact(s[k])
      BY <1>1, <1>4, <1>5 DEF Lead
    <2> QED BY <2>1 DEF SameExact, Alike
  <1>7. IdsOf(ExactOf(s)) = IdsOf(ExactOf(t))
    BY <1>4, <1>6
  <1> DEFINE f == [k \in 1 .. m |-> s[k].id]
             g == IdsOf(s)
             n == Len(s)
  <1>8. /\ f \in Seq(Revisions) /\ Len(f) = m
        /\ g \in Seq(Revisions) /\ Len(g) = n
        /\ \A k \in 1 .. m : f[k] = g[k]
    <2>1. \A k \in DOMAIN s : s[k].id \in Revisions
      BY <1>5, HitTyped
    <2>2. g \in [1 .. n -> Revisions] /\ \A k \in DOMAIN s : g[k] = s[k].id
      BY <1>5, <2>1 DEF IdsOf
    <2>3. f \in [1 .. m -> Revisions] /\ \A k \in 1 .. m : f[k] = s[k].id /\ k \in DOMAIN s
      BY <1>4, <1>5, <2>1
    <2> HIDE DEF f, g, n
    <2>4. n \in Nat
      BY <1>5 DEF n
    <2> QED BY <1>4, <2>2, <2>3, <2>4, FunctionIsSeq
  <1> HIDE DEF f, g, n
  <1>9. IsPrefix(f, g)
    <2>1. m <= n /\ n \in Nat
      BY <1>4, <1>5 DEF n
    <2>2. SubSeq(f, 1, m) = SubSeq(g, 1, m)
      BY <1>4, <1>8, <2>1
    <2> QED BY <1>8, <2>1, <2>2 DEF IsPrefix
  <1>10. IdsOf(ExactOf(t)) = f
    BY <1>4, <1>6 DEF f
  <1> QED BY <1>7, <1>9, <1>10 DEF g

-----------------------------------------------------------------------------
(* The invariant of a search.                                              *)

\* A list whose exact hits are those of another, and lead it as they lead that.
Ordered(s, alone) ==
  /\ IsList(s) /\ ExactLead(s)
  /\ SameExact(s, alone) /\ SameExact(alone, s)
  /\ \A i \in DOMAIN s : CitesWords(s[i])

FusedAlone == FusedOrder(LexicalCandidates)
RecentAlone == RecencyOrder(FusedOrder(LexicalCandidates))

SearchInv ==
  /\ IsWorld
  /\ stage \in {"start", "gathered", "projected", "found", "fused", "recent", "ordered", "answered"}
  /\ stage \in {"gathered", "projected", "found"} => Gathered(hits)
  /\ stage = "fused" => Ordered(hits, FusedAlone)
  /\ stage \in {"recent", "ordered", "answered"} => Ordered(hits, RecentAlone)
  /\ stage = "answered" => Retention(hits, answer.hits)

\* What the exact hits are measured against is such a list.
LEMMA AloneIs ==
  ASSUME IsWorld
  PROVE  /\ IsFused(FusedAlone, LexicalCandidates)
         /\ IsList(FusedAlone) /\ ExactLead(FusedAlone)
         /\ IsList(RecentAlone) /\ ExactLead(RecentAlone)
  <1>1. IsList(LexicalCandidates)
    BY LexicalIsList
  <1>2. IsFused(FusedAlone, LexicalCandidates)
    BY <1>1, FusedOrderIs DEF FusedAlone
  <1>3. IsList(FusedAlone) /\ ExactLead(FusedAlone)
    BY <1>2, FusedLead DEF IsFused
  <1>4. IsRecent(RecentAlone, FusedAlone)
    BY <1>3, RecencyIs DEF RecentAlone, FusedAlone
  <1>5. IsList(RecentAlone) /\ ExactLead(RecentAlone)
    BY <1>3, <1>4, RecentKeeps DEF IsRecent
  <1> QED BY <1>2, <1>3, <1>5

LEMMA FuseOrders ==
  ASSUME IsWorld, NEW s, Gathered(s)
  PROVE  Ordered(CitedAll(FusedOrder(s)), FusedAlone)
  <1> DEFINE f == FusedOrder(s)
             c == CitedAll(f)
             a == FusedAlone
  <1>1. /\ IsList(s) /\ Worded(s) = Worded(LexicalCandidates) /\ IsList(LexicalCandidates)
        /\ \A i \in DOMAIN s : Sourced(s[i])
    BY LexicalIsList DEF Gathered
  <1>2. IsFused(f, s) /\ IsFused(a, LexicalCandidates)
    BY <1>1, FusedOrderIs, AloneIs
  <1> HIDE DEF f, a
  <1>3. SameExact(f, a) /\ SameExact(a, f)
    BY <1>1, <1>2, FusedAgree
  <1>4. IsList(f) /\ ExactLead(f) /\ f \in Seq(HitRecords)
    BY <1>2, FusedLead DEF IsFused, IsList
  <1>a. \A i \in DOMAIN f : Sourced(f[i])
    <2> TAKE i \in DOMAIN f
    <2>1. f[i] \in Scored(s)
      BY <1>2 DEF IsFused
    <2>2. PICK j \in DOMAIN s : f[i] = [s[j] EXCEPT !.score = Fused(s, s[j])]
      BY <2>1 DEF Scored
    <2>3. f[i].id = s[j].id /\ f[i].via = s[j].via /\ f[i].span = s[j].span
      BY <1>1, <2>2, ScoredAre
    <2>4. LexicalQualified(f[i]) <=> LexicalQualified(s[j])
      BY <2>3 DEF LexicalQualified
    <2> QED BY <1>1, <2>3, <2>4 DEF Sourced
  <1>5. /\ SameFound(c, f)
        /\ \A i \in DOMAIN f : c[i].score = f[i].score /\ CitesWords(c[i])
    BY <1>4, <1>a, CitedIs
  <1> HIDE DEF c
  <1>6. IsList(c) /\ DOMAIN c = DOMAIN f
    BY <1>4, <1>5, SameFoundIsList DEF SameFound
  <1>7. \A i \in DOMAIN f : Alike(c[i], f[i]) /\ Alike(f[i], c[i]) /\ c[i].score = f[i].score
    BY <1>5 DEF SameFound, Alike
  <1>8. \A i \in DOMAIN f : Exact(c[i]) <=> Exact(f[i])
    BY <1>7, AlikeRanks
  <1>9. ExactLead(c)
    BY <1>4, <1>6, <1>8 DEF ExactLead
  <1>10. SameExact(c, a)
    <2> SUFFICES ASSUME NEW k \in DOMAIN c, Exact(c[k])
                 PROVE  k \in DOMAIN a /\ Alike(c[k], a[k]) /\ c[k].score = a[k].score
      BY DEF SameExact
    <2>1. k \in DOMAIN a /\ Alike(f[k], a[k]) /\ f[k].score = a[k].score
      BY <1>3, <1>6, <1>8 DEF SameExact
    <2> QED BY <1>6, <1>7, <2>1 DEF Alike
  <1>11. SameExact(a, c)
    <2> SUFFICES ASSUME NEW k \in DOMAIN a, Exact(a[k])
                 PROVE  k \in DOMAIN c /\ Alike(a[k], c[k]) /\ a[k].score = c[k].score
      BY DEF SameExact
    <2>1. k \in DOMAIN f /\ Alike(a[k], f[k]) /\ a[k].score = f[k].score
      BY <1>3 DEF SameExact
    <2> QED BY <1>6, <1>7, <2>1 DEF Alike
  <1>12. Ordered(c, a)
    BY <1>5, <1>6, <1>9, <1>10, <1>11 DEF Ordered
  <1> QED BY <1>12 DEF c, f, a

LEMMA RecencyOrders ==
  ASSUME IsWorld, NEW s, Ordered(s, FusedAlone)
  PROVE  Ordered(RecencyOrder(s), RecentAlone)
  <1>1. /\ IsList(s) /\ ExactLead(s)
        /\ SameExact(s, FusedAlone) /\ SameExact(FusedAlone, s)
        /\ \A i \in DOMAIN s : CitesWords(s[i])
        /\ IsList(FusedAlone) /\ ExactLead(FusedAlone)
    BY AloneIs DEF Ordered
  <1>2. RecentAlone = RecencyOrder(FusedAlone)
    BY DEF RecentAlone, FusedAlone
  <1>3. SameExact(RecencyOrder(s), RecentAlone) /\ SameExact(RecentAlone, RecencyOrder(s))
    BY <1>1, <1>2, RecencyAgree
  <1>4. IsRecent(RecencyOrder(s), s)
    BY <1>1, RecencyIs
  <1>5. /\ IsList(RecencyOrder(s)) /\ ExactLead(RecencyOrder(s))
        /\ \A p \in DOMAIN RecencyOrder(s) : CitesWords(RecencyOrder(s)[p])
    BY <1>1, <1>4, RecentKeeps DEF IsRecent
  <1> QED BY <1>3, <1>5 DEF Ordered

LEMMA RerankerKeeps ==
  ASSUME IsWorld, NEW alone, NEW s, Ordered(s, alone), NEW t, IsReranked(t, s)
  PROVE  Ordered(t, alone)
  <1>1. /\ IsList(s) /\ ExactLead(s)
        /\ SameExact(s, alone) /\ SameExact(alone, s)
        /\ \A i \in DOMAIN s : CitesWords(s[i])
    BY DEF Ordered
  <1>2. /\ IsList(t) /\ DOMAIN t = DOMAIN s
        /\ \A p \in DOMAIN s : Exact(t[p]) <=> Exact(s[p])
        /\ \A p \in DOMAIN s : Exact(s[p]) => t[p] = s[p]
        /\ \A p \in DOMAIN s : \E j \in DOMAIN s : t[p] = s[j]
    BY DEF IsReranked
  <1>3. ExactLead(t)
    BY <1>1, <1>2 DEF ExactLead
  <1>4. SameExact(t, alone)
    BY <1>1, <1>2 DEF SameExact
  <1>5. SameExact(alone, t)
    <2> SUFFICES ASSUME NEW k \in DOMAIN alone, Exact(alone[k])
                 PROVE  k \in DOMAIN t /\ Alike(alone[k], t[k]) /\ alone[k].score = t[k].score
      BY DEF SameExact
    <2>1. k \in DOMAIN s /\ Alike(alone[k], s[k]) /\ alone[k].score = s[k].score
      BY <1>1 DEF SameExact
    <2>2. Exact(s[k])
      BY <2>1, AlikeRanks
    <2> QED BY <1>2, <2>1, <2>2
  <1>6. \A i \in DOMAIN t : CitesWords(t[i])
    BY <1>1, <1>2
  <1> QED BY <1>2, <1>3, <1>4, <1>5, <1>6 DEF Ordered

LEMMA OrderedStays ==
  ASSUME Frozen
  PROVE  /\ IsWorld => IsWorld'
         /\ \A s : Gathered(s)' <=> Gathered(s)
         /\ \A s : Ordered(s, FusedAlone)' <=> Ordered(s, FusedAlone)
         /\ IsWorld => \A s : Ordered(s, RecentAlone)' <=> Ordered(s, RecentAlone)
  <1>1. world' = world
    BY DEF Frozen
  <1>2. IsWorld => IsWorld'
    BY <1>1 DEF IsWorld
  <1>3. \A s : Gathered(s)' <=> Gathered(s)
    BY LexicalStays, RanksStay DEF Gathered, Sourced
  <1>4. \A s, a : Ordered(s, a)' <=> Ordered(s, a)
    BY RanksStay DEF Ordered, ExactLead, SameExact
  <1>5. FusedAlone' = FusedAlone
    BY LexicalStays, FusionStays DEF FusedAlone
  <1>6. IsWorld => RecentAlone' = RecentAlone
    <2> SUFFICES ASSUME IsWorld PROVE RecentAlone' = RecentAlone
      OBVIOUS
    <2>1. FusedAlone \in Seq(HitRecords)
      BY AloneIs DEF IsList
    <2>2. RecentAlone' = RecencyOrder(FusedAlone)' /\ RecentAlone = RecencyOrder(FusedAlone)
      BY DEF RecentAlone, FusedAlone
    <2>3. RecencyOrder(FusedAlone)' = RecencyOrder(FusedAlone)
      BY <1>5, <2>1, RecencyStays
    <2> QED BY <2>2, <2>3
  <1>7. \A s : Ordered(s, FusedAlone)' <=> Ordered(s, FusedAlone)
    BY <1>4, <1>5
  <1>8. IsWorld => \A s : Ordered(s, RecentAlone)' <=> Ordered(s, RecentAlone)
    BY <1>4, <1>6
  <1> QED BY <1>2, <1>3, <1>7, <1>8

LEMMA SearchInvInit == Init => SearchInv
  <1> SUFFICES ASSUME Init PROVE SearchInv
    OBVIOUS
  <1>1. world \in Worlds /\ stage = "start"
    BY DEF Init
  <1>2. Worlds \in SUBSET [Revisions -> Rows]
    BY SearchAssumption, Zenon
  <1>3. IsWorld
    BY <1>1, <1>2 DEF IsWorld
  <1> QED BY <1>1, <1>3 DEF SearchInv

\* Every step reorders or extends the hits as the invariant says.
LEMMA SearchInvNext == SearchInv /\ [Next]_vars => SearchInv'
  <1> SUFFICES ASSUME SearchInv, [Next]_vars PROVE SearchInv'
    OBVIOUS
  <1>1. /\ IsWorld
        /\ stage \in {"gathered", "projected", "found"} => Gathered(hits)
        /\ stage = "fused" => Ordered(hits, FusedAlone)
        /\ stage \in {"recent", "ordered", "answered"} => Ordered(hits, RecentAlone)
        /\ stage = "answered" => Retention(hits, answer.hits)
    BY DEF SearchInv
  <1>2. ASSUME NEW from, NEW to, NEW next, Step(from, to, next)
        PROVE  Frozen /\ stage = from /\ stage' = to /\ hits' = next /\ answer' = answer
    BY <1>2 DEF Step, Frozen
  <1>3. ASSUME Frozen,
               stage' \in {"gathered", "projected", "found", "fused", "recent", "ordered", "answered"},
               stage' \in {"gathered", "projected", "found"} => Gathered(hits'),
               stage' = "fused" => Ordered(hits', FusedAlone),
               stage' \in {"recent", "ordered", "answered"} => Ordered(hits', RecentAlone),
               stage' = "answered" => Retention(hits', answer'.hits)
        PROVE  SearchInv'
    <2>1. IsWorld'
      BY <1>1, <1>3, OrderedStays
    <2>2. stage' \in {"gathered", "projected", "found"} => Gathered(hits)'
      BY <1>3, OrderedStays
    <2>3. stage' = "fused" => Ordered(hits, FusedAlone)'
      BY <1>3, OrderedStays
    <2>4. stage' \in {"recent", "ordered", "answered"} => Ordered(hits, RecentAlone)'
      BY <1>1, <1>3, OrderedStays
    <2>5. stage' = "answered" => Retention(hits, answer.hits)'
      BY <1>3, RetentionStays
    <2> QED BY <1>3, <2>1, <2>2, <2>3, <2>4, <2>5 DEF SearchInv
  <1>4. CASE Gather
    <2>1. /\ Frozen /\ stage' = "gathered" /\ hits' = WithAnchored(LexicalCandidates)
      BY <1>2, <1>4 DEF Gather
    <2>2. Gathered(hits')
      BY <1>1, <2>1, AnchoredGathers
    <2> QED BY <1>3, <2>1, <2>2
  <1>5. CASE Project
    <2>1. Frozen /\ stage = "gathered" /\ stage' = "projected" /\ hits' = WithProjections(hits)
      BY <1>2, <1>5 DEF Project
    <2>2. Gathered(hits')
      BY <1>1, <2>1, ProjectionsGather
    <2> QED BY <1>3, <2>1, <2>2
  <1>6. CASE ProjectFails
    <2>1. Frozen /\ stage = "gathered" /\ stage' = "projected" /\ hits' = hits
      BY <1>2, <1>6 DEF ProjectFails
    <2>2. Gathered(hits')
      BY <1>1, <2>1
    <2> QED BY <1>3, <2>1, <2>2
  <1>7. CASE DenseApplies
    <2>1. PICK applied \in 0 .. Cardinality(DenseFound) :
            Step("projected", "found", WithDense(hits, applied))
      BY <1>7 DEF DenseApplies
    <2>2. Frozen /\ stage = "projected" /\ stage' = "found" /\ hits' = WithDense(hits, applied)
      BY <1>2, <2>1
    <2>3. Gathered(hits')
      BY <1>1, <2>2, DenseGathers
    <2> QED BY <1>3, <2>2, <2>3
  <1>8. CASE Fuse
    <2>1. Frozen /\ stage = "found" /\ stage' = "fused" /\ hits' = CitedAll(FusedOrder(hits))
      BY <1>2, <1>8 DEF Fuse
    <2>2. Ordered(hits', FusedAlone)
      BY <1>1, <2>1, FuseOrders
    <2> QED BY <1>3, <2>1, <2>2
  <1>9. CASE Recency
    <2>1. Frozen /\ stage = "fused" /\ stage' = "recent" /\ hits' = RecencyOrder(hits)
      BY <1>2, <1>9 DEF Recency
    <2>2. Ordered(hits', RecentAlone)
      BY <1>1, <2>1, RecencyOrders
    <2> QED BY <1>3, <2>1, <2>2
  <1>10. CASE RerankerFailsOpen
    <2>1. Frozen /\ stage = "recent" /\ stage' = "ordered" /\ hits' = hits
      BY <1>2, <1>10 DEF RerankerFailsOpen
    <2>2. Ordered(hits', RecentAlone)
      BY <1>1, <2>1
    <2> QED BY <1>3, <2>1, <2>2
  <1>11. CASE RerankerOrders
    <2>1. PICK order \in SetToSeqs(Slate(hits)) : Step("recent", "ordered", Reranked(hits, order))
      BY <1>11 DEF RerankerOrders
    <2>2. Frozen /\ stage = "recent" /\ stage' = "ordered" /\ hits' = Reranked(hits, order)
      BY <1>2, <2>1
    <2>3. IsList(hits)
      BY <1>1, <2>2 DEF Ordered
    <2>4. IsReranked(Reranked(hits, order), hits)
      BY <1>1, <2>1, <2>3, RerankedIs
    <2>5. Ordered(hits', RecentAlone)
      BY <1>1, <2>2, <2>4, RerankerKeeps
    <2> QED BY <1>3, <2>2, <2>5
  <1>12. CASE Answer
    <2>1. Frozen /\ stage = "ordered" /\ stage' = "answered" /\ hits' = hits /\ answer' = AnswerOf(hits)
      BY <1>12 DEF Answer, Frozen
    <2>2. hits \in Seq(HitRecords) /\ Ordered(hits', RecentAlone)
      BY <1>1, <2>1 DEF Ordered, IsList
    <2>3. Retention(hits', answer'.hits)
      BY <2>1, <2>2, AnswerRetains
    <2> QED BY <1>3, <2>1, <2>2, <2>3
  <1>13. CASE UNCHANGED vars
    <2>1. Frozen /\ stage' = stage /\ hits' = hits /\ answer' = answer
      BY <1>13 DEF vars, Frozen
    <2>2. CASE stage = "start"
      <3>1. IsWorld' /\ stage' = "start"
        BY <1>1, <2>1, <2>2, OrderedStays
      <3> QED BY <3>1 DEF SearchInv
    <2>3. CASE stage # "start"
      <3>1. stage' \in {"gathered", "projected", "found", "fused", "recent", "ordered", "answered"}
        BY <2>1, <2>3 DEF SearchInv
      <3> QED BY <1>1, <1>3, <2>1, <3>1
    <2> QED BY <2>2, <2>3
  <1> QED BY <1>4, <1>5, <1>6, <1>7, <1>8, <1>9, <1>10, <1>11, <1>12, <1>13 DEF Next

\* The invariant of a search holds.
THEOREM SearchInvHolds == Spec => []SearchInv
  BY SearchInvInit, SearchInvNext, PTL DEF Spec

\* The exact tier does not depend on the optional channels, the models or the
\* reranker: whatever they find or answer, the exact hits lead the list in the
\* order that the lexical channel and recency alone give them.
THEOREM ExactTierIsModelIndependent == Spec => []ExactTierModelIndependent
  <1>1. SearchInv => ExactTierModelIndependent
    <2> SUFFICES ASSUME SearchInv, stage = "ordered"
                 PROVE  /\ IsPrefix(IdsOf(ExactOf(RecentAlone)), IdsOf(hits))
                        /\ IdsOf(ExactOf(hits)) = IdsOf(ExactOf(RecentAlone))
      BY Zenon DEF ExactTierModelIndependent, RecentAlone
    <2>1. IsWorld /\ Ordered(hits, RecentAlone)
      BY DEF SearchInv
    <2>2. IsList(RecentAlone) /\ ExactLead(RecentAlone)
      BY <2>1, AloneIs
    <2> QED BY <2>1, <2>2, ExactTierAgrees DEF Ordered
  <1> QED BY <1>1, SearchInvHolds, PTL

\* For any store and any channels: a qualified artifact cites the chunk with the
\* query's words wherever some chunk holds any, and elsewhere what a channel that
\* found it gave, never a derived text where its own words qualify.
THEOREM QualifiedHitsCiteWords == Spec => []QualifiedCitesWords
  <1>1. SearchInv => QualifiedCitesWords
    <2> SUFFICES ASSUME SearchInv, stage \in {"fused", "recent", "ordered", "answered"}
                 PROVE  \A i \in DOMAIN hits : CitesWords(hits[i])
      BY DEF QualifiedCitesWords, CitesWords
    <2> QED BY DEF SearchInv, Ordered
  <1> QED BY <1>1, SearchInvHolds, PTL

\* The limit cuts off no conflict for the sake of a hit that is neither exact
\* nor conflicted.
THEOREM ConflictsAreRetained == Spec => []ConflictsRetained
  <1>1. SearchInv => ConflictsRetained
    BY DEF SearchInv, Retention, ConflictsRetained
  <1> QED BY <1>1, SearchInvHolds, PTL

\* Recency and the reranker reorder hits within their tiers, and recency moves
\* none up by more than two.
THEOREM OrdersKeepTiers == Spec => OrderKeepsTiers
  <1> DEFINE Kept ==
        (stage \in {"fused", "recent"} /\ stage' # stage) =>
          /\ Len(hits') = Len(hits) /\ Ids(hits') = Ids(hits)
          /\ \A i \in DOMAIN hits :
               /\ Exact(hits'[i]) <=> Exact(hits[i])
               /\ Qualified(hits'[i]) <=> Qualified(hits[i])
               /\ stage = "fused" =>
                    \E j \in i - Len(hits) .. i + RECENCY_MAX_PROMOTION :
                      j \in DOMAIN hits /\ hits[j].id = hits'[i].id
  <1>1. ASSUME SearchInv, [Next]_vars PROVE Kept
    <2> SUFFICES ASSUME stage \in {"fused", "recent"}, stage' # stage PROVE Kept
      OBVIOUS
    <2>1. IsWorld /\ IsList(hits)
      BY <1>1 DEF SearchInv, Ordered
    <2>2. Next
      BY <1>1 DEF vars
    <2>3. \/ stage = "fused" /\ hits' = RecencyOrder(hits)
          \/ stage = "recent" /\ hits' = hits
          \/ stage = "recent" /\ \E order \in SetToSeqs(Slate(hits)) : hits' = Reranked(hits, order)
      BY <2>2 DEF Next, Gather, Project, ProjectFails, DenseApplies, Fuse, Recency,
                  RerankerFailsOpen, RerankerOrders, Answer, Step
    <2>4. DOMAIN hits = 1 .. Len(hits) /\ Len(hits) \in Nat
      BY <2>1, SeqIs DEF IsList
    <2> DEFINE s == hits
               t == hits'
               same(i) == (Exact(t[i]) <=> Exact(s[i])) /\ (Qualified(t[i]) <=> Qualified(s[i]))
    <2>6. CASE stage = "fused" /\ hits' = RecencyOrder(hits)
      <3>1. IsRecent(t, s)
        BY <2>1, <2>6, RecencyIs
      <3>2. Len(t) = Len(s) /\ Ids(t) = Ids(s) /\ \A i \in DOMAIN s : same(i)
        BY <2>1, <3>1, RecentKeeps DEF IsRecent
      <3>3. ASSUME NEW i \in DOMAIN s
            PROVE  \E j \in i - Len(s) .. i + RECENCY_MAX_PROMOTION :
                     j \in DOMAIN s /\ s[j].id = t[i].id
        <4>1. PICK j \in DOMAIN s : j <= i + 2 /\ SameHit(t[i], s[j])
          BY <3>1 DEF IsRecent
        <4>2. j \in i - Len(s) .. i + RECENCY_MAX_PROMOTION
          BY <2>4, <4>1 DEF RECENCY_MAX_PROMOTION
        <4> QED BY <4>1, <4>2 DEF SameHit
      <3> QED BY <3>2, <3>3
    <2>7. CASE stage = "recent" /\ hits' = hits
      BY <2>7
    <2>8. CASE stage = "recent" /\ \E order \in SetToSeqs(Slate(hits)) : hits' = Reranked(hits, order)
      <3>1. IsReranked(t, s)
        BY <2>1, <2>8, RerankedIs
      <3>2. Len(t) = Len(s) /\ DOMAIN t = DOMAIN s /\ \A i \in DOMAIN s : same(i)
        BY <3>1 DEF IsReranked
      <3>3. Ids(t) = Ids(s)
        <4>1. \A p \in DOMAIN t : t[p].id \in Ids(s)
          BY <3>1, <3>2 DEF IsReranked, Ids
        <4>2. \A j \in DOMAIN s : s[j].id \in Ids(t)
          BY <3>1, <3>2 DEF IsReranked, Ids
        <4> QED BY <4>1, <4>2, Zenon DEF Ids
      <3> QED BY <2>8, <3>2, <3>3
    <2> QED BY <2>3, <2>6, <2>7, <2>8
  <1>2. SearchInv /\ [Next]_vars => [Kept]_vars
    BY <1>1
  <1> QED BY <1>2, SearchInvHolds, PTL DEF Spec, OrderKeepsTiers
=============================================================================
