------------------------------ MODULE Metrics -------------------------------
(***************************************************************************)
(* The metrics store of a project, src/src/metrics.rs: commands that run   *)
(* beside each other and share one SQLite file, whose statements commit    *)
(* one by one (nothing here opens a transaction) and wait for no lock.     *)
(* Events may be trimmed; a study, which is an experiment, its pairs and   *)
(* the observations of their arms, may not.  `metrics clear` unlinks the   *)
(* file, also when another command has it open.                            *)
(*                                                                         *)
(* Abstractions: the size of a file is its number of rows; an event is the *)
(* minute it was written; the values of an observation are left out; a row *)
(* of a study is never updated, so a lookup of one and the statement after *)
(* it are one step; the journal that clear also removes is not modelled,   *)
(* nor that trimming gives up, as Check then does, after 64 rounds.        *)
(***************************************************************************)
EXTENDS Integers, FiniteSets, Sequences

CONSTANTS
  Processes,   \* command-line processes
  Studies,     \* ids of experiments
  Pairs,       \* ids of pairs
  Caps,        \* values of max_database_bytes, in rows
  Retention,   \* retention_days, in minutes of the model
  TrimBatch,   \* events one round of trimming removes
  Generations, \* files the database path names, one after another
  NoFile,
  MaxMinute,   \* bound on the clock (model bound)
  MaxCommands, \* bound on the commands run (model bound)
  Idle

\* The code bounds max_database_bytes, so there is a largest cap.
ASSUME MetricsAssumption ==
  /\ Caps \subseteq Nat \ {0} /\ \E cap \in Caps : \A c \in Caps : c <= cap
  /\ IsFiniteSet(Processes) /\ Processes # {}
  /\ Retention \in Nat /\ TrimBatch \in Nat \ {0}
  /\ NoFile \notin Generations

Arms == {"memory", "baseline"}

LargestCap == CHOOSE cap \in Caps : \A c \in Caps : c <= cap

PairRows == [id : Pairs, study : Studies, first : Arms]

Databases == [events : Seq(Int), studies : SUBSET Studies, pairs : SUBSET PairRows,
              observed : SUBSET (Pairs \X Arms)]

ProcessRows ==
  [kind : {"event", "begin", "pair", "record", "report", "clear"},
   on : Studies \cup Pairs \cup {NoFile}, arm : Arms \cup {NoFile}, cap : Caps,
   file : Generations \cup {NoFile}, opening : BOOLEAN,
   phase : {"open", "prune", "trim", "check", "run", "insert", "answer"}]

ASSUME MetricsIdle == Idle \notin ProcessRows

VARIABLES
  minute,   \* now_minute
  settings, \* the local settings of the project: enabled, and the cap
  current,  \* the file at the database path
  files,    \* every file that was there: its events and its study
  running,  \* what each process does
  ran       \* number of commands started

metricsVars == <<minute, settings, current, files, running, ran>>

EmptyFile == [events |-> <<>>, studies |-> {}, pairs |-> {}, observed |-> {}]

\* The rows of a study, which nothing but clear removes.
StudyRows(db) ==
  Cardinality(db.studies) + Cardinality(db.pairs) + Cardinality(db.observed)

Rows(db) == Len(db.events) + StudyRows(db)

Known == {p.id : p \in UNION {files[f].pairs : f \in Generations}}

KnownStudies == UNION {files[f].studies : f \in Generations}

-----------------------------------------------------------------------------
(* Commands.                                                               *)

\* MetricsStore::discover reads the settings once.  "report" stands for every
\* command that only reads, which opens the store as the others do; neither it
\* nor clear asks whether metrics are enabled.
Start(w, kind, on, arm) ==
  /\ running[w] = Idle /\ ran < MaxCommands
  /\ kind \in {"event", "begin", "pair", "record"} => settings.enabled
  /\ running' = [running EXCEPT ![w] =
       [kind |-> kind, on |-> on, arm |-> arm, cap |-> settings.cap,
        file |-> NoFile, phase |-> "open", opening |-> TRUE]]
  /\ ran' = ran + 1
  /\ UNCHANGED <<minute, settings, current, files>>

\* metrics configure: the settings change under their lock, and the store is
\* opened with them when they enable it.
Configure(w, enabled, cap) ==
  /\ running[w] = Idle /\ ran < MaxCommands
  /\ settings # [enabled |-> enabled, cap |-> cap]
  /\ settings' = [enabled |-> enabled, cap |-> cap]
  /\ running' = IF enabled
                THEN [running EXCEPT ![w] =
                       [kind |-> "report", on |-> NoFile, arm |-> NoFile, cap |-> cap,
                        file |-> NoFile, phase |-> "open", opening |-> TRUE]]
                ELSE running
  /\ ran' = ran + 1
  /\ UNCHANGED <<minute, current, files>>

At(w, phase) == running[w] # Idle /\ running[w].phase = phase

Goes(w, phase) == running' = [running EXCEPT ![w].phase = phase]

Ends(w) == running' = [running EXCEPT ![w] = Idle]

\* Faulty variant: the limits are enforced after a write only.
OpenUnchecked(w, file) ==
  running' = [running EXCEPT ![w].file = file, ![w].phase = "run"]

\* What follows the opening: enforce_limits.
Opened(w, file) ==
  running' = [running EXCEPT ![w].file = file, ![w].phase = "prune"]

HeldOpen(file) == \E w \in Processes : running[w] # Idle /\ running[w].file = file

\* open_database creates the file that is not there.
OpenDatabase(w) ==
  /\ At(w, "open") /\ running[w].kind # "clear"
  /\ IF current # NoFile
     THEN Opened(w, current) /\ UNCHANGED <<current, files>>
     ELSE \E file \in {f \in Generations : files[f] = EmptyFile /\ ~HeldOpen(f)} :
            /\ current' = file /\ UNCHANGED files
            /\ Opened(w, file)
  /\ UNCHANGED <<minute, settings, ran>>

\* The events older than the retention: a file has its events in the order of
\* their minutes, so these are the first ones.
Aged(events) == {i \in DOMAIN events : events[i] < minute - Retention}

\* enforce_limits: events older than the retention go.
Prune(w) ==
  /\ At(w, "prune")
  /\ files' = [files EXCEPT ![running[w].file].events =
                 SubSeq(@, 1 + Cardinality(Aged(@)), Len(@))]
  /\ Goes(w, "trim")
  /\ UNCHANGED <<minute, settings, current, ran>>

\* Faulty variant: a round that finds no event takes an observation.
TrimmedToSize(db) ==
  IF db.events = <<>> /\ db.observed # {}
  THEN [db EXCEPT !.observed = @ \ {CHOOSE o \in @ : TRUE}]
  ELSE [db EXCEPT !.events = SubSeq(@, 1 + TrimBatch, Len(@))]

\* One round of trimming: the oldest events go.
Trimmed(db) == [db EXCEPT !.events = SubSeq(@, 1 + TrimBatch, Len(@))]

\* enforce_limits: rounds of trimming while the file is over the cap this
\* command read and a round removes something.
Trim(w) ==
  LET file == running[w].file
      over == Rows(files[file]) > running[w].cap
  IN /\ At(w, "trim")
     /\ files' = IF over THEN [files EXCEPT ![file] = Trimmed(@)] ELSE files
     /\ IF over /\ files' # files THEN UNCHANGED running ELSE Goes(w, "check")
     /\ UNCHANGED <<minute, settings, current, ran>>

\* enforce_limits fails when trimming was not enough: at the opening before the
\* command has written, and at its end after its row is stored.
Check(w) ==
  /\ At(w, "check")
  /\ IF Rows(files[running[w].file]) > running[w].cap THEN Ends(w)
     ELSE Goes(w, IF running[w].opening THEN "run" ELSE "answer")
  /\ UNCHANGED <<minute, settings, current, files, ran>>

\* A statement that wrote, after which the limits are enforced again.
Wrote(w, db) ==
  /\ files' = [files EXCEPT ![running[w].file] = db]
  /\ running' = [running EXCEPT ![w].phase = "prune", ![w].opening = FALSE]

\* record_event, after its operation ended.
WriteEvent(w, db) == Wrote(w, [db EXCEPT !.events = Append(@, minute)])

\* begin_experiment and create_pair make their ids up; the second looks its
\* experiment up first.
BeginExperiment(w, db) ==
  \E study \in Studies \ KnownStudies : Wrote(w, [db EXCEPT !.studies = @ \cup {study}])

CreatePair(w, db) ==
  IF running[w].on \in db.studies
  THEN \E id \in Pairs \ Known, first \in Arms :
         Wrote(w, [db EXCEPT !.pairs =
                     @ \cup {[id |-> id, study |-> running[w].on, first |-> first]}])
  ELSE Ends(w) /\ UNCHANGED files

\* record_observation looks the pair up, and asks for the first arm before the
\* second in a statement of its own.
LookUpPair(w, db) ==
  LET found == {p \in db.pairs : p.id = running[w].on}
  IN /\ \/ /\ \E p \in found : \/ running[w].arm = p.first
                               \/ <<p.id, p.first>> \in db.observed
           /\ Goes(w, "insert")
        \/ /\ \A p \in found : running[w].arm # p.first /\ <<p.id, p.first>> \notin db.observed
           /\ Ends(w)
     /\ UNCHANGED files

Run(w) ==
  LET db == files[running[w].file]
  IN /\ At(w, "run")
     /\ \/ running[w].kind = "event" /\ WriteEvent(w, db)
        \/ running[w].kind = "begin" /\ BeginExperiment(w, db)
        \/ running[w].kind = "pair" /\ CreatePair(w, db)
        \/ running[w].kind = "record" /\ LookUpPair(w, db)
        \/ running[w].kind = "report" /\ Ends(w) /\ UNCHANGED files
     /\ UNCHANGED <<minute, settings, current, ran>>

\* INSERT OR IGNORE: an arm is recorded once.
InsertObservation(w) ==
  LET row == <<running[w].on, running[w].arm>>
      db == files[running[w].file]
  IN /\ At(w, "insert")
     /\ IF row \in db.observed THEN Ends(w) /\ UNCHANGED files
        ELSE Wrote(w, [db EXCEPT !.observed = @ \cup {row}])
     /\ UNCHANGED <<minute, settings, current, ran>>

Answer(w) ==
  /\ At(w, "answer")
  /\ Ends(w)
  /\ UNCHANGED <<minute, settings, current, files, ran>>

\* metrics clear: the file goes, whoever has it open.
Clear(w) ==
  /\ At(w, "open") /\ running[w].kind = "clear"
  /\ current' = NoFile
  /\ Ends(w)
  /\ UNCHANGED <<minute, settings, files, ran>>

\* A statement meets another command's lock and does not wait, or the process
\* is killed: what it committed stays.
Stop(w) ==
  /\ running[w] # Idle
  /\ Ends(w)
  /\ UNCHANGED <<minute, settings, current, files, ran>>

Tick ==
  /\ minute < MaxMinute
  /\ minute' = minute + 1
  /\ UNCHANGED <<settings, current, files, running, ran>>

\* Metrics are enabled, and the store is not there yet or holds a study of a pair.
MetricsInit ==
  /\ minute = 0
  /\ settings \in [enabled : {TRUE}, cap : Caps]
  /\ \/ current = NoFile /\ files = [f \in Generations |-> EmptyFile]
     \/ \E file \in Generations, study \in Studies, id \in Pairs, first \in Arms :
          /\ current = file
          /\ files = [f \in Generations |->
                       IF f # file THEN EmptyFile
                       ELSE [EmptyFile EXCEPT !.studies = {study},
                               !.pairs = {[id |-> id, study |-> study, first |-> first]}]]
  /\ running = [w \in Processes |-> Idle]
  /\ ran = 0

StartSome(w) ==
  \/ \E kind \in {"event", "begin", "report", "clear"} : Start(w, kind, NoFile, NoFile)
  \/ \E study \in KnownStudies : Start(w, "pair", study, NoFile)
  \/ \E pair \in Known, arm \in Arms : Start(w, "record", pair, arm)
  \/ \E enabled \in BOOLEAN, cap \in Caps : Configure(w, enabled, cap)

MetricsNext ==
  \/ Tick
  \/ \E w \in Processes :
       \/ StartSome(w) \/ OpenDatabase(w) \/ Prune(w) \/ Trim(w) \/ Check(w)
       \/ Run(w) \/ InsertObservation(w) \/ Answer(w) \/ Clear(w) \/ Stop(w)

Spec == MetricsInit /\ [][MetricsNext]_metricsVars

-----------------------------------------------------------------------------
(* The invariant from which GrowthStops follows.                           *)

\* A command past its opening has a file, and one that inserts is a record.
MetricsTypeOK ==
  /\ minute \in Int
  /\ settings \in [enabled : BOOLEAN, cap : Caps]
  /\ current \in Generations \cup {NoFile}
  /\ files \in [Generations -> Databases]
  /\ running \in [Processes -> ProcessRows \cup {Idle}]
  /\ \A w \in Processes : running[w] # Idle =>
       /\ running[w].phase # "open" => running[w].file \in Generations
       /\ running[w].phase = "insert" => running[w].kind = "record"
       /\ running[w].kind = "record" => running[w].on \in Pairs /\ running[w].arm \in Arms

StudiesFinite ==
  \A f \in Generations : /\ IsFiniteSet(files[f].studies) /\ IsFiniteSet(files[f].pairs)
                          /\ IsFiniteSet(files[f].observed)

\* The commands that found the file below their cap and may still write a row.
Admitted(f) == {w \in Processes : /\ running[w] # Idle /\ running[w].file = f
                                  /\ running[w].phase \in {"run", "insert"}}

\* An admitted command is a row that may still come.
RoomKept ==
  \A f \in Generations :
    StudyRows(files[f]) + Cardinality(Admitted(f)) <= Cardinality(Processes) + LargestCap

MetricsInv == MetricsTypeOK /\ StudiesFinite /\ RoomKept

-----------------------------------------------------------------------------
(* Properties.                                                             *)

\* A full store stops growing: every row of a study above the cap was written
\* by a command that had the store open before it was full, so there are no
\* more of them than processes ("a full store refuses further growth rather
\* than deleting part of an experiment", docs/metrics.md).
GrowthStops ==
  \A f \in Generations :
    StudyRows(files[f]) <= Cardinality(Processes) + LargestCap

\* No step takes a row of a study out of a file: retention and the cap are about
\* events ("cannot be silently unpaired", docs/metrics.md).
StudiesKept ==
  [][\A f \in Generations : /\ files[f].studies \subseteq files'[f].studies
                            /\ files[f].pairs \subseteq files'[f].pairs
                            /\ files[f].observed \subseteq files'[f].observed]_metricsVars
=============================================================================
