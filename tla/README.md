# Memoree: a verification project

Memoree is a local memory service for coding agents: one daemon per user
(`memoree serve`) owns an SQLite store and a content-addressed blob store, and
agents, people and out-of-process adapters use it through a framed JSON
protocol over a private socket. This directory models the parts of it that keep
state or answer questions about it, checks them with TLC on small instances and
proves the central parts with TLAPS for instances of every size.

Paths below are relative to `src/src/` for code and `src/docs/` for documents.

## The system

| Part | State | Operations | What makes it correct |
|---|---|---|---|
| Ledger (`store.rs`, `service.rs`) | `meta.commit_seq`, `events`, `idempotency` | the tail of every mutation; replay of a key | a repeated call has one effect and one answer; write scope is the caller's project and task |
| Claims, relations, conflicts (`store.rs`) | `claims`, `claim_revisions`, `relations`, `conflict_cases` | `claim.assert/revise/retract`, `relation.put`, `verify` | open cases and stored statuses are at all times what the claims and their contradictions imply |
| Artifacts, sources, projections (`store.rs`) | `artifacts`, `artifact_revisions`, `sources`, `source_items`, `retrieval_projections`, `projection_fts` | put, revise, forget, ingest, withdraw, projection put and drop | one live artifact per upstream id under late, repeated and reordered delivery; derived text belongs to a current revision |
| Chunks and windows (`store.rs`) | `artifact_chunk_fts` | put, migrate, reindex, embed | every byte is in one chunk and a window hit resolves to bytes of one chunk |
| Search (`store.rs`) | none | `search_filtered` | exact hits do not depend on models; conflicts and tiers survive ranking and the cut |
| Service reads (`service.rs`) | none | recall, retrieve, probe, context.build, paged lists, citation.get | an answer made of several reads hides no dispute and cites the bytes it shows |
| Dense model, reranker (`semantic.rs`) | model files, vectors, breaker | install, rebuild, search, order | fails open, recovers, reports readiness truthfully |
| Project index (`project_index.rs`) | a projection of the working tree | index, search, map, watch | incremental equals rebuilt; fresh means current; a complete facet is complete |
| Checkpoints, remember (`checkpoint.rs`, `remember.rs`, `compiler.rs`, `main.rs`) | one staged note per session; the compiler selection | put, promote, drop, remember, configure | a note is stored once, with the consent it needs |
| Metrics (`metrics.rs`) | one SQLite file | event, experiment, report, clear | a full store stops growing and keeps its studies |
| Files (`store.rs`, `cas.rs`) | database, blobs, snapshots, backups | open, migrate, back up | no schema moves on without a recovery snapshot |
| Daemon, upgrade (`main.rs`, `transport.rs`, `upgrade.rs`) | locks, socket, `upgrade-state.json` | start, stop, upgrade | a live listener is never unlinked; what ran before an upgrade runs after it |

Every handler of the store takes one connection mutex and runs one SQLite
`IMMEDIATE` transaction, so it is one step. What is hard is (a) derived state
that handlers maintain row by row, (b) retries after a lost answer, which meet a
store that has moved on, (c) adapters that deliver out of order, (d) calls made
of several locked steps, such as `projection.put`, recall, context.build and the
paged lists, (e) commands in processes of their own that share files with the
daemon and with each other, and (f) crashes anywhere. `PROJECT.json` lists the
hazards at their lines, each with the properties about it.

## Modules

### Claims

`Ledger` is extended by every store module: the commit sequence, the idempotency
table (scoped by the caller's context, as `scoped_idempotency_key` does) and the
write boundary. The key `NoKey` stands for a key that no later call repeats.
Calls that are refused change nothing and are not actions.

`Claims` has the tables (`head`, `status`, `owner`, `relations`, `cases`) and the
four handlers, `relation.put` split by what it finds. The helpers
(`transition_open_conflicts`, `reassess_live_conflicts`,
`open_conflict_assessment`, `recompute_claim_statuses`) are operators over tables,
applied in the handler's order. `Disputes` is the abstract specification: the open
comparisons are a *function* of claims and contradictions. `ClaimsVerify` reads the
tables from outside: it instantiates `Disputes` with a refinement mapping and has the
queries of `Store::verify`. `Migration` states what the migrations
from schema 1 (no cases) and 2 (one case per contradiction) make of the tables, as
operators evaluated in every state `Claims` reaches.

### Artifacts, sources, projections, chunks

`Artifacts` models artifacts and immutable revisions; `Sources` extends it with
sources and items, so that agents and adapters interleave on the same artifacts;
`Projections` extends it with projection rows, their index and connection tasks
(`Workers`) that hold what `projection.put` read before its transaction.
`Memory` composes the three on one store and one ledger, and
`MCMemory` instantiates it.

`Utf8` has byte offsets into text of one-byte and three-byte characters. `Chunks`
cuts a revision as `artifact_chunk_spans` and `semantic_window_spans` do, with
their writers and with the resolution of a window hit. The sizes 2048, 4096, 256
and 384, 324, 64 of the code are constants, scaled to 4, 9, 2 and 6, 4, 2.

### Search and reads

`Search` is `search_filtered` step by step: lexical and trigram candidates,
qualification, anchors, projections, dense candidates, fusion, citation, recency,
the reranker's permutation, anchored leads, conflicts and the cut. How a row
scores in each channel is a record of the input; a reranker returns any order. The
words that qualify an artifact need not be in one of its chunks: a phrase may go
across the end of a chunk and misspelt words may be spread over several. Then
`select_artifact_citation_spans` leaves the span as it was (`store.rs:8853`), be it that
of a dense window, and so do `HasWordChunk` and `Cited`. The code's `semantic_qualified`
is never set, so that the early `continue` it guards (`store.rs:8828`) is not modelled.

`ScopedReads` adds to `Claims` what readers see: the context of a relation (of the
contradicts and supersedes edges, the kinds that readers show) and the order of cases, and `Mutate`, the mutations of other callers. `Recall` is recall
and context.build as sequences of locked reads. `Pages` has the four paged lists
(relations, conflict cases, claim history, feedback) and feedback's writer.
`Excerpts` has the window around a match, its citation and `citation.get`.
`Probe` has the two searches of a probe, the selection of leads, their sources
and the packet of memory.retrieve; a candidate claim has evidence, as claims without
any have no source to group them by and are left out, and its property is about the
selection: what is fetched and answered afterwards is modelled and no property reads it. `Bundle` has the rendering of context.build
within its budget. `MCService` runs them, one kind per behaviour.

### Models

`Semantic`: installing, rebuilding and searching the dense projection, by commands
without the data lock beside a daemon. A rebuild reads the rows there are, plans, and
commits later; `overtaken` is a history variable, that another command committed
in between, after which counter and rows may disagree. `Reranker`: the cross-encoder and its
circuit breaker; latencies are their comparison with the budget. `streak` is a
history variable, the answers in time since the last late one.

### Project index

`ProjectIndex`: a working tree that is edited, committed and ignored while a
command or the watcher builds the projection under the index lock and a search
opens it without. A content says which names it defines and calls. `db.settled`,
`db.whole` and `db.read` are history: the tree did not change between the
snapshot and the reads, and no reader invalidated the projection under a builder.
A file leaves the index of Git only with its removal: the snapshot hashes the paths
and bytes of `git diff --name-only HEAD` (`project_index.rs:2536`), which a
`git rm --cached` of a modified file that stays on disk does not change, and that
case is outside the model. `FreshIsCurrent` is about projects that commit their
ignore file (`IgnoreTracked`), whose rules the snapshot sees.
`ProjectMap`: the relations and facets of one lead over any call graph, with
pruning, caps, hops through test helpers and files edited on the way. A query that
names no intent ("mixed") requests the behavioral-test leads, but only one that names
tests has its callers traversed (`project_index.rs:2029`), and nothing marks the facet
incomplete. `FacetsComplete` has that case as its one exception; `CompleteMeansAll`,
which the documents promise, has none and is violated.

### Capturing notes

`Remember`: checkpoints, remember and promote as sequences of keyed mutations, with
commands that end anywhere and are run again and a compiler that answers
differently each time. A compilation is a set of passages, each with its statement
and the terms it anchors; two of one set may word the same passage, and the second
meets the key of the first. `Compiler`: discovery of the two providers, the recorded
selection and its writers, which take no lock.

### Metrics

`Metrics`: commands that share one SQLite file, in which every statement commits by
itself and no statement waits; `metrics clear` unlinks the file also when it is
open elsewhere, so `files` has several generations. A trim goes on until the file fits or
has no events; that the code gives up after 64 rounds, with an error, is left out.

### Processes and files

`Daemons` models the processes of one Unix endpoint step by step, with the data
lock of each data directory, the endpoint lock and the socket path. A process may
die between any two steps. `Upgrade` extends it with `upgrade apply` and its state
file, commands (autostart, `daemon stop`, `daemon restart`), supervisors, which may
serve another data directory on the same endpoint, and the replacement of the
program. `owed` is a history variable: an upgrade stopped a running daemon and none
has served since. A failed verification counts as an interruption.

`StoreFiles` models one data directory and everything that opens it: `Store::open`
statement by statement under the migration lock, the mutations of the daemon (blob
first, then the commit), `backup_create`, processes that end between any two steps
and blobs that are lost or corrupted. A recovery snapshot is three steps: the SQLite
copy, the check of what the source refers to, and the copy of the objects there are;
what is verified afterwards is only what was copied. `backup_create` verifies the staged
store as a whole, after its copy. `origin`, `damaged` and the field `lost` of a copy
(objects lost between its check and its copying) are history.

`ClaimsProofs`, `MemoryProofs`, `StoreFilesProofs`, `UpgradeProofs`, `ModelProofs`,
`LocalProofs` and `ReadsProofs` hold the theorems, `ListLemmas` the lemmas about numbers,
lists and folds that the last proofs share. `MC...` modules give inputs,
symmetry and a `focus`: components that share no state are run in one configuration,
one per behaviour, so that their states are added and not multiplied.
`MCRetrieval` runs `Search`, `Semantic`, `Reranker` and `Chunks` this way, `MCCommands` runs
`Compiler`, `Remember` and `Metrics`, `MCIndex` both modules of the project index.

## Runs

| Run | What it shows |
|---|---|
| `claims` | the tables pass every query of verify, no history blocks a revision, a repeated key is answered, the migrations would reconstruct the same disputes, and `Claims` implements `Disputes` |
| `memory` | one live artifact per upstream id; what verify can say against items is only that an agent forgot the artifact of a live one; answers name the commit of the revision asked for; the projection index follows the rows, and no text reaches a superseded revision |
| `retrieval` | exact hits and their order do not depend on the optional channels, no reordering crosses tiers, a conflict that qualified is not cut, a qualified artifact cites a chunk with the query's words wherever there is one; rebuilds that race leave rows and counter apart, and the next one that is not overtaken mends them; the breaker closes only after enough probes in a row and recovers on a healthy host; chunks partition and windows cover every small text |
| `index` | incremental updates equal a rebuild, a fresh projection is current, the watcher gets to a confirmed change past locks and failures, a facet called complete shows every relation |
| `commands` | one claim per passage under retry; what a command reports is stored; a flagged note becomes memory only with consent; a catalog that cannot be read changes no choice; a full metrics store stops growing, whatever caps its writers have read, and never loses a row of a study |
| `service` | neither recall nor context.build hides a side of a dispute that was open throughout; a paged reading misses nothing that stayed; cited bytes are the bytes shown; raw passages keep their share of leads; a bundle accounts for every hit and cuts no claim |
| `upgrade` | no live listener is unlinked, no store is migrated under its daemon, and what an upgrade stopped serves again |
| `store_files` | what was migrated has a snapshot of all its rows, which lacks only objects lost while it was made; a store that is open is complete wherever earlier openers were interrupted; backups are current |
| `sources_forget` | *violated*: `artifact.forget` leaves a live item over a forgotten artifact, which `verify` refuses (`store.rs:2605`) |
| `excerpts_window` | *violated*: the window around a match slices inside a character and panics (`service.rs:2422`) |
| `index_mixed` | *violated*: a mixed query reports its behavioral-test leads complete, with none, and never looks for them (`project_index.rs:2029`) |
| `store_files_lost` | *violated*: an object lost between the check of the source and its copy is missing in the published recovery snapshot (`store.rs:5181`) |

Bounds. `claims`: seven commits are enough for three assertions, two contradictions
and two mutations that disturb both; three claims are the fewest with one in two
disputes, and three revisions let a case go stale twice; with three callers and a
key, four commits. `memory`: two upstream ids, external revisions and artifacts
are the fewest for "old revision after new" and for items meeting one artifact; two
workers race. `retrieval`: five rows of every kind that matters, a slate of three and
an answer of two, so that every cut cuts; two commands, one set
of model files and four starts, so that two rebuilds race, one of them installs first and
another follows; two revisions, thresholds of 3, 3 and 2; texts of up to nine
characters, so that two chunks and three windows occur. `index`: two files, two
edits, one failure of Git; six symbols, two of them tests, and caps of one, two,
three and five, below what the graphs hold. `commands`: two commands of each kind,
two attempts, two puts, one change of accounts, one failed probe, and compilations
that agree on a passage, reword it, or word it twice; two processes, four commands
and a metrics store of one or two rows. `service`: two claims of two revisions, five
commits, pages of one and two rows, texts of four characters, five candidates for
three leads, budgets between "nothing fits" and "all fits". `upgrade`: two daemon
processes, two data directories, one command, two versions, one interruption.
`store_files`: two openers, two tasks, one blob, which is enough as blobs never
meet but in the sets of rows and copies, one destination, and no counter.
Where a bound stops the system deadlock is not checked; `upgrade` and `store_files`
are checked for deadlock, since an upgrade can always be repeated and a store
opened again.

Fairness. Nothing is assumed of the store: no caller has to call. `upgrade`: the
operating system schedules each daemon process and a running `upgrade apply`
(`DaemonSteps(p)`, `UpgradeStep`), and an interrupted upgrade is repeated, as the
README of the repository asks (`UpgradeBegin(FALSE)`). `retrieval`: searches keep coming
(`OrderSkipped`, `OrderInTime`); nothing makes the host fast. `index`: the watcher's
loop goes on, and a command that holds the lock ends its steps; editors, Git,
readers and new commands are not forced.

## Proofs

`ClaimsProofs`, for any claims, contexts, keys and bounds. One inductive invariant,
`IndInv`: that cases match heads, that no live contradiction is without a case and
that statuses match cases are not inductive alone, since a handler that closes the
cases of one claim relies on each case naming current revisions, on it being the
only open one of its contradiction (`CasesDistinct`), and on its contradiction being
between claims that exist (`EdgesGrounded`, `CasesGrounded`). Lemmas about the table
operators, one lemma per handler, a theorem per property. From it: verify accepts
every reachable store (`VerifyAlwaysAccepts`), no revision is blocked, history is
append-only, terminal claims stay terminal and answers stay reachable. In the other
direction `VerifyIsEnough`: whatever wrote the tables, what verify accepts shows
every live dispute at its current revisions.

`TablesImplementDisputes`: every step of the handlers is a step of `Disputes` or
stutters, under the mapping of `ClaimsVerify`. It rests on `IndInv`, from which the
open cases are a function of heads and contradictions; each handler is shown to be
the abstract action of its name. `MigrationsReconstruct`: the migrations read
commits, so `MigrationInv` adds what they rely on. Each revision up to the head has
one commit and they follow each other (`RevisionsWritten`), a case compares the
revisions that were current at the commit that opened it (`OpenedCurrent`), and no two
edges have the same ends and kind (`EdgesDistinct`). Hence the revision `RevisionAt`
finds for a contradiction is that of its first case, a comparison frozen by either
schema is kept, and the second `INSERT` adds the open comparison exactly where a
revision replaced the frozen one; none of them meets a unique key. Assumptions: `NoKey` is not a key,
`NoTask` not a task, `NoContext` not a context, the bounds are numbers.

`MemoryProofs`, for any artifacts, sources, external ids, adapters and connection
tasks. `MemoryInv` is about the three components at once, since an agent may revise
or forget the artifact of an item and a projection task may hold a revision that an
adapter replaces. `ItemsGrounded`: the artifact of a delivered item holds the revision
that was delivered for it; `ItemsDistinct`: no two items meet in an artifact;
`DeliveriesOwned`: a delivered revision of an active artifact belongs to the live item
of its provenance, which is what makes a late or repeated delivery find its artifact.
`ProjectionsIndexed`: the hand-written index has
the active rows of current revisions, each under its key once. All steps share one
frame, that artifacts only grow. `PutsStayCurrent` is the action property that a
projection is written for the revision that is current in the same transaction.
Assumptions: the null rows of sources, items, owners and tasks are no rows.

Metrics (`LocalProofs`), for any processes, files and caps. Statements commit one by one, so a
command may write after another raised the study rows above its cap. `MetricsInv`
counts for each file the commands that have been admitted and have not written yet:
study rows and admitted writers together stay below the largest cap and one row per
process, also when the file was unlinked in between. Assumptions: the caps have a
largest one, processes are finitely many and there is one, a trim takes a row.

Remember, Compiler and Reranker (`ModelProofs`), for any commands, notes, compilations
and interruptions.
`RememberInv`: a key is recorded once, what is recorded is stored, a claim was
recorded under the operation that made its artifact (`ClaimsKeyed`), and a running
command has the artifact and claims of all it is past (`CommandsOK`). A claim's key
has its passage, so one passage is one claim; a second wording meets a key with
another payload. A finished command's report is then in the store, and a flagged note
has an artifact only where its command had consent.
`CompilerInv`: a command that will write the selection holds a choice its own
complete discovery offered. Assumptions: a plan has a statement once, as the
compiler's output is validated, and the recommended models are model names.
The reranker, for any thresholds of at least one: `BreakerSound` (counters agree with
the phase) is inductive; with `ProbesInRow`, which ties the count of good probes to
the row of answers in time behind it, the breaker closes only after
`CloseAfterProbes` answers in a row (`ClosingNeedsProbes`).

The project index (`LocalProofs`), for any files, contents, edits and failures. `ProjectIndexInv`: a
builder past its first step holds the lock, what it read is the listing of its
snapshot unless the tree moved (`settled`), and it plans against the rows as they are
unless a reader invalidated them (`whole`). Edges then follow from rows, incremental
or not (`IncrementalIsRebuild`), and a projection whose snapshot is the present one
holds the tracked files as they are (`FreshIsPresent`), for which `UntrackedGone` says
that nothing but a removal leaves the index of Git. Digests are injective in the model.
For any call graph, caps, hops and files that move under a packet: `ProjectMapInv`
says of each step what a complete facet rests on. The traversal keeps the callers of
every visited symbol among the seen ones or the leads (`WalkCovers`), so that at its
end the seen symbols are closed under callers and hold whatever reaches the lead; a
row that is dropped takes the mark of the facet its site belongs to (`SiteFacet`,
`DropShown`), and one row of each site survives the ranking (`RankShown`).
Assumptions: the symbols are finitely many numbers, and the lead is no test.

The dense projection (`LocalProofs`), for any commands that install and rebuild beside
each other and a daemon. `SemanticInv` adds to the types that the plan of a command which
no other has overtaken is about the rows as they are (`PlansHold`): every commit marks the
other plans (`CommitOvertakes`). Such a commit therefore leaves the rows of its documents
and no other, whatever rows and counter it found (`CommitMends`, `RebuildsMend`).

Search (`ModelProofs`), for any rows, query, limits, orders of a reranker, and derived
texts and dense hits that fail or not. That the exact hits of the list are those of words
alone is not inductive. Recency compares scores and what is listed before, so
`SearchInv` compares two lists step by step, the one of the search and the one that the
channels of words alone give: exact hits lead both (`ExactLead`), and what is exact in
one stands at the same place in the other with the same score (`SameExact`). From there:
- before the fusion a list holds each revision once, and every row that words found is
  in it as words found it (`Gathered`), whatever channels were merged after;
- two such lists have the same exact hits, with the same score, since a rank in the
  lexical channel counts only hits of that channel (`ExactScore`), so the fused lists
  begin alike (`FusedAgree`);
- recency inserts hit by hit, and no hit passes one of another rank, so what is inserted
  into the exact lead is the same in both (`LeadsAgree`), later hits leave that lead
  alone (`HeadStays`), and each hit moves up two places at most (`RecencyRuns`);
- the order of a reranker permutes the slate, which has no exact hit, within each tier
  (`RerankedIs`).

A citation is chosen with the fusion and no later step changes a hit (`CitesWords`);
before it, a span is one that a channel which found the hit gave (`Sourced`).
For the limit, the hits that change places are paired from both ends of the list
(`RetainedIs`): if a conflicted hit is left over, every hit of the window that could
have given way has. A stable sort and the filter of a policy keep what they list
(`AnchorsLeadIs`, `PolicyIs`). Sorting takes each element at its rank (`Arranged`): an
order without ties makes that a permutation (`ArrangedIs`), which fused order, positions
and similarity are shown to be. Assumptions: revisions are finitely many numbers, scores
and counts of units are numbers, and a query has a unit.

`UpgradeProofs`, for any number of processes, directories, commands, versions and
interruptions. `DaemonInv`: a process holds a lock exactly between taking and
dropping it, so the owner of the endpoint lock is the only one that may be serving
(`OwnerAlone`) and may unlink the socket, and the holder of a data lock may migrate
the store. `LockInv`: the upgrade holds the data lock in two of its stages.
`MemoryInv`: what is owed at the current version is on record, and an upgrade past
the stop whose daemon serves owes nothing. Assumptions: process numbers, the
upgrader and "nobody" differ, and the absent state file is no record.

`StoreFilesProofs`, for any processes, tasks, objects and destinations. `FileInv`:
every stage between the preflight and the end of `Store::open` belongs to the holder
of the migration lock, so that the version read and the snapshot staged are those of
the database when the next step acts on them, and what such a snapshot lacks was lost
since its check (`StagedReady`); `Secure` strengthens `RecoverySnapshot`
to every process past its snapshot. `WorkInv`: a task inside a mutation or a backup
holds the mutex of a daemon that has the store open, so that no opening process
changes what it works on. Two frame lemmas separate tasks from opening processes.
Assumptions: "nobody" is no process and no task, and an absent destination differs
from a foreign one.

`ReadsProofs`, for any claims, texts, windows, limits and commits between the reads
of one call. Both proofs rest on what a dispute can do while a reader is away: it is
recorded once and ends only with a terminal claim, which stays terminal, so the
disputes open at a later read that were recorded by an earlier one are some of those.
`RecallInv`: while nothing was cut, a dispute that matched is carried with both of
its sides (`SidesCarried`) by slate and window. The collapse of equal texts is a fold
whose kept rows only grow, so an exempt claim stays once it is met.
`PagesInv`: the rows of a list are numbered, a commit adds rows above the newest only,
a row listed on the first page is got already or lies below the cursor, and a
dispute that lasts keeps its row, since a case resolves only when one of its ends is
terminal. A page takes the rows below the cursor newest first, and says that there is
no next one only when it took the last. Assumptions: the limits are numbers.
Excerpts: a character takes one byte or three, so offsets grow with the characters,
a boundary lies within four bytes after any other (`HeadAdvances`, why a fetch moves),
and the boundaries of a slice are those of the text (`SliceOffsets`). `ExcerptsInv`
adds where a citation begins and ends and that the pieces fetched follow each other
within it; a span of evidence that cuts a character is the one case it leaves out.
Bundles: a line of n bytes is quoted with n + 2, so a quotation that is not cut has
the size of the whole one (`QuotedIs`), and an excerpt that is cut is a proper part.
`AtHit` carries budget, count, order and excerpts through the fold over the hits.
Probes: hits of one group are joined, so that groups are counted by their leads
(`GroupsAre`), and the two counts of `order_candidate_leads` together never exceed
the limit, whichever kind is short (`SlotsAre`).
Chunks: `Tiled` says that spans follow each other between characters and within a
limit; it goes from the lines to the blocks, through the fold over lines
(`StructuralBlocksAre`), to the chunks, through the fold over blocks and the cuts of a
block that is too large (`ChunkSpansTiled`). Windows end late enough and start over
far enough (`WindowEndIs`, `NextStartIs`) that each two overlap in a chunk, and the
fold over the chunks joins them (`DocumentsAre`). The recursions over offsets are
shown to be functions by `GoesExists`. `ChunksInv` is that rows and documents are
those a rebuild would make.
Assumptions: the texts are sequences of the model's characters, budgets and limits
are numbers, a fetch limit is at least four bytes, the fixed parts are not empty; a
chunk target below the maximum, which holds a character of any width, a window that
prefers at least two bytes more than its overlap and may take two more than that
(2048 of 4096, and 64, 324 and 384 in the code).

Only model-checked: the liveness properties `RunningAfter`, `BreakerRecovers` and
`ConfirmedIsIndexed`, which rest on fairness and are out of the prover's reach. Where a
proof needed it, the models pick the i-th element of a sorted list by its rank
(`Arranged`, `Descending`, `Ascending`, `Chosen`) and fold with the folds of the community
modules, since a recursion over lists cannot be reasoned about there.

## Where the code and its documents differ

The four violated runs show four of these. The others are behaviours of the models,
found with properties that are no longer run:

- `projection.put` refuses a revision that is no longer current before it looks up
  its key (`store.rs:1644` before 1680), so that a successful put cannot be repeated
  after the artifact changed; `architecture.md:137`.
- `source.ingest` compares with what the item holds now (`store.rs:1186`): an external
  revision delivered again after a newer one, with other bytes, is accepted;
  `protocol.md:190`.
- The upgrade of a newer program ignores what an interrupted one recorded
  (`main.rs:2703`) and completes with the daemon stopped; `architecture.md:27`.
- A process that ends between `CREATE TABLE meta` and the version row
  (`store.rs:892`) leaves a store that no later open accepts; `store.rs:5561`.
- A qualified revision that is not exact moves ahead of exact hits when its artifact
  is anchored (`store.rs:3843`); `store.rs:3836`, `protocol.md:198`.
- A claim labelled disputed comes without its contradiction when the relation was
  recorded in a context the reader does not see (`store.rs:3341`); `quality.md:27`,
  `protocol.md:174`.
- The watcher remembers a tree that moved during the debounce as seen
  (`project_index.rs:2470`) and does not index it until it changes again;
  `project-index.md:80`. The snapshot it starts with counts as indexed, stale or not.
- A complete `callees` or `tests` facet may show fewer sites than the projection
  holds, since rows of one related symbol are merged (`project_index.rs:2064`);
  `project-index.md:30`.
- remember writes the selection it read before compiling over what
  `compiler configure` recorded meanwhile (`compiler.rs:454`); `configuration.md:181`.
- memory.retrieve probes also when presence is `artifacts_only` (`service.rs:1232`);
  `protocol.md:180`.
- The metrics command that reports a full store has stored its row, since the cap is
  enforced after the statement committed (`metrics.rs:1216`); once the store is over
  the cap without events every open fails, `report`, `export` and `doctor` included,
  until it is cleared or the cap raised; `metrics.md:60`.

Smaller observations. A paged reading of conflicts without `include_stale` misses a
case that a revision replaced meanwhile. A rebuild keeps vectors made by other bytes
under the pinned model id and revision (`semantic.rs:1317`). One failed probe makes the other
provider the only one and records it (`compiler.rs:520`). A checkpoint is dropped
after it was read without the lock, so a newer note may go (`checkpoint.rs:186`).
Evidence spans may split a character (`store.rs:10240`) and cannot be fetched then. A
raw passage that overlaps a claim beyond the limit gets no lead (`service.rs:1880`).
`memory_snapshot_commit_seq` is read after the recall it describes
(`service.rs:1428`). A reader drops an incompatible projection without the index
lock (`project_index.rs:2640`). `metrics clear` unlinks a file others write to.

## Not modelled, and why

- Text: tokenisation, scoring, tree-sitter queries, prompt construction, risk
  signals and formatting. Their results are inputs of the models.
- The environment: model inference, provider CLIs, downloads and signatures, the
  installer's rollback. They appear as answers that may fail or differ.
- `transport.rs` framing, connection permits, TCP, and requests that outlive the
  locks of their daemon at shutdown; `memoree semantic` on a second endpoint under an
  older daemon; the file system steps inside one `cas.rs` put, whose racing writers
  write the same bytes.
- Context resolution (a pure function of directories and Git metadata), the
  evaluation harness, argument parsing, the site and packaging: no state that
  another part depends on.
- In modelled parts: `projection.list` pages, report and export of metrics, the scan
  limits and lexical mentions of `project map`, restoring a backup and free space.

The proofs go by induction over the length of a list through a least counterexample
(`WFMin` of `WellFoundedInduction`), since the library's induction theorems take an
operator.
