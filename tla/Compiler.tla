------------------------------ MODULE Compiler ------------------------------
(***************************************************************************)
(* Compiler (src/src/compiler.rs, src/src/remember.rs): which provider and *)
(* model compile a note.  Commands probe the installed command-line tools, *)
(* read and write the one recorded selection without a lock, and run the   *)
(* chosen provider for as long as two minutes in between.                  *)
(*                                                                         *)
(* Abstractions: the three probes of a provider are one step; versions,    *)
(* resolved model ids and the wording of errors are left out.              *)
(***************************************************************************)
EXTENDS Naturals, FiniteSets

CONSTANTS
  CompilerCommands, \* processes
  Codex, Claude,    \* the providers
  ModelNames,
  Recommended,      \* [Providers -> ModelNames]
  Floating,         \* names that are no durable choice
  Unselected,       \* no selection file
  MaxAccountChanges, \* bound on logins and catalog changes
  MaxProbeFailures   \* bound on probes that fail

ASSUME CompilerAssumption ==
  Recommended \in [{Codex, Claude} -> ModelNames] /\ Floating \subseteq ModelNames

VARIABLES
  account,   \* [Providers -> account of the tool]
  catalog,   \* [Providers -> models its tool reports]
  changed,   \* changes of accounts and catalogs, for the bound
  misses,    \* failed probes, for the bound
  selection, \* compiler-selection.json
  run        \* [CompilerCommands -> the command's progress]

compilerVars == <<account, catalog, changed, misses, selection, run>>

Providers == {Codex, Claude}

Accounts == {"missing", "logged_out", "api_key", "subscribed"}

Unseen == [state |-> "unseen", models |-> {}]

NoRun == [kind |-> "none", at |-> "idle", seen |-> [v \in Providers |-> Unseen],
          loaded |-> Unselected, chosen |-> Unselected]

Choice(provider, model, origin) == [provider |-> provider, model |-> model, origin |-> origin]

-----------------------------------------------------------------------------
(* discover_codex and discover_claude.                                     *)

Settled(provider) ==
  CASE account[provider] = "missing" -> [state |-> "missing", models |-> {}]
    [] account[provider] = "logged_out" -> [state |-> "logged_out", models |-> {}]
    [] account[provider] = "api_key" -> [state |-> "unsupported_auth", models |-> {}]
    [] OTHER -> IF catalog[provider] = {} THEN [state |-> "catalog_unavailable", models |-> {}]
                ELSE [state |-> "ready", models |-> catalog[provider]]

\* The version or login probe fails, or the catalog probe of a subscriber.
Missed(provider) ==
  {[state |-> "unsupported_cli", models |-> {}]}
    \cup (IF account[provider] = "subscribed"
          THEN {[state |-> "catalog_unavailable", models |-> {}]} ELSE {})

Probe(p, provider) ==
  /\ run[p].at = "probing" /\ run[p].seen[provider] = Unseen
  /\ \/ run' = [run EXCEPT ![p].seen[provider] = Settled(provider)] /\ UNCHANGED misses
     \/ /\ account[provider] # "missing"
        /\ misses < MaxProbeFailures /\ misses' = misses + 1
        /\ \E status \in Missed(provider) : run' = [run EXCEPT ![p].seen[provider] = status]
  /\ UNCHANGED <<account, catalog, changed, selection>>

\* The selection is read when both providers have answered.
LoadSelection(p) ==
  /\ run[p].at = "probing"
  /\ \A v \in Providers : run[p].seen[v] # Unseen
  /\ run' = [run EXCEPT ![p].at = "deciding", ![p].loaded = selection]
  /\ UNCHANGED <<account, catalog, changed, misses, selection>>

CatalogMissing(p) == \E v \in Providers : run[p].seen[v].state = "catalog_unavailable"

ReadyFor(p) == {v \in Providers : run[p].seen[v].state = "ready"}

Selectable(p, v) == run[p].seen[v].models \ Floating

RunOver(p) == run' = [run EXCEPT ![p] = NoRun]

\* write_selection replaces the file as a whole.
Selects(choice) == selection' = choice

-----------------------------------------------------------------------------
(* compiler configure.                                                     *)

\* A provider and a model on the command line, or asked for, or the only ones.
ConfigureChoices(p) ==
  {Choice(v, m, "explicit") : v \in ReadyFor(p), m \in ModelNames}
    \cup {Choice(v, Recommended[v], "auto") : v \in ReadyFor(p)}

ConfigureWrites(p) ==
  /\ run[p].kind = "configure" /\ run[p].at = "deciding" /\ ~CatalogMissing(p)
  /\ \E choice \in ConfigureChoices(p) :
       /\ choice.model \in Selectable(p, choice.provider)
       /\ choice.origin = "auto" => Cardinality(ReadyFor(p)) = 1
       /\ Selects(choice)
  /\ RunOver(p)
  /\ UNCHANGED <<account, catalog, changed, misses>>

-----------------------------------------------------------------------------
(* reconcile_upgrade.                                                      *)

\* Faulty variant: only a recorded selection keeps the upgrade from choosing.
UpgradeBlockedBySelection(p) == run[p].loaded # Unselected

UpgradeBlocked(p) == run[p].loaded # Unselected \/ CatalogMissing(p)

UpgradeWrites(p) ==
  /\ run[p].kind = "upgrade" /\ run[p].at = "deciding" /\ ~UpgradeBlocked(p)
  /\ \E v \in ReadyFor(p) :
       /\ Recommended[v] \in Selectable(p, v)
       /\ \/ v = Codex /\ Selects(Choice(v, Recommended[v], "legacy"))
          \/ Cardinality(ReadyFor(p)) = 1 /\ Selects(Choice(v, Recommended[v], "auto"))
  /\ RunOver(p)
  /\ UNCHANGED <<account, catalog, changed, misses>>

-----------------------------------------------------------------------------
(* compile: resolve_selection, the provider, the selection once more.      *)

Usable(p, choice) ==
  choice.provider \in ReadyFor(p) /\ choice.model \in Selectable(p, choice.provider)

Compiles(p, choice) == run' = [run EXCEPT ![p].at = "compiling", ![p].chosen = choice]

ResolveRecorded(p) ==
  /\ run[p].kind = "remember" /\ run[p].at = "deciding" /\ ~CatalogMissing(p)
  /\ run[p].loaded # Unselected /\ Usable(p, run[p].loaded)
  /\ Compiles(p, run[p].loaded)
  /\ UNCHANGED <<account, catalog, changed, misses, selection>>

\* The only provider with its recommended model, or what a terminal answers.
ResolveFirst(p) ==
  /\ run[p].kind = "remember" /\ run[p].at = "deciding" /\ ~CatalogMissing(p)
  /\ run[p].loaded = Unselected
  /\ \E v \in ReadyFor(p), m \in ModelNames :
       /\ m \in Selectable(p, v)
       /\ IF Cardinality(ReadyFor(p)) = 1
          THEN m = Recommended[v] /\ Selects(Choice(v, m, "auto"))
               /\ Compiles(p, Choice(v, m, "auto"))
          ELSE Selects(Choice(v, m, "prompted")) /\ Compiles(p, Choice(v, m, "prompted"))
  /\ UNCHANGED <<account, catalog, changed, misses>>

\* --allow-api-key asks for Codex alone and records nothing.
CompileWithKey(p) ==
  /\ run[p].at = "probing" /\ run[p].kind = "remember"
  /\ run[p].seen[Codex].state \notin {"unseen", "missing"} /\ run[p].seen[Claude] = Unseen
  /\ Compiles(p, Choice(Codex, Recommended[Codex], "api_key"))
  /\ UNCHANGED <<account, catalog, changed, misses, selection>>

\* The provider succeeds: the selection it was started with is written again.
CompileEnds(p) ==
  /\ run[p].at = "compiling"
  /\ IF run[p].chosen.origin = "api_key" THEN UNCHANGED selection ELSE Selects(run[p].chosen)
  /\ RunOver(p)
  /\ UNCHANGED <<account, catalog, changed, misses>>

\* An early return, a failed or late provider, or the end of the process.
CommandStops(p) ==
  /\ run[p].at # "idle"
  /\ RunOver(p)
  /\ UNCHANGED <<account, catalog, changed, misses, selection>>

-----------------------------------------------------------------------------
CommandBegins(p, kind) ==
  /\ run[p].at = "idle"
  /\ run' = [run EXCEPT ![p] = [NoRun EXCEPT !.kind = kind, !.at = "probing"]]
  /\ UNCHANGED <<account, catalog, changed, misses, selection>>

AccountChanges(provider) ==
  /\ changed < MaxAccountChanges /\ changed' = changed + 1
  /\ \/ \E a \in Accounts : account' = [account EXCEPT ![provider] = a] /\ UNCHANGED catalog
     \/ \E models \in SUBSET ModelNames :
          catalog' = [catalog EXCEPT ![provider] = models] /\ UNCHANGED account
  /\ UNCHANGED <<misses, selection, run>>

CompilerInit ==
  /\ account = [v \in Providers |-> "subscribed"]
  /\ catalog = [v \in Providers |-> {Recommended[v]} \cup Floating]
  /\ changed = 0 /\ misses = 0
  /\ selection = Unselected
  /\ run = [p \in CompilerCommands |-> NoRun]

CompilerNext ==
  \/ \E p \in CompilerCommands :
       \/ \E kind \in {"configure", "remember", "upgrade"} : CommandBegins(p, kind)
       \/ \E v \in Providers : Probe(p, v)
       \/ LoadSelection(p) \/ ConfigureWrites(p) \/ UpgradeWrites(p)
       \/ ResolveRecorded(p) \/ ResolveFirst(p) \/ CompileWithKey(p)
       \/ CompileEnds(p) \/ CommandStops(p)
  \/ \E v \in Providers : AccountChanges(v)

CompilerSpec == CompilerInit /\ [][CompilerNext]_compilerVars

-----------------------------------------------------------------------------
(* The invariant from which the property follows.                          *)

Selections == [provider : Providers, model : ModelNames,
               origin : {"explicit", "auto", "legacy", "prompted", "api_key"}]

ProviderStatuses ==
  [state : {"unseen", "missing", "logged_out", "unsupported_auth", "unsupported_cli",
            "catalog_unavailable", "ready"},
   models : SUBSET ModelNames]

Runs ==
  [kind : {"none", "configure", "remember", "upgrade"},
   at : {"idle", "probing", "deciding", "compiling"},
   seen : [Providers -> ProviderStatuses],
   loaded : Selections \cup {Unselected}, chosen : Selections \cup {Unselected}]

CompilerTypeOK ==
  /\ account \in [Providers -> Accounts]
  /\ catalog \in [Providers -> SUBSET ModelNames]
  /\ selection \in Selections \cup {Unselected}
  /\ run \in [CompilerCommands -> Runs]

\* A compilation that will write the selection runs with one that its own
\* complete discovery offered.
CompilingOffered ==
  \A p \in CompilerCommands :
    run[p].at = "compiling" =>
      /\ run[p].chosen \in Selections
      /\ run[p].chosen.origin = "api_key" \/ (~CatalogMissing(p) /\ Usable(p, run[p].chosen))

CompilerInv == CompilerTypeOK /\ CompilingOffered

-----------------------------------------------------------------------------
(* Properties.                                                             *)

\* While a tool that is logged in cannot list its models, discovery is
\* transient: whoever met that changes no stored preference, and a preference
\* is never one that its writer's discovery did not offer.
CatalogFailureKeepsChoice ==
  [][selection' # selection =>
       \E p \in CompilerCommands :
         /\ run[p].at \in {"deciding", "compiling"} /\ run'[p] # run[p]
         /\ ~CatalogMissing(p) /\ Usable(p, selection')]_compilerVars

=============================================================================
