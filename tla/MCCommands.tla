------------------------------ MODULE MCCommands -----------------------------
(* What commands keep: which provider compiles a note and how its compilation  *)
(* is stored, and the metrics of the commands themselves.  The three share no  *)
(* state, so each behaviour exercises one of them.                             *)
EXTENDS Compiler, Remember, Metrics, TLC

CONSTANTS luna, best, plain, secret, s, t, x, y, w

VARIABLE focus

MCRecommended == (Codex :> luna) @@ (Claude :> luna)

\* A passage worded in two ways, also by one compilation, a second passage, a
\* note without a claim.
MCCompilations ==
  (plain :> {{<<s, x, {w}>>, <<t, y, {}>>}, {<<s, y, {}>>}, {<<s, x, {w}>>, <<s, y, {}>>}})
    @@ (secret :> {{}})

\* Commands of a kind are interchangeable, and so are versions of a compiler,
\* files, and the pairs of a study.  The sets of different parts share their model
\* values, so that few permutations cover them.
MCSymmetry ==
  Permutations(CompilerCommands \cup RememberCommands \cup Processes)
    \cup Permutations(CompilerIds \cup Generations) \cup Permutations(Pairs)

\* What a behaviour does not exercise starts in one state.
CommandsInit ==
  /\ focus \in {"choice", "note", "metrics"}
  /\ CompilerInit /\ RememberInit /\ MetricsInit
  /\ focus # "metrics" => current = NoFile /\ settings.cap = LargestCap

CommandsNext ==
  /\ UNCHANGED focus
  /\ \/ focus = "choice" /\ CompilerNext /\ UNCHANGED <<rememberVars, metricsVars>>
     \/ focus = "note" /\ RememberNext /\ UNCHANGED <<compilerVars, metricsVars>>
     \/ focus = "metrics" /\ MetricsNext /\ UNCHANGED <<compilerVars, rememberVars>>

CommandsSpec ==
  CommandsInit /\ [][CommandsNext]_<<compilerVars, rememberVars, metricsVars, focus>>
=============================================================================
