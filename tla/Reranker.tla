------------------------------ MODULE Reranker ------------------------------
(***************************************************************************)
(* RerankerManager (src/src/semantic.rs): the cross-encoder of a daemon    *)
(* and the circuit breaker that keeps a slow host from paying for it.      *)
(*                                                                         *)
(* Searches hold the connection mutex while they order their hits, so the  *)
(* calls of `order` do not interleave.  Latencies are abstracted to their  *)
(* comparison with the budget; a runtime may also return an error.         *)
(***************************************************************************)
EXTENDS Naturals

CONSTANTS
  TripThreshold,     \* RERANKER_BREAKER_TRIP_THRESHOLD
  ProbeAfterSkips,   \* RERANKER_BREAKER_PROBE_AFTER_SKIPS
  CloseAfterProbes   \* RERANKER_BREAKER_CLOSE_AFTER_PROBES

ASSUME BreakerAssumption ==
  /\ TripThreshold \in Nat \ {0}
  /\ ProbeAfterSkips \in Nat
  /\ CloseAfterProbes \in Nat \ {0}

VARIABLES
  installed,   \* the model manifest is on disk
  runtime,     \* "none", "loaded", or "failed" at the start of the daemon
  phase,       \* RerankerBreakerPhase
  over,        \* consecutive_over_budget
  skipped,     \* skipped_since_open
  good,        \* half_open_successes
  slow,        \* the host overruns the budget
  streak       \* history: answers in time since the last one that was not,
               \* counted up to CloseAfterProbes; a started daemon owes none

breakerVars == <<phase, over, skipped, good>>
rerankerVars == <<installed, runtime, phase, over, skipped, good, slow, streak>>

Phases == {"Closed", "Open", "HalfOpen"}

-----------------------------------------------------------------------------
(* The breaker.                                                            *)

Reset ==
  phase' = "Closed" /\ over' = 0 /\ skipped' = 0 /\ good' = 0

\* The permit a call gets; half-opening forgets the skips.
ProbeDue == phase = "HalfOpen" \/ (phase = "Open" /\ skipped >= ProbeAfterSkips)

Skips ==
  /\ phase = "Open"
  /\ skipped < ProbeAfterSkips
  /\ skipped' = skipped + 1
  /\ UNCHANGED <<phase, over, good>>

\* What a probe has achieved so far: nothing yet when it half-opens.
GoodSoFar == IF phase = "HalfOpen" THEN good ELSE 0

\* Scores of a closed breaker.
ScoreWithin ==
  phase = "Closed" /\ over' = 0 /\ UNCHANGED <<phase, skipped, good>>

ScoreOver ==
  /\ phase = "Closed"
  /\ over' = over + 1
  /\ IF over + 1 >= TripThreshold
     THEN phase' = "Open" /\ skipped' = 0 /\ good' = 0
     ELSE UNCHANGED <<phase, skipped, good>>

\* Faulty variant: an answer of a probe closes the breaker at once.
ProbeWithinOnce ==
  ProbeDue /\ over' = 0 /\ skipped' = 0 /\ good' = 0 /\ phase' = "Closed"

ProbeWithin ==
  /\ ProbeDue
  /\ over' = 0 /\ skipped' = 0
  /\ IF GoodSoFar + 1 >= CloseAfterProbes
     THEN phase' = "Closed" /\ good' = 0
     ELSE phase' = "HalfOpen" /\ good' = GoodSoFar + 1

ProbeOver ==
  /\ ProbeDue
  /\ phase' = "Open" /\ over' = TripThreshold /\ skipped' = 0 /\ good' = 0

\* An error of the runtime reopens a probing breaker and nothing else.
Abort ==
  IF ProbeDue
  THEN phase' = "Open" /\ skipped' = 0 /\ good' = 0 /\ UNCHANGED over
  ELSE UNCHANGED breakerVars

-----------------------------------------------------------------------------
(* RerankerManager::order on a slate that is not empty.                    *)

MayOrder == installed /\ runtime # "failed"

Answered == streak' = IF streak < CloseAfterProbes THEN streak + 1 ELSE streak

OrderSkipped ==
  MayOrder /\ Skips /\ UNCHANGED <<installed, runtime, slow, streak>>

\* Faulty variant: an answer within the budget leaves a probe where it was.
OrderInTimeForgotten ==
  /\ MayOrder /\ runtime = "loaded" /\ ~slow
  /\ \/ ScoreWithin
     \/ ProbeDue /\ phase' = "HalfOpen" /\ over' = 0 /\ skipped' = 0 /\ good' = 0
  /\ Answered
  /\ UNCHANGED <<installed, runtime, slow>>

OrderInTime ==
  /\ MayOrder /\ runtime = "loaded" /\ ~slow
  /\ ScoreWithin \/ ProbeWithin
  /\ Answered
  /\ UNCHANGED <<installed, runtime, slow>>

OrderTooSlow ==
  /\ MayOrder /\ runtime = "loaded" /\ slow
  /\ ScoreOver \/ ProbeOver
  /\ streak' = 0
  /\ UNCHANGED <<installed, runtime, slow>>

\* The model was installed under the running daemon, or inference fails.
OrderErrs ==
  /\ MayOrder /\ (runtime = "none" \/ slow)
  /\ phase = "Closed" \/ ProbeDue
  /\ Abort
  /\ streak' = 0
  /\ UNCHANGED <<installed, runtime, slow>>

Order == OrderSkipped \/ OrderInTime \/ OrderTooSlow \/ OrderErrs

\* `memoree semantic enable-reranker`, in a process of its own: the running
\* daemon keeps its runtime.
InstallReranker ==
  installed' = TRUE /\ UNCHANGED <<runtime, breakerVars, slow, streak>>

\* RerankerManager::new: warm-up and calibration, which may fail.
RerankerStart ==
  /\ runtime' \in IF installed THEN {"loaded", "failed"} ELSE {"none"}
  /\ Reset
  /\ streak' = CloseAfterProbes
  /\ UNCHANGED installed

RestartReranker == RerankerStart /\ UNCHANGED slow

HostChanges ==
  slow' = ~slow /\ UNCHANGED <<installed, runtime, breakerVars, streak>>

RerankerInit ==
  /\ installed \in BOOLEAN
  /\ runtime \in IF installed THEN {"loaded", "failed"} ELSE {"none"}
  /\ phase = "Closed" /\ over = 0 /\ skipped = 0 /\ good = 0
  /\ slow \in BOOLEAN /\ streak = CloseAfterProbes

RerankerNext == Order \/ InstallReranker \/ RestartReranker \/ HostChanges

RerankerSpec == RerankerInit /\ [][RerankerNext]_rerankerVars

-----------------------------------------------------------------------------
(* Properties.                                                             *)

\* The counters agree with the phase: a closed breaker is not due to trip, a
\* half-open one not due to close, and nobody waits for more skips than the
\* probe needs.
BreakerSound ==
  /\ phase \in Phases /\ over \in 0 .. TripThreshold
  /\ skipped \in 0 .. ProbeAfterSkips /\ good \in 0 .. CloseAfterProbes - 1
  /\ phase = "Closed" => over < TripThreshold
  /\ phase # "Open" => skipped = 0
  /\ phase # "HalfOpen" => good = 0

\* What closes the breaker of a running daemon is as many answers in time in a
\* row as probes are wanted: one lucky answer does not bring the reranker back.
ClosesAfterProbes ==
  [][phase # "Closed" /\ phase' = "Closed" => streak' >= CloseAfterProbes]_rerankerVars

\* After any overruns, a host that stays fast gets its reranker back, as long
\* as searches keep asking for it.
BreakerRecovers ==
  <>[](~slow /\ runtime = "loaded" /\ installed) => <>[](phase = "Closed")

\* A caller asks again: searches are the daemon's main work.
RerankerFairness == WF_rerankerVars(OrderSkipped) /\ WF_rerankerVars(OrderInTime)
=============================================================================
