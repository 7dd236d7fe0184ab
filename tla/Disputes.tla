------------------------------ MODULE Disputes ------------------------------
(***************************************************************************)
(* What the claim store promises about contradictions, without tables or   *)
(* handlers: the open comparisons are at every moment a function of the    *)
(* claims and the contradictions declared between them, and every          *)
(* comparison that stops being current is kept with the reason why.        *)
(*                                                                         *)
(* The store never computes this function.  It maintains rows and derived  *)
(* statuses incrementally, mutation by mutation; ClaimsVerify shows that   *)
(* what it maintains is what is promised here.                             *)
(***************************************************************************)
EXTENDS Naturals

CONSTANTS Claims, MaxRevision

VARIABLES
  revision,        \* the current revision of a claim; 0 before it exists
  life,            \* absent, live, superseded or retracted
  contradictions,  \* the pairs of claims declared to contradict each other
  open,            \* the comparisons an agent is shown as actionable
  past,            \* the comparisons that were open once, with their verdict
  disputed         \* the claims presented as conflicted

disputeVars == <<revision, life, contradictions, open, past, disputed>>

Comparison(pair, revisions) ==
  <<pair[1], revisions[pair[1]], pair[2], revisions[pair[2]]>>

BothLive(pair, lives) == lives[pair[1]] = "live" /\ lives[pair[2]] = "live"

Current(pairs, revisions, lives) ==
  {Comparison(pair, revisions) : pair \in {p \in pairs : BothLive(p, lives)}}

\* A comparison left behind is stale while its claims live on, and resolved
\* when one of them became terminal.
Verdict(comparison, lives) ==
  IF lives[comparison[1]] = "live" /\ lives[comparison[3]] = "live"
  THEN "stale" ELSE "resolved"

\* Every step settles what is open, past and disputed.
Settle ==
  /\ open' = Current(contradictions', revision', life')
  /\ past' = past \cup {<<comparison, Verdict(comparison, life')>> :
                          comparison \in open \ open'}
  /\ disputed' = {comparison[1] : comparison \in open'}
                   \cup {comparison[3] : comparison \in open'}

Assert(c) ==
  /\ life[c] = "absent"
  /\ life' = [life EXCEPT ![c] = "live"]
  /\ revision' = [revision EXCEPT ![c] = 1]
  /\ UNCHANGED contradictions

Revise(c) ==
  /\ life[c] = "live"
  /\ revision[c] < MaxRevision
  /\ revision' = [revision EXCEPT ![c] = revision[c] + 1]
  /\ UNCHANGED <<life, contradictions>>

Retract(c) ==
  /\ life[c] \in {"live", "superseded"}
  /\ life' = [life EXCEPT ![c] = "retracted"]
  /\ UNCHANGED <<revision, contradictions>>

Supersede(s, t) ==
  /\ s # t
  /\ life[s] = "live" /\ life[t] = "live"
  /\ life' = [life EXCEPT ![t] = "superseded"]
  /\ UNCHANGED <<revision, contradictions>>

Contradict(s, t) ==
  /\ s # t
  /\ life[s] = "live" /\ life[t] = "live"
  /\ <<s, t>> \notin contradictions
  /\ contradictions' = contradictions \cup {<<s, t>>}
  /\ UNCHANGED <<revision, life>>

DisputesInit ==
  /\ revision = [c \in Claims |-> 0]
  /\ life = [c \in Claims |-> "absent"]
  /\ contradictions = {}
  /\ open = {}
  /\ past = {}
  /\ disputed = {}

DisputesNext ==
  /\ \/ \E c \in Claims : Assert(c) \/ Revise(c) \/ Retract(c)
     \/ \E s, t \in Claims : Supersede(s, t) \/ Contradict(s, t)
  /\ Settle

DisputesSpec == DisputesInit /\ [][DisputesNext]_disputeVars
=============================================================================
