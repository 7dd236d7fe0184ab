----------------------------- MODULE MCService -----------------------------
(* The reads of the service, one kind of call per behaviour: a recall or a   *)
(* list read page by page while others mutate two claims, an excerpt and its *)
(* citation, a probe and its packet.                                         *)
(*                                                                           *)
(* Both claims say one thing in their first revision and almost the same in  *)
(* their second.  Texts have up to four characters of one and three bytes.   *)
(* Candidates of a probe share revisions and overlap in some of them.        *)
EXTENDS Recall, Pages, Excerpts, Probe, Bundle

CONSTANTS c1, c2, t1, t2, a, b, r1, r2, r3

VARIABLE focus  \* the kind of call of this behaviour

serviceVars == <<recallVars, feedback, reading, excerptVars, probeVars, bundle, focus>>

MCSymmetry == Permutations({c1, c2})

MCText == (c1 :> <<a, b>>) @@ (c2 :> <<a, b>>)
MCAlike == {{a, b}}
MCSource == (c1 :> a) @@ (c2 :> a)

MCTexts == UNION {[1 .. n -> {"a", "_", "w"}] : n \in 1 .. 4}

At(rev, cells) == [rev |-> rev, cells |-> cells]

MCClaimEvidence ==
  {<<At(r1, {1})>>, <<At(r1, {})>>, <<At(r2, {1, 2}), At(r1, {2})>>,
   <<At(r2, {2}), At(r2, {})>>, <<At(r3, {1}), At(r1, {1, 2, 3})>>}
MCRawSources == {At(r1, {1}), At(r1, {2}), At(r2, {1, 2}), At(r2, {2}), At(r3, {})}

MCExcerpted ==
  {<<>>} \cup UNION {[1 .. n -> {"a", "n", "w"}] : n \in 1 .. 3}
MCUnavailable == <<"a", "a">>

ServiceInit ==
  /\ focus \in {"recall", "pages", "excerpts", "probe", "bundle"}
  /\ RecallInit /\ PagesInit /\ ExcerptsInit /\ ProbeInit /\ BundleInit

ServiceNext ==
  /\ UNCHANGED focus
  /\ \/ /\ focus = "recall" /\ RecallNext
        /\ UNCHANGED <<feedback, reading, excerptVars, probeVars, bundle>>
     \/ /\ focus = "pages" /\ PagesNext
        /\ UNCHANGED <<call, excerptVars, probeVars, bundle>>
     \/ /\ focus = "excerpts" /\ ExcerptsNext
        /\ UNCHANGED <<recallVars, feedback, reading, probeVars, bundle>>
     \/ /\ focus = "probe" /\ ProbeNext
        /\ UNCHANGED <<recallVars, feedback, reading, excerptVars, bundle>>
     \/ /\ focus = "bundle" /\ BundleNext
        /\ UNCHANGED <<recallVars, feedback, reading, excerptVars, probeVars>>

ServiceSpec == ServiceInit /\ [][ServiceNext]_serviceVars
=============================================================================
