------------------------------ MODULE MCIndex ------------------------------
(* The project index: a small project (content a defines a name that b      *)
(* calls), or one lead of a packet over a small call graph.  A behaviour    *)
(* exercises one of the two, so their states are not multiplied.            *)
EXTENDS ProjectIndex, ProjectMap, TLC

CONSTANTS a, b, util, f, g

VARIABLE focus

MCDefines == (a :> {util}) @@ (b :> {})
MCCalls == (a :> {}) @@ (b :> {util})

\* Symbol 1 is the lead, 5 and 6 are tests.
MCPossibleCalls ==
  {<<1, 1>>, <<1, 2>>, <<2, 1>>, <<3, 1>>, <<4, 3>>, <<5, 1>>, <<5, 2>>, <<6, 1>>, <<6, 4>>}

MCAmbiguous == {<<4, 3>>}

MCMatching == {<<3, 1>>}

MCForm == [call \in MCPossibleCalls |->
             IF call = <<3, 1>> THEN "receiver" ELSE IF call = <<5, 1>> THEN "static" ELSE "free"]

MCModes == {{"callers"}, {"callees"}, {"tests"}, {"callers", "tests"}, {"calls", "tests"}, {"mixed"}}

\* A caller and the file it calls, or any call graph.
Init ==
  /\ ProjectIndexInit /\ tree = (f :> a) @@ (g :> b)
  /\ ProjectMapInit
  /\ focus \in {"index", "packet"}
  /\ focus = "index" => graph = {} /\ intents = {"callers"} /\ first

Next ==
  /\ UNCHANGED focus
  /\ \/ focus = "index" /\ ProjectIndexNext /\ UNCHANGED projectMapVars
     \/ focus = "packet" /\ ProjectMapNext /\ UNCHANGED projectIndexVars

Spec ==
  Init /\ [][Next]_<<projectIndexVars, projectMapVars, focus>> /\ ProjectIndexFairness
=============================================================================
