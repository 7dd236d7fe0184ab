------------------------------ MODULE MCMemory ------------------------------
(* What is kept of artifacts beside their revisions, in one of three ways:   *)
(* deliveries of a source from three contexts while agents revise and forget *)
(* the same artifacts; deliveries whose key is repeated; concurrent          *)
(* projection puts, on one artifact.                                         *)
EXTENDS Memory, TLC

VARIABLE focus

MCSymmetry ==
  Permutations(Artifacts) \cup Permutations(Bodies) \cup Permutations(Tasks)
    \cup Permutations(ExternalRevisions) \cup Permutations(Workers) \cup Permutations(Texts)

MCInit ==
  /\ focus \in {"deliveries", "answers", "projections"}
  /\ MemoryInit

MCContexts == IF focus = "deliveries" THEN Contexts
              ELSE [project : Projects, task : {NoTask}]

MCKeys == IF focus = "deliveries" THEN {NoKey} ELSE OptionalKeys

Items == {i \in ItemKeys : Delivered(i)}
Puts == {a \in Artifacts : Stored(a)}

MCNext ==
  /\ UNCHANGED focus
  /\ \/ \E ambient \in MCContexts, key \in MCKeys :
          \/ ArtifactsNext(ambient, key) /\ UNCHANGED <<sourceVars, projectionVars, puts>>
          \/ /\ focus # "projections"
             /\ SourcesNext(ambient, key) /\ UNCHANGED <<projectionVars, puts>>
          \/ focus = "projections" /\ ProjectionsNext(ambient, key) /\ UNCHANGED sourceVars
     \/ focus = "projections" /\ PutsNext /\ UNCHANGED sourceVars
  /\ focus = "answers" => Cardinality(Items') <= 1
  /\ focus = "projections" => Cardinality(Puts') <= 1 /\ \A a \in Puts' : artHead'[a] <= 2

MCSpec == MCInit /\ [][MCNext]_<<memoryVars, focus>>
=============================================================================
