------------------------------ MODULE MCClaims ------------------------------
(* Three claims, in one of two ways: one caller without keys, to seven       *)
(* commits, where the conflict life cycle has depth; or callers of a project *)
(* and of two of its tasks, who may repeat a key, to four.                   *)
EXTENDS Migration, ClaimsVerify, TLC

CONSTANT SharedMaxSeq   \* bound on the commits of several callers

VARIABLE focus

MCSymmetry == Permutations(Claims) \cup Permutations(Tasks)

MCInit == MigrationInit /\ focus \in {"conflicts", "callers"}

MCNext ==
  /\ UNCHANGED focus
  /\ \/ /\ focus = "conflicts"
        /\ \E project \in Projects : Call([project |-> project, task |-> NoTask], NoKey)
     \/ /\ focus = "callers"
        /\ \E ambient \in Contexts, key \in OptionalKeys : Call(ambient, key)
        /\ commitSeq' <= SharedMaxSeq
  /\ WriteRevision

MCSpec == MCInit /\ [][MCNext]_<<migrationVars, focus>>
=============================================================================
