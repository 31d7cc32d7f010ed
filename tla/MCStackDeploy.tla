--------------------------- MODULE MCStackDeploy ---------------------------
(* A service of two versions whose one column was renamed, and two servers,   *)
(* the second of which calls the first and so rolls out after it.             *)
EXTENDS StackDeploy, TLC

CONSTANTS v1, v2, s1, s2

MCUses == v1 :> {"name"} @@ v2 :> {"title"}
MCWaveOf == s1 :> 1 @@ s2 :> 2

Symmetry == Permutations(Deploys) \cup Permutations(Persons)
=============================================================================
