------------------------- MODULE MCMigrationRunner -------------------------
(* Small sets of plans for TLC. *)
EXTENDS MigrationRunner, TLC

(* There takes an empty database to "one", with two contract steps.  Back      *)
(* undoes it: it has a contract step alone, and so supersedable before it.     *)
(* Aside leaves "one" too and records no expanded model.  Onward starts from   *)
(* There's expanded model, between its phases.                                 *)
CONSTANTS There, Back, Aside, Onward

Pick(p, there, back, aside, onward) ==
  CASE p = There -> there [] p = Back -> back
    [] p = Aside -> aside [] p = Onward -> onward

MCFrom == [p \in Plans |-> Pick(p, "empty", "one", "one", "between")]
MCTo == [p \in Plans |-> Pick(p, "one", "empty", "three", "two")]
MCExpanded == [p \in Plans |-> Pick(p, "between", "one", "none", "none")]
MCExpands == [p \in Plans |-> Pick(p, 1, 0, 1, 2)]
MCLength == [p \in Plans |-> Pick(p, 3, 1, 2, 2)]
MCSessions == [p \in Plans |-> Pick(p, {1, 2}, {}, {}, {1})]

(* On SQLite no plan that returns the database to a model it left; on D1,     *)
(* whose interleavings are the most, the two that return to each other's.     *)
MCApplied == [d \in Drivers |-> CASE d = "sqlite" -> Plans \ {Back}
                                   [] d = "d1" -> {There, Back}
                                   [] d = "postgres" -> Plans]
MCReturning == [d \in Drivers |-> Plans]

(* What the proofs ask of SQLite's plans, MCApplied's keep. *)
MCRank == [m \in Models |-> CASE m = "empty" -> 0 [] m = "between" -> 1
                              [] m = "one" -> 2 [] m \in {"two", "three"} -> 3]
ASSUME MCAscends == Applied = MCApplied => Ascends("sqlite", MCRank)

Symmetry == Permutations(Runners)
=============================================================================
