--------------------------- MODULE MCMessageQueue ---------------------------
(* Small queues for TLC. *)
EXTENDS MessageQueue, TLC

(* Two messages of one key and one of another. *)
MCKeyOf == [m \in Ids |-> IF m = 3 THEN "k2" ELSE "k1"]

(* Clients and tokens are interchangeable; IDs are not, since claims order   *)
(* by them.                                                                  *)
Symmetry == Permutations(Clients) \cup Permutations(Tokens)
=============================================================================
