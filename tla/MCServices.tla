----------------------------- MODULE MCServices -----------------------------
(* The engine's work queue, its payments, and the key cache, which share      *)
(* nothing, checked in one run: a behaviour is one's, and the others' state   *)
(* stays as it begins.                                                       *)
EXTENDS WorkQueue, KeyCache, MCPayments, TLC

CONSTANTS i1, i2

VARIABLE part

MCLastClaim == i1 :> 2 @@ i2 :> 0
MCMaxToken == i1 :> 3 @@ i2 :> 1

vars == <<part, workVars, keyVars, payVars>>

Init == /\ part \in {"work", "keys", "payments"}
        /\ WorkInit /\ KeysInit /\ PayInit
        /\ part # "keys" => \A k \in Kids : issued[k] = Never
        /\ part # "work" => /\ \A p, q \in Procs : serves[p] = serves[q]
                           /\ scope.limit = Max(Limits)
        /\ part # "payments" => amount = Max(Owed)

Next == \/ part = "work" /\ WorkNext /\ UNCHANGED <<part, keyVars, payVars>>
        \/ part = "keys" /\ KeysNext /\ UNCHANGED <<part, workVars, payVars>>
        \/ part = "payments" /\ PayNext /\ UNCHANGED <<part, workVars, keyVars>>

Spec == Init /\ [][Next]_vars

(* Every variable of the three keeps its type.                               *)
TypeOK == WorkTypeOK /\ KeysTypeOK /\ PayTypeOK

Symmetry == Permutations(Procs) \cup Permutations(Principals)
=============================================================================
