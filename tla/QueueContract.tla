---------------------------- MODULE QueueContract ----------------------------
(***************************************************************************)
(* What a queue's table promises the workers that claim from it, without    *)
(* its clock, its keys, its backoff or its SQL: the life of a message and    *)
(* of the claims on it.  MessageQueue, the table and its statements,         *)
(* implements this; QueueWorker, the worker loop, runs over it.              *)
(***************************************************************************)
EXTENDS Integers, FiniteSets

CONSTANTS Ids,      \* every message ID a run may write
          Tokens,   \* every claim token a run may issue
          NoToken   \* the claim_token column's NULL

ASSUME NoTokenIsNoToken == NoToken \notin Tokens

VARIABLES phase,    \* per message: where it is in its life
          holder,   \* per message: the token that claims it, or NoToken
          given     \* per message: every token a claim of it was given

contractVars == <<phase, holder, given>>

Phases == {"absent", "waiting", "held", "done", "dead", "gone"}

ContractTypeOK ==
  /\ phase \in [Ids -> Phases]
  /\ holder \in [Ids -> Tokens \cup {NoToken}]
  /\ given \in [Ids -> SUBSET Tokens]

ContractInit ==
  /\ phase = [m \in Ids |-> "absent"]
  /\ holder = [m \in Ids |-> NoToken]
  /\ given = [m \in Ids |-> {}]

Issued == UNION {given[m] : m \in Ids}

(* The messages of S take phase p, and no claim holds them. *)
Settle(S, p) ==
  /\ phase' = [m \in Ids |-> IF m \in S THEN p ELSE phase[m]]
  /\ holder' = [m \in Ids |-> IF m \in S THEN NoToken ELSE holder[m]]
  /\ UNCHANGED given

Write(m) == phase[m] = "absent" /\ Settle({m}, "waiting")

(* One claim takes the messages of S, waiting or lapsed, and gives each a    *)
(* token no claim was ever given.                                           *)
Take(S) ==
  \E f \in [S -> Tokens \ Issued] :
    /\ \A a, b \in S : f[a] = f[b] => a = b
    /\ \A m \in S : phase[m] \in {"waiting", "held"}
    /\ phase' = [m \in Ids |-> IF m \in S THEN "held" ELSE phase[m]]
    /\ holder' = [m \in Ids |-> IF m \in S THEN f[m] ELSE holder[m]]
    /\ given' = [m \in Ids |-> IF m \in S THEN given[m] \cup {f[m]}
                                          ELSE given[m]]

Held(m, t) == phase[m] = "held" /\ holder[m] = t

(* The claim's holder says its handler is done with the message. *)
Finish(m, t) == Held(m, t) /\ \E p \in {"done", "gone"} : Settle({m}, p)

(* The holder gives the message back: to be tried again, dead when its       *)
(* retries are spent, or done when a newer message takes its place.          *)
GiveBack(m, t) ==
  Held(m, t) /\ \E p \in {"waiting", "dead", "done"} : Settle({m}, p)

Lapse(S) == (\A m \in S : phase[m] = "held") /\ Settle(S, "dead")
Revive(S) == (\A m \in S : phase[m] = "dead") /\ Settle(S, "waiting")
Discard(S) == (\A m \in S : phase[m] \in {"dead", "done"}) /\ Settle(S, "gone")

ContractNext ==
  \/ \E m \in Ids : Write(m)
  \/ \E S \in SUBSET Ids : Take(S) \/ Lapse(S) \/ Revive(S) \/ Discard(S)
  \/ \E m \in Ids : \E t \in given[m] : Finish(m, t) \/ GiveBack(m, t)

ContractSpec == ContractInit /\ [][ContractNext]_contractVars
=============================================================================
