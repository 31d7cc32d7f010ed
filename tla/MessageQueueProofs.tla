-------------------------- MODULE MessageQueueProofs --------------------------
(***************************************************************************)
(* What MessageQueue keeps for every queue: any IDs, keys, clients, dialect, *)
(* retries and lease.  First the types and the tokens, then the life of a    *)
(* message, what a keyed queue keeps, and the refinement of QueueContract.   *)
(***************************************************************************)
EXTENDS MessageQueue, TLAPS

(* A claimed row carries the token of its last claim, which was given out,   *)
(* and has counted it; no other row carries a token.                         *)
Holding ==
  \A m \in Ids :
    /\ rows[m].state = "claimed" =>
         /\ rows[m].token = last[m]
         /\ rows[m].token \in given[m]
         /\ rows[m].attempts > 0
    /\ rows[m].state # "claimed" => rows[m].token = NoToken

TypeInv == TypeOK /\ Holding

LEMMA WaitType ==
  ASSUME NEW a \in Nat, a > 0, a <= Retries
  PROVE  Wait(a) \in Nat
<1>1. Lesser(a - 1, Doublings) \in 0..Retries
  BY QueueAssumption DEF Lesser, Doublings
<1>2. 2^Lesser(a - 1, Doublings) \in Nat
  BY <1>1, PowersOfTwo
<1> DEFINE p == 2^Lesser(a - 1, Doublings)
<1>3. p \in Nat
  BY <1>2
<1> HIDE DEF p
<1>4. Backoff * p \in Nat
  BY <1>3, QueueAssumption
<1>5. Lesser(Backoff * p, MaxBackoff) \in Nat
  BY <1>4, QueueAssumption DEF Lesser
<1> QED
  BY <1>5 DEF Wait, p

LEMMA UnclaimedType ==
  ASSUME NEW r \in Row, NEW s \in States, now \in Nat
  PROVE  /\ Unclaimed(r, s) \in Row
         /\ Unclaimed(r, s).state = s
         /\ Unclaimed(r, s).token = NoToken
         /\ Unclaimed(r, s).attempts = r.attempts
         /\ Unclaimed(r, s).created = r.created
         /\ Unclaimed(r, s).body = r.body
  BY DEF Unclaimed, Row, States

LEMMA TakenType ==
  ASSUME NEW r \in Row, NEW t \in Tokens, NEW at \in Nat
  PROVE  /\ Taken(r, t, at) \in Row
         /\ Taken(r, t, at).state = "claimed"
         /\ Taken(r, t, at).token = t
         /\ Taken(r, t, at).attempts = r.attempts + 1
         /\ Taken(r, t, at).created = r.created
         /\ Taken(r, t, at).body = r.body
<1>1. at + Lease \in Nat /\ r.attempts + 1 \in Nat
  BY QueueAssumption DEF Row
<1> QED
  BY <1>1 DEF Taken, Row, States

LEMMA TakeRowsType ==
  ASSUME TypeInv, NEW S \in SUBSET Ids, NEW at \in Nat, TakeRows(S, at)
  PROVE  /\ rows' \in [Ids -> Row]
         /\ given' \in [Ids -> SUBSET Tokens]
         /\ last' \in [Ids -> Tokens \cup {NoToken}]
         /\ Holding'
<1>1. PICK f \in [S -> Tokens \ Issued] :
    /\ rows' = [m \in Ids |-> IF m \in S THEN Taken(rows[m], f[m], at) ELSE rows[m]]
    /\ given' = [m \in Ids |-> IF m \in S THEN given[m] \cup {f[m]} ELSE given[m]]
    /\ last' = [m \in Ids |-> IF m \in S THEN f[m] ELSE last[m]]
  BY DEF TakeRows
<1>2. \A m \in Ids : rows[m] \in Row /\ rows[m].attempts \in Nat
  BY DEF TypeInv, TypeOK, Row
<1>3. \A m \in S : /\ Taken(rows[m], f[m], at) \in Row
                    /\ Taken(rows[m], f[m], at).state = "claimed"
                    /\ Taken(rows[m], f[m], at).token = f[m]
                    /\ Taken(rows[m], f[m], at).attempts = rows[m].attempts + 1
  BY <1>2, TakenType
<1>4. rows' \in [Ids -> Row]
  BY <1>1, <1>2, <1>3
<1>5. given' \in [Ids -> SUBSET Tokens]
  BY <1>1 DEF TypeInv, TypeOK
<1>6. last' \in [Ids -> Tokens \cup {NoToken}]
  BY <1>1 DEF TypeInv, TypeOK
<1>7. Holding'
  BY <1>1, <1>2, <1>3 DEF TypeInv, Holding
<1> QED
  BY <1>4, <1>5, <1>6, <1>7

(* A row that is no longer claimed and carries no token keeps Holding, as     *)
(* does one that did not change.                                            *)
LEMMA HoldingKept ==
  ASSUME TypeInv, rows' \in [Ids -> Row], given' = given, last' = last,
         \A m \in Ids : \/ rows'[m] = rows[m]
                        \/ rows'[m].state # "claimed" /\ rows'[m].token = NoToken
  PROVE  Holding'
  BY DEF TypeInv, Holding

LEMMA RowType ==
  ASSUME TypeInv, NEW m \in Ids
  PROVE  /\ rows[m] \in Row /\ now \in Nat
         /\ rows[m].attempts \in Nat /\ rows[m].state \in States
         /\ rows[m].due \in Nat /\ rows[m].created \in Nat
         /\ rows[m].expires \in Nat /\ rows[m].body \in Nat
         /\ rows[m].token \in Tokens \cup {NoToken}
         /\ rows[m].state # "claimed" => rows[m].token = NoToken
  BY DEF TypeInv, TypeOK, Holding, Row

LEMMA InitTypeInv == Init => TypeInv
  BY QueueAssumption DEF Init, TypeInv, TypeOK, Holding, Row, States, NoPick

LEMMA WrittenType ==
  ASSUME NEW r \in Row, now \in Nat, writes \in Nat
  PROVE  /\ Written(r) \in Row /\ Rewritten(r) \in Row
         /\ Written(r).state = "ready" /\ Rewritten(r).state = r.state
         /\ Written(r).token = r.token /\ Rewritten(r).token = r.token
         /\ Written(r).created = now /\ Rewritten(r).created = r.created
<1>1. writes + 1 \in Nat
  OBVIOUS
<1> QED
  BY <1>1 DEF Written, Rewritten, Row, States

LEMMA EnqueueType ==
  ASSUME TypeInv, NEW m \in Ids, Enqueue(m) \/ EnqueueReplaces(m)
  PROVE  TypeInv'
<1>1. rows[m] \in Row /\ now \in Nat /\ writes \in Nat
  BY RowType DEF TypeInv, TypeOK
<1>2. CASE Enqueue(m)
  <2> DEFINE r == Written(rows[m])
  <2>1. r \in Row /\ r.state = "ready" /\ r.token = rows[m].token
    BY <1>1, WrittenType
  <2>2. rows[m].token = NoToken
    BY <1>2, RowType DEF Enqueue
  <2>3. rows' = [rows EXCEPT ![m] = r]
    BY <1>2 DEF Enqueue
  <2> HIDE DEF r
  <2>4. rows' \in [Ids -> Row] /\ \A o \in Ids : rows'[o] = IF o = m THEN r ELSE rows[o]
    BY <2>1, <2>3 DEF TypeInv, TypeOK
  <2>5. Holding'
    BY <1>2, <2>1, <2>2, <2>4, HoldingKept DEF Enqueue
  <2>6. TypeOK'
    BY <1>2, <2>4, <1>1 DEF Enqueue, TypeInv, TypeOK
  <2> QED
    BY <2>5, <2>6 DEF TypeInv
<1>3. CASE EnqueueReplaces(m)
  <2> DEFINE r == Rewritten(rows[m])
  <2>1. r \in Row /\ r.state = rows[m].state /\ r.token = rows[m].token
    BY <1>1, WrittenType
  <2>2. rows[m].token = NoToken /\ rows[m].state = "ready"
    BY <1>3, RowType DEF EnqueueReplaces
  <2>3. rows' = [rows EXCEPT ![m] = r]
    BY <1>3 DEF EnqueueReplaces
  <2> HIDE DEF r
  <2>4. rows' \in [Ids -> Row] /\ \A o \in Ids : rows'[o] = IF o = m THEN r ELSE rows[o]
    BY <2>1, <2>3 DEF TypeInv, TypeOK
  <2>5. Holding'
    BY <1>3, <2>1, <2>2, <2>4, HoldingKept DEF EnqueueReplaces
  <2>6. TypeOK'
    BY <1>3, <2>4, <1>1 DEF EnqueueReplaces, TypeInv, TypeOK
  <2> QED
    BY <2>5, <2>6 DEF TypeInv
<1> QED
  BY <1>2, <1>3

LEMMA ExpireType ==
  ASSUME TypeInv, NEW c \in Clients, Expire(c)
  PROVE  TypeInv'
<1>1. \A m \in Ids : /\ Unclaimed(rows[m], "dead") \in Row
                     /\ Unclaimed(rows[m], "dead").state = "dead"
                     /\ Unclaimed(rows[m], "dead").token = NoToken
  <2> TAKE m \in Ids
  <2>1. "dead" \in States
    BY DEF States
  <2> QED
    BY <2>1, RowType, UnclaimedType
<1>2. rows' \in [Ids -> Row]
      /\ \A m \in Ids : rows'[m] = rows[m] \/ rows'[m] = Unclaimed(rows[m], "dead")
  BY <1>1 DEF Expire, TypeInv, TypeOK
<1>3. Holding'
  BY <1>1, <1>2, HoldingKept DEF Expire
<1>4. TypeOK'
  BY <1>2 DEF Expire, Step, TypeInv, TypeOK
<1> QED
  BY <1>3, <1>4 DEF TypeInv

LEMMA ClaimType ==
  ASSUME TypeInv, NEW c \in Clients, NEW n \in Nat,
         ReadDue(c) \/ ClaimSQLite(c, n) \/ ClaimReads(c, n) \/ ClaimTakes(c) \/ GiveUp(c)
  PROVE  TypeInv'
<1>1. now \in Nat /\ FirstDue(n) \in SUBSET Ids /\ picked[c].at \in Nat
      /\ picked[c].ids \in SUBSET Ids
  BY DEF TypeInv, TypeOK, FirstDue, Claimable
<1>2. CASE ReadDue(c)
  BY <1>2, HoldingKept DEF ReadDue, Step, TypeInv, TypeOK, Holding
<1>3. CASE ClaimSQLite(c, n)
  BY <1>1, <1>3, TakeRowsType DEF ClaimSQLite, Step, TypeInv, TypeOK
<1>4. CASE ClaimReads(c, n)
  BY <1>1, <1>4 DEF ClaimReads, Step, TypeInv, TypeOK, Holding
<1>5. CASE ClaimTakes(c)
  <2>1. NoPick \in [ids : SUBSET Ids, at : Nat]
    BY DEF NoPick
  <2>2. PICK S \in SUBSET {m \in picked[c].ids : DueAt(m, picked[c].at)} :
          IF KeyHeld(S) THEN UNCHANGED <<rows, given, last>>
                        ELSE TakeRows(S, picked[c].at)
    BY <1>5 DEF ClaimTakes
  <2>3. S \in SUBSET Ids
    BY <2>2, <1>1
  <2>4. CASE KeyHeld(S)
    BY <1>5, <2>1, <2>2, <2>4 DEF ClaimTakes, Step, TypeInv, TypeOK, Holding
  <2>5. CASE ~ KeyHeld(S)
    BY <1>1, <1>5, <2>1, <2>2, <2>3, <2>5, TakeRowsType
       DEF ClaimTakes, Step, TypeInv, TypeOK
  <2> QED
    BY <2>4, <2>5
<1>6. CASE GiveUp(c)
  <2>1. NoPick \in [ids : SUBSET Ids, at : Nat]
    BY DEF NoPick
  <2> QED
    BY <1>6, <2>1 DEF GiveUp, TypeInv, TypeOK, Holding
<1> QED
  BY <1>2, <1>3, <1>4, <1>5, <1>6

(* A call of a claim's holder changes its row alone, and the rows it may     *)
(* write.                                                                    *)
LEMMA ChangeType ==
  ASSUME TypeInv, NEW m \in Ids, NEW t \in Tokens, Holds(m, t),
         NEW r \in Row, Change(m, r), finished' \in [Ids -> Tokens \cup {NoToken}],
         \/ r.state # "claimed" /\ r.token = NoToken
         \/ r.state = "claimed" /\ r.token = t /\ r.attempts = rows[m].attempts
  PROVE  TypeInv'
<1>1. rows' \in [Ids -> Row] /\ \A o \in Ids : rows'[o] = IF o = m THEN r ELSE rows[o]
  BY DEF Change, TypeInv, TypeOK
<1>2. Holding'
  BY <1>1 DEF Change, Holds, TypeInv, Holding
<1>3. TypeOK'
  BY <1>1 DEF Change, TypeInv, TypeOK
<1> QED
  BY <1>2, <1>3 DEF TypeInv

LEMMA CallType ==
  ASSUME TypeInv, NEW m \in Ids, NEW t \in given[m],
         Complete(m, t) \/ Fail(m, t) \/ Extend(m, t) \/ Release(m, t)
  PROVE  TypeInv'
<1>1. /\ rows[m] \in Row /\ now \in Nat /\ t \in Tokens
      /\ finished \in [Ids -> Tokens \cup {NoToken}]
  BY RowType DEF TypeInv, TypeOK
<1>2. Holds(m, t) => rows[m].attempts \in Nat /\ rows[m].attempts > 0
  BY RowType DEF Holds, TypeInv, Holding
<1>3. \A s \in States : /\ Unclaimed(rows[m], s) \in Row
                        /\ Unclaimed(rows[m], s).state = s
                        /\ Unclaimed(rows[m], s).token = NoToken
                        /\ Unclaimed(rows[m], s).attempts = rows[m].attempts
  BY <1>1, UnclaimedType
<1>4. {"ready", "done", "dead", "gone"} \subseteq States \ {"claimed"}
  BY DEF States
<1>5. CASE Complete(m, t)
  <2>1. PICK s \in {"done", "gone"} : Change(m, Unclaimed(rows[m], s)) /\ Holds(m, t)
    BY <1>5 DEF Complete
  <2>2. finished' \in [Ids -> Tokens \cup {NoToken}]
    BY <1>1, <1>5 DEF Complete
  <2> QED
    BY <1>1, <1>3, <1>4, <2>1, <2>2, ChangeType
<1>6. CASE Fail(m, t)
  <2> DEFINE w == now + Wait(rows[m].attempts)
             r == [Unclaimed(rows[m], "ready") EXCEPT !.due = w]
  <2>1. Holds(m, t) /\ finished' = finished
    BY <1>6 DEF Fail
  <2>2. CASE rows[m].attempts > Retries \/ GivesWay(m)
    <3>1. PICK s \in {"done", "dead"} : Change(m, Unclaimed(rows[m], s))
      BY <1>6, <2>2 DEF Fail
    <3> QED
      BY <1>1, <1>3, <1>4, <2>1, <3>1, ChangeType
  <2>3. CASE ~ (rows[m].attempts > Retries \/ GivesWay(m))
    <3>1. Change(m, r)
      BY <1>6, <2>3 DEF Fail
    <3>2. rows[m].attempts <= Retries
      BY <1>2, <2>1, <2>3, QueueAssumption
    <3>3. w \in Nat
      BY <1>1, <1>2, <2>1, <3>2, WaitType
    <3> HIDE DEF w
    <3>4. r \in Row /\ r.state = "ready" /\ r.token = NoToken
      BY <1>3, <1>4, <3>3 DEF Row
    <3> HIDE DEF r
    <3> QED
      BY <1>1, <2>1, <3>1, <3>4, ChangeType
  <2> QED
    BY <2>2, <2>3
<1>7. CASE Extend(m, t)
  <2> DEFINE w == now + Lease
             r == [rows[m] EXCEPT !.expires = w, !.updated = now]
  <2>1. Holds(m, t) /\ finished' = finished /\ Change(m, r)
    BY <1>7 DEF Extend
  <2>2. w \in Nat
    BY <1>1, QueueAssumption
  <2> HIDE DEF w
  <2>3. /\ r \in Row /\ r.state = rows[m].state /\ r.token = rows[m].token
        /\ r.attempts = rows[m].attempts
    BY <1>1, <2>2 DEF Row
  <2> HIDE DEF r
  <2> QED
    BY <1>1, <2>1, <2>3, ChangeType DEF Holds
<1>8. CASE Release(m, t)
  <2>1. PICK s \in {"ready", "done"} :
          Change(m, [Unclaimed(rows[m], s) EXCEPT !.attempts = IF @ = 0 THEN 0 ELSE @ - 1])
    BY <1>8 DEF Release
  <2> DEFINE u == Unclaimed(rows[m], s)
             r == [u EXCEPT !.attempts = IF @ = 0 THEN 0 ELSE @ - 1]
  <2>2. Holds(m, t) /\ finished' = finished /\ Change(m, r)
    BY <1>8, <2>1 DEF Release
  <2>3. u \in Row /\ u.state = s /\ u.token = NoToken /\ s # "claimed"
    BY <1>3, <1>4
  <2> HIDE DEF u
  <2>4. r \in Row /\ r.state = s /\ r.token = NoToken
    BY <2>3 DEF Row
  <2> HIDE DEF r
  <2> QED
    BY <1>1, <2>2, <2>3, <2>4, ChangeType
<1> QED
  BY <1>5, <1>6, <1>7, <1>8

LEMMA SweepType ==
  ASSUME TypeInv, NEW S \in SUBSET Ids, Prune(S) \/ RetryDead(S) \/ DropDead(S)
  PROVE  TypeInv'
<1>1. \A m \in Ids : rows[m] \in Row /\ now \in Nat
  BY RowType
<1>2. \A m \in InState("done") \cup InState("dead") :
         LET r == [rows[m] EXCEPT !.state = "gone"]
         IN  r \in Row /\ r.state # "claimed" /\ r.token = NoToken
  BY <1>1, RowType DEF InState, Row, States
<1>3. CASE Prune(S) \/ DropDead(S)
  <2> DEFINE r(m) == [rows[m] EXCEPT !.state = "gone"]
  <2>1. S \subseteq InState("done") \cup InState("dead")
        /\ rows' = [m \in Ids |-> IF m \in S THEN r(m) ELSE rows[m]]
    BY <1>3 DEF Prune, DropDead, Prunable
  <2>2. \A m \in S : r(m) \in Row /\ r(m).state # "claimed" /\ r(m).token = NoToken
    BY <1>2, <2>1
  <2> HIDE DEF r
  <2>3. rows' \in [Ids -> Row]
        /\ \A m \in Ids : \/ rows'[m] = rows[m]
                          \/ rows'[m].state # "claimed" /\ rows'[m].token = NoToken
    BY <1>1, <2>1, <2>2
  <2>4. Holding'
    BY <1>3, <2>3, HoldingKept DEF Prune, DropDead
  <2> QED
    BY <1>3, <2>3, <2>4 DEF Prune, DropDead, TypeInv, TypeOK
<1>4. CASE RetryDead(S)
  <2> DEFINE r(m) == [Unclaimed(rows[m], "ready") EXCEPT !.attempts = 0, !.due = now]
  <2>1. \A m \in Ids : r(m) \in Row /\ r(m).state = "ready" /\ r(m).token = NoToken
    <3> TAKE m \in Ids
    <3> DEFINE u == Unclaimed(rows[m], "ready")
    <3>1. u \in Row /\ u.state = "ready" /\ u.token = NoToken
      BY <1>1, UnclaimedType DEF States
    <3> HIDE DEF u
    <3>2. LET v == [u EXCEPT !.attempts = 0, !.due = now]
          IN  v \in Row /\ v.state = "ready" /\ v.token = NoToken
      BY <1>1, <3>1 DEF Row
    <3> QED
      BY <3>2 DEF u
  <2>2. rows' = [m \in Ids |-> IF m \in Retryable(S) THEN r(m) ELSE rows[m]]
    BY <1>4 DEF RetryDead, MakeReady
  <2> HIDE DEF r
  <2>3. rows' \in [Ids -> Row]
        /\ \A m \in Ids : \/ rows'[m] = rows[m]
                          \/ rows'[m].state # "claimed" /\ rows'[m].token = NoToken
    BY <1>1, <2>1, <2>2
  <2>4. Holding'
    BY <1>4, <2>3, HoldingKept DEF RetryDead
  <2> QED
    BY <1>4, <2>3, <2>4 DEF RetryDead, TypeInv, TypeOK
<1> QED
  BY <1>3, <1>4

LEMMA NextTypeInv == TypeInv /\ [Next]_vars => TypeInv'
<1> SUFFICES ASSUME TypeInv, [Next]_vars PROVE TypeInv'
  OBVIOUS
<1>1. CASE Tick
  BY <1>1 DEF Tick, TypeInv, TypeOK, Holding
<1>2. ASSUME NEW m \in Ids, Enqueue(m) \/ EnqueueReplaces(m) PROVE TypeInv'
  BY <1>2, EnqueueType
<1>3. ASSUME NEW c \in Clients, Expire(c) PROVE TypeInv'
  BY <1>3, ExpireType
<1>4. ASSUME NEW c \in Clients,
             \/ ReadDue(c) \/ ClaimTakes(c) \/ GiveUp(c)
             \/ \E n \in 1..Batch : ClaimSQLite(c, n) \/ ClaimReads(c, n)
      PROVE  TypeInv'
  BY <1>4, ClaimType, QueueAssumption
<1>5. ASSUME NEW m \in Ids, NEW t \in given[m],
             Complete(m, t) \/ Fail(m, t) \/ Extend(m, t) \/ Release(m, t)
      PROVE  TypeInv'
  BY <1>5, CallType
<1>6. ASSUME NEW S \in SUBSET Ids, Prune(S) \/ RetryDead(S) \/ DropDead(S)
      PROVE  TypeInv'
  BY <1>6, SweepType
<1>7. CASE UNCHANGED vars
  BY <1>7 DEF vars, TypeInv, TypeOK, Holding
<1> QED
  BY <1>1, <1>2, <1>3, <1>4, <1>5, <1>6, <1>7 DEF Next

(* Every variable keeps its type, and a claimed row its last claim's token.  *)
THEOREM TypeCorrect == Spec => [](TypeOK /\ Holding)
<1>1. Spec => []TypeInv
  BY InitTypeInv, NextTypeInv, PTL DEF Spec
<1> QED
  BY <1>1, PTL DEF TypeInv
-----------------------------------------------------------------------------
(***************************************************************************)
(* The life of a message: how each step of MessageQueue moves one row, and   *)
(* what follows for how messages end.                                       *)
(***************************************************************************)

Ended == {"done", "gone"}

(* The step leaves the claims and the end of m as they were. *)
SameEnd(m) == last'[m] = last[m] /\ finished'[m] = finished[m]

(* A claim takes m, or its holder extends the claim. *)
Claimed(m) ==
  /\ rows[m].state \in {"ready", "claimed"}
  /\ rows'[m].state = "claimed"
  /\ finished'[m] = finished[m]

Completed(m) ==
  /\ rows[m].state = "claimed"
  /\ rows'[m].state \in Ended
  /\ last'[m] = last[m]
  /\ finished'[m] = last[m]

Died(m) ==
  /\ rows[m].state = "claimed"
  /\ rows'[m].state = "dead"
  /\ rows'[m].attempts > Retries
  /\ SameEnd(m)

(* A message is written, given back by its claim or by an operator, given    *)
(* way for another, or removed.                                              *)
Passed(m) ==
  /\ \/ rows[m].state \in {"absent", "ready", "claimed", "dead"}
        /\ rows'[m].state = "ready"
     \/ rows[m].state = "claimed" /\ rows'[m].state = "done"
     \/ rows[m].state \in {"done", "dead"} /\ rows'[m].state = "gone"
  /\ SameEnd(m)

Moved(m) ==
  \/ rows'[m] = rows[m] /\ SameEnd(m)
  \/ Claimed(m) \/ Completed(m) \/ Died(m) \/ Passed(m)

LEMMA EnqueueMoves ==
  ASSUME TypeInv, NEW o \in Ids, Enqueue(o) \/ EnqueueReplaces(o), NEW m \in Ids
  PROVE  Moved(m)
<1>1. Written(rows[o]).state = "ready" /\ Rewritten(rows[o]).state = rows[o].state
  BY WrittenType, RowType DEF TypeInv, TypeOK
<1>2. rows[o].state \in {"absent", "ready"} /\ SameEnd(m)
  BY DEF Enqueue, EnqueueReplaces, SameEnd
<1>3. IF m = o THEN rows'[m].state = "ready" ELSE rows'[m] = rows[m]
  BY <1>1 DEF Enqueue, EnqueueReplaces, TypeInv, TypeOK
<1> QED
  BY <1>2, <1>3 DEF Moved, Passed

LEMMA ExpireMoves ==
  ASSUME TypeInv, NEW c \in Clients, Expire(c), NEW m \in Ids
  PROVE  Moved(m)
<1>1. SameEnd(m)
  BY DEF Expire, SameEnd
<1>2. rows'[m] = IF LastClaimExpired(m) THEN Unclaimed(rows[m], "dead") ELSE rows[m]
  BY DEF Expire
<1>3. /\ Unclaimed(rows[m], "dead").state = "dead"
      /\ Unclaimed(rows[m], "dead").attempts = rows[m].attempts
  BY UnclaimedType, RowType DEF States
<1> QED
  BY <1>1, <1>2, <1>3 DEF Moved, Died, LastClaimExpired

LEMMA TakeMoves ==
  ASSUME TypeInv, NEW S \in SUBSET Ids, NEW at \in Nat, TakeRows(S, at),
         \A o \in S : rows[o].state \in {"ready", "claimed"},
         UNCHANGED finished, NEW m \in Ids
  PROVE  Moved(m)
<1>1. PICK f \in [S -> Tokens \ Issued] :
    /\ rows' = [o \in Ids |-> IF o \in S THEN Taken(rows[o], f[o], at) ELSE rows[o]]
    /\ last' = [o \in Ids |-> IF o \in S THEN f[o] ELSE last[o]]
  BY DEF TakeRows
<1>2. CASE m \in S
  BY <1>1, <1>2, TakenType, RowType DEF Moved, Claimed
<1>3. CASE m \notin S
  BY <1>1, <1>3 DEF Moved, SameEnd, TypeInv, TypeOK
<1> QED
  BY <1>2, <1>3

LEMMA ClaimMoves ==
  ASSUME TypeInv, NEW c \in Clients, NEW n \in Nat,
         ReadDue(c) \/ ClaimSQLite(c, n) \/ ClaimReads(c, n) \/ ClaimTakes(c) \/ GiveUp(c),
         NEW m \in Ids
  PROVE  Moved(m)
<1>1. CASE ReadDue(c) \/ ClaimReads(c, n) \/ GiveUp(c)
  BY <1>1 DEF ReadDue, ClaimReads, GiveUp, Moved, SameEnd
<1>2. CASE ClaimSQLite(c, n)
  <2>1. /\ TakeRows(FirstDue(n), now) /\ UNCHANGED finished /\ now \in Nat
        /\ FirstDue(n) \in SUBSET Ids
        /\ \A o \in FirstDue(n) : rows[o].state \in {"ready", "claimed"}
    BY <1>2 DEF ClaimSQLite, FirstDue, Claimable, DueAt, TypeInv, TypeOK
  <2> QED
    BY <2>1, TakeMoves
<1>3. CASE ClaimTakes(c)
  <2>1. PICK S \in SUBSET {o \in picked[c].ids : DueAt(o, picked[c].at)} :
          IF KeyHeld(S) THEN UNCHANGED <<rows, given, last>>
                        ELSE TakeRows(S, picked[c].at)
    BY <1>3 DEF ClaimTakes
  <2>2. /\ S \in SUBSET Ids /\ picked[c].at \in Nat /\ UNCHANGED finished
        /\ \A o \in S : rows[o].state \in {"ready", "claimed"}
    BY <1>3, <2>1 DEF ClaimTakes, DueAt, TypeInv, TypeOK
  <2>3. CASE KeyHeld(S)
    BY <2>1, <2>2, <2>3 DEF Moved, SameEnd
  <2>4. CASE ~ KeyHeld(S)
    BY <2>1, <2>2, <2>4, TakeMoves
  <2> QED
    BY <2>3, <2>4
<1> QED
  BY <1>1, <1>2, <1>3

LEMMA CallMoves ==
  ASSUME TypeInv, NEW o \in Ids, NEW t \in given[o],
         Complete(o, t) \/ Fail(o, t) \/ Extend(o, t) \/ Release(o, t), NEW m \in Ids
  PROVE  Moved(m)
<1>1. /\ rows[o].state = "claimed" /\ rows[o].token = t /\ last[o] = t
      /\ \A s \in States : /\ Unclaimed(rows[o], s) \in Row
                           /\ Unclaimed(rows[o], s).state = s
                           /\ Unclaimed(rows[o], s).attempts = rows[o].attempts
  BY UnclaimedType, RowType DEF Complete, Fail, Extend, Release, Holds, TypeInv, Holding
<1>2. {"ready", "done", "dead", "gone"} \subseteq States
  BY DEF States
<1>3. \A r : Change(o, r) => /\ rows'[m] = IF m = o THEN r ELSE rows[m]
                             /\ last' = last
  BY DEF Change, TypeInv, TypeOK
<1>4. CASE Complete(o, t)
  <2>1. PICK s \in Ended : Change(o, Unclaimed(rows[o], s))
    BY <1>4 DEF Complete, Ended
  <2>2. finished'[m] = IF m = o THEN t ELSE finished[m]
    BY <1>4 DEF Complete, TypeInv, TypeOK
  <2>3. Unclaimed(rows[o], s).state = s
    BY <1>1, <1>2 DEF Ended
  <2> QED
    BY <1>1, <1>3, <2>1, <2>2, <2>3 DEF Moved, Completed, SameEnd
<1>5. CASE Fail(o, t)
  <2> DEFINE r == [Unclaimed(rows[o], "ready") EXCEPT !.due = now + Wait(rows[o].attempts)]
  <2>1. r.state = "ready" /\ finished' = finished
    BY <1>1, <1>2, <1>5 DEF Fail, Row
  <2>2. CASE rows[o].attempts > Retries
    <3>1. Change(o, Unclaimed(rows[o], "dead"))
      BY <1>5, <2>2 DEF Fail
    <3> QED
      BY <1>1, <1>2, <1>3, <2>1, <2>2, <3>1 DEF Moved, Died, SameEnd
  <2>3. CASE ~ (rows[o].attempts > Retries)
    <3>1. Change(o, Unclaimed(rows[o], "done")) \/ Change(o, r)
      BY <1>5, <2>3 DEF Fail
    <3> HIDE DEF r
    <3> QED
      BY <1>1, <1>2, <1>3, <2>1, <3>1 DEF Moved, Passed, SameEnd
  <2> QED
    BY <2>2, <2>3
<1>6. CASE Extend(o, t)
  <2> DEFINE r == [rows[o] EXCEPT !.expires = now + Lease, !.updated = now]
  <2>1. r.state = "claimed" /\ finished' = finished /\ Change(o, r)
    BY <1>1, <1>6, RowType DEF Extend, Row
  <2> HIDE DEF r
  <2> QED
    BY <1>1, <1>3, <2>1 DEF Moved, Claimed, SameEnd
<1>7. CASE Release(o, t)
  <2>1. PICK s \in {"ready", "done"} :
          Change(o, [Unclaimed(rows[o], s) EXCEPT !.attempts = IF @ = 0 THEN 0 ELSE @ - 1])
    BY <1>7 DEF Release
  <2> DEFINE u == Unclaimed(rows[o], s)
             r == [u EXCEPT !.attempts = IF @ = 0 THEN 0 ELSE @ - 1]
  <2>2. u \in Row /\ u.state = s
    BY <1>1, <1>2
  <2> HIDE DEF u
  <2>3. r.state = s /\ finished' = finished
    BY <1>7, <2>2 DEF Release, Row
  <2>4. Change(o, r)
    BY <2>1 DEF u
  <2> HIDE DEF r
  <2> QED
    BY <1>1, <1>3, <2>3, <2>4 DEF Moved, Passed, SameEnd
<1> QED
  BY <1>4, <1>5, <1>6, <1>7

LEMMA SweepMoves ==
  ASSUME TypeInv, NEW S \in SUBSET Ids, Prune(S) \/ RetryDead(S) \/ DropDead(S),
         NEW m \in Ids
  PROVE  Moved(m)
<1>1. SameEnd(m)
  BY DEF Prune, RetryDead, DropDead, SameEnd
<1>2. CASE Prune(S) \/ DropDead(S)
  <2>1. /\ \A o \in S : rows[o].state \in {"done", "dead"}
        /\ rows'[m] = IF m \in S THEN [rows[m] EXCEPT !.state = "gone"] ELSE rows[m]
    BY <1>2 DEF Prune, DropDead, Prunable, InState
  <2>2. [rows[m] EXCEPT !.state = "gone"].state = "gone"
    BY RowType DEF Row
  <2> QED
    BY <1>1, <2>1, <2>2 DEF Moved, Passed
<1>3. CASE RetryDead(S)
  <2> DEFINE u == Unclaimed(rows[m], "ready")
             r == [u EXCEPT !.attempts = 0, !.due = now]
  <2>1. u \in Row /\ u.state = "ready"
    BY UnclaimedType, RowType DEF States
  <2>2. Retryable(S) \subseteq S /\ \A o \in S : rows[o].state = "dead"
    BY <1>3 DEF RetryDead, Retryable, InState
  <2>3. rows'[m] = IF m \in Retryable(S) THEN r ELSE rows[m]
    BY <1>3 DEF RetryDead, MakeReady
  <2> HIDE DEF u
  <2>4. r.state = "ready"
    BY <2>1 DEF Row
  <2> HIDE DEF r
  <2> QED
    BY <1>1, <2>2, <2>3, <2>4 DEF Moved, Passed
<1> QED
  BY <1>2, <1>3

(* Every step moves each message along its life, or leaves it. *)
LEMMA NextMoves ==
  ASSUME TypeInv, [Next]_vars, NEW m \in Ids
  PROVE  Moved(m)
<1>1. CASE Tick \/ UNCHANGED vars
  BY <1>1 DEF Tick, vars, Moved, SameEnd
<1>2. ASSUME NEW o \in Ids, Enqueue(o) \/ EnqueueReplaces(o) PROVE Moved(m)
  BY <1>2, EnqueueMoves
<1>3. ASSUME NEW c \in Clients, Expire(c) PROVE Moved(m)
  BY <1>3, ExpireMoves
<1>4. ASSUME NEW c \in Clients,
             \/ ReadDue(c) \/ ClaimTakes(c) \/ GiveUp(c)
             \/ \E n \in 1..Batch : ClaimSQLite(c, n) \/ ClaimReads(c, n)
      PROVE  Moved(m)
  BY <1>4, ClaimMoves, QueueAssumption
<1>5. ASSUME NEW o \in Ids, NEW t \in given[o],
             Complete(o, t) \/ Fail(o, t) \/ Extend(o, t) \/ Release(o, t)
      PROVE  Moved(m)
  BY <1>5, CallMoves
<1>6. ASSUME NEW S \in SUBSET Ids, Prune(S) \/ RetryDead(S) \/ DropDead(S)
      PROVE  Moved(m)
  BY <1>6, SweepMoves
<1> QED
  BY <1>1, <1>2, <1>3, <1>4, <1>5, <1>6 DEF Next

-----------------------------------------------------------------------------
LEMMA NextFinished == TypeInv /\ FinishedByHolder /\ [Next]_vars => FinishedByHolder'
<1> SUFFICES ASSUME TypeInv, FinishedByHolder, [Next]_vars, NEW m \in Ids,
                    finished'[m] # NoToken
             PROVE  finished'[m] = last'[m] /\ rows'[m].state \in Ended
  BY DEF FinishedByHolder, Ended
<1>1. Moved(m)
  BY NextMoves
<1>2. CASE Completed(m)
  BY <1>2 DEF Completed
<1>3. CASE ~ Completed(m)
  <2>1. finished'[m] = finished[m]
    BY <1>1, <1>3 DEF Moved, SameEnd, Claimed, Died, Passed
  <2>2. finished[m] = last[m] /\ rows[m].state \in Ended
    BY <2>1 DEF FinishedByHolder, Ended
  <2> QED
    BY <1>1, <1>3, <2>2 DEF Moved, SameEnd, Claimed, Died, Passed, Ended
<1> QED
  BY <1>2, <1>3

(* A message that a handler completed was completed under its last claim and  *)
(* never comes back: the claim_token that update's WHERE asks for.            *)
THEOREM FinishesOnce == Spec => []FinishedByHolder
<1>1. Init => FinishedByHolder
  BY DEF Init, FinishedByHolder
<1> QED
  BY <1>1, InitTypeInv, NextTypeInv, NextFinished, PTL DEF Spec

LEMMA NextDead == TypeInv /\ DeadSpentItsRetries /\ [Next]_vars => DeadSpentItsRetries'
<1> SUFFICES ASSUME TypeInv, DeadSpentItsRetries, [Next]_vars, NEW m \in Ids,
                    rows'[m].state = "dead"
             PROVE  rows'[m].attempts > Retries
  BY DEF DeadSpentItsRetries, InState
<1>1. Moved(m)
  BY NextMoves
<1>2. CASE Died(m)
  BY <1>2 DEF Died
<1>3. CASE rows'[m] = rows[m]
  BY <1>3 DEF DeadSpentItsRetries, InState
<1> QED
  BY <1>1, <1>2, <1>3 DEF Moved, Claimed, Completed, Passed, Ended

(* No message dies while it has retries left: neither a failure nor an        *)
(* expired claim gives one up early, whatever releases came between.          *)
THEOREM DiesOfRetries == Spec => []DeadSpentItsRetries
<1>1. Init => DeadSpentItsRetries
  BY DEF Init, DeadSpentItsRetries, InState
<1> QED
  BY <1>1, InitTypeInv, NextTypeInv, NextDead, PTL DEF Spec
-----------------------------------------------------------------------------
(***************************************************************************)
(* What a keyed queue keeps: one claim per key, one ready message per key,   *)
(* and a line in the order written.                                         *)
(***************************************************************************)

(* One claim per key. *)

(* Only a claim's update makes a row claimed. *)
LEMMA ClaimedByTake ==
  ASSUME TypeInv, [Next]_vars,
         ~ \E c \in Clients : ClaimTakes(c) \/ \E n \in 1..Batch : ClaimSQLite(c, n),
         NEW m \in Ids, rows'[m].state = "claimed"
  PROVE  rows[m].state = "claimed"
<1>1. TypeInv'
  BY NextTypeInv
<1>2. SUFFICES ASSUME rows[m].state # "claimed" PROVE FALSE
  OBVIOUS
<1>3. CASE Tick \/ UNCHANGED vars
  BY <1>2, <1>3 DEF Tick, vars
<1>4. ASSUME NEW o \in Ids, Enqueue(o) \/ EnqueueReplaces(o) PROVE FALSE
  <2>1. Written(rows[o]).state = "ready" /\ Rewritten(rows[o]).state = rows[o].state
    BY WrittenType, RowType DEF TypeInv, TypeOK
  <2> QED
    BY <1>2, <1>4, <2>1, RowType DEF Enqueue, EnqueueReplaces, TypeInv, TypeOK
<1>5. ASSUME NEW c \in Clients, ReadDue(c) \/ Expire(c) \/ GiveUp(c) PROVE FALSE
  <2>1. Unclaimed(rows[m], "dead").state = "dead"
    BY UnclaimedType, RowType DEF States
  <2> QED
    BY <1>2, <1>5, <2>1 DEF ReadDue, Expire, GiveUp
<1>6. ASSUME NEW c \in Clients, NEW n \in 1..Batch, ClaimReads(c, n) PROVE FALSE
  BY <1>2, <1>6 DEF ClaimReads
<1>7. ASSUME NEW o \in Ids, NEW t \in given[o],
             Complete(o, t) \/ Fail(o, t) \/ Extend(o, t) \/ Release(o, t)
      PROVE  FALSE
  <2>1. rows[o].state = "claimed" /\ \E r : rows' = [rows EXCEPT ![o] = r]
    BY <1>7 DEF Complete, Fail, Extend, Release, Holds, Change
  <2> QED
    BY <1>2, <2>1 DEF TypeInv, TypeOK
<1>8. ASSUME NEW S \in SUBSET Ids, Prune(S) \/ RetryDead(S) \/ DropDead(S)
      PROVE  FALSE
  <2>1. rows'[m] # rows[m] => rows'[m].state \in {"gone", "ready"}
    <3>1. [rows[m] EXCEPT !.state = "gone"].state = "gone"
      BY RowType DEF Row
    <3>2. [Unclaimed(rows[m], "ready") EXCEPT !.attempts = 0, !.due = now].state = "ready"
      <4>1. Unclaimed(rows[m], "ready") \in Row /\ Unclaimed(rows[m], "ready").state = "ready"
        BY UnclaimedType, RowType DEF States
      <4> QED
        BY <4>1 DEF Row
    <3> QED
      BY <1>8, <3>1, <3>2 DEF Prune, RetryDead, DropDead, MakeReady
  <2> QED
    BY <1>2, <2>1
<1> QED
  BY <1>3, <1>4, <1>5, <1>6, <1>7, <1>8 DEF Next

(* The order a claim takes messages in is total. *)
LEMMA LineTotal ==
  ASSUME TypeInv, NEW m \in Ids, NEW o \in Ids, m # o
  PROVE  LineBefore(m, o) \/ LineBefore(o, m)
  BY RowType, QueueAssumption DEF LineBefore, Before

(* Of one key, the heads due at one time are one message; with a claim of    *)
(* the key, none but its own.                                                *)
LEMMA OneHead ==
  ASSUME TypeInv, Serialize, NEW m \in Claimable, NEW o \in Ids, m # o, SameKey(m, o),
         o \in Claimable \/ rows[o].state = "claimed"
  PROVE  FALSE
<1>1. Head(m) /\ DueAt(m, now) /\ m \in Ids
  BY DEF Claimable
<1>2. rows[o].state # "claimed"
  BY <1>1 DEF Head
<1>3. Head(o) /\ DueAt(o, now)
  BY <1>2 DEF Claimable
<1>4. rows[m].state # "claimed"
  BY <1>1, <1>3 DEF Head, SameKey
<1>5. rows[m].state = "ready" /\ rows[o].state = "ready"
  BY <1>1, <1>2, <1>3, <1>4 DEF DueAt
<1>6. ~ LineBefore(o, m) /\ ~ LineBefore(m, o)
  BY <1>1, <1>3, <1>5 DEF Head, SameKey
<1> QED
  BY <1>1, <1>6, LineTotal

(* The rows a claim took are claimed, and it changed no other.               *)
LEMMA TakenStates ==
  ASSUME TypeInv, NEW S \in SUBSET Ids, NEW at \in Nat, TakeRows(S, at), NEW m \in Ids
  PROVE  /\ m \in S => rows'[m].state = "claimed" /\ rows'[m].created = rows[m].created
         /\ m \notin S => rows'[m] = rows[m]
<1>1. PICK f \in [S -> Tokens \ Issued] :
    rows' = [o \in Ids |-> IF o \in S THEN Taken(rows[o], f[o], at) ELSE rows[o]]
  BY DEF TakeRows
<1> QED
  BY <1>1, TakenType, RowType

LEMMA ClaimKeepsOne ==
  ASSUME TypeInv, OneClaimPerKey, NEW S \in SUBSET Ids, NEW at \in Nat, TakeRows(S, at),
         Serialize =>
           \A m \in S, o \in S \cup InState("claimed") : o # m => ~ SameKey(m, o)
  PROVE  OneClaimPerKey'
<1> SUFFICES ASSUME Serialize, NEW m \in Ids, NEW o \in Ids, SameKey(m, o), m # o,
                    rows'[m].state = "claimed", rows'[o].state = "claimed"
             PROVE  FALSE
  BY DEF OneClaimPerKey, InState, SameKey
<1>1. \A x \in {m, o} : x \in S \cup InState("claimed")
  BY TakenStates DEF InState
<1>2. m \notin S /\ o \notin S
  BY <1>1 DEF SameKey
<1> QED
  BY <1>1, <1>2 DEF OneClaimPerKey

LEMMA NextOneClaim == TypeInv /\ OneClaimPerKey /\ [Next]_vars => OneClaimPerKey'
<1> SUFFICES ASSUME TypeInv, OneClaimPerKey, [Next]_vars PROVE OneClaimPerKey'
  OBVIOUS
<1>1. ASSUME NEW c \in Clients, NEW n \in 1..Batch, ClaimSQLite(c, n)
      PROVE  OneClaimPerKey'
  <2>1. TakeRows(FirstDue(n), now) /\ FirstDue(n) \subseteq Claimable /\ Claimable \subseteq Ids
        /\ now \in Nat
    BY <1>1 DEF ClaimSQLite, FirstDue, Claimable, TypeInv, TypeOK
  <2>2. Serialize => \A m \in FirstDue(n), o \in FirstDue(n) \cup InState("claimed") :
                       o # m => ~ SameKey(m, o)
    BY <2>1, OneHead DEF InState
  <2> QED
    BY <2>1, <2>2, ClaimKeepsOne
<1>2. ASSUME NEW c \in Clients, ClaimTakes(c) PROVE OneClaimPerKey'
  <2>1. PICK S \in SUBSET {m \in picked[c].ids : DueAt(m, picked[c].at)} :
          IF KeyHeld(S) THEN UNCHANGED <<rows, given, last>>
                        ELSE TakeRows(S, picked[c].at)
    BY <1>2 DEF ClaimTakes
  <2>2. S \in SUBSET Ids /\ picked[c].at \in Nat
    BY <2>1 DEF TypeInv, TypeOK
  <2>3. CASE KeyHeld(S)
    BY <2>1, <2>3 DEF OneClaimPerKey, InState, SameKey
  <2>4. CASE ~ KeyHeld(S)
    BY <2>1, <2>2, <2>4, ClaimKeepsOne DEF KeyHeld
  <2> QED
    BY <2>3, <2>4
<1>3. CASE ~ \E c \in Clients : ClaimTakes(c) \/ \E n \in 1..Batch : ClaimSQLite(c, n)
  <2>1. \A m \in Ids : rows'[m].state = "claimed" => rows[m].state = "claimed"
    BY <1>3, ClaimedByTake
  <2> QED
    BY <2>1 DEF OneClaimPerKey, InState, SameKey
<1> QED
  BY <1>1, <1>2, <1>3

(* On SQLite the head of each key's line, on Postgres the index of claimed   *)
(* messages by key, keeps one claim per key: PostgresQueueStatements' and    *)
(* SQLiteQueueStatements' claim of a queue that serializes.                   *)
THEOREM ClaimsSerialized == Spec => []OneClaimPerKey
<1>1. Init => OneClaimPerKey
  BY DEF Init, OneClaimPerKey, InState
<1> QED
  BY <1>1, InitTypeInv, NextTypeInv, NextOneClaim, PTL DEF Spec

-----------------------------------------------------------------------------
(* One ready message per key. *)

(* A step that makes at most the messages of S ready, each alone in its key. *)
LEMMA ReadyKeepsOne ==
  ASSUME OneReadyPerKey, NEW S \in SUBSET Ids,
         \A m \in Ids \ S : rows'[m].state = "ready" => rows[m].state = "ready",
         Dedupes => \A m \in S : ~ Pending(m) /\ \A o \in S \ {m} : ~ SameKey(m, o)
  PROVE  OneReadyPerKey'
<1> SUFFICES ASSUME Dedupes, NEW m \in Ids, NEW o \in Ids, SameKey(m, o), m # o,
                    rows'[m].state = "ready", rows'[o].state = "ready"
             PROVE  FALSE
  BY DEF OneReadyPerKey, InState, SameKey, Dedupes
<1>1. CASE m \in S \/ o \in S
  BY <1>1 DEF Pending, InState, SameKey
<1>2. CASE m \notin S /\ o \notin S
  BY <1>2 DEF OneReadyPerKey, InState
<1> QED
  BY <1>1, <1>2

LEMMA CallReady ==
  ASSUME TypeInv, NEW m \in Ids, NEW t \in given[m],
         Complete(m, t) \/ Fail(m, t) \/ Extend(m, t) \/ Release(m, t)
  PROVE  /\ \A o \in Ids \ {m} : rows'[o] = rows[o]
         /\ rows'[m].state = "ready" => ~ GivesWay(m)
<1>1. PICK r : rows' = [rows EXCEPT ![m] = r]
  BY DEF Complete, Fail, Extend, Release, Change
<1>2. rows'[m] = r /\ \A o \in Ids \ {m} : rows'[o] = rows[o]
  BY <1>1 DEF TypeInv, TypeOK
<1>3. \A s \in States : Unclaimed(rows[m], s) \in Row /\ Unclaimed(rows[m], s).state = s
  BY UnclaimedType, RowType
<1>4. {"ready", "done", "dead", "gone"} \subseteq States
  BY DEF States
<1>5. CASE Complete(m, t)
  <2>1. rows'[m].state \in {"done", "gone"}
    BY <1>2, <1>3, <1>4, <1>5 DEF Complete, Change, TypeInv, TypeOK
  <2> QED
    BY <1>2, <2>1
<1>6. CASE Fail(m, t)
  <2>1. CASE rows[m].attempts > Retries \/ GivesWay(m)
    <3>1. rows'[m].state \in {"dead", "done"}
      BY <1>3, <1>4, <1>6, <2>1 DEF Fail, Change, TypeInv, TypeOK
    <3> QED
      BY <1>2, <3>1
  <2> QED
    BY <1>2, <2>1
<1>7. CASE Extend(m, t)
  <2>1. [rows[m] EXCEPT !.expires = now + Lease, !.updated = now].state = rows[m].state
    BY RowType DEF Row
  <2>2. rows'[m].state = "claimed"
    BY <1>7, <2>1 DEF Extend, Change, Holds, TypeInv, TypeOK
  <2> QED
    BY <1>2, <2>2
<1>8. CASE Release(m, t)
  <2>1. CASE GivesWay(m)
    <3> DEFINE u == Unclaimed(rows[m], "done")
    <3>1. u \in Row /\ u.state = "done"
      BY <1>3, <1>4
    <3>2. rows' = [rows EXCEPT ![m] = [u EXCEPT !.attempts = IF @ = 0 THEN 0 ELSE @ - 1]]
      BY <1>8, <2>1 DEF Release, Change
    <3> HIDE DEF u
    <3>3. rows'[m].state = "done"
      BY <3>1, <3>2 DEF TypeInv, TypeOK, Row
    <3> QED
      BY <1>2, <3>3
  <2> QED
    BY <1>2, <2>1
<1> QED
  BY <1>5, <1>6, <1>7, <1>8

(* Of two dead messages of one key, one died before the other.               *)
LEMMA DeathsOrdered ==
  ASSUME TypeInv, NEW S \in SUBSET Ids, Dedupes,
         NEW m \in Retryable(S), NEW o \in Retryable(S), m # o
  PROVE  ~ SameKey(m, o)
<1> SUFFICES ASSUME SameKey(m, o) PROVE FALSE
  OBVIOUS
<1>1. DiedBefore(o, m) /\ DiedBefore(m, o)
  BY DEF Retryable, SameKey
<1>2. rows[m].updated \in Nat /\ rows[o].updated \in Nat /\ m \in Nat /\ o \in Nat
  BY QueueAssumption DEF Retryable, TypeInv, TypeOK, Row
<1> QED
  BY <1>1, <1>2 DEF DiedBefore, Before

LEMMA NextOneReady == TypeInv /\ OneReadyPerKey /\ [Next]_vars => OneReadyPerKey'
<1> SUFFICES ASSUME TypeInv, OneReadyPerKey, [Next]_vars PROVE OneReadyPerKey'
  OBVIOUS
<1>1. CASE \A m \in Ids : rows'[m].state = "ready" => rows[m].state = "ready"
  BY <1>1 DEF OneReadyPerKey, InState, SameKey, Dedupes
<1>2. CASE Tick \/ UNCHANGED vars
  BY <1>1, <1>2 DEF Tick, vars
<1>3. ASSUME NEW m \in Ids, Enqueue(m) PROVE OneReadyPerKey'
  <2>1. \A o \in Ids \ {m} : rows'[o] = rows[o]
    BY <1>3 DEF Enqueue, TypeInv, TypeOK
  <2>2. Dedupes => ~ Pending(m)
    BY <1>3 DEF Enqueue
  <2> QED
    BY <2>1, <2>2, ReadyKeepsOne, {m} \in SUBSET Ids
<1>4. ASSUME NEW m \in Ids, EnqueueReplaces(m) PROVE OneReadyPerKey'
  BY <1>1, <1>4 DEF EnqueueReplaces, TypeInv, TypeOK
<1>5. ASSUME NEW c \in Clients, Expire(c) PROVE OneReadyPerKey'
  <2>1. \A m \in Ids : Unclaimed(rows[m], "dead").state = "dead"
    BY UnclaimedType, RowType DEF States
  <2> QED
    BY <1>1, <1>5, <2>1 DEF Expire
<1>6. ASSUME NEW c \in Clients, NEW n \in 1..Batch, ClaimReads(c, n)
      PROVE  OneReadyPerKey'
  BY <1>1, <1>6 DEF ClaimReads
<1>7. ASSUME NEW S \in SUBSET Ids, NEW at \in Nat, TakeRows(S, at)
      PROVE  OneReadyPerKey'
  BY <1>1, <1>7, TakenStates
<1>8. ASSUME NEW c \in Clients, NEW n \in 1..Batch, ClaimSQLite(c, n)
      PROVE  OneReadyPerKey'
  <2>1. TakeRows(FirstDue(n), now) /\ FirstDue(n) \in SUBSET Ids /\ now \in Nat
    BY <1>8 DEF ClaimSQLite, FirstDue, Claimable, TypeInv, TypeOK
  <2> QED
    BY <1>7, <2>1
<1>9. ASSUME NEW c \in Clients, ClaimTakes(c) PROVE OneReadyPerKey'
  <2>1. PICK S \in SUBSET {m \in picked[c].ids : DueAt(m, picked[c].at)} :
          IF KeyHeld(S) THEN UNCHANGED <<rows, given, last>>
                        ELSE TakeRows(S, picked[c].at)
    BY <1>9 DEF ClaimTakes
  <2>2. S \in SUBSET Ids /\ picked[c].at \in Nat
    BY <2>1 DEF TypeInv, TypeOK
  <2> QED
    BY <1>1, <1>7, <2>1, <2>2
<1>10. ASSUME NEW m \in Ids, NEW t \in given[m],
              Complete(m, t) \/ Fail(m, t) \/ Extend(m, t) \/ Release(m, t)
       PROVE  OneReadyPerKey'
  <2>1. CASE rows'[m].state = "ready"
    <3>1. Dedupes => ~ Pending(m)
      BY <1>10, <2>1, CallReady DEF GivesWay
    <3> QED
      BY <1>10, <3>1, CallReady, ReadyKeepsOne, {m} \in SUBSET Ids
  <2>2. CASE rows'[m].state # "ready"
    BY <1>1, <1>10, <2>2, CallReady
  <2> QED
    BY <2>1, <2>2
<1>11. ASSUME NEW S \in SUBSET Ids, Prune(S) \/ DropDead(S) PROVE OneReadyPerKey'
  <2>1. \A m \in Ids : [rows[m] EXCEPT !.state = "gone"].state = "gone"
    BY RowType DEF Row
  <2> QED
    BY <1>1, <1>11, <2>1 DEF Prune, DropDead
<1>12. ASSUME NEW S \in SUBSET Ids, RetryDead(S) PROVE OneReadyPerKey'
  <2>1. PICK R \in SUBSET Ids : R = Retryable(S)
    BY DEF Retryable
  <2>2. \A m \in Ids \ R : rows'[m] = rows[m]
    BY <1>12, <2>1 DEF RetryDead, MakeReady
  <2>3. Dedupes => \A m \in R : ~ Pending(m)
    BY <2>1 DEF Retryable
  <2>4. Dedupes => \A m \in R : \A o \in R \ {m} : ~ SameKey(m, o)
    BY <2>1, DeathsOrdered
  <2>5. \A m \in Ids \ R : rows'[m].state = "ready" => rows[m].state = "ready"
    BY <2>2
  <2>6. Dedupes => \A m \in R : ~ Pending(m) /\ \A o \in R \ {m} : ~ SameKey(m, o)
    BY <2>3, <2>4
  <2> QED
    BY <2>5, <2>6, ReadyKeepsOne
<1>13. CASE Next
  <2>1. CASE \E m \in Ids : Enqueue(m) \/ EnqueueReplaces(m)
    BY <1>3, <1>4, <2>1
  <2>2. CASE \E c \in Clients : \/ ReadDue(c) \/ Expire(c) \/ ClaimTakes(c) \/ GiveUp(c)
                               \/ \E n \in 1..Batch : ClaimSQLite(c, n) \/ ClaimReads(c, n)
    <3>1. \A c \in Clients : ~ (ReadDue(c) \/ GiveUp(c)) \/ OneReadyPerKey'
      BY <1>1 DEF ReadDue, GiveUp
    <3> QED
      BY <1>5, <1>6, <1>8, <1>9, <2>2, <3>1
  <2>3. CASE \E m \in Ids : \E t \in given[m] :
               Complete(m, t) \/ Fail(m, t) \/ Extend(m, t) \/ Release(m, t)
    BY <1>10, <2>3
  <2>4. CASE \E S \in SUBSET Ids : Prune(S) \/ RetryDead(S) \/ DropDead(S)
    BY <1>11, <1>12, <2>4
  <2> QED
    BY <1>2, <1>13, <2>1, <2>2, <2>3, <2>4 DEF Next
<1> QED
  BY <1>2, <1>13

(* Enqueue's conflict clause, fail's and release's giving way and an         *)
(* operator's retry together keep one ready message per key on a queue that   *)
(* dedupes; no step needs the index of ready messages by key.                *)
THEOREM ReadyDeduped == Spec => []OneReadyPerKey
<1>1. Init => OneReadyPerKey
  BY DEF Init, OneReadyPerKey, InState
<1> QED
  BY <1>1, InitTypeInv, NextTypeInv, NextOneReady, PTL DEF Spec

-----------------------------------------------------------------------------
(* A key's line. *)

Live(m) == rows[m].state \in {"ready", "claimed"}

(* No live message of m's key was written before m. *)
Front(m) == \A o \in Ids : SameKey(m, o) /\ Live(o) => rows[m].created <= rows[o].created

(* A claimed message is the front of its line, and so is one a claim's        *)
(* subquery read, as long as it lives: nothing enters the line ahead of it.   *)
Line ==
  /\ \A m \in Ids : Live(m) => rows[m].created <= now
  /\ \A m \in InState("claimed") : Front(m)
  /\ \A c \in Clients : \A m \in picked[c].ids :
       rows[m].state # "absent" /\ (Live(m) => Front(m))

InLine == Serialize /\ InOrder /\ ~ Operated => Line

(* A message enters the line only as it is written. *)
LEMMA LineStep ==
  ASSUME TypeInv, ~ Operated, [Next]_vars, NEW m \in Ids, rows'[m].state \in {"ready", "claimed"}
  PROVE  \/ Live(m) /\ rows'[m].created = rows[m].created
         \/ rows[m].state = "absent" /\ rows'[m].created = now
<1> DEFINE Goal == \/ Live(m) /\ rows'[m].created = rows[m].created
                   \/ rows[m].state = "absent" /\ rows'[m].created = now
<1>1. CASE UNCHANGED rows
  BY <1>1 DEF Live
<1>2. ASSUME NEW o \in Ids, Enqueue(o) \/ EnqueueReplaces(o) PROVE Goal
  <2>1. Written(rows[o]).created = now /\ Rewritten(rows[o]).created = rows[o].created
    BY WrittenType, RowType DEF TypeInv, TypeOK
  <2> QED
    BY <1>2, <2>1 DEF Enqueue, EnqueueReplaces, Live, TypeInv, TypeOK
<1>3. ASSUME NEW c \in Clients, Expire(c) PROVE Goal
  <2>1. Unclaimed(rows[m], "dead").state = "dead"
    BY UnclaimedType, RowType DEF States
  <2> QED
    BY <1>3, <2>1 DEF Expire, Live
<1>4. ASSUME NEW S \in SUBSET Ids, NEW at \in Nat, TakeRows(S, at),
             \A o \in S : Live(o)
      PROVE  Goal
  BY <1>4, TakenStates DEF Live
<1>5. ASSUME NEW c \in Clients, NEW n \in 1..Batch, ClaimSQLite(c, n) PROVE Goal
  <2>1. /\ TakeRows(FirstDue(n), now) /\ now \in Nat /\ FirstDue(n) \in SUBSET Ids
        /\ \A o \in FirstDue(n) : Live(o)
    BY <1>5 DEF ClaimSQLite, FirstDue, Claimable, DueAt, Live, TypeInv, TypeOK
  <2> QED
    BY <2>1, <1>4
<1>6. ASSUME NEW c \in Clients, ClaimTakes(c) PROVE Goal
  <2>1. PICK S \in SUBSET {o \in picked[c].ids : DueAt(o, picked[c].at)} :
          IF KeyHeld(S) THEN UNCHANGED <<rows, given, last>>
                        ELSE TakeRows(S, picked[c].at)
    BY <1>6 DEF ClaimTakes
  <2>2. /\ S \in SUBSET Ids /\ picked[c].at \in Nat
        /\ \A o \in S : Live(o)
    BY <2>1 DEF DueAt, Live, TypeInv, TypeOK
  <2> QED
    BY <1>1, <1>4, <2>1, <2>2
<1>7. ASSUME NEW o \in Ids, NEW t \in given[o],
             Complete(o, t) \/ Fail(o, t) \/ Extend(o, t) \/ Release(o, t)
      PROVE  Goal
  <2>1. /\ rows[o].state = "claimed"
        /\ \A s \in States : /\ Unclaimed(rows[o], s) \in Row
                             /\ Unclaimed(rows[o], s).created = rows[o].created
    BY <1>7, UnclaimedType, RowType DEF Complete, Fail, Extend, Release, Holds
  <2>2. {"ready", "done", "dead", "gone"} \subseteq States
    BY DEF States
  <2>3. \A r : Change(o, r) /\ r.created = rows[o].created => Goal
    BY <2>1 DEF Change, Live, TypeInv, TypeOK
  <2>4. CASE Complete(o, t)
    BY <2>1, <2>2, <2>3, <2>4 DEF Complete
  <2>5. CASE Extend(o, t)
    <3> DEFINE r == [rows[o] EXCEPT !.expires = now + Lease, !.updated = now]
    <3>1. r.created = rows[o].created /\ Change(o, r)
      BY <2>5, RowType DEF Extend, Row
    <3> HIDE DEF r
    <3> QED
      BY <2>3, <3>1
  <2>6. CASE Fail(o, t)
    <3> DEFINE u == Unclaimed(rows[o], "ready")
               r == [u EXCEPT !.due = now + Wait(rows[o].attempts)]
    <3>1. \/ \E s \in {"dead", "done"} : Change(o, Unclaimed(rows[o], s))
          \/ Change(o, r)
      BY <2>6 DEF Fail
    <3>2. u \in Row /\ u.created = rows[o].created
      BY <2>1, <2>2
    <3> HIDE DEF u
    <3>3. r.created = rows[o].created
      BY <3>2 DEF Row
    <3> HIDE DEF r
    <3> QED
      BY <2>1, <2>2, <2>3, <3>1, <3>3
  <2>7. CASE Release(o, t)
    <3>1. PICK s \in {"ready", "done"} :
            Change(o, [Unclaimed(rows[o], s) EXCEPT !.attempts = IF @ = 0 THEN 0 ELSE @ - 1])
      BY <2>7 DEF Release
    <3> DEFINE u == Unclaimed(rows[o], s)
               r == [u EXCEPT !.attempts = IF @ = 0 THEN 0 ELSE @ - 1]
    <3>2. u \in Row /\ u.created = rows[o].created
      BY <2>1, <2>2
    <3>3. Change(o, r)
      BY <3>1
    <3> HIDE DEF u
    <3>4. r.created = rows[o].created
      BY <3>2 DEF Row
    <3> HIDE DEF r
    <3> QED
      BY <2>3, <3>3, <3>4
  <2> QED
    BY <1>7, <2>4, <2>5, <2>6, <2>7
<1>8. ASSUME NEW S \in SUBSET Ids, Prune(S) \/ RetryDead(S) \/ DropDead(S) PROVE Goal
  <2>1. [rows[m] EXCEPT !.state = "gone"].state = "gone"
    BY RowType DEF Row
  <2> QED
    BY <1>8, <2>1 DEF Prune, RetryDead, DropDead, Live
<1> QED
  BY <1>1, <1>2, <1>3, <1>5, <1>6, <1>7, <1>8 DEF Next, Tick, ReadDue, ClaimReads, GiveUp, vars

LEMMA FrontKept ==
  ASSUME TypeInv, ~ Operated, [Next]_vars, Line, NEW m \in Ids, Live(m), Front(m), Live(m)'
  PROVE  Front(m)'
<1>1. rows'[m].created = rows[m].created /\ rows[m].created <= now
  BY LineStep DEF Live, Line
<1>2. ASSUME NEW o \in Ids, SameKey(m, o), Live(o)' PROVE rows[m].created <= rows'[o].created
  BY <1>1, <1>2, LineStep DEF Live, Front
<1> QED
  BY <1>1, <1>2 DEF Front, SameKey

(* What a claim may take, by its read of the table, is the front of its line. *)
LEMMA ClaimableFront ==
  ASSUME TypeInv, Serialize, InOrder, Line, NEW m \in Claimable
  PROVE  m \in Ids /\ Live(m) /\ Front(m)
<1>1. m \in Ids /\ DueAt(m, now) /\ Head(m)
  BY DEF Claimable
<1>2. CASE rows[m].state = "claimed"
  BY <1>1, <1>2 DEF Line, InState, Live
<1>3. CASE rows[m].state = "ready"
  <2>1. ASSUME NEW o \in Ids, SameKey(m, o), Live(o), o # m
        PROVE  rows[m].created <= rows[o].created
    BY <1>1, <1>3, <2>1, RowType DEF Head, LineBefore, Before, Live
  <2>2. rows[m].created <= rows[m].created
    BY <1>1, RowType
  <2> QED
    BY <1>1, <1>3, <2>1, <2>2 DEF Front, Live
<1> QED
  BY <1>1, <1>2, <1>3 DEF DueAt

(* What a subquery has read grows only as it reads. *)
LEMMA PickedStep ==
  ASSUME TypeInv, [Next]_vars, NEW c \in Clients, NEW m \in picked'[c].ids
  PROVE  m \in picked[c].ids \/ m \in Claimable
<1>1. CASE UNCHANGED picked
  BY <1>1
<1>2. ASSUME NEW d \in Clients, ClaimTakes(d) \/ GiveUp(d) PROVE m \in picked[c].ids
  <2>1. picked' = [picked EXCEPT ![d] = NoPick]
    BY <1>2 DEF ClaimTakes, GiveUp
  <2> QED
    BY <2>1 DEF NoPick, TypeInv, TypeOK
<1>3. ASSUME NEW d \in Clients, NEW n \in 1..Batch, ClaimReads(d, n)
      PROVE  m \in picked[c].ids \/ m \in Claimable
  <2>1. /\ picked' = [picked EXCEPT ![d] = [ids |-> FirstDue(n), at |-> now]]
        /\ FirstDue(n) \subseteq Claimable
    BY <1>3 DEF ClaimReads, FirstDue
  <2> QED
    BY <2>1 DEF TypeInv, TypeOK
<1>4. ASSUME NEW d \in Clients, NEW n \in 1..Batch, ClaimSQLite(d, n)
      PROVE  UNCHANGED picked
  BY <1>4 DEF ClaimSQLite
<1>5. ASSUME NEW o \in Ids, NEW t \in given[o],
             Complete(o, t) \/ Fail(o, t) \/ Extend(o, t) \/ Release(o, t)
      PROVE  UNCHANGED picked
  BY <1>5 DEF Complete, Fail, Extend, Release, Change
<1>6. ASSUME NEW S \in SUBSET Ids, Prune(S) \/ RetryDead(S) \/ DropDead(S)
      PROVE  UNCHANGED picked
  BY <1>6 DEF Prune, RetryDead, DropDead
<1>7. ASSUME NEW d \in Clients, ReadDue(d) \/ Expire(d) PROVE UNCHANGED picked
  BY <1>7 DEF ReadDue, Expire
<1>8. ASSUME NEW o \in Ids, Enqueue(o) \/ EnqueueReplaces(o) PROVE UNCHANGED picked
  BY <1>8 DEF Enqueue, EnqueueReplaces
<1>9. CASE Tick \/ UNCHANGED vars
  BY <1>9 DEF Tick, vars
<1> QED
  BY <1>1, <1>2, <1>3, <1>4, <1>5, <1>6, <1>7, <1>8, <1>9 DEF Next

LEMMA PickedFront ==
  ASSUME TypeInv, Serialize, InOrder, ~ Operated, Line, [Next]_vars,
         NEW c \in Clients, NEW m \in picked'[c].ids
  PROVE  rows'[m].state # "absent" /\ (Live(m)' => Front(m)')
<1>1. m \in Ids /\ rows[m].state # "absent" /\ (Live(m) => Front(m))
  <2>1. CASE m \in picked[c].ids
    BY <2>1 DEF Line, TypeInv, TypeOK
  <2>2. CASE m \in Claimable
    BY <2>2, ClaimableFront DEF Live
  <2> QED
    BY <2>1, <2>2, PickedStep
<1>2. rows'[m].state # "absent"
  BY <1>1, NextMoves DEF Moved, Claimed, Completed, Died, Passed, Ended
<1>3. ASSUME Live(m)' PROVE Front(m)'
  <2>1. Live(m)
    BY <1>1, <1>3, LineStep DEF Live
  <2> QED
    BY <1>1, <1>3, <2>1, FrontKept
<1> QED
  BY <1>2, <1>3

LEMMA ClaimedFront ==
  ASSUME TypeInv, Serialize, InOrder, ~ Operated, Line, [Next]_vars,
         NEW m \in Ids, rows'[m].state = "claimed"
  PROVE  Front(m)'
<1>1. Live(m)'
  BY DEF Live
<1>2. SUFFICES Live(m) /\ Front(m)
  BY <1>1, FrontKept
<1>3. CASE rows[m].state = "claimed"
  BY <1>3 DEF Live, Line, InState
<1>4. CASE rows[m].state # "claimed"
  <2>1. CASE \E c \in Clients : \E n \in 1..Batch : ClaimSQLite(c, n)
    <3>1. PICK c \in Clients, n \in 1..Batch : ClaimSQLite(c, n)
      BY <2>1
    <3>2. TakeRows(FirstDue(n), now) /\ FirstDue(n) \in SUBSET Claimable /\ now \in Nat
          /\ FirstDue(n) \in SUBSET Ids
      BY <3>1 DEF ClaimSQLite, FirstDue, Claimable, TypeInv, TypeOK
    <3>3. m \in FirstDue(n)
      BY <1>4, <3>2, TakenStates
    <3> QED
      BY <3>2, <3>3, ClaimableFront
  <2>2. CASE \E c \in Clients : ClaimTakes(c)
    <3>1. PICK c \in Clients : ClaimTakes(c)
      BY <2>2
    <3>2. PICK S \in SUBSET {o \in picked[c].ids : DueAt(o, picked[c].at)} :
            IF KeyHeld(S) THEN UNCHANGED <<rows, given, last>>
                          ELSE TakeRows(S, picked[c].at)
      BY <3>1 DEF ClaimTakes
    <3>3. S \in SUBSET Ids /\ picked[c].at \in Nat
      BY <3>2 DEF TypeInv, TypeOK
    <3>4. m \in S
      BY <1>4, <3>2, <3>3, TakenStates
    <3> QED
      BY <3>2, <3>4 DEF DueAt, Live, Line
  <2> QED
    BY <1>4, <2>1, <2>2, ClaimedByTake
<1> QED
  BY <1>3, <1>4

LEMMA NextInLine == TypeInv /\ InLine /\ [Next]_vars => InLine'
<1> SUFFICES ASSUME TypeInv, Line, [Next]_vars, Serialize, InOrder, ~ Operated
             PROVE  Line'
  BY DEF InLine
<1>1. now \in Nat /\ now' \in Nat /\ now <= now'
  <2>1. CASE Tick
    BY <2>1 DEF Tick, TypeInv, TypeOK
  <2>2. CASE UNCHANGED now
    BY <2>2 DEF TypeInv, TypeOK
  <2> QED
    BY <2>1, <2>2
       DEF Next, vars, Enqueue, EnqueueReplaces, ReadDue, Expire, ClaimTakes, GiveUp,
           ClaimSQLite, ClaimReads, Complete, Fail, Extend, Release, Change, Prune,
           RetryDead, DropDead
<1>2. ASSUME NEW m \in Ids, Live(m)' PROVE rows'[m].created <= now'
  <2>1. rows[m].created \in Nat /\ (Live(m) => rows[m].created <= now)
    BY RowType DEF Line
  <2> QED
    BY <1>1, <1>2, <2>1, LineStep DEF Live
<1>3. ASSUME NEW m \in InState("claimed")' PROVE Front(m)'
  BY <1>3, ClaimedFront DEF InState
<1>4. ASSUME NEW c \in Clients, NEW m \in picked'[c].ids
      PROVE  rows'[m].state # "absent" /\ (Live(m)' => Front(m)')
  BY <1>4, PickedFront
<1> QED
  BY <1>2, <1>3, <1>4 DEF Line

(* Of a queue in order, a claimed message has no earlier one of its key       *)
(* waiting: queueDue's line by created_at, which a backoff, a release, an     *)
(* expired claim and a subquery's late update leave as it is.                 *)
THEOREM LinesInOrder == Spec => []InOrderLine
<1>1. Init => InLine
  BY QueueAssumption DEF Init, InLine, Line, Live, InState, NoPick
<1>2. InLine => InOrderLine
  BY DEF InLine, Line, InOrderLine, Front, Live, InState
<1> QED
  BY <1>1, <1>2, InitTypeInv, NextTypeInv, NextInLine, PTL DEF Spec
-----------------------------------------------------------------------------
(* What waits behind a claim. *)

(* What a step does to one message's content and place: only an enqueue, which *)
(* touches no other message, writes content, and only a call of its holder,    *)
(* which touches no other either, makes a claimed message ready.               *)
Unwritten(m) ==
  /\ rows'[m].body = rows[m].body /\ writes' \in {writes, writes + 1}
  /\ rows'[m].state = "claimed" => Live(m)
  /\ rows'[m].state = "ready" /\ rows[m].state # "ready" =>
       rows[m].state = "claimed" /\ \A o \in Ids \ {m} : rows'[o] = rows[o]
Stored(m) ==
  /\ rows'[m].body = writes + 1 /\ writes' = writes + 1 /\ rows'[m].state = "ready"
  /\ \A o \in Ids \ {m} : rows'[o] = rows[o]

LEMMA TakenBody ==
  ASSUME TypeInv, NEW S \in SUBSET Ids, NEW at \in Nat, TakeRows(S, at), NEW m \in Ids
  PROVE  rows'[m].body = rows[m].body
<1>1. PICK f \in [S -> Tokens \ Issued] :
    rows' = [o \in Ids |-> IF o \in S THEN Taken(rows[o], f[o], at) ELSE rows[o]]
  BY DEF TakeRows
<1> QED
  BY <1>1, TakenType, RowType

LEMMA CallBody ==
  ASSUME TypeInv, NEW o \in Ids, NEW t \in given[o],
         Complete(o, t) \/ Fail(o, t) \/ Extend(o, t) \/ Release(o, t)
  PROVE  rows'[o].body = rows[o].body /\ writes' = writes /\ rows[o].state = "claimed"
<1>1. /\ rows[o].state = "claimed" /\ rows[o] \in Row
      /\ \A s \in States : Unclaimed(rows[o], s) \in Row /\ Unclaimed(rows[o], s).body = rows[o].body
  BY UnclaimedType, RowType DEF Complete, Fail, Extend, Release, Holds
<1>2. {"ready", "done", "dead", "gone"} \subseteq States
  BY DEF States
<1>3. \A r : Change(o, r) /\ r.body = rows[o].body => rows'[o].body = rows[o].body /\ writes' = writes
  BY DEF Change, TypeInv, TypeOK
<1>4. CASE Complete(o, t)
  BY <1>1, <1>2, <1>3, <1>4 DEF Complete
<1>5. CASE Extend(o, t)
  <2> DEFINE r == [rows[o] EXCEPT !.expires = now + Lease, !.updated = now]
  <2>1. r.body = rows[o].body /\ Change(o, r)
    BY <1>1, <1>5 DEF Extend, Row
  <2> HIDE DEF r
  <2> QED
    BY <1>1, <1>3, <2>1
<1>6. CASE Fail(o, t)
  <2> DEFINE u == Unclaimed(rows[o], "ready")
             r == [u EXCEPT !.due = now + Wait(rows[o].attempts)]
  <2>1. \/ \E s \in {"dead", "done"} : Change(o, Unclaimed(rows[o], s))
        \/ Change(o, r)
    BY <1>6 DEF Fail
  <2>2. u \in Row /\ u.body = rows[o].body
    BY <1>1, <1>2
  <2> HIDE DEF u
  <2>3. r.body = rows[o].body
    BY <2>2 DEF Row
  <2> HIDE DEF r
  <2> QED
    BY <1>1, <1>2, <1>3, <2>1, <2>3
<1>7. CASE Release(o, t)
  <2>1. PICK s \in {"ready", "done"} :
          Change(o, [Unclaimed(rows[o], s) EXCEPT !.attempts = IF @ = 0 THEN 0 ELSE @ - 1])
    BY <1>7 DEF Release
  <2> DEFINE u == Unclaimed(rows[o], s)
             r == [u EXCEPT !.attempts = IF @ = 0 THEN 0 ELSE @ - 1]
  <2>2. u \in Row /\ u.body = rows[o].body
    BY <1>1, <1>2
  <2>3. Change(o, r)
    BY <2>1
  <2> HIDE DEF u
  <2>4. r.body = rows[o].body
    BY <2>2 DEF Row
  <2> HIDE DEF r
  <2> QED
    BY <1>1, <1>3, <2>3, <2>4
<1> QED
  BY <1>4, <1>5, <1>6, <1>7

LEMMA WritingStep ==
  ASSUME TypeInv, ~ Operated, [Next]_vars, NEW m \in Ids
  PROVE  Unwritten(m) \/ Stored(m)
<1> DEFINE Goal == Unwritten(m) \/ Stored(m)
<1>1. CASE UNCHANGED <<rows, writes>>
  BY <1>1 DEF Unwritten, Live
<1>2. ASSUME NEW o \in Ids, Enqueue(o) \/ EnqueueReplaces(o) PROVE Goal
  <2>1. PICK r : rows' = [rows EXCEPT ![o] = r] /\ r \in {Written(rows[o]), Rewritten(rows[o])}
                 /\ (r = Written(rows[o]) \/ rows[o].state = "ready")
    BY <1>2 DEF Enqueue, EnqueueReplaces
  <2>2. r.body = writes + 1 /\ r.state = "ready"
    <3>1. rows[o] \in Row
      BY RowType
    <3>2. Written(rows[o]).body = writes + 1 /\ Written(rows[o]).state = "ready"
      BY <3>1 DEF Written, Row
    <3>3. Rewritten(rows[o]).body = writes + 1 /\ Rewritten(rows[o]).state = rows[o].state
      BY <3>1 DEF Rewritten, Row
    <3>4. CASE r = Written(rows[o])
      BY <3>2, <3>4
    <3>5. CASE r # Written(rows[o])
      BY <2>1, <3>3, <3>5
    <3> QED
      BY <3>4, <3>5
  <2>3. writes' = writes + 1
    BY <1>2 DEF Enqueue, EnqueueReplaces
  <2>4. rows'[o] = r /\ \A n \in Ids \ {o} : rows'[n] = rows[n]
    BY <2>1 DEF TypeInv, TypeOK
  <2> QED
    BY <2>2, <2>3, <2>4 DEF Unwritten, Stored, Live
<1>3. ASSUME NEW c \in Clients, Expire(c) PROVE Goal
  <2>1. Unclaimed(rows[m], "dead").state = "dead" /\ Unclaimed(rows[m], "dead").body = rows[m].body
    BY UnclaimedType, RowType DEF States
  <2>2. rows'[m].body = rows[m].body /\ (rows'[m] = rows[m] \/ rows'[m].state = "dead")
    BY <1>3, <2>1 DEF Expire
  <2> QED
    BY <1>3, <2>2 DEF Unwritten, Live, Expire
<1>4. ASSUME NEW S \in SUBSET Ids, NEW at \in Nat, TakeRows(S, at), writes' = writes,
             \A o \in S : Live(o)
      PROVE  Goal
  BY <1>4, TakenStates, TakenBody DEF Live, Unwritten
<1>5. ASSUME NEW c \in Clients, NEW n \in 1..Batch, ClaimSQLite(c, n) PROVE Goal
  <2>1. /\ TakeRows(FirstDue(n), now) /\ now \in Nat /\ FirstDue(n) \in SUBSET Ids
        /\ writes' = writes /\ \A o \in FirstDue(n) : Live(o)
    BY <1>5 DEF ClaimSQLite, FirstDue, Claimable, DueAt, Live, TypeInv, TypeOK
  <2> QED
    BY <2>1, <1>4
<1>6. ASSUME NEW c \in Clients, ClaimTakes(c) PROVE Goal
  <2>1. PICK S \in SUBSET {o \in picked[c].ids : DueAt(o, picked[c].at)} :
          IF KeyHeld(S) THEN UNCHANGED <<rows, given, last>>
                        ELSE TakeRows(S, picked[c].at)
    BY <1>6 DEF ClaimTakes
  <2>2. /\ S \in SUBSET Ids /\ picked[c].at \in Nat /\ writes' = writes
        /\ \A o \in S : Live(o)
    BY <1>6, <2>1 DEF ClaimTakes, DueAt, Live, TypeInv, TypeOK
  <2> QED
    BY <1>1, <1>4, <2>1, <2>2
<1>7. ASSUME NEW o \in Ids, NEW t \in given[o],
             Complete(o, t) \/ Fail(o, t) \/ Extend(o, t) \/ Release(o, t)
      PROVE  Goal
  <2>1. \A n \in Ids \ {o} : rows'[n] = rows[n]
    BY <1>7, CallReady
  <2>2. rows'[o].body = rows[o].body /\ writes' = writes /\ rows[o].state = "claimed"
    BY <1>7, CallBody
  <2> QED
    BY <2>1, <2>2 DEF Unwritten, Live
<1>8. ASSUME NEW S \in SUBSET Ids, Prune(S) \/ RetryDead(S) \/ DropDead(S) PROVE Goal
  <2>1. [rows[m] EXCEPT !.state = "gone"].state = "gone"
          /\ [rows[m] EXCEPT !.state = "gone"].body = rows[m].body
    BY RowType DEF Row
  <2>2. /\ rows'[m] \in {rows[m], [rows[m] EXCEPT !.state = "gone"]}
        /\ writes' = writes
    BY <1>8 DEF Prune, RetryDead, DropDead
  <2> QED
    BY <2>1, <2>2 DEF Unwritten, Live
<1> QED
  BY <1>1, <1>2, <1>3, <1>5, <1>6, <1>7, <1>8 DEF Next, Tick, ReadDue, ClaimReads, GiveUp, vars

(* On a queue of one claim and one ready message per key that no operator     *)
(* changes, a message that is ready while another of its key is claimed was   *)
(* stored since that one was.                                                 *)
NewerWaits ==
  /\ \A m \in Ids : rows[m].body <= writes
  /\ \A m \in InState("claimed"), o \in InState("ready") :
       SameKey(m, o) => rows[m].body < rows[o].body

LEMMA NextNewer ==
  ASSUME Serialize, Dedupes, ~ Operated
  PROVE  TypeInv /\ OneClaimPerKey /\ OneReadyPerKey /\ NewerWaits /\ [Next]_vars => NewerWaits'
<1> SUFFICES ASSUME TypeInv, OneClaimPerKey, OneReadyPerKey, NewerWaits, [Next]_vars
             PROVE  NewerWaits'
  OBVIOUS
<1>1. writes \in Nat /\ \A m \in Ids : rows[m].body \in Nat
  BY RowType DEF TypeInv, TypeOK, Row
<1>2. ASSUME NEW m \in Ids PROVE rows'[m].body <= writes'
  <2>1. rows[m].body <= writes
    BY DEF NewerWaits
  <2> QED
    BY <1>1, <2>1, WritingStep DEF Unwritten, Stored
<1>3. ASSUME NEW m \in Ids, NEW o \in Ids, rows'[m].state = "claimed", rows'[o].state = "ready",
             SameKey(m, o)
      PROVE  rows'[m].body < rows'[o].body
  <2>1. m # o /\ Unwritten(m)
    BY <1>3, WritingStep DEF Stored
  <2>2. CASE Stored(o)
    <3>1. rows[m].body <= writes
      BY DEF NewerWaits
    <3> QED
      BY <1>1, <2>1, <2>2, <3>1 DEF Stored, Unwritten
  <2>3. CASE Unwritten(o)
    <3>1. CASE rows[o].state = "ready"
      <4>1. rows[m].state # "ready"
        BY <1>3, <2>1, <3>1 DEF OneReadyPerKey, InState
      <4>2. rows[m].state = "claimed"
        BY <1>3, <2>1, <4>1 DEF Unwritten, Live
      <4>3. rows[m].body < rows[o].body
        BY <1>3, <3>1, <4>2 DEF NewerWaits, InState
      <4> QED
        BY <2>1, <2>3, <4>3 DEF Unwritten
    <3>2. CASE rows[o].state # "ready"
      <4>1. rows[o].state = "claimed" /\ rows'[m] = rows[m]
        BY <1>3, <2>1, <2>3, <3>2 DEF Unwritten
      <4>2. m = o
        BY <1>3, <4>1 DEF OneClaimPerKey, InState
      <4> QED
        BY <2>1, <4>2
    <3> QED
      BY <3>1, <3>2
  <2> QED
    BY <2>2, <2>3, WritingStep
<1> QED
  BY <1>2, <1>3 DEF NewerWaits, InState, SameKey

(* What ends a claimed message undone, unless its last claim completed it. *)
LEMMA GivenWay ==
  ASSUME TypeInv, FinishedByHolder, [Next]_vars, NEW m \in Ids,
         rows[m].state = "claimed", rows'[m].state = "done", finished'[m] = finished[m]
  PROVE  GivesWay(m)
<1> SUFFICES ASSUME ~ GivesWay(m) PROVE FALSE
  OBVIOUS
<1>1. ASSUME NEW o \in Ids, Enqueue(o) \/ EnqueueReplaces(o) PROVE FALSE
  <2>1. Written(rows[o]).state = "ready" /\ Rewritten(rows[o]).state = rows[o].state
    BY WrittenType, RowType DEF TypeInv, TypeOK
  <2> QED
    BY <1>1, <2>1 DEF Enqueue, EnqueueReplaces, TypeInv, TypeOK
<1>2. ASSUME NEW c \in Clients, Expire(c) PROVE FALSE
  <2>1. Unclaimed(rows[m], "dead").state = "dead"
    BY UnclaimedType, RowType DEF States
  <2> QED
    BY <1>2, <2>1 DEF Expire
<1>3. ASSUME NEW S \in SUBSET Ids, NEW at \in Nat, TakeRows(S, at) PROVE FALSE
  BY <1>3, TakenStates
<1>4. ASSUME NEW c \in Clients, NEW n \in 1..Batch, ClaimSQLite(c, n) PROVE FALSE
  <2>1. TakeRows(FirstDue(n), now) /\ now \in Nat /\ FirstDue(n) \in SUBSET Ids
    BY <1>4 DEF ClaimSQLite, FirstDue, Claimable, TypeInv, TypeOK
  <2> QED
    BY <2>1, <1>3
<1>5. ASSUME NEW c \in Clients, ClaimTakes(c) PROVE FALSE
  <2>1. PICK S \in SUBSET {o \in picked[c].ids : DueAt(o, picked[c].at)} :
          IF KeyHeld(S) THEN UNCHANGED <<rows, given, last>>
                        ELSE TakeRows(S, picked[c].at)
    BY <1>5 DEF ClaimTakes
  <2>2. S \in SUBSET Ids /\ picked[c].at \in Nat
    BY <2>1 DEF TypeInv, TypeOK
  <2> QED
    BY <1>3, <2>1, <2>2
<1>6. ASSUME NEW o \in Ids, NEW t \in given[o],
             Complete(o, t) \/ Fail(o, t) \/ Extend(o, t) \/ Release(o, t)
      PROVE  FALSE
  <2>1. o = m
    BY <1>6, CallReady
  <2>2. rows[m] \in Row /\ \A s \in States : Unclaimed(rows[m], s) \in Row /\ Unclaimed(rows[m], s).state = s
    BY UnclaimedType, RowType
  <2>3. {"ready", "done", "dead", "gone"} \subseteq States
    BY DEF States
  <2>4. CASE Complete(m, t)
    <3>1. finished'[m] = t /\ t # NoToken
      BY <2>1, <2>4, QueueAssumption DEF Complete, TypeInv, TypeOK
    <3> QED
      BY <3>1 DEF FinishedByHolder
  <2>5. CASE Extend(m, t)
    <3>1. [rows[m] EXCEPT !.expires = now + Lease, !.updated = now].state = rows[m].state
      BY <2>2 DEF Row
    <3> QED
      BY <2>5, <3>1 DEF Extend, Change, TypeInv, TypeOK
  <2>6. CASE Fail(m, t)
    <3> DEFINE u == Unclaimed(rows[m], "ready")
               r == [u EXCEPT !.due = now + Wait(rows[m].attempts)]
    <3>1. rows' = [rows EXCEPT ![m] = Unclaimed(rows[m], "dead")] \/ rows' = [rows EXCEPT ![m] = r]
      BY <2>6 DEF Fail, Change
    <3>2. u \in Row /\ u.state = "ready"
      BY <2>2, <2>3
    <3> HIDE DEF u
    <3>3. r.state = "ready"
      BY <3>2 DEF Row
    <3> HIDE DEF r
    <3>4. rows'[m] = Unclaimed(rows[m], "dead") \/ rows'[m] = r
      BY <3>1 DEF TypeInv, TypeOK
    <3> QED
      BY <2>2, <2>3, <3>3, <3>4
  <2>7. CASE Release(m, t)
    <3> DEFINE u == Unclaimed(rows[m], "ready")
               r == [u EXCEPT !.attempts = IF @ = 0 THEN 0 ELSE @ - 1]
    <3>1. rows' = [rows EXCEPT ![m] = r]
      BY <2>7 DEF Release, Change
    <3>2. u \in Row /\ u.state = "ready"
      BY <2>2, <2>3
    <3> HIDE DEF u
    <3>3. r.state = "ready"
      BY <3>2 DEF Row
    <3> HIDE DEF r
    <3> QED
      BY <3>1, <3>3 DEF TypeInv, TypeOK
  <2> QED
    BY <1>6, <2>1, <2>4, <2>5, <2>6, <2>7
<1>7. ASSUME NEW S \in SUBSET Ids, Prune(S) \/ RetryDead(S) \/ DropDead(S) PROVE FALSE
  <2>1. [rows[m] EXCEPT !.state = "gone"].state = "gone"
    BY RowType DEF Row
  <2>2. ~ (m \in S /\ RetryDead(S))
    BY DEF RetryDead, InState
  <2> QED
    BY <1>7, <2>1, <2>2 DEF Prune, RetryDead, MakeReady, Retryable, DropDead
<1> QED
  BY <1>1, <1>2, <1>4, <1>5, <1>6, <1>7 DEF Next, Tick, ReadDue, ClaimReads, GiveUp, vars

(* A claimed message that fails or is released is done unhandled only when    *)
(* newer content waits, on a queue that serializes and that no operator       *)
(* changes.  Without the one an older message's claim may be released while   *)
(* a newer is claimed; with the other an older message may come back.         *)
THEOREM OnlyNewerTakesPlace ==
  ASSUME Serialize, ~ Operated PROVE Spec => GivesWayToNewer
<1> DEFINE Inv == TypeInv /\ OneClaimPerKey /\ OneReadyPerKey /\ FinishedByHolder
                    /\ (Dedupes => NewerWaits)
           Kept == \A m \in Ids :
                     rows[m].state = "claimed" /\ rows'[m].state = "done"
                       /\ finished'[m] = finished[m]
                     => \E o \in InState("ready") : SameKey(m, o) /\ rows[o].body > rows[m].body
<1>1. Init => Inv
  <2>1. Init => NewerWaits
    <3> SUFFICES ASSUME Init PROVE NewerWaits
      OBVIOUS
    <3>1. \A m \in Ids : rows[m].state = "absent" /\ rows[m].body = 0 /\ writes = 0
      BY DEF Init
    <3> QED
      BY <3>1 DEF NewerWaits, InState
  <2>2. Init => OneClaimPerKey /\ OneReadyPerKey /\ FinishedByHolder
    BY DEF Init, OneClaimPerKey, OneReadyPerKey, FinishedByHolder, InState
  <2> QED
    BY <2>1, <2>2, InitTypeInv
<1>2. Inv /\ [Next]_vars => Inv'
  BY NextTypeInv, NextOneClaim, NextOneReady, NextFinished, NextNewer DEF Dedupes
<1>3. Inv /\ [Next]_vars => [Kept]_vars
  <2> SUFFICES ASSUME Inv, [Next]_vars, NEW m \in Ids, rows[m].state = "claimed",
                      rows'[m].state = "done", finished'[m] = finished[m]
               PROVE  \E o \in InState("ready") : SameKey(m, o) /\ rows[o].body > rows[m].body
    OBVIOUS
  <2>1. GivesWay(m)
    BY GivenWay
  <2>2. PICK o \in InState("ready") : SameKey(m, o)
    BY <2>1 DEF GivesWay, Pending
  <2>3. rows[m].body < rows[o].body
    BY <2>1, <2>2 DEF GivesWay, NewerWaits, InState
  <2>4. rows[m].body \in Nat /\ rows[o].body \in Nat
    BY RowType DEF InState, Row
  <2> QED
    BY <2>2, <2>3, <2>4
<1> QED
  BY <1>1, <1>2, <1>3, PTL DEF Spec, GivesWayToNewer

-----------------------------------------------------------------------------
(***************************************************************************)
(* The table and its statements implement QueueContract, for every value of *)
(* the constants: each step is a step of the contract or leaves its view.    *)
(***************************************************************************)

Phases == [m \in Ids |-> Phase(m)]
Holders == [m \in Ids |-> rows[m].token]

ContractStep == Contract!ContractNext \/ UNCHANGED <<Phases, Holders, given>>

(* The rows of S leave their claims, or had none, for the phase p. *)
LEMMA Settles ==
  ASSUME NEW S \in SUBSET Ids, NEW p, UNCHANGED given,
         \A m \in Ids :
           IF m \in S THEN Phase(m)' = p /\ rows'[m].token = NoToken
                      ELSE rows'[m] = rows[m]
  PROVE  Contract!Settle(S, p)
  BY DEF Contract!Settle, Phase

(* A step of the clients alone. *)
LEMMA Stutters ==
  ASSUME UNCHANGED given,
         \A m \in Ids : rows'[m].state = rows[m].state /\ rows'[m].token = rows[m].token
  PROVE  ContractStep
  BY DEF ContractStep, Phases, Holders, Phase

LEMMA PhaseOf ==
  ASSUME NEW m \in Ids
  PROVE  /\ rows[m].state = "ready" => Phase(m) = "waiting"
         /\ rows[m].state = "claimed" => Phase(m) = "held"
         /\ rows[m].state \notin {"ready", "claimed"} => Phase(m) = rows[m].state
         /\ rows'[m].state = "ready" => Phase(m)' = "waiting"
         /\ rows'[m].state = "claimed" => Phase(m)' = "held"
         /\ rows'[m].state \notin {"ready", "claimed"} => Phase(m)' = rows'[m].state
  BY DEF Phase

LEMMA InitContract == Init => Contract!ContractInit
  BY DEF Init, Contract!ContractInit, Phase

LEMMA EnqueueContract ==
  ASSUME TypeInv, NEW m \in Ids, Enqueue(m) \/ EnqueueReplaces(m)
  PROVE  ContractStep
<1>1. /\ Written(rows[m]).state = "ready" /\ Written(rows[m]).token = rows[m].token
      /\ Rewritten(rows[m]).state = rows[m].state
      /\ Rewritten(rows[m]).token = rows[m].token
  BY WrittenType, RowType DEF TypeInv, TypeOK
<1>2. CASE Enqueue(m)
  <2>1. /\ \A o \in Ids : rows'[o] = IF o = m THEN Written(rows[m]) ELSE rows[o]
        /\ rows[m].state = "absent" /\ UNCHANGED given
    BY <1>2 DEF Enqueue, TypeInv, TypeOK
  <2>2. rows'[m].state = "ready" /\ rows'[m].token = NoToken
    BY <1>1, <2>1, RowType
  <2>3. Contract!Settle({m}, "waiting") /\ Phase(m) = "absent"
    BY <2>1, <2>2, PhaseOf, Settles
  <2>4. Contract!Write(m)
    BY <2>3 DEF Contract!Write
  <2> QED
    BY <2>4 DEF ContractStep, Contract!ContractNext
<1>3. CASE EnqueueReplaces(m)
  <2>1. /\ \A o \in Ids : rows'[o] = IF o = m THEN Rewritten(rows[m]) ELSE rows[o]
        /\ UNCHANGED given
    BY <1>3 DEF EnqueueReplaces, TypeInv, TypeOK
  <2> QED
    BY <1>1, <2>1, Stutters
<1> QED
  BY <1>2, <1>3

LEMMA ExpireContract ==
  ASSUME TypeInv, NEW c \in Clients, Expire(c)
  PROVE  ContractStep
<1>0. PICK S \in SUBSET Ids : \A m \in Ids : m \in S <=> LastClaimExpired(m)
  <2>1. {m \in Ids : LastClaimExpired(m)} \in SUBSET Ids
    OBVIOUS
  <2> QED
    BY <2>1
<1>1. \A m \in Ids : rows'[m] = IF m \in S THEN Unclaimed(rows[m], "dead") ELSE rows[m]
  BY <1>0 DEF Expire
<1>2. \A m \in Ids : /\ Unclaimed(rows[m], "dead").state = "dead"
                     /\ Unclaimed(rows[m], "dead").token = NoToken
  BY UnclaimedType, RowType DEF States
<1>3. \A m \in S : rows'[m].state = "dead" /\ rows'[m].token = NoToken
  BY <1>1, <1>2
<1>4. Contract!Settle(S, "dead")
  BY <1>1, <1>3, PhaseOf, Settles DEF Expire
<1>5. \A m \in S : Phase(m) = "held"
  BY <1>0, PhaseOf DEF LastClaimExpired
<1>6. Contract!Lapse(S)
  BY <1>4, <1>5 DEF Contract!Lapse
<1> QED
  BY <1>6 DEF ContractStep, Contract!ContractNext

LEMMA TakeContract ==
  ASSUME TypeInv, NEW S \in SUBSET Ids, NEW at \in Nat, TakeRows(S, at),
         \A m \in S : rows[m].state \in {"ready", "claimed"}
  PROVE  ContractStep
<1>1. PICK f \in [S -> Tokens \ Issued] :
    /\ \A a, b \in S : f[a] = f[b] => a = b
    /\ rows' = [m \in Ids |-> IF m \in S THEN Taken(rows[m], f[m], at) ELSE rows[m]]
    /\ given' = [m \in Ids |-> IF m \in S THEN given[m] \cup {f[m]} ELSE given[m]]
  BY DEF TakeRows
<1>2. \A m \in S : Taken(rows[m], f[m], at).state = "claimed"
                   /\ Taken(rows[m], f[m], at).token = f[m]
  BY <1>1, TakenType, RowType
<1>3. \A m \in Ids : /\ Phase(m)' = IF m \in S THEN "held" ELSE Phase(m)
                     /\ rows'[m].token = IF m \in S THEN f[m] ELSE rows[m].token
  BY <1>1, <1>2 DEF Phase
<1>4. \A m \in S : Phase(m) \in {"waiting", "held"}
  BY PhaseOf
<1>5. Issued = Contract!Issued
  BY DEF Issued, Contract!Issued
<1>6. Contract!Take(S)
  BY <1>1, <1>3, <1>4, <1>5 DEF Contract!Take
<1> QED
  BY <1>6 DEF ContractStep, Contract!ContractNext

LEMMA ClaimContract ==
  ASSUME TypeInv, NEW c \in Clients, NEW n \in Nat,
         ReadDue(c) \/ ClaimSQLite(c, n) \/ ClaimReads(c, n) \/ ClaimTakes(c) \/ GiveUp(c)
  PROVE  ContractStep
<1>1. CASE ReadDue(c) \/ ClaimReads(c, n) \/ GiveUp(c)
  BY <1>1, Stutters DEF ReadDue, ClaimReads, GiveUp
<1>2. CASE ClaimSQLite(c, n)
  <2>1. /\ TakeRows(FirstDue(n), now) /\ now \in Nat /\ FirstDue(n) \in SUBSET Ids
        /\ \A o \in FirstDue(n) : rows[o].state \in {"ready", "claimed"}
    BY <1>2 DEF ClaimSQLite, FirstDue, Claimable, DueAt, TypeInv, TypeOK
  <2> QED
    BY <2>1, TakeContract
<1>3. CASE ClaimTakes(c)
  <2>1. PICK S \in SUBSET {o \in picked[c].ids : DueAt(o, picked[c].at)} :
          IF KeyHeld(S) THEN UNCHANGED <<rows, given, last>>
                        ELSE TakeRows(S, picked[c].at)
    BY <1>3 DEF ClaimTakes
  <2>2. /\ S \in SUBSET Ids /\ picked[c].at \in Nat
        /\ \A o \in S : rows[o].state \in {"ready", "claimed"}
    BY <2>1 DEF DueAt, TypeInv, TypeOK
  <2>3. CASE KeyHeld(S)
    BY <2>1, <2>3, Stutters
  <2>4. CASE ~ KeyHeld(S)
    BY <2>1, <2>2, <2>4, TakeContract
  <2> QED
    BY <2>3, <2>4
<1> QED
  BY <1>1, <1>2, <1>3

LEMMA CallContract ==
  ASSUME TypeInv, NEW m \in Ids, NEW t \in given[m],
         Complete(m, t) \/ Fail(m, t) \/ Extend(m, t) \/ Release(m, t)
  PROVE  ContractStep
<1>1. /\ rows[m].state = "claimed" /\ rows[m].token = t
      /\ \A s \in States : /\ Unclaimed(rows[m], s) \in Row
                           /\ Unclaimed(rows[m], s).state = s
                           /\ Unclaimed(rows[m], s).token = NoToken
  BY UnclaimedType, RowType DEF Complete, Fail, Extend, Release, Holds
<1>2. {"ready", "done", "dead", "gone"} \subseteq States
  BY DEF States
<1>3. \A r : Change(m, r) => /\ \A o \in Ids : rows'[o] = IF o = m THEN r ELSE rows[o]
                             /\ UNCHANGED given
  BY DEF Change, TypeInv, TypeOK
<1>4. Contract!Held(m, t)
  BY <1>1, PhaseOf DEF Contract!Held
<1>5. ASSUME NEW r, Change(m, r), r.token = NoToken, r.state \in {"ready", "done", "dead"}
      PROVE  ContractStep
  <2>1. \E p \in {"waiting", "done", "dead"} : Phase(m)' = p
    BY <1>3, <1>5, PhaseOf
  <2>2. \E p \in {"waiting", "dead", "done"} : Contract!Settle({m}, p)
    BY <1>3, <1>5, <2>1, Settles
  <2>3. Contract!GiveBack(m, t)
    BY <1>4, <2>2 DEF Contract!GiveBack
  <2> QED
    BY <2>3 DEF ContractStep, Contract!ContractNext
<1>6. CASE Complete(m, t)
  <2>1. PICK s \in {"done", "gone"} : Change(m, Unclaimed(rows[m], s))
    BY <1>6 DEF Complete
  <2>2. Unclaimed(rows[m], s).state = s /\ Unclaimed(rows[m], s).token = NoToken
    BY <1>1, <1>2
  <2>3. rows'[m].state = s /\ rows'[m].token = NoToken
    BY <1>3, <2>1, <2>2
  <2>4. Phase(m)' = s
    BY <2>3, PhaseOf
  <2>5. Contract!Settle({m}, s)
    BY <1>3, <2>1, <2>3, <2>4, Settles
  <2>6. Contract!Finish(m, t)
    BY <1>4, <2>5 DEF Contract!Finish
  <2> QED
    BY <2>6 DEF ContractStep, Contract!ContractNext
<1>7. CASE Fail(m, t)
  <2> DEFINE u == Unclaimed(rows[m], "ready")
             r == [u EXCEPT !.due = now + Wait(rows[m].attempts)]
  <2>1. u \in Row /\ u.state = "ready" /\ u.token = NoToken
    BY <1>1, <1>2
  <2>2. \/ \E s \in {"done", "dead"} : Change(m, Unclaimed(rows[m], s))
        \/ Change(m, r)
    BY <1>7 DEF Fail
  <2> HIDE DEF u
  <2>3. r.state = "ready" /\ r.token = NoToken
    BY <2>1 DEF Row
  <2> HIDE DEF r
  <2> QED
    BY <1>1, <1>2, <1>5, <2>2, <2>3
<1>8. CASE Extend(m, t)
  <2> DEFINE r == [rows[m] EXCEPT !.expires = now + Lease, !.updated = now]
  <2>1. Change(m, r)
    BY <1>8 DEF Extend
  <2>2. r.state = rows[m].state /\ r.token = rows[m].token
    BY RowType DEF Row
  <2> HIDE DEF r
  <2> QED
    BY <1>3, <2>1, <2>2, Stutters
<1>9. CASE Release(m, t)
  <2>1. PICK s \in {"ready", "done"} :
          Change(m, [Unclaimed(rows[m], s) EXCEPT !.attempts = IF @ = 0 THEN 0 ELSE @ - 1])
    BY <1>9 DEF Release
  <2> DEFINE u == Unclaimed(rows[m], s)
             r == [u EXCEPT !.attempts = IF @ = 0 THEN 0 ELSE @ - 1]
  <2>2. u \in Row /\ u.state = s /\ u.token = NoToken
    BY <1>1, <1>2
  <2>3. Change(m, r)
    BY <2>1
  <2> HIDE DEF u
  <2>4. r.state = s /\ r.token = NoToken
    BY <2>2 DEF Row
  <2> HIDE DEF r
  <2> QED
    BY <1>5, <2>3, <2>4
<1> QED
  BY <1>6, <1>7, <1>8, <1>9

LEMMA SweepContract ==
  ASSUME TypeInv, NEW S \in SUBSET Ids, Prune(S) \/ RetryDead(S) \/ DropDead(S)
  PROVE  ContractStep
<1>1. CASE Prune(S) \/ DropDead(S)
  <2> DEFINE r(m) == [rows[m] EXCEPT !.state = "gone"]
  <2>1. /\ \A m \in S : rows[m].state \in {"done", "dead"}
        /\ \A m \in Ids : rows'[m] = IF m \in S THEN r(m) ELSE rows[m]
        /\ UNCHANGED given
    BY <1>1 DEF Prune, DropDead, Prunable, InState
  <2>2. \A m \in Ids : r(m).state = "gone" /\ r(m).token = rows[m].token
    BY RowType DEF Row
  <2> HIDE DEF r
  <2>3. \A m \in S : rows'[m].state = "gone" /\ rows'[m].token = NoToken
    BY <2>1, <2>2, RowType
  <2>4. Contract!Settle(S, "gone")
    BY <2>1, <2>3, PhaseOf, Settles
  <2>5. Contract!Discard(S)
    BY <2>1, <2>4, PhaseOf DEF Contract!Discard
  <2> QED
    BY <2>5 DEF ContractStep, Contract!ContractNext
<1>2. CASE RetryDead(S)
  <2>0. PICK R \in SUBSET Ids : R = Retryable(S)
    BY DEF Retryable
  <2> DEFINE r(m) == [Unclaimed(rows[m], "ready") EXCEPT !.attempts = 0, !.due = now]
  <2>1. /\ \A m \in R : rows[m].state = "dead"
        /\ \A m \in Ids : rows'[m] = IF m \in R THEN r(m) ELSE rows[m]
        /\ UNCHANGED given
    BY <1>2, <2>0 DEF RetryDead, MakeReady, Retryable, InState
  <2>2. \A m \in Ids : r(m).state = "ready" /\ r(m).token = NoToken
    <3> TAKE m \in Ids
    <3> DEFINE u == Unclaimed(rows[m], "ready")
    <3>1. u \in Row /\ u.state = "ready" /\ u.token = NoToken
      BY UnclaimedType, RowType DEF States
    <3> HIDE DEF u
    <3>2. LET v == [u EXCEPT !.attempts = 0, !.due = now]
          IN  v.state = "ready" /\ v.token = NoToken
      BY <3>1 DEF Row
    <3> QED
      BY <3>2 DEF u
  <2> HIDE DEF r
  <2>3. Contract!Settle(R, "waiting")
    BY <2>1, <2>2, PhaseOf, Settles
  <2>4. Contract!Revive(R)
    BY <2>1, <2>3, PhaseOf DEF Contract!Revive
  <2> QED
    BY <2>4 DEF ContractStep, Contract!ContractNext
<1> QED
  BY <1>1, <1>2

LEMMA NextContract == TypeInv /\ [Next]_vars => ContractStep
<1> SUFFICES ASSUME TypeInv, [Next]_vars PROVE ContractStep
  OBVIOUS
<1>1. CASE Tick \/ UNCHANGED vars
  BY <1>1, Stutters DEF Tick, vars
<1>2. ASSUME NEW m \in Ids, Enqueue(m) \/ EnqueueReplaces(m) PROVE ContractStep
  BY <1>2, EnqueueContract
<1>3. ASSUME NEW c \in Clients, Expire(c) PROVE ContractStep
  BY <1>3, ExpireContract
<1>4. ASSUME NEW c \in Clients,
             \/ ReadDue(c) \/ ClaimTakes(c) \/ GiveUp(c)
             \/ \E n \in 1..Batch : ClaimSQLite(c, n) \/ ClaimReads(c, n)
      PROVE  ContractStep
  BY <1>4, ClaimContract, QueueAssumption
<1>5. ASSUME NEW m \in Ids, NEW t \in given[m],
             Complete(m, t) \/ Fail(m, t) \/ Extend(m, t) \/ Release(m, t)
      PROVE  ContractStep
  BY <1>5, CallContract
<1>6. ASSUME NEW S \in SUBSET Ids, Prune(S) \/ RetryDead(S) \/ DropDead(S)
      PROVE  ContractStep
  BY <1>6, SweepContract
<1> QED
  BY <1>1, <1>2, <1>3, <1>4, <1>5, <1>6 DEF Next

(* The table implements the contract the workers run over: a claim takes      *)
(* messages that wait or have lapsed and gives each a token of its own, and   *)
(* only that token's holder moves the message on, whatever the dialect.       *)
THEOREM Implements == Spec => ImplementsContract
<1>1. ContractStep => [Contract!ContractNext]_(Contract!contractVars)
  BY DEF ContractStep, Phases, Holders, Contract!contractVars
<1>2. TypeInv /\ [Next]_vars => [Contract!ContractNext]_(Contract!contractVars)
  BY <1>1, NextContract
<1> QED
  BY <1>2, InitTypeInv, NextTypeInv, InitContract, PTL
     DEF Spec, ImplementsContract, Contract!ContractSpec
=============================================================================
