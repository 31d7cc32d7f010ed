-------------------------- MODULE WorkQueueProofs --------------------------
(* The properties of WorkQueue, for any number of items, processes and        *)
(* principals, any durations, limits and amounts.                            *)
EXTENDS WorkQueue, SumTheorems

(* A lease is held under a token past 0, at fewer expiries than it may have;  *)
(* a process works under no token its item has not reached.                   *)
Numbered ==
  /\ \A i \in Items : lease[i].holder # Nobody =>
                        lease[i].token > 0 /\ lease[i].expiries < MaxExpiries
  /\ \A p \in Procs : Working(p) =>
                        has[p].token > 0 /\ has[p].token <= lease[has[p].item].token

WorkInv == WorkTypeOK /\ WorkIsLeased /\ LeaseTakesItsOwn /\ HeldAsReserved /\ Numbered

(* The parts of the invariant by what they speak of: the leases, with what    *)
(* each process works under, and the meter, with its directives.              *)
LeaseType == /\ lease \in [Items -> Held]
             /\ \A i \in Items : lease[i].expiries <= MaxExpiries
             /\ status \in [Items -> States]
             /\ has \in [Procs -> [item : Items, token : Nat] \cup {Idle}]
             /\ serves \in [Procs -> Principals] /\ now \in Nat

MeterRow == [reserved : Nat, token : Nat, directed : Nat]
ScopeRow == [used : Nat, reserved : Nat, limit : Nat]
MeterType == /\ meter \in [Items -> MeterRow] /\ holds \in [Items -> Nat]
             /\ scope \in ScopeRow /\ unreserved \in Nat
             /\ directives \in [Items -> SUBSET Directive]

LEMMA TypeParts == /\ WorkTypeOK <=> LeaseType /\ MeterType
                   /\ WorkTypeOK' <=> LeaseType' /\ MeterType'
BY DEF WorkTypeOK, LeaseType, MeterType, MeterRow, ScopeRow

LEMMA Bounds == \A a, b \in Int : /\ Least(a, b) \in {a, b} /\ Least(a, b) <= a /\ Least(a, b) <= b
                                  /\ Positive(a) \in Nat /\ (a >= 0 => Positive(a) = a)
BY DEF Least, Positive

LEMMA InvInit == WorkInit => WorkInv
<1> SUFFICES ASSUME WorkInit PROVE WorkInv
  OBVIOUS
<1>1. \A i \in Items : lease[i] = [holder |-> Nobody, token |-> 0, acquired |-> 0,
                                   expires |-> 0, expiries |-> 0]
  BY DEF WorkInit
<1>2. LeaseType
  BY WorkAssumption DEF WorkInit, LeaseType, Held, States
<1>3. MeterType
  <2>1. scope \in ScopeRow
    BY WorkAssumption DEF WorkInit, ScopeRow
  <2> QED
    BY <2>1 DEF WorkInit, MeterType, MeterRow, NoToken
<1>4. WorkIsLeased /\ LeaseTakesItsOwn /\ HeldAsReserved /\ Numbered
  BY <1>1, WorkAssumption DEF WorkInit, WorkIsLeased, LeaseTakesItsOwn, HeldAsReserved,
                              Numbered, Working
<1> QED
  BY <1>2, <1>3, <1>4, TypeParts DEF WorkInv
-----------------------------------------------------------------------------
(* What the scope lets go of for an item is what the item let go of.          *)
LEMMA FreedAll ==
  ASSUME WorkTypeOK, HeldAsReserved, NEW i \in Items, NEW row \in MeterRow, NEW n \in Nat,
         row.reserved = meter[i].reserved - n
  PROVE  Freed(i, row, n) = n
<1>1. holds[i] \in Nat /\ row.reserved \in Nat /\ holds[i] - row.reserved = n
  BY DEF WorkTypeOK, HeldAsReserved, MeterRow
<1> QED
  BY <1>1 DEF Freed, Least, Positive

(* A settlement keeps what the scope holds for every item what it reserved.   *)
LEMMA SettleForHolds ==
  ASSUME WorkTypeOK, HeldAsReserved, NEW i \in Items, NEW row \in MeterRow, NEW n \in Nat,
         row.reserved = meter[i].reserved - n,
         SettleFor(i, row, n), directives' \in [Items -> SUBSET Directive]
  PROVE  /\ MeterType' /\ HeldAsReserved'
         /\ meter' = [meter EXCEPT ![i] = row]
<1>1. Freed(i, row, n) = n
  BY FreedAll
<1>2. /\ meter' = [meter EXCEPT ![i] = row]
      /\ holds' = [holds EXCEPT ![i] = @ - n]
      /\ scope' = [scope EXCEPT !.reserved = Positive(@ - n)]
      /\ unreserved' = unreserved
  BY <1>1 DEF SettleFor
<1>3. holds[i] - n = row.reserved /\ holds[i] - n \in Nat
  BY DEF HeldAsReserved, MeterRow
<1>4. holds' \in [Items -> Nat] /\ meter' \in [Items -> MeterRow]
  BY <1>2, <1>3 DEF WorkTypeOK, MeterRow
<1>5. scope' \in ScopeRow
  <2>1. scope \in ScopeRow /\ Positive(scope.reserved - n) \in Nat
    BY DEF WorkTypeOK, ScopeRow, Positive
  <2> QED
    BY <1>2, <2>1 DEF ScopeRow
<1>6. HeldAsReserved'
  BY <1>2, <1>3 DEF WorkTypeOK, HeldAsReserved
<1> QED
  BY <1>2, <1>4, <1>5, <1>6 DEF MeterType, WorkTypeOK

LEMMA SettleEndedHolds ==
  ASSUME WorkTypeOK, HeldAsReserved, NEW i \in Items, NEW token \in Nat,
         SettleEnded(i, token), directives' \in [Items -> SUBSET Directive]
  PROVE  /\ MeterType' /\ HeldAsReserved'
         /\ \A j \in Items \ {i} : meter'[j] = meter[j]
         /\ meter'[i].reserved > 0 => meter'[i] = meter[i] /\ meter[i].token = token
<1>1. CASE meter[i].reserved > 0 /\ meter[i].token # token
  <2>1. meter[i] \in MeterRow /\ meter[i].reserved \in Nat
    BY DEF WorkTypeOK, MeterRow
  <2>2. Settled(i) \in MeterRow /\ Settled(i).reserved = 0
    BY <2>1 DEF Settled, MeterRow, NoToken
  <2>3. SettleFor(i, Settled(i), meter[i].reserved)
    BY <1>1 DEF SettleEnded, SettleOwn
  <2>4. /\ MeterType' /\ HeldAsReserved'
        /\ meter' = [meter EXCEPT ![i] = Settled(i)]
    BY <2>1, <2>2, <2>3, SettleForHolds
  <2> QED
    BY <2>2, <2>4 DEF WorkTypeOK
<1>2. CASE ~(meter[i].reserved > 0 /\ meter[i].token # token)
  <2>1. UNCHANGED budget
    BY <1>2 DEF SettleEnded
  <2> QED
    BY <1>2, <2>1 DEF budget, WorkTypeOK, MeterType, MeterRow, ScopeRow, HeldAsReserved
<1> QED
  BY <1>1, <1>2

(* A reservation is held at the scope as it is made at the item.              *)
LEMMA TakeHolds ==
  ASSUME WorkTypeOK, HeldAsReserved, NEW i \in Items, NEW token \in Nat,
         NEW n \in {0, meter[i].reserved}, Take(i, token, n),
         directives' \in [Items -> SUBSET Directive]
  PROVE  /\ MeterType' /\ HeldAsReserved'
         /\ \A j \in Items \ {i} : meter'[j] = meter[j]
         /\ meter'[i].token = token
<1> DEFINE row == [meter[i] EXCEPT !.reserved = @ - n]
<1>1. meter[i] \in MeterRow /\ meter[i].reserved \in Nat /\ n \in Nat
  BY DEF WorkTypeOK, MeterRow
<1>2. row \in MeterRow /\ row.reserved = meter[i].reserved - n
  BY <1>1 DEF MeterRow
<1>3. Freed(i, row, n) = n
  BY <1>1, <1>2, FreedAll
<1>4. /\ meter' = [meter EXCEPT ![i].reserved = row.reserved + Reserve, ![i].token = token]
      /\ holds' = [holds EXCEPT ![i] = holds[i] - n + Reserve]
      /\ scope' = [scope EXCEPT !.reserved = Positive(scope.reserved - n) + Reserve]
      /\ unreserved' = unreserved
  BY <1>3 DEF Take
<1>5. holds[i] - n = row.reserved /\ row.reserved + Reserve \in Nat
  BY <1>2, WorkAssumption DEF HeldAsReserved, MeterRow
<1>6. meter'[i] = [meter[i] EXCEPT !.reserved = row.reserved + Reserve, !.token = token]
  BY <1>4 DEF WorkTypeOK
<1>7. meter'[i] \in MeterRow /\ meter'[i].reserved = row.reserved + Reserve
        /\ meter'[i].token = token
  BY <1>1, <1>5, <1>6 DEF MeterRow
<1>8. \A j \in Items \ {i} : meter'[j] = meter[j]
  BY <1>4 DEF WorkTypeOK
<1>9. meter' \in [Items -> MeterRow] /\ holds' \in [Items -> Nat]
  BY <1>4, <1>5, <1>7, <1>8 DEF WorkTypeOK, MeterRow
<1>10. scope' \in ScopeRow
  <2>1. scope \in ScopeRow /\ Positive(scope.reserved - n) \in Nat
    BY <1>1 DEF WorkTypeOK, ScopeRow, Positive
  <2>2. Positive(scope.reserved - n) + Reserve \in Nat
    BY <2>1, WorkAssumption
  <2> QED
    BY <1>4, <2>1, <2>2 DEF ScopeRow
<1>11. HeldAsReserved'
  BY <1>4, <1>5, <1>7, <1>8 DEF WorkTypeOK, HeldAsReserved
<1> QED
  BY <1>4, <1>7, <1>8, <1>9, <1>10, <1>11 DEF MeterType, WorkTypeOK
-----------------------------------------------------------------------------
(* A lease that ends, as an expiry or not, takes its own with it.             *)
LEMMA EndHolds ==
  ASSUME WorkInv, NEW i \in Items, NEW after \in Held, NEW move \in States \ {"working"},
         lease[i].holder # Nobody,
         after.holder = Nobody, after.token = lease[i].token + 1,
         after.expiries <= MaxExpiries,
         End(i, after, move),
         \/ has' = has
         \/ \E p \in Procs : has' = [has EXCEPT ![p] = Idle]
  PROVE  WorkInv'
<1> USE DEF WorkInv
<1>1. /\ lease' = [lease EXCEPT ![i] = after] /\ status' = [status EXCEPT ![i] = move]
      /\ directives' = [directives EXCEPT ![i] = Kept(i)]
      /\ SettleEnded(i, NoToken) /\ UNCHANGED <<now, serves>>
  BY DEF End
<1>2. Kept(i) = {}
  BY DEF Kept, LeaseTakesItsOwn
<1>3. directives' \in [Items -> SUBSET Directive] /\ directives'[i] = {}
        /\ \A j \in Items \ {i} : directives'[j] = directives[j]
  BY <1>1, <1>2 DEF WorkTypeOK
<1>4. /\ lease'[i] = after /\ \A j \in Items \ {i} : lease'[j] = lease[j]
      /\ status'[i] = move /\ \A j \in Items \ {i} : status'[j] = status[j]
  BY <1>1 DEF WorkTypeOK
<1>5. \A p \in Procs : has'[p] = has[p] \/ has'[p] = Idle
  BY DEF WorkTypeOK
<1>6. LeaseType'
  <2>1. has' \in [Procs -> [item : Items, token : Nat] \cup {Idle}]
    BY DEF WorkTypeOK
  <2>2. lease' \in [Items -> Held] /\ \A j \in Items : lease'[j].expiries <= MaxExpiries
    BY <1>1, <1>4 DEF WorkTypeOK
  <2>3. status' \in [Items -> States]
    BY <1>1 DEF WorkTypeOK
  <2> QED
    BY <1>1, <2>1, <2>2, <2>3 DEF LeaseType, WorkTypeOK
<1>7. /\ MeterType' /\ HeldAsReserved'
      /\ \A j \in Items \ {i} : meter'[j] = meter[j]
      /\ meter'[i].reserved > 0 => meter'[i] = meter[i] /\ meter[i].token = NoToken
  BY <1>1, <1>3, SettleEndedHolds DEF NoToken
<1>8. ~(meter'[i].reserved > 0)
  <2> SUFFICES ASSUME meter'[i].reserved > 0 PROVE FALSE
    OBVIOUS
  <2>1. meter[i].reserved > 0 /\ meter[i].token = 0
    BY <1>7 DEF NoToken
  <2>2. lease[i].token > 0 /\ meter[i].token = lease[i].token
    BY <2>1 DEF LeaseTakesItsOwn, Numbered
  <2> QED
    BY <2>1, <2>2
<1>9. WorkIsLeased'
  BY <1>4 DEF WorkIsLeased
<1>10. LeaseTakesItsOwn'
  BY <1>3, <1>4, <1>7, <1>8 DEF LeaseTakesItsOwn
<1>11. Numbered'
  <2>1. lease[i].token \in Nat
    BY DEF WorkTypeOK, Held
  <2>2. \A j \in Items : lease'[j].holder # Nobody =>
                           lease'[j].token > 0 /\ lease'[j].expiries < MaxExpiries
    BY <1>4 DEF Numbered
  <2>3. ASSUME NEW p \in Procs, has'[p] # Idle
        PROVE  has'[p].token > 0 /\ has'[p].token <= lease'[has'[p].item].token
    <3>1. has'[p] = has[p] /\ has[p] \in [item : Items, token : Nat]
      BY <1>5, <2>3 DEF WorkTypeOK
    <3>2. has[p].token > 0 /\ has[p].token <= lease[has[p].item].token
      BY <2>3, <3>1 DEF Numbered, Working
    <3> QED
      BY <1>4, <2>1, <3>1, <3>2
  <2> QED
    BY <2>2, <2>3 DEF Numbered, Working
<1> QED
  BY <1>6, <1>7, <1>9, <1>10, <1>11, TypeParts

LEMMA EndedType ==
  ASSUME NEW i \in Items, lease[i] \in Held, NEW n \in Nat
  PROVE  /\ Ended(i, n) \in Held /\ Ended(i, n).holder = Nobody
         /\ Ended(i, n).token = lease[i].token + 1 /\ Ended(i, n).expiries = n
<1>1. lease[i].token + 1 \in Nat
  BY DEF Held
<1>2. /\ Ended(i, n).holder = Nobody /\ Ended(i, n).token = lease[i].token + 1
      /\ Ended(i, n).expiries = n
  BY DEF Ended, Held
<1>3. Ended(i, n) \in Held
  BY <1>1 DEF Ended, Held
<1> QED
  BY <1>2, <1>3

(* An expiry leaves an item to be worked on again, or dead.                   *)
LEMMA ExpiredType ==
  ASSUME WorkInv, NEW i \in Items, lease[i].holder # Nobody
  PROVE  /\ Expired(i) \in Held /\ Expired(i).holder = Nobody
         /\ Expired(i).token = lease[i].token + 1 /\ Expired(i).expiries <= MaxExpiries
         /\ ExpiredStatus(i) \in States \ {"working"}
<1>1. lease[i] \in Held /\ status[i] \in States /\ lease[i].expiries < MaxExpiries
  BY DEF WorkInv, WorkTypeOK, Numbered
<1>2. Expiries(i) \in Nat /\ Expiries(i) <= MaxExpiries
  BY <1>1, WorkAssumption DEF Expiries, Held
<1>3. ExpiredStatus(i) \in States \ {"working"}
  BY <1>1 DEF ExpiredStatus, OnExpiry, Escalate, States
<1> QED
  BY <1>1, <1>2, <1>3, EndedType DEF Expired

LEMMA ReleasedType ==
  ASSUME WorkInv, NEW i \in Items, lease[i].holder # Nobody
  PROVE  /\ Ended(i, lease[i].expiries) \in Held
         /\ Ended(i, lease[i].expiries).holder = Nobody
         /\ Ended(i, lease[i].expiries).token = lease[i].token + 1
         /\ Ended(i, lease[i].expiries).expiries <= MaxExpiries
         /\ OnExpiry(i) \in States \ {"working"}
<1>1. lease[i] \in Held /\ status[i] \in States /\ lease[i].expiries <= MaxExpiries
  BY DEF WorkInv, WorkTypeOK
<1>2. lease[i].expiries \in Nat
  BY <1>1 DEF Held
<1>3. OnExpiry(i) \in States \ {"working"}
  BY <1>1 DEF OnExpiry, States
<1> QED
  BY <1>1, <1>2, <1>3, EndedType

(* The five ways a lease ends.                                                *)
LEMMA InvEnds ==
  ASSUME WorkInv, NEW i \in Items,
         \/ Expire(i) \/ ExpireHolder(i)
         \/ \E abandon \in BOOLEAN : OperatorReleases(i, abandon)
         \/ \E p \in Procs, abandon \in BOOLEAN : Release(p, i, abandon)
  PROVE  WorkInv'
<1>1. lease[i].holder # Nobody
  BY DEF Expire, ExpireHolder, OperatorReleases, Release, Holding, Active, Lapsed
<1>2. \/ has' = has
      \/ \E p \in Procs : has' = [has EXCEPT ![p] = Idle]
  BY DEF Expire, ExpireHolder, OperatorReleases, Release, Hears
<1>3. \/ End(i, Expired(i), ExpiredStatus(i))
      \/ End(i, Ended(i, lease[i].expiries), OnExpiry(i))
  BY DEF Expire, ExpireHolder, OperatorReleases, Release, EndsBy
<1> QED
  BY <1>1, <1>2, <1>3, EndHolds, ExpiredType, ReleasedType
-----------------------------------------------------------------------------
(* The steps that end no lease. *)

(* What a claim finds, the expiry of a lapsed lease applied.                  *)
Before(i) == IF Lapsed(i) THEN Expired(i) ELSE lease[i]

LEMMA InvClaim ==
  ASSUME WorkInv, NEW p \in Procs, NEW i \in Items, Claim(p, i)
  PROVE  WorkInv'
<1> USE DEF WorkInv
<1> DEFINE before == Before(i)
           token == before.token + 1
           taken == [holder |-> serves[p], token |-> token, acquired |-> now,
                     expires |-> now + Least(TTL, MaxHold), expiries |-> before.expiries]
<1>1. /\ ~Active(i) /\ before.expiries < MaxExpiries
      /\ lease' = [lease EXCEPT ![i] = taken]
      /\ directives' = IF Lapsed(i) THEN [directives EXCEPT ![i] = Kept(i)] ELSE directives
      /\ Take(i, token, meter[i].reserved)
      /\ status' = [status EXCEPT ![i] = "working"]
      /\ Hears(p, [item |-> i, token |-> token])
      /\ UNCHANGED <<now, serves>>
  BY DEF Claim, Before
<1>2. before \in Held /\ before.token >= lease[i].token
  <2>1. lease[i] \in Held /\ lease[i].token \in Nat
    BY DEF WorkTypeOK, Held
  <2>2. CASE Lapsed(i)
    BY <2>1, <2>2, ExpiredType DEF Before, Lapsed
  <2>3. CASE ~Lapsed(i)
    BY <2>1, <2>3 DEF Before
  <2> QED
    BY <2>2, <2>3
<1>3. token \in Nat /\ token > 0 /\ token > lease[i].token /\ before.expiries \in Nat
  <2>1. before.token \in Nat /\ lease[i].token \in Nat /\ before.expiries \in Nat
    BY <1>2 DEF Held, WorkTypeOK
  <2> QED
    BY <1>2, <2>1
<1>4. now + Least(TTL, MaxHold) \in Nat
  BY WorkAssumption DEF WorkTypeOK, Least
<1>5. taken \in Held /\ taken.holder = serves[p] /\ taken.token = token
        /\ taken.expiries = before.expiries
  BY <1>3, <1>4 DEF WorkTypeOK, Held
<1>6. serves[p] # Nobody
  BY WorkAssumption DEF WorkTypeOK
<1>7. /\ lease'[i] = taken /\ \A j \in Items \ {i} : lease'[j] = lease[j]
      /\ status'[i] = "working" /\ \A j \in Items \ {i} : status'[j] = status[j]
  BY <1>1 DEF WorkTypeOK
<1>8. directives' \in [Items -> SUBSET Directive] /\ directives'[i] = {}
        /\ \A j \in Items \ {i} : directives'[j] = directives[j]
  <2>1. CASE Lapsed(i)
    <3>1. Kept(i) = {}
      BY DEF Kept, LeaseTakesItsOwn
    <3> QED
      BY <1>1, <2>1, <3>1 DEF WorkTypeOK
  <2>2. CASE ~Lapsed(i)
    <3>1. lease[i].holder = Nobody
      BY <1>1, <2>2 DEF Lapsed
    <3> QED
      BY <1>1, <2>2, <3>1 DEF WorkTypeOK, LeaseTakesItsOwn
  <2> QED
    BY <2>1, <2>2
<1>9. /\ MeterType' /\ HeldAsReserved'
      /\ \A j \in Items \ {i} : meter'[j] = meter[j]
      /\ meter'[i].token = token
  BY <1>1, <1>3, <1>8, TakeHolds
<1>10. /\ has' \in [Procs -> [item : Items, token : Nat] \cup {Idle}]
       /\ \A q \in Procs : has'[q] = has[q] \/ has'[q] = [item |-> i, token |-> token]
  BY <1>1, <1>3 DEF Hears, WorkTypeOK
<1>11. LeaseType'
  <2>1. lease' \in [Items -> Held] /\ \A j \in Items : lease'[j].expiries <= MaxExpiries
    BY <1>1, <1>3, <1>5, <1>7, WorkAssumption DEF WorkTypeOK
  <2>2. status' \in [Items -> States]
    BY <1>1 DEF WorkTypeOK, States
  <2> QED
    BY <1>1, <1>10, <2>1, <2>2 DEF LeaseType, WorkTypeOK
<1>12. WorkIsLeased'
  BY <1>5, <1>6, <1>7 DEF WorkIsLeased
<1>13. LeaseTakesItsOwn'
  BY <1>5, <1>6, <1>7, <1>8, <1>9 DEF LeaseTakesItsOwn
<1>14. Numbered'
  <2>1. \A j \in Items : lease'[j].holder # Nobody =>
                           lease'[j].token > 0 /\ lease'[j].expiries < MaxExpiries
    BY <1>1, <1>3, <1>5, <1>7 DEF Numbered
  <2>2. ASSUME NEW q \in Procs, has'[q] # Idle
        PROVE  has'[q].token > 0 /\ has'[q].token <= lease'[has'[q].item].token
    <3>1. CASE has'[q] = [item |-> i, token |-> token]
      BY <1>3, <1>5, <1>7, <3>1
    <3>2. CASE has'[q] = has[q]
      <4>1. has[q] \in [item : Items, token : Nat]
        BY <2>2, <3>2 DEF WorkTypeOK
      <4>2. has[q].token > 0 /\ has[q].token <= lease[has[q].item].token
        BY <2>2, <3>2 DEF Numbered, Working
      <4>3. lease[i].token \in Nat
        BY DEF WorkTypeOK, Held
      <4> QED
        BY <1>3, <1>5, <1>7, <3>2, <4>1, <4>2, <4>3
    <3> QED
      BY <1>10, <3>1, <3>2
  <2> QED
    BY <2>1, <2>2 DEF Numbered, Working
<1> QED
  BY <1>9, <1>11, <1>12, <1>13, <1>14, TypeParts

(* A step that leaves every lease's holder and token, the directives of each  *)
(* lease its own, and moves no item to "working" keeps the invariant if the   *)
(* meter keeps to the lease.                                                  *)
LEMMA KeepsInv ==
  ASSUME WorkInv, LeaseType', MeterType', HeldAsReserved',
         \A j \in Items : /\ lease'[j].holder = lease[j].holder
                          /\ lease'[j].token = lease[j].token
                          /\ lease'[j].expiries <= lease[j].expiries
                          /\ status'[j] = "working" => status[j] = "working"
                          /\ \A d \in directives'[j] :
                               lease[j].holder # Nobody /\ d.token = lease[j].token
                          /\ meter'[j].reserved > 0 =>
                               lease[j].holder # Nobody /\ meter'[j].token = lease[j].token,
         \A q \in Procs : has'[q] = has[q] \/ has'[q] = Idle
  PROVE  WorkInv'
<1> USE DEF WorkInv
<1>1. WorkIsLeased' /\ LeaseTakesItsOwn'
  BY DEF WorkIsLeased, LeaseTakesItsOwn
<1>2. Numbered'
  <2>1. \A j \in Items : lease[j].expiries \in Nat /\ lease'[j].expiries \in Nat
    BY DEF WorkTypeOK, LeaseType, Held
  <2>2. \A j \in Items : lease'[j].holder # Nobody =>
                           lease'[j].token > 0 /\ lease'[j].expiries < MaxExpiries
    BY <2>1, WorkAssumption DEF Numbered
  <2>3. ASSUME NEW q \in Procs, has'[q] # Idle
        PROVE  has'[q].token > 0 /\ has'[q].token <= lease'[has'[q].item].token
    <3>1. has'[q] = has[q] /\ has[q] \in [item : Items, token : Nat]
      BY <2>3 DEF WorkTypeOK
    <3> QED
      BY <2>3, <3>1 DEF Numbered, Working
  <2> QED
    BY <2>2, <2>3 DEF Numbered, Working
<1> QED
  BY <1>1, <1>2, TypeParts

(* What a call under a claim acknowledges was its lease's and stays so.       *)
LEMMA AcknowledgesHolds ==
  ASSUME WorkInv, NEW i \in Items, Acknowledges(i)
  PROVE  /\ directives' \in [Items -> SUBSET Directive]
         /\ \A j \in Items : \A d \in directives'[j] : \E e \in directives[j] : d.token = e.token
<1> DEFINE Acked(told) == {[d EXCEPT !.acked = TRUE] : d \in told}
<1>1. PICK told \in SUBSET directives[i] :
        directives' = [directives EXCEPT ![i] = (@ \ told) \cup Acked(told)]
  <2>1. /\ {} \in SUBSET directives[i]
        /\ {d \in directives[i] : d.token = lease[i].token} \in SUBSET directives[i]
    OBVIOUS
  <2> QED
    BY <2>1 DEF Acknowledges
<1>2. \A d \in Directive : [d EXCEPT !.acked = TRUE] \in Directive
                             /\ [d EXCEPT !.acked = TRUE].token = d.token
  BY DEF Directive
<1>3. directives[i] \in SUBSET Directive
  BY DEF WorkInv, WorkTypeOK
<1>4. \A d \in Acked(told) : d \in Directive /\ \E e \in directives[i] : d.token = e.token
  BY <1>2, <1>3
<1> HIDE DEF Acked
<1>5. directives'[i] = (directives[i] \ told) \cup Acked(told)
        /\ \A j \in Items \ {i} : directives'[j] = directives[j]
  BY <1>1 DEF WorkInv, WorkTypeOK
<1>6. directives' \in [Items -> SUBSET Directive]
  BY <1>1, <1>3, <1>4 DEF WorkInv, WorkTypeOK
<1> QED
  BY <1>4, <1>5, <1>6

LEMMA InvHears ==
  ASSUME WorkInv, NEW p \in Procs, NEW i \in Items, Heartbeat(p, i) \/ Acknowledge(p, i)
  PROVE  WorkInv'
<1> USE DEF WorkInv
<1>1. /\ Holding(i, serves[p], has[p].token) /\ Acknowledges(i)
      /\ SettleEnded(i, lease[i].token) /\ UNCHANGED <<now, serves, has, status>>
      /\ \/ lease' = lease
         \/ lease' = [lease EXCEPT ![i].expires =
                        Least(now + TTL, lease[i].acquired + MaxHold)]
  BY DEF Heartbeat, Acknowledge
<1>2. lease[i] \in Held /\ lease[i].token \in Nat
  BY DEF WorkTypeOK, Held
<1>3. Least(now + TTL, lease[i].acquired + MaxHold) \in Nat
  BY <1>2, WorkAssumption DEF WorkTypeOK, Held, Least
<1>4. /\ lease' \in [Items -> Held]
      /\ \A j \in Items : /\ lease'[j].holder = lease[j].holder
                          /\ lease'[j].token = lease[j].token
                          /\ lease'[j].expiries = lease[j].expiries
  <2>1. CASE lease' = lease
    BY <2>1 DEF WorkTypeOK
  <2>2. CASE lease' = [lease EXCEPT ![i].expires =
                         Least(now + TTL, lease[i].acquired + MaxHold)]
    <3> DEFINE next == [lease[i] EXCEPT !.expires =
                          Least(now + TTL, lease[i].acquired + MaxHold)]
    <3>1. next \in Held /\ next.holder = lease[i].holder /\ next.token = lease[i].token
            /\ next.expiries = lease[i].expiries
      BY <1>2, <1>3 DEF Held
    <3>2. lease' = [lease EXCEPT ![i] = next]
      BY <2>2 DEF WorkTypeOK
    <3> HIDE DEF next
    <3> QED
      BY <3>1, <3>2 DEF WorkTypeOK
  <2> QED
    BY <1>1, <2>1, <2>2
<1>5. LeaseType'
  BY <1>1, <1>4 DEF LeaseType, WorkTypeOK
<1>6. /\ directives' \in [Items -> SUBSET Directive]
      /\ \A j \in Items : \A d \in directives'[j] : \E e \in directives[j] : d.token = e.token
  BY <1>1, AcknowledgesHolds
<1>7. /\ MeterType' /\ HeldAsReserved'
      /\ \A j \in Items : meter'[j].reserved > 0 => meter'[j] = meter[j]
  BY <1>1, <1>2, <1>6, SettleEndedHolds
<1>8. \A j \in Items : lease[j].expiries \in Nat
  BY DEF WorkTypeOK, Held
<1>9. \A j \in Items : lease'[j].expiries <= lease[j].expiries
  BY <1>4, <1>8
<1> QED
  BY <1>1, <1>4, <1>5, <1>6, <1>7, <1>9, KeepsInv DEF LeaseTakesItsOwn

LEMMA InvResetExpiries ==
  ASSUME WorkInv, NEW i \in Items, ResetExpiries(i)
  PROVE  WorkInv'
<1> USE DEF WorkInv
<1>1. /\ lease' = [lease EXCEPT ![i].expiries = 0] /\ SettleEnded(i, ActiveToken(i))
      /\ UNCHANGED <<now, serves, has, directives, status>>
  BY DEF ResetExpiries
<1>2. lease[i] \in Held /\ lease[i].token \in Nat /\ \A j \in Items : lease[j].expiries \in Nat
  BY DEF WorkTypeOK, Held
<1> DEFINE next == [lease[i] EXCEPT !.expiries = 0]
<1>3. next \in Held /\ next.holder = lease[i].holder /\ next.token = lease[i].token
        /\ next.expiries = 0
  BY <1>2 DEF Held
<1>4. lease' = [lease EXCEPT ![i] = next]
  BY <1>1 DEF WorkTypeOK
<1> HIDE DEF next
<1>5. /\ lease' \in [Items -> Held]
      /\ \A j \in Items : /\ lease'[j].holder = lease[j].holder
                          /\ lease'[j].token = lease[j].token
                          /\ lease'[j].expiries <= lease[j].expiries
                          /\ lease'[j].expiries <= MaxExpiries
  BY <1>2, <1>3, <1>4, WorkAssumption DEF WorkTypeOK
<1>6. LeaseType'
  BY <1>1, <1>5 DEF LeaseType, WorkTypeOK
<1>7. ActiveToken(i) \in Nat
  BY <1>2 DEF ActiveToken, NoToken
<1>8. /\ MeterType' /\ HeldAsReserved'
      /\ \A j \in Items : meter'[j].reserved > 0 => meter'[j] = meter[j]
  BY <1>1, <1>7, SettleEndedHolds DEF WorkTypeOK
<1> QED
  BY <1>1, <1>5, <1>6, <1>8, KeepsInv DEF LeaseTakesItsOwn

(* The steps that leave the leases alone.                                     *)
LEMMA InvLeaseless ==
  ASSUME WorkInv, LeaseType', MeterType', HeldAsReserved', lease' = lease,
         \A j \in Items :
            /\ status'[j] = "working" => status[j] = "working"
            /\ \A d \in directives'[j] : \/ \E e \in directives[j] : d.token = e.token
                                         \/ lease[j].holder # Nobody /\ d.token = lease[j].token
            /\ meter'[j].reserved > 0 =>
                 \/ meter[j].reserved > 0 /\ meter'[j].token = meter[j].token
                 \/ lease[j].holder # Nobody /\ meter'[j].token = lease[j].token,
         \A q \in Procs : has'[q] = has[q] \/ has'[q] = Idle
  PROVE  WorkInv'
<1> USE DEF WorkInv
<1>1. \A j \in Items : lease'[j].expiries <= lease[j].expiries
  BY DEF WorkTypeOK, Held
<1>2. \A j \in Items :
        /\ \A d \in directives'[j] : lease[j].holder # Nobody /\ d.token = lease[j].token
        /\ meter'[j].reserved > 0 =>
             lease[j].holder # Nobody /\ meter'[j].token = lease[j].token
  BY DEF LeaseTakesItsOwn
<1> QED
  BY <1>1, <1>2, KeepsInv

LEMMA InvMoves ==
  ASSUME WorkInv,
         \/ Tick \/ \E p \in Procs : Dies(p)
         \/ \E p \in Procs, i \in Items, to \in {"ready", "done"} : Transition(p, i, to)
         \/ \E n \in Limits : SetLimit(n)
  PROVE  WorkInv'
<1> USE DEF WorkInv
<1>1. /\ lease' = lease /\ directives' = directives /\ meter' = meter /\ holds' = holds
      /\ unreserved' = unreserved /\ serves' = serves
  BY DEF Tick, Dies, Transition, SetLimit, budget
<1>2. \/ has' = has
      \/ \E p \in Procs : has' = [has EXCEPT ![p] = Idle]
  BY DEF Tick, Dies, Transition, SetLimit
<1>3. \/ status' = status
      \/ \E i \in Items, to \in {"ready", "done"} : status' = [status EXCEPT ![i] = to]
  BY DEF Tick, Dies, Transition, SetLimit
<1>4. LeaseType' /\ \A j \in Items : status'[j] = "working" => status[j] = "working"
  <2>1. now' \in Nat
    BY DEF Tick, Dies, Transition, SetLimit, WorkTypeOK
  <2>2. status' \in [Items -> States]
          /\ \A j \in Items : status'[j] = "working" => status[j] = "working"
    BY <1>3 DEF WorkTypeOK, States
  <2>3. has' \in [Procs -> [item : Items, token : Nat] \cup {Idle}]
    BY <1>2 DEF WorkTypeOK
  <2> QED
    BY <1>1, <2>1, <2>2, <2>3 DEF LeaseType, WorkTypeOK
<1>5. scope' \in ScopeRow
  BY WorkAssumption DEF Tick, Dies, Transition, SetLimit, budget, WorkTypeOK, ScopeRow
<1>6. MeterType' /\ HeldAsReserved'
  BY <1>1, <1>5 DEF MeterType, MeterRow, WorkTypeOK, HeldAsReserved
<1>7. \A q \in Procs : has'[q] = has[q] \/ has'[q] = Idle
  BY <1>2 DEF WorkTypeOK
<1> QED
  BY <1>1, <1>4, <1>6, <1>7, InvLeaseless

LEMMA InvReserveMore ==
  ASSUME WorkInv, NEW p \in Procs, NEW i \in Items, ReserveMore(p, i)
  PROVE  WorkInv'
<1> USE DEF WorkInv
<1> DEFINE n == IF meter[i].token # lease[i].token THEN meter[i].reserved ELSE 0
<1>1. /\ Active(i) /\ Take(i, lease[i].token, n)
      /\ UNCHANGED <<now, serves, has, lease, directives, status>>
  BY DEF ReserveMore
<1>2. lease[i].token \in Nat /\ lease[i].holder # Nobody
  BY <1>1 DEF WorkTypeOK, Held, Active
<1>3. directives' \in [Items -> SUBSET Directive] /\ n \in {0, meter[i].reserved}
  BY <1>1 DEF WorkTypeOK
<1> HIDE DEF n
<1>4. /\ MeterType' /\ HeldAsReserved'
      /\ \A j \in Items \ {i} : meter'[j] = meter[j]
      /\ meter'[i].token = lease[i].token
  BY <1>1, <1>2, <1>3, TakeHolds
<1>5. LeaseType'
  BY <1>1 DEF LeaseType, WorkTypeOK
<1> QED
  BY <1>1, <1>2, <1>4, <1>5, InvLeaseless

LEMMA InvSettle ==
  ASSUME WorkInv, NEW p \in Procs, NEW i \in Items, Settle(p, i)
  PROVE  WorkInv'
<1> USE DEF WorkInv
<1>1. meter[i] \in MeterRow /\ meter[i].reserved \in Nat
  BY DEF WorkTypeOK, MeterRow
<1>2. Settled(i) \in MeterRow /\ Settled(i).reserved = 0
  BY <1>1 DEF Settled, MeterRow, NoToken
<1>3. /\ SettleFor(i, Settled(i), meter[i].reserved)
      /\ UNCHANGED <<now, serves, has, lease, directives, status>>
  BY DEF Settle, SettleOwn
<1>4. directives' \in [Items -> SUBSET Directive]
  BY <1>3 DEF WorkTypeOK
<1>5. MeterType' /\ HeldAsReserved' /\ meter' = [meter EXCEPT ![i] = Settled(i)]
  BY <1>1, <1>2, <1>3, <1>4, SettleForHolds
<1>6. LeaseType'
  BY <1>3 DEF LeaseType, WorkTypeOK
<1>7. \A j \in Items : meter'[j].reserved > 0 => meter'[j] = meter[j]
  BY <1>2, <1>5 DEF WorkTypeOK
<1> QED
  BY <1>3, <1>5, <1>6, <1>7, InvLeaseless

LEMMA InvRecordUsage ==
  ASSUME WorkInv, NEW p \in Procs, NEW i \in Items, NEW n \in Amounts, RecordUsage(p, i, n)
  PROVE  WorkInv'
<1> USE DEF WorkInv
<1> DEFINE drawn == Least(n, meter[i].reserved)
           row == [meter[i] EXCEPT !.reserved = @ - drawn,
                                   !.token = IF meter[i].reserved = drawn THEN NoToken ELSE @]
           told == [row EXCEPT !.directed = lease[i].token]
<1>1. meter[i] \in MeterRow /\ meter[i].reserved \in Nat /\ meter[i].token \in Nat
        /\ holds[i] \in Nat /\ lease[i].token \in Nat /\ n \in Nat
  BY WorkAssumption DEF WorkTypeOK, MeterRow, Held
<1>2. drawn \in Nat /\ drawn <= meter[i].reserved /\ drawn <= n
  BY <1>1 DEF Least
<1>3. /\ row \in MeterRow /\ row.reserved = meter[i].reserved - drawn
      /\ row.reserved > 0 => row.token = meter[i].token
  <2>1. meter[i].reserved - drawn \in Nat
    BY <1>1, <1>2
  <2>2. (IF meter[i].reserved = drawn THEN NoToken ELSE meter[i].token) \in Nat
    BY <1>1 DEF NoToken
  <2> HIDE DEF drawn
  <2>3. row \in MeterRow /\ row.reserved = meter[i].reserved - drawn
          /\ row.token = IF meter[i].reserved = drawn THEN NoToken ELSE meter[i].token
    BY <1>1, <2>1, <2>2 DEF MeterRow
  <2> HIDE DEF row
  <2> QED
    BY <1>1, <1>2, <2>3
<1>4. Freed(i, row, drawn) = drawn
  <2> HIDE DEF row, drawn
  <2> QED
    BY <1>2, <1>3, FreedAll
<1>5. /\ holds' = [holds EXCEPT ![i] = @ - drawn]
      /\ scope' = [scope EXCEPT !.used = @ + n, !.reserved = Positive(@ - drawn)]
      /\ \/ /\ meter' = [meter EXCEPT ![i] = told] /\ directives' = [directives EXCEPT ![i] = Direct(i)]
            /\ Active(i)
         \/ meter' = [meter EXCEPT ![i] = row] /\ directives' = directives
      /\ unreserved' = unreserved + (n - drawn)
      /\ UNCHANGED <<now, serves, has, lease, status>>
  <2> DEFINE freed == Freed(i, row, drawn)
  <2>1. /\ holds' = [holds EXCEPT ![i] = @ - freed]
        /\ scope' = [scope EXCEPT !.used = @ + n, !.reserved = Positive(@ - freed)]
    BY DEF RecordUsage
  <2>2. freed = drawn
    BY <1>4
  <2>3. /\ \/ /\ meter' = [meter EXCEPT ![i] = told] /\ directives' = [directives EXCEPT ![i] = Direct(i)]
              /\ Active(i)
           \/ meter' = [meter EXCEPT ![i] = row] /\ directives' = directives
        /\ unreserved' = unreserved + (n - drawn)
        /\ UNCHANGED <<now, serves, has, lease, status>>
    BY DEF RecordUsage
  <2> HIDE DEF row, drawn, freed, told
  <2> QED
    BY <2>1, <2>2, <2>3
<1>6. told \in MeterRow /\ told.reserved = row.reserved /\ told.token = row.token
  <2> HIDE DEF row
  <2> QED
    BY <1>1, <1>3 DEF MeterRow
<1> HIDE DEF row, drawn, told
<1>7. PICK next \in MeterRow :
        /\ meter' = [meter EXCEPT ![i] = next]
        /\ next.reserved = meter[i].reserved - drawn
        /\ next.reserved > 0 => next.token = meter[i].token
  BY <1>3, <1>5, <1>6
<1>8. holds[i] - drawn = next.reserved /\ next.reserved \in Nat
  BY <1>7 DEF HeldAsReserved, MeterRow
<1>9. scope' \in ScopeRow
  <2>1. scope \in ScopeRow /\ scope.used + n \in Nat /\ Positive(scope.reserved - drawn) \in Nat
    BY <1>1, <1>2 DEF WorkTypeOK, ScopeRow, Positive
  <2> QED
    BY <1>5, <2>1 DEF ScopeRow
<1>10. /\ directives' \in [Items -> SUBSET Directive]
       /\ \A j \in Items : \A d \in directives'[j] :
            d \in directives[j] \/ (lease[j].holder # Nobody /\ d.token = lease[j].token)
  <2>1. CASE directives' = directives
    BY <2>1 DEF WorkTypeOK
  <2>2. CASE directives' = [directives EXCEPT ![i] = Direct(i)] /\ Active(i)
    <3>1. [token |-> lease[i].token, acked |-> FALSE] \in Directive
      BY <1>1 DEF Directive
    <3>2. Direct(i) \in SUBSET Directive
      BY <3>1 DEF Direct, WorkTypeOK
    <3>3. directives'[i] = Direct(i) /\ \A j \in Items \ {i} : directives'[j] = directives[j]
      BY <2>2 DEF WorkTypeOK
    <3>4. \A d \in Direct(i) : d \in directives[i] \/ d.token = lease[i].token
      BY DEF Direct
    <3>5. directives' \in [Items -> SUBSET Directive]
      BY <2>2, <3>2 DEF WorkTypeOK
    <3> QED
      BY <2>2, <3>3, <3>4, <3>5 DEF Active
  <2> QED
    BY <1>5, <2>1, <2>2
<1>11. MeterType'
  <2>1. meter' \in [Items -> MeterRow] /\ holds' \in [Items -> Nat]
    BY <1>5, <1>7, <1>8 DEF WorkTypeOK, MeterRow
  <2>2. unreserved' \in Nat
    BY <1>1, <1>2, <1>5 DEF WorkTypeOK
  <2> QED
    BY <1>9, <1>10, <2>1, <2>2 DEF MeterType
<1>12. HeldAsReserved'
  BY <1>5, <1>7, <1>8 DEF WorkTypeOK, HeldAsReserved
<1>13. LeaseType'
  BY <1>5 DEF LeaseType, WorkTypeOK
<1>14. \A j \in Items : meter'[j].reserved > 0 =>
                          meter[j].reserved > 0 /\ meter'[j].token = meter[j].token
  <2>1. meter'[i] = next /\ \A j \in Items \ {i} : meter'[j] = meter[j]
    BY <1>7 DEF WorkTypeOK
  <2> QED
    BY <1>1, <1>2, <1>7, <2>1
<1> QED
  BY <1>5, <1>10, <1>11, <1>12, <1>13, <1>14, InvLeaseless

(* A deleted item takes its lease, its directives and its reservation along.  *)
LEMMA InvDelete ==
  ASSUME WorkInv, NEW i \in Items, Delete(i)
  PROVE  WorkInv'
<1> USE DEF WorkInv
<1> DEFINE none == [reserved |-> 0, token |-> NoToken, directed |-> NoToken]
<1>1. /\ status' = [status EXCEPT ![i] = "gone"] /\ lease' = [lease EXCEPT ![i] = Ended(i, 0)]
      /\ directives' = [directives EXCEPT ![i] = {}]
      /\ SettleFor(i, none, meter[i].reserved) /\ UNCHANGED <<now, serves, has>>
  BY DEF Delete
<1>2. lease[i] \in Held /\ lease[i].token \in Nat /\ meter[i].reserved \in Nat
  BY DEF WorkTypeOK, Held
<1>3. Ended(i, 0) \in Held /\ Ended(i, 0).holder = Nobody
        /\ Ended(i, 0).token = lease[i].token + 1 /\ Ended(i, 0).expiries = 0
  BY <1>2, EndedType
<1>4. none \in MeterRow /\ none.reserved = 0
  BY DEF MeterRow, NoToken
<1>5. directives' \in [Items -> SUBSET Directive]
  BY <1>1 DEF WorkTypeOK
<1> HIDE DEF none
<1>6. MeterType' /\ HeldAsReserved' /\ meter' = [meter EXCEPT ![i] = none]
  BY <1>1, <1>2, <1>4, <1>5, SettleForHolds
<1>7. /\ lease'[i] = Ended(i, 0) /\ status'[i] = "gone" /\ directives'[i] = {}
      /\ meter'[i].reserved = 0
      /\ \A j \in Items \ {i} : /\ lease'[j] = lease[j] /\ status'[j] = status[j]
                                /\ directives'[j] = directives[j] /\ meter'[j] = meter[j]
  BY <1>1, <1>4, <1>6 DEF WorkTypeOK
<1>8. LeaseType'
  <2>1. lease' \in [Items -> Held] /\ \A j \in Items : lease'[j].expiries <= MaxExpiries
    BY <1>1, <1>3, <1>7, WorkAssumption DEF WorkTypeOK
  <2>2. status' \in [Items -> States]
    BY <1>1 DEF WorkTypeOK, States
  <2> QED
    BY <1>1, <2>1, <2>2 DEF LeaseType, WorkTypeOK
<1>9. WorkIsLeased' /\ LeaseTakesItsOwn'
  BY <1>7 DEF WorkIsLeased, LeaseTakesItsOwn
<1>10. Numbered'
  <2>1. \A j \in Items : lease'[j].holder # Nobody =>
                           lease'[j].token > 0 /\ lease'[j].expiries < MaxExpiries
    BY <1>3, <1>7 DEF Numbered
  <2>2. ASSUME NEW q \in Procs, has'[q] # Idle
        PROVE  has'[q].token > 0 /\ has'[q].token <= lease'[has'[q].item].token
    <3>1. has'[q] = has[q] /\ has[q] \in [item : Items, token : Nat]
      BY <1>1, <2>2 DEF WorkTypeOK
    <3>2. has[q].token > 0 /\ has[q].token <= lease[has[q].item].token
      BY <2>2, <3>1 DEF Numbered, Working
    <3> QED
      BY <1>2, <1>3, <1>7, <3>1, <3>2
  <2> QED
    BY <2>1, <2>2 DEF Numbered, Working
<1> QED
  BY <1>6, <1>8, <1>9, <1>10, TypeParts

LEMMA InvStep == WorkInv /\ [WorkNext]_workVars => WorkInv'
<1> SUFFICES ASSUME WorkInv, [WorkNext]_workVars PROVE WorkInv'
  OBVIOUS
<1>1. CASE Tick \/ (\E n \in Limits : SetLimit(n)) \/ UNCHANGED workVars
  <2>1. CASE UNCHANGED workVars
    BY <2>1 DEF workVars, budget, WorkInv, WorkTypeOK, WorkIsLeased, LeaseTakesItsOwn,
                HeldAsReserved, Numbered, Working
  <2>2. CASE Tick \/ \E n \in Limits : SetLimit(n)
    BY <2>2, InvMoves
  <2> QED
    BY <1>1, <2>1, <2>2
<1>2. ASSUME NEW p \in Procs, NEW i \in Items, Claim(p, i) \/ Writes(p, i) PROVE WorkInv'
  BY <1>2, InvClaim, InvHears, InvEnds, InvMoves, InvReserveMore, InvSettle, InvRecordUsage
     DEF Writes
<1>3. ASSUME NEW i \in Items, Expire(i) \/ Operates(i) PROVE WorkInv'
  BY <1>3, InvEnds, InvResetExpiries, InvDelete DEF Operates
<1>4. ASSUME NEW p \in Procs, Dies(p) PROVE WorkInv'
  BY <1>4, InvMoves
<1> QED
  BY <1>1, <1>2, <1>3, <1>4, WorkAssumption DEF WorkNext

LEMMA InvHolds == WorkSpec => []WorkInv
BY InvInit, InvStep, PTL DEF WorkSpec

(* Every column keeps its type, and no item is leased past its expiries.      *)
THEOREM WorkTypeCorrect == WorkSpec => []WorkTypeOK
<1>1. WorkInv => WorkTypeOK
  BY DEF WorkInv
<1> QED
  BY <1>1, InvHolds, PTL

(* No work is stranded: what is being worked on is leased.                    *)
THEOREM NoWorkStranded == WorkSpec => []WorkIsLeased
<1>1. WorkInv => WorkIsLeased
  BY DEF WorkInv
<1> QED
  BY <1>1, InvHolds, PTL

(* A lease's directives and reservation end with it.                          *)
THEOREM NothingOutlivesItsLease == WorkSpec => []LeaseTakesItsOwn
<1>1. WorkInv => LeaseTakesItsOwn
  BY DEF WorkInv
<1> QED
  BY <1>1, InvHolds, PTL

(* What the scope holds for an item is what the item has reserved.            *)
THEOREM ScopeHoldsTheReserved == WorkSpec => []HeldAsReserved
<1>1. WorkInv => HeldAsReserved
  BY DEF WorkInv
<1> QED
  BY <1>1, InvHolds, PTL

(* No call of an earlier claim is accepted while a later one is worked under. *)
THEOREM StaleTokensRefused == WorkSpec => FencedInOrder
<1>1. WorkInv /\ [WorkNext]_workVars =>
        [\A p, q \in Procs :
           Working(p) /\ Working(q) /\ has[p].item = has[q].item
             /\ has[p].token < has[q].token => ~Writes(p, has[p].item)]_workVars
  <2> SUFFICES ASSUME WorkInv, NEW p \in Procs, NEW q \in Procs, Working(p), Working(q),
                      has[p].item = has[q].item, has[p].token < has[q].token,
                      Writes(p, has[p].item)
               PROVE  FALSE
    OBVIOUS
  <2> DEFINE i == has[p].item
  <2>1. has[p] \in [item : Items, token : Nat] /\ has[q] \in [item : Items, token : Nat]
    BY DEF WorkInv, WorkTypeOK, Working
  <2>2. has[p].token > 0 /\ has[q].token <= lease[i].token
    BY DEF WorkInv, Numbered
  <2>3. has[p].token # NoToken => has[p].token = lease[i].token
    BY DEF Writes, Heartbeat, Acknowledge, Release, Transition, ReserveMore, Settle,
           RecordUsage, Holding, Permits
  <2>4. lease[i].token \in Nat
    BY <2>1 DEF WorkInv, WorkTypeOK, Held
  <2> QED
    BY <2>1, <2>2, <2>3, <2>4 DEF NoToken
<1> QED
  BY <1>1, InvHolds, PTL DEF WorkSpec, FencedInOrder
-----------------------------------------------------------------------------
(* The scope's sum and its limit. *)

ScopeInv == WorkInv /\ ScopeAddsUp /\ WithinLimit

(* What is let go of for an item is no more than the scope has reserved, and  *)
(* the sum moves with the item.                                               *)
LEMMA SumMoves ==
  ASSUME WorkInv, ScopeAddsUp, NEW i \in Items, NEW n \in Nat, n <= holds[i],
         NEW m \in Nat, holds' = [holds EXCEPT ![i] = m]
  PROVE  /\ holds[i] \in Nat /\ n <= scope.reserved
         /\ Positive(scope.reserved - n) = scope.reserved - n
         /\ SumFunctionOnSet(holds', Items) = scope.reserved - holds[i] + m
<1>1. IsFiniteSet(Items) /\ holds \in [Items -> Nat] /\ scope.reserved \in Nat
  BY WorkAssumption DEF WorkInv, WorkTypeOK
<1>2. holds[i] <= scope.reserved
  BY <1>1, SumNat DEF ScopeAddsUp
<1>3. \A j \in Items : holds'[j] = IF j = i THEN m ELSE holds[j]
  BY <1>1
<1>4. SumFunctionOnSet(holds', Items) = SumFunctionOnSet(holds, Items) - holds[i] + holds'[i]
  <2>1. \A j \in Items : holds[j] \in Int /\ holds'[j] \in Int
    BY <1>1, <1>3
  <2>2. \A j \in Items \ {i} : holds[j] = holds'[j]
    BY <1>3
  <2> DEFINE next == holds'
  <2>3. /\ \A j \in Items : holds[j] \in Int /\ next[j] \in Int
        /\ \A j \in Items \ {i} : holds[j] = next[j]
    BY <2>1, <2>2
  <2> HIDE DEF next
  <2>4. SumFunctionOnSet(next, Items) = SumFunctionOnSet(holds, Items) - holds[i] + next[i]
    BY <1>1, <2>3, SumChanges
  <2> QED
    BY <2>4 DEF next
<1>5. Positive(scope.reserved - n) = scope.reserved - n
  BY <1>1, <1>2 DEF Positive
<1> QED
  BY <1>1, <1>2, <1>3, <1>4, <1>5 DEF ScopeAddsUp

LEMMA SettleForAdds ==
  ASSUME ScopeInv, NEW i \in Items, NEW row \in MeterRow, NEW n \in Nat,
         row.reserved = meter[i].reserved - n, SettleFor(i, row, n)
  PROVE  ScopeAddsUp' /\ WithinLimit'
<1> USE DEF ScopeInv
<1>1. Freed(i, row, n) = n
  BY FreedAll DEF WorkInv
<1>2. /\ holds' = [holds EXCEPT ![i] = holds[i] - n]
      /\ scope' = [scope EXCEPT !.reserved = Positive(@ - n)]
      /\ unreserved' = unreserved
  BY <1>1 DEF SettleFor
<1>3. holds[i] - n \in Nat /\ n <= holds[i] /\ holds[i] \in Nat
  BY DEF WorkInv, WorkTypeOK, HeldAsReserved, MeterRow
<1>4. /\ Positive(scope.reserved - n) = scope.reserved - n
      /\ SumFunctionOnSet(holds', Items) = scope.reserved - holds[i] + (holds[i] - n)
  BY <1>2, <1>3, SumMoves
<1>5. /\ scope'.reserved = scope.reserved - n
      /\ scope'.used = scope.used /\ scope'.limit = scope.limit
  BY <1>2, <1>4 DEF WorkInv, WorkTypeOK
<1>6. scope.reserved \in Nat /\ scope.used \in Nat /\ scope.limit \in Nat /\ unreserved \in Nat
  BY DEF WorkInv, WorkTypeOK
<1> QED
  BY <1>2, <1>3, <1>4, <1>5, <1>6 DEF ScopeAddsUp, WithinLimit

LEMMA BudgetStays ==
  ASSUME ScopeInv, UNCHANGED budget
  PROVE  ScopeAddsUp' /\ WithinLimit'
BY DEF ScopeInv, ScopeAddsUp, WithinLimit, budget

LEMMA SettleEndedAdds ==
  ASSUME ScopeInv, NEW i \in Items, NEW token, SettleEnded(i, token)
  PROVE  ScopeAddsUp' /\ WithinLimit'
<1>1. CASE UNCHANGED budget
  BY <1>1, BudgetStays
<1>2. CASE SettleOwn(i)
  <2>1. meter[i] \in MeterRow /\ meter[i].reserved \in Nat
    BY DEF ScopeInv, WorkInv, WorkTypeOK, MeterRow
  <2>2. Settled(i) \in MeterRow /\ Settled(i).reserved = 0
    BY <2>1 DEF Settled, MeterRow, NoToken
  <2>3. Settled(i).reserved = meter[i].reserved - meter[i].reserved
    BY <2>1, <2>2
  <2> QED
    BY <1>2, <2>1, <2>2, <2>3, SettleForAdds DEF SettleOwn
<1> QED
  BY <1>1, <1>2 DEF SettleEnded

(* A reservation fits the limit beside what is used and reserved.             *)
LEMMA TakeAdds ==
  ASSUME ScopeInv, NEW i \in Items, NEW token, NEW n \in {0, meter[i].reserved},
         Take(i, token, n)
  PROVE  ScopeAddsUp' /\ WithinLimit'
<1> USE DEF ScopeInv
<1> DEFINE row == [meter[i] EXCEPT !.reserved = @ - n]
<1>1. meter[i] \in MeterRow /\ meter[i].reserved \in Nat /\ n \in Nat
  BY DEF WorkInv, WorkTypeOK, MeterRow
<1>2. row \in MeterRow /\ row.reserved = meter[i].reserved - n
  BY <1>1 DEF MeterRow
<1>3. Freed(i, row, n) = n
  BY <1>1, <1>2, FreedAll DEF WorkInv
<1>4. /\ Fits(Positive(scope.reserved - n), Reserve)
      /\ holds' = [holds EXCEPT ![i] = holds[i] - n + Reserve]
      /\ scope' = [scope EXCEPT !.reserved = Positive(scope.reserved - n) + Reserve]
      /\ unreserved' = unreserved
  BY <1>3 DEF Take
<1>5. /\ holds[i] - n \in Nat /\ n <= holds[i] /\ holds[i] \in Nat
      /\ Reserve \in Nat /\ holds[i] - n + Reserve \in Nat
  BY <1>1, WorkAssumption DEF WorkInv, WorkTypeOK, HeldAsReserved
<1>6. /\ Positive(scope.reserved - n) = scope.reserved - n
      /\ SumFunctionOnSet(holds', Items) = scope.reserved - holds[i] + (holds[i] - n + Reserve)
  BY <1>1, <1>4, <1>5, SumMoves
<1>7. /\ scope'.reserved = scope.reserved - n + Reserve
      /\ scope'.used = scope.used /\ scope'.limit = scope.limit
  BY <1>4, <1>6 DEF WorkInv, WorkTypeOK
<1>8. scope.reserved \in Nat /\ scope.used \in Nat /\ scope.limit \in Nat /\ unreserved \in Nat
  BY DEF WorkInv, WorkTypeOK
<1>9. scope.used + (scope.reserved - n) + Reserve <= scope.limit
  BY <1>4, <1>6 DEF Fits
<1> HIDE DEF row
<1> QED
  BY <1>1, <1>4, <1>5, <1>6, <1>7, <1>8, <1>9 DEF ScopeAddsUp, WithinLimit

(* Usage draws on the reservation first: only what is beyond passes the limit.*)
LEMMA RecordUsageAdds ==
  ASSUME ScopeInv, NEW p \in Procs, NEW i \in Items, NEW n \in Amounts, RecordUsage(p, i, n)
  PROVE  ScopeAddsUp' /\ WithinLimit'
<1> USE DEF ScopeInv
<1> DEFINE drawn == Least(n, meter[i].reserved)
           row == [meter[i] EXCEPT !.reserved = @ - drawn,
                                   !.token = IF meter[i].reserved = drawn THEN NoToken ELSE @]
           freed == Freed(i, row, drawn)
<1>1. /\ meter[i] \in MeterRow /\ meter[i].reserved \in Nat /\ n \in Nat
      /\ holds[i] = meter[i].reserved
  BY WorkAssumption DEF WorkInv, WorkTypeOK, MeterRow, HeldAsReserved
<1>2. drawn \in Nat /\ drawn <= meter[i].reserved /\ drawn <= n
  BY <1>1 DEF Least
<1>3. /\ holds' = [holds EXCEPT ![i] = @ - freed]
      /\ scope' = [scope EXCEPT !.used = @ + n, !.reserved = Positive(@ - freed)]
      /\ unreserved' = unreserved + (n - drawn)
  BY DEF RecordUsage
<1>4. row \in MeterRow /\ row.reserved = meter[i].reserved - drawn
  <2> HIDE DEF drawn
  <2>1. meter[i].reserved - drawn \in Nat
    BY <1>1, <1>2
  <2>2. (IF meter[i].reserved = drawn THEN NoToken ELSE meter[i].token) \in Nat
    BY <1>1 DEF MeterRow, NoToken
  <2> QED
    BY <1>1, <2>1, <2>2 DEF MeterRow
<1> HIDE DEF row, drawn
<1>5. freed = drawn
  BY <1>2, <1>4, FreedAll DEF WorkInv
<1> HIDE DEF freed
<1>6. holds[i] - drawn \in Nat /\ drawn <= holds[i]
  BY <1>1, <1>2
<1>7. /\ Positive(scope.reserved - drawn) = scope.reserved - drawn
      /\ SumFunctionOnSet(holds', Items) = scope.reserved - holds[i] + (holds[i] - drawn)
  <2>1. holds' = [holds EXCEPT ![i] = holds[i] - drawn]
    BY <1>3, <1>5
  <2> QED
    BY <1>2, <1>6, <2>1, SumMoves
<1>8. /\ scope'.reserved = scope.reserved - drawn
      /\ scope'.used = scope.used + n /\ scope'.limit = scope.limit
  BY <1>3, <1>5, <1>7 DEF WorkInv, WorkTypeOK
<1>9. scope.reserved \in Nat /\ scope.used \in Nat /\ scope.limit \in Nat /\ unreserved \in Nat
  BY DEF WorkInv, WorkTypeOK
<1> QED
  BY <1>1, <1>2, <1>3, <1>7, <1>8, <1>9 DEF ScopeAddsUp, WithinLimit

LEMMA ScopeInit == WorkInit => ScopeInv
<1> SUFFICES ASSUME WorkInit PROVE ScopeInv
  OBVIOUS
<1>1. WorkInv
  BY InvInit
<1>2. PICK n \in Limits : scope = [used |-> 0, reserved |-> 0, limit |-> n]
  BY DEF WorkInit
<1>3. IsFiniteSet(Items) /\ n \in Nat
  BY WorkAssumption
<1>4. SumFunctionOnSet(holds, Items) = 0
  BY <1>3, SumOfZeros DEF WorkInit
<1> QED
  BY <1>1, <1>2, <1>3, <1>4 DEF ScopeInv, ScopeAddsUp, WithinLimit, WorkInit

LEMMA ScopeStep == ScopeInv /\ [WorkNext]_workVars => ScopeInv'
<1> SUFFICES ASSUME ScopeInv, [WorkNext]_workVars PROVE ScopeAddsUp' /\ WithinLimit'
  BY InvStep DEF ScopeInv
<1>1. CASE UNCHANGED workVars \/ Tick \/ \E p \in Procs : Dies(p)
  BY <1>1, BudgetStays DEF workVars, Tick, Dies
<1>2. ASSUME NEW n \in Limits, SetLimit(n) PROVE ScopeAddsUp' /\ WithinLimit'
  <2>1. /\ holds' = holds /\ unreserved' = unreserved /\ unreserved \in Nat /\ n \in Nat
        /\ scope' = [scope EXCEPT !.limit = n] /\ n >= scope.used + scope.reserved
    BY <1>2, WorkAssumption DEF SetLimit, ScopeInv, WorkInv, WorkTypeOK
  <2>2. /\ scope.used \in Nat /\ scope.reserved \in Nat
        /\ scope'.used = scope.used /\ scope'.reserved = scope.reserved /\ scope'.limit = n
    BY <2>1 DEF ScopeInv, WorkInv, WorkTypeOK
  <2> QED
    BY <2>1, <2>2 DEF ScopeInv, ScopeAddsUp, WithinLimit
<1>3. ASSUME NEW p \in Procs, NEW i \in Items, Claim(p, i) PROVE ScopeAddsUp' /\ WithinLimit'
  BY <1>3, TakeAdds DEF Claim
<1>4. ASSUME NEW p \in Procs, NEW i \in Items, Writes(p, i) PROVE ScopeAddsUp' /\ WithinLimit'
  <2>1. ASSUME NEW to, Transition(p, i, to) PROVE ScopeAddsUp' /\ WithinLimit'
    BY <2>1, BudgetStays DEF Transition
  <2>2. CASE ReserveMore(p, i)
    BY <2>2, TakeAdds DEF ReserveMore
  <2>3. CASE Settle(p, i)
    <3>1. meter[i] \in MeterRow /\ meter[i].reserved \in Nat
      BY DEF ScopeInv, WorkInv, WorkTypeOK, MeterRow
    <3>2. Settled(i) \in MeterRow /\ Settled(i).reserved = 0
      BY <3>1 DEF Settled, MeterRow, NoToken
    <3>3. Settled(i).reserved = meter[i].reserved - meter[i].reserved
      BY <3>1, <3>2
    <3> QED
      BY <2>3, <3>1, <3>2, <3>3, SettleForAdds DEF Settle, SettleOwn
  <2>4. ASSUME NEW n \in Amounts, RecordUsage(p, i, n) PROVE ScopeAddsUp' /\ WithinLimit'
    BY <2>4, RecordUsageAdds
  <2>5. CASE Heartbeat(p, i) \/ Acknowledge(p, i)
    BY <2>5, SettleEndedAdds DEF Heartbeat, Acknowledge
  <2>6. ASSUME NEW abandon \in BOOLEAN, Release(p, i, abandon)
        PROVE  ScopeAddsUp' /\ WithinLimit'
    BY <2>6, SettleEndedAdds DEF Release, EndsBy, End
  <2> QED
    BY <1>4, <2>1, <2>2, <2>3, <2>4, <2>5, <2>6 DEF Writes
<1>5. ASSUME NEW i \in Items, Expire(i) \/ Operates(i) PROVE ScopeAddsUp' /\ WithinLimit'
  <2>1. CASE Expire(i) \/ ExpireHolder(i) \/ ResetExpiries(i)
             \/ \E abandon \in BOOLEAN : OperatorReleases(i, abandon)
    BY <2>1, SettleEndedAdds DEF Expire, ExpireHolder, ResetExpiries, OperatorReleases, EndsBy, End
  <2>2. CASE Delete(i)
    <3> DEFINE none == [reserved |-> 0, token |-> NoToken, directed |-> NoToken]
    <3>1. SettleFor(i, none, meter[i].reserved)
      BY <2>2 DEF Delete
    <3>2. meter[i].reserved \in Nat
      BY DEF ScopeInv, WorkInv, WorkTypeOK
    <3>3. none \in MeterRow /\ none.reserved = meter[i].reserved - meter[i].reserved
      BY <3>2 DEF MeterRow, NoToken
    <3> HIDE DEF none
    <3> QED
      BY <3>1, <3>2, <3>3, SettleForAdds
  <2> QED
    BY <1>5, <2>1, <2>2 DEF Operates
<1> QED
  BY <1>1, <1>2, <1>3, <1>4, <1>5, WorkAssumption DEF WorkNext

LEMMA ScopeHolds == WorkSpec => []ScopeInv
BY ScopeInit, ScopeStep, PTL DEF WorkSpec

(* The scope's own row is the sum of what it holds, for any items and any     *)
(* course of claims, settlements, usage, expiries and deletes.                *)
THEOREM NothingLeaks == WorkSpec => []ScopeAddsUp
<1>1. ScopeInv => ScopeAddsUp
  BY DEF ScopeInv
<1> QED
  BY <1>1, ScopeHolds, PTL

(* The scope never passes its limit but by usage that nothing was reserved    *)
(* for.                                                                       *)
THEOREM LimitHolds == WorkSpec => []WithinLimit
<1>1. ScopeInv => WithinLimit
  BY DEF ScopeInv
<1> QED
  BY <1>1, ScopeHolds, PTL
=============================================================================
