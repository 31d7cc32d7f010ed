----------------------------- MODULE WorkQueue -----------------------------
(***************************************************************************)
(* Claimable work on the behavior engine: items that compose Queue, Lease,   *)
(* Budget and Workflow, all drawing one meter on one enclosing scope.        *)
(*                                                                          *)
(* A process claims an item for the principal it serves and works under the  *)
(* fencing token of its claim, which it presents at every write.  It may die,*)
(* stall past its lease, or never hear an answer.  Writers of a namespace    *)
(* take turns, so an operation with all it invokes is one step.              *)
(***************************************************************************)
EXTENDS Integers, FiniteSets, Functions

CONSTANTS Items, Procs, Principals,
          Nobody,          \* who holds a free lease
          Idle,            \* what a process works on that claimed nothing
          TTL, MaxHold,    \* ttlMs and maxHoldMs
          MaxExpiries,
          Reserve,         \* what a claim reserves of the meter
          Limits,          \* the scope's limit: one at a time
          Amounts,         \* what one recordUsage counts
          Operated,        \* the items operators deal with: a bound
          MaxTime, MaxUsed, LastClaim, MaxToken  \* bounds, the last two per item

ASSUME WorkAssumption ==
  /\ IsFiniteSet(Items)
  /\ Nobody \notin Principals
  /\ Idle \notin [item : Items, token : Nat]
  /\ TTL \in Nat \ {0} /\ MaxHold \in Nat \ {0} /\ MaxExpiries \in Nat \ {0}
  /\ Operated \subseteq Items
  /\ Reserve \in Nat \ {0} /\ Limits \subseteq Nat /\ Amounts \subseteq Nat \ {0}
  /\ MaxTime \in Nat /\ MaxUsed \in Nat
  /\ LastClaim \in [Items -> Nat] /\ MaxToken \in [Items -> Nat]

VARIABLES now,
          serves,      \* per process: its principal
          has,         \* per process: the item and the token it works under
          lease,       \* per item: Lease's columns
          directives,  \* per item: the rows of Lease's directives
          status,      \* per item: Workflow's status
          meter,       \* per item: Budget's row
          holds,       \* per item: what the scope holds for it
          scope,       \* the scope's own row
          unreserved   \* usage counted beyond what was reserved for it

budget == <<meter, holds, scope, unreserved>>
workVars == <<now, serves, has, lease, directives, status, budget>>

States == {"ready", "working", "done", "dead", "gone"}
Terminal == {"done", "dead"}
Held == [holder : Principals \cup {Nobody}, token : Nat, acquired : Nat,
         expires : Nat, expiries : Nat]
Directive == [token : Nat, acked : BOOLEAN]

(* A row's null token is 0, which no claim has: acquire counts from 1. *)
NoToken == 0

WorkInit ==
  /\ now = 0
  /\ serves \in [Procs -> Principals]
  /\ has = [p \in Procs |-> Idle]
  /\ lease = [i \in Items |-> [holder |-> Nobody, token |-> 0, acquired |-> 0,
                               expires |-> 0, expiries |-> 0]]
  /\ directives = [i \in Items |-> {}]
  /\ status = [i \in Items |-> "ready"]
  /\ meter = [i \in Items |-> [reserved |-> 0, token |-> NoToken,
                               directed |-> NoToken]]
  /\ holds = [i \in Items |-> 0]
  /\ \E n \in Limits : scope = [used |-> 0, reserved |-> 0, limit |-> n]
  /\ unreserved = 0

(* Mutant: the bound of a minimum is left out.                               *)
LeastUnbounded(a, b) == a

Least(a, b) == IF a < b THEN a ELSE b
Positive(n) == IF n < 0 THEN 0 ELSE n
-----------------------------------------------------------------------------
(* Lease.                                                                    *)

Deadline(i) == Least(lease[i].expires, lease[i].acquired + MaxHold)
Active(i) == lease[i].holder # Nobody /\ now < Deadline(i)
Lapsed(i) == lease[i].holder # Nobody /\ ~Active(i)
ActiveToken(i) == IF Active(i) THEN lease[i].token ELSE NoToken

Ended(i, expiries) ==
  [lease[i] EXCEPT !.holder = Nobody, !.token = @ + 1, !.acquired = 0,
                   !.expires = 0, !.expiries = expiries]
Expiries(i) == lease[i].expiries + (IF status[i] \in Terminal THEN 0 ELSE 1)
Expired(i) == Ended(i, Expiries(i))

(* onExpiry moves an item back from "working" to "ready"; escalate, at the   *)
(* expiry that reaches maxExpiries, to "dead".                               *)
(* Mutant: a lease's end leaves the status.                                  *)
StaysWorking(i) == status[i]

OnExpiry(i) == IF status[i] = "working" THEN "ready" ELSE status[i]
Escalate(i) == IF status[i] = "working" THEN "dead" ELSE status[i]
ExpiredStatus(i) == IF Expiries(i) >= MaxExpiries THEN Escalate(i) ELSE OnExpiry(i)

(* Mutant: the directives outlive their lease.                               *)
KeepsAll(i) == directives[i]

Kept(i) == {d \in directives[i] : d.token # lease[i].token}
Direct(i) == directives[i] \cup {[token |-> lease[i].token, acked |-> FALSE]}

(* Mutant: the token is not compared, so the principal alone decides.        *)
PermitsHolder(i, caller, token) == Active(i) => caller = lease[i].holder

(* The guard of a write, with the token it presents if any: a stale token is *)
(* refused whoever calls, another's active lease shuts the caller out, and   *)
(* so does the caller's own once it has lapsed.                              *)
Permits(i, caller, token) ==
  /\ token # NoToken => token = lease[i].token
  /\ Active(i) => caller = lease[i].holder
  /\ Lapsed(i) => caller # lease[i].holder

(* What heartbeat, acknowledge and the holder's release ask for. *)
Holding(i, caller, token) ==
  token = lease[i].token /\ caller = lease[i].holder /\ Active(i)
-----------------------------------------------------------------------------
(* Budget.                                                                   *)

(* Mutant: what is used already is left out.                                 *)
FitsReserved(reserved, n) == reserved + n <= scope.limit

Fits(reserved, n) == scope.used + reserved + n <= scope.limit

(* The item's row becomes row, having let go of n, and its scope lets go of  *)
(* as much of what it holds as the item has no longer reserved.              *)
Freed(i, row, n) == Least(n, Positive(holds[i] - row.reserved))
SettleFor(i, row, n) ==
  /\ meter' = [meter EXCEPT ![i] = row]
  /\ holds' = [holds EXCEPT ![i] = @ - Freed(i, row, n)]
  /\ scope' = [scope EXCEPT !.reserved = Positive(@ - Freed(i, row, n))]
  /\ UNCHANGED unreserved

Settled(i) == [meter[i] EXCEPT !.reserved = 0, !.token = NoToken]
(* Mutant: the item's row is settled and the scope is not told.              *)
SettlesHere(i) ==
  meter' = [meter EXCEPT ![i] = Settled(i)] /\ UNCHANGED <<holds, scope, unreserved>>

(* Mutant: the scope's row is, and what it holds for the item is left.       *)
SettlesTheSum(i) ==
  /\ meter' = [meter EXCEPT ![i] = Settled(i)]
  /\ holds' = [holds EXCEPT ![i] = 0]
  /\ UNCHANGED <<scope, unreserved>>

SettleOwn(i) == SettleFor(i, Settled(i), meter[i].reserved)

(* After an operation of Lease, and before a reserve: what was reserved under*)
(* another lease than the active one is settled.                             *)
SettleEnded(i, token) ==
  IF meter[i].reserved > 0 /\ meter[i].token # token THEN SettleOwn(i)
                                                     ELSE UNCHANGED budget

(* take, at the item under the token and at the scope, after settling n.     *)
Take(i, token, n) ==
  LET row == [meter[i] EXCEPT !.reserved = @ - n]
      held == holds[i] - Freed(i, row, n)
      kept == Positive(scope.reserved - Freed(i, row, n))
  IN /\ held + Reserve <= row.reserved + Reserve
     /\ Fits(kept, Reserve)
     /\ meter' = [meter EXCEPT ![i].reserved = row.reserved + Reserve,
                               ![i].token = token]
     /\ holds' = [holds EXCEPT ![i] = held + Reserve]
     /\ scope' = [scope EXCEPT !.reserved = kept + Reserve]
     /\ UNCHANGED unreserved
-----------------------------------------------------------------------------
(* The operations.                                                           *)

Tick == /\ now < MaxTime
        /\ now' = now + 1
        /\ UNCHANGED <<serves, has, lease, directives, status, budget>>

(* The process hears the answer and works under the claim, or does not.      *)
Hears(p, claim) == has' = [has EXCEPT ![p] = claim] \/ UNCHANGED has

(* Queue's claim, which presents no token: the expiry of a lapsed lease,     *)
(* acquire, reserve and the move to "working"; a refusal of any leaves none  *)
(* of them done.  The guard keeps a lapsed lease's own principal out until   *)
(* another's claim or the sweep applies the expiry.                          *)
Claim(p, i) ==
  LET before == IF Lapsed(i) THEN Expired(i) ELSE lease[i]
      token == before.token + 1
  IN /\ has[p] = Idle /\ now <= LastClaim[i] /\ token <= MaxToken[i]
     /\ ~Active(i) /\ Permits(i, serves[p], NoToken)
     /\ (IF Lapsed(i) THEN ExpiredStatus(i) ELSE status[i]) = "ready"
     /\ before.expiries < MaxExpiries
     /\ lease' = [lease EXCEPT ![i] =
          [holder |-> serves[p], token |-> token, acquired |-> now,
           expires |-> now + Least(TTL, MaxHold), expiries |-> before.expiries]]
     /\ directives' = IF Lapsed(i) THEN [directives EXCEPT ![i] = Kept(i)]
                                   ELSE directives
     /\ Take(i, token, meter[i].reserved)
     /\ status' = [status EXCEPT ![i] = "working"]
     /\ Hears(p, [item |-> i, token |-> token])
     /\ UNCHANGED <<now, serves>>

(* A call of the process p under the claim it works under.                   *)
Working(p) == has[p] # Idle
Under(p, i) == Working(p) /\ has[p].item = i

(* What the call acknowledges: nothing, or what was sent under its lease.    *)
Acknowledges(i) ==
  \E told \in {{}, {d \in directives[i] : d.token = lease[i].token}} :
     directives' = [directives EXCEPT ![i] =
                      (@ \ told) \cup {[d EXCEPT !.acked = TRUE] : d \in told}]

Heartbeat(p, i) ==
  /\ Under(p, i) /\ Holding(i, serves[p], has[p].token)
  /\ Acknowledges(i)
  /\ lease' = [lease EXCEPT ![i].expires =
                 Least(now + TTL, lease[i].acquired + MaxHold)]
  /\ SettleEnded(i, lease[i].token)
  /\ UNCHANGED <<now, serves, has, status>>

Acknowledge(p, i) ==
  /\ Under(p, i) /\ Holding(i, serves[p], has[p].token)
  /\ Acknowledges(i) /\ directives' # directives
  /\ SettleEnded(i, lease[i].token)
  /\ UNCHANGED <<now, serves, has, lease, status>>

(* The lease ends as after says, with its directives and its reservation.    *)
End(i, after, move) ==
  /\ lease' = [lease EXCEPT ![i] = after]
  /\ directives' = [directives EXCEPT ![i] = Kept(i)]
  /\ status' = [status EXCEPT ![i] = move]
  /\ SettleEnded(i, NoToken)
  /\ UNCHANGED <<now, serves>>

(* release gives the work back; with abandon it counts as an expiry. *)
EndsBy(i, abandon) ==
  IF abandon THEN End(i, Expired(i), ExpiredStatus(i))
             ELSE End(i, Ended(i, lease[i].expiries), OnExpiry(i))

Release(p, i, abandon) ==
  /\ Under(p, i) /\ Holding(i, serves[p], has[p].token)
  /\ EndsBy(i, abandon)
  /\ Hears(p, Idle)

(* An operator with overridePermission needs no token.                       *)
OperatorReleases(i, abandon) ==
  Active(i) /\ EndsBy(i, abandon) /\ UNCHANGED has

(* expire, of the sweep or of anyone: a lapsed lease only.                   *)
Expire(i) == /\ Lapsed(i)
             /\ End(i, Expired(i), ExpiredStatus(i))
             /\ UNCHANGED has

(* expire with holder, and expireHolder: an operator's, of any held lease.   *)
ExpireHolder(i) == /\ Active(i)
                   /\ End(i, Expired(i), ExpiredStatus(i))
                   /\ UNCHANGED has

ResetExpiries(i) ==
  /\ lease[i].expiries # 0
  /\ lease' = [lease EXCEPT ![i].expiries = 0]
  /\ SettleEnded(i, ActiveToken(i))
  /\ UNCHANGED <<now, serves, has, directives, status>>

(* The worker moves its item along the workflow.                             *)
Transition(p, i, to) ==
  /\ Under(p, i) /\ Permits(i, serves[p], has[p].token)
  /\ status[i] = "working" /\ status' = [status EXCEPT ![i] = to]
  /\ UNCHANGED <<now, serves, has, lease, directives, budget>>

(* reserve, of another claim's worth under the active lease.                 *)
ReserveMore(p, i) ==
  /\ Under(p, i) /\ Permits(i, serves[p], has[p].token) /\ Active(i)
  /\ Take(i, lease[i].token,
          IF meter[i].token # lease[i].token THEN meter[i].reserved ELSE 0)
  /\ UNCHANGED <<now, serves, has, lease, directives, status>>

(* recordUsage is never refused for its amount: it draws on what is reserved,*)
(* here and at the scope, and the first over the limit tells the holder.     *)
RecordUsage(p, i, n) ==
  LET drawn == Least(n, meter[i].reserved)
      row == [meter[i] EXCEPT !.reserved = @ - drawn,
                              !.token = IF meter[i].reserved = drawn THEN NoToken
                                                                     ELSE @]
      freed == Freed(i, row, drawn)
      tells == /\ scope.used + n > scope.limit /\ Active(i)
               /\ meter[i].directed # lease[i].token
  IN /\ Under(p, i) /\ Permits(i, serves[p], has[p].token)
     /\ scope.used + n <= MaxUsed
     /\ holds' = [holds EXCEPT ![i] = @ - freed]
     /\ scope' = [scope EXCEPT !.used = @ + n, !.reserved = Positive(@ - freed)]
     /\ meter' = [meter EXCEPT ![i] =
                    IF tells THEN [row EXCEPT !.directed = lease[i].token] ELSE row]
     /\ directives' = IF tells THEN [directives EXCEPT ![i] = Direct(i)]
                               ELSE directives
     /\ unreserved' = unreserved + (n - drawn)
     /\ UNCHANGED <<now, serves, has, lease, status>>

Settle(p, i) ==
  /\ Under(p, i) /\ Permits(i, serves[p], has[p].token) /\ meter[i].reserved > 0
  /\ SettleOwn(i)
  /\ UNCHANGED <<now, serves, has, lease, directives, status>>

(* setLimit, on the scope: never below what is committed.                    *)
SetLimit(n) ==
  /\ n >= scope.used + scope.reserved
  /\ scope' = [scope EXCEPT !.limit = n]
  /\ UNCHANGED <<now, serves, has, lease, directives, status, meter, holds,
                 unreserved>>

(* An operator deletes the item, with its rows and what it reserved.         *)
Delete(i) ==
  /\ status[i] # "gone"
  /\ status' = [status EXCEPT ![i] = "gone"]
  /\ lease' = [lease EXCEPT ![i] = Ended(i, 0)]
  /\ directives' = [directives EXCEPT ![i] = {}]
  /\ SettleFor(i, [reserved |-> 0, token |-> NoToken, directed |-> NoToken],
               meter[i].reserved)
  /\ UNCHANGED <<now, serves, has>>

(* A process dies, or gives up the claim it works under.                     *)
Dies(p) == /\ Working(p)
           /\ has' = [has EXCEPT ![p] = Idle]
           /\ UNCHANGED <<now, serves, lease, directives, status, budget>>

(* A call of p under its claim is accepted.                                  *)
Writes(p, i) ==
  \/ Heartbeat(p, i) \/ Acknowledge(p, i)
  \/ \E abandon \in BOOLEAN : Release(p, i, abandon)
  \/ \E to \in {"ready", "done"} : Transition(p, i, to)
  \/ ReserveMore(p, i) \/ Settle(p, i)
  \/ \E n \in Amounts : RecordUsage(p, i, n)

Operates(i) ==
  \/ \E abandon \in BOOLEAN : OperatorReleases(i, abandon)
  \/ ExpireHolder(i) \/ ResetExpiries(i) \/ Delete(i)

WorkNext ==
  \/ Tick
  \/ \E p \in Procs, i \in Items : Claim(p, i) \/ Writes(p, i)
  \/ \E i \in Items : Expire(i)
  \/ \E i \in Operated : Operates(i)
  \/ \E n \in Limits : SetLimit(n)
  \/ \E p \in Procs : Dies(p)

WorkSpec == WorkInit /\ [][WorkNext]_workVars
-----------------------------------------------------------------------------
(* Every column keeps its type: no reservation or count falls below zero, and*)
(* no item is leased again past its expiries.                                *)
WorkTypeOK ==
  /\ now \in Nat
  /\ serves \in [Procs -> Principals]
  /\ has \in [Procs -> [item : Items, token : Nat] \cup {Idle}]
  /\ lease \in [Items -> Held] /\ \A i \in Items : lease[i].expiries <= MaxExpiries
  /\ directives \in [Items -> SUBSET Directive]
  /\ status \in [Items -> States]
  /\ meter \in [Items -> [reserved : Nat, token : Nat, directed : Nat]]
  /\ holds \in [Items -> Nat]
  /\ scope \in [used : Nat, reserved : Nat, limit : Nat]
  /\ unreserved \in Nat

(* No work is stranded: an item in the state a claim moved it to is leased,  *)
(* so the sweep, a release or an operator will take it back (claim, end,     *)
(* apply_expiry and Workflow's moves together).                              *)
WorkIsLeased == \A i \in Items : status[i] = "working" => lease[i].holder # Nobody

(* What belongs to a lease goes with it, whichever way it ends: its          *)
(* directives, so none reaches the next holder, and its reservation.         *)
LeaseTakesItsOwn ==
  \A i \in Items :
     /\ \A d \in directives[i] : lease[i].holder # Nobody /\ d.token = lease[i].token
     /\ meter[i].reserved > 0 =>
          lease[i].holder # Nobody /\ meter[i].token = lease[i].token

(* The scope holds for each item exactly what the item has reserved, through *)
(* every claim, settlement, use, expiry and delete (settle_for lets go of no *)
(* more than the item did, and reserve_for holds no more).                   *)
HeldAsReserved == \A i \in Items : holds[i] = meter[i].reserved

(* The scope's own row is the sum of what it holds: nothing leaks, nothing is*)
(* released twice.                                                           *)
ScopeAddsUp == scope.reserved = SumFunctionOnSet(holds, Items)

(* "Budget never passes a limit": what is used and reserved of the scope     *)
(* stays within its limit but for usage that no reservation covered.         *)
WithinLimit == scope.used + scope.reserved <= scope.limit + unreserved

(* The fencing token: a call is accepted under no earlier claim of an item   *)
(* than one a process works under, whichever principal each serves, however  *)
(* long a process stalled or however often it tries again.                   *)
FencedInOrder ==
  [][\A p, q \in Procs :
       Working(p) /\ Working(q) /\ has[p].item = has[q].item
         /\ has[p].token < has[q].token => ~Writes(p, has[p].item)]_workVars
=============================================================================
