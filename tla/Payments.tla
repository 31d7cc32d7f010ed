------------------------------ MODULE Payments ------------------------------
(***************************************************************************)
(* What an instance of the behavior engine owes and how it is settled, with  *)
(* a provider that only its adapter calls (Payments of engine-commerce).     *)
(*                                                                          *)
(* An operation with what its after_change hook does is one step, as in      *)
(* WorkQueue.  The provider's events come in any order, any number of times  *)
(* and however late: a step may report any outcome of any payment, whether   *)
(* or not its actions were listed, carried out or given up.  The amount is a *)
(* field of the instance, in one currency, at one provider.                  *)
(***************************************************************************)
EXTENDS Integers, SequencesExt

CONSTANTS Stages, First, Moves,   \* the Workflow
          Requires,               \* per stage: "nothing", "authorized" or "paid"
          VoidOn, CaptureOn,
          AfterRelease,           \* "refund" or "keep"
          Owed,                   \* what the amount field may say
          MaxAttempts, MaxActs, MaxReports  \* bounds, two on what persons and the
                                            \* provider do

ASSUME PaymentsAssumption ==
  /\ First \in Stages /\ Moves \subseteq Stages \X Stages
  /\ Requires \in [Stages -> {"nothing", "authorized", "paid"}]
  /\ Requires[First] = "nothing"
  /\ VoidOn \subseteq Stages /\ CaptureOn \subseteq Stages
  /\ AfterRelease \in {"refund", "keep"}
  /\ Owed \subseteq Nat /\ IsFiniteSet(Owed)
  /\ MaxAttempts \in Nat /\ MaxActs \in Nat /\ MaxReports \in Nat

VARIABLES state,      \* Workflow's
          amount,     \* the field that says what is owed
          attempts,   \* in the order they opened, each with its actions
          refunds,    \* in the order they were asked
          recorded,   \* the captures recorded, by their events
          changed,    \* amount changed after an attempt opened
          acts,       \* how often persons asked for a capture, a void, a refund, an amount
          reports     \* how many events were recorded

history == <<changed, acts, reports>>
payVars == <<state, amount, attempts, refunds, recorded, history>>

(* How far forward a status is; "open" stands for requiresAction too. *)
Rank == [open |-> 0, processing |-> 2, failed |-> 3, authorized |-> 4,
         cancelled |-> 5, captured |-> 6]
InFlight == {"open", "processing", "authorized"}
Voidable == InFlight \ {"processing"}

(* captures are the capture actions that wait, asked whether there ever was  *)
(* one; void is the last void action.                                        *)
Attempt == [status : DOMAIN Rank, amount : Nat, due : Nat, authorized : Nat, captured : Nat,
            captures : Seq(Nat), asked : BOOLEAN, void : {"none", "waits", "done"},
            failed : BOOLEAN]

(* Why a refund was asked: its key is Payments' own but for a person's. *)
Refund == [attempt : Nat, amount : Nat, refunded : Nat, why : {"person", "overpaid", "release"},
           status : {"pending", "succeeded", "failed"}]
Event == [attempt : Nat, number : Nat, amount : Nat]

PayInit ==
  /\ state = First /\ amount \in Owed
  /\ attempts = <<>> /\ refunds = <<>> /\ recorded = {}
  /\ changed = FALSE /\ acts = 0 /\ reports = 0

AtLeastZero(n) == IF n < 0 THEN 0 ELSE n
Largest(a, b) == IF a < b THEN b ELSE a
-----------------------------------------------------------------------------
(* What is owed.                                                             *)

Flying(as) == {i \in DOMAIN as : as[i].status \in InFlight}
Due(as) == IF Flying(as) = {} THEN amount ELSE as[Max(Flying(as))].due
Captured(as) == SumFunction([i \in DOMAIN as |-> as[i].captured])

HoldingOf(a) == IF a.status = "authorized" THEN AtLeastZero(a.authorized - a.captured) ELSE 0
Authorized(as) == SumFunction([i \in DOMAIN as |-> HoldingOf(as[i])])
(* Mutant: only what is authorized is pending.                               *)
PendingAuthorized(as) == Authorized(as)

Pending(as) ==
  SumFunction([i \in Flying(as) |-> AtLeastZero(as[i].amount - as[i].captured)])

(* The most a provider may capture of it. *)
Capturable(a) == IF a.authorized > 0 THEN a.authorized ELSE a.amount

(* Mutant: a refund holds nothing until it is paid.                          *)
DrawsPaid(r) == IF r.status = "succeeded" THEN r.refunded ELSE 0

(* What a refund holds of the attempt it draws on.                           *)
Draws(r) == CASE r.status = "pending" -> r.amount
              [] r.status = "succeeded" -> r.refunded
              [] r.status = "failed" -> 0
Drawn(rs, i) ==
  SumFunction([k \in DOMAIN rs |-> IF rs[k].attempt = i THEN Draws(rs[k]) ELSE 0])
Refundable(as, i) == AtLeastZero(as[i].captured - Drawn(refunds, i))
-----------------------------------------------------------------------------
(* Actions for the adapter.                                                  *)

Voided(a) == [a EXCEPT !.void = "waits"]
(* Mutant: what is authorized is not voided.                                 *)
VoidsOpen(a) == a.status = "open" /\ a.void = "none"

VoidsOnce(a) == a.status \in Voidable /\ a.void = "none"
CapturesOnce(a) == a.status = "authorized" /\ HoldingOf(a) > 0 /\ ~a.asked
Capture(a, n) == [a EXCEPT !.captures = Append(@, n), !.asked = TRUE]

(* after_change: voidOn states void what is open, captureOn states capture   *)
(* what is authorized.                                                       *)
AfterVoid(st, a) == IF st \in VoidOn /\ VoidsOnce(a) THEN Voided(a) ELSE a
AfterCapture(st, a) ==
  IF st \in CaptureOn /\ CapturesOnce(a) THEN Capture(a, HoldingOf(a)) ELSE a
After(st, as) == [i \in DOMAIN as |-> AfterCapture(st, AfterVoid(st, as[i]))]

(* An attempt no longer in flight has no action left to do.                  *)
Finished(a) ==
  IF a.status \in InFlight THEN a
  ELSE [a EXCEPT !.captures = <<>>, !.void = IF @ = "waits" THEN "done" ELSE @]

(* A refund of n, drawn on the oldest attempt that has so much left.         *)
Enough(as, n) == {i \in DOMAIN as : as[i].captured > 0 /\ Refundable(as, i) >= n}
Asks(as, n, why) ==
  /\ Enough(as, n) # {}
  /\ refunds' = Append(refunds, [attempt |-> Min(Enough(as, n)), amount |-> n, refunded |-> 0,
                                 why |-> why, status |-> "pending"])
-----------------------------------------------------------------------------
(* Operations.                                                               *)

Opened(n) ==
  [status |-> "open", amount |-> n, due |-> Due(attempts), authorized |-> 0, captured |-> 0,
   captures |-> <<>>, asked |-> FALSE, void |-> "none", failed |-> FALSE]
Abandoned(a) == IF a.status = "failed" /\ a.void = "none" THEN Voided(a) ELSE a
Outstanding == Due(attempts) - Captured(attempts) - Pending(attempts)

(* Mutant: an amount below zero is opened.                                   *)
OwesAnything == state \notin VoidOn /\ Outstanding # 0

Owes == state \notin VoidOn /\ Outstanding > 0

OpenPayment ==
  /\ Owes
  /\ Len(attempts) < MaxAttempts
  /\ attempts' = After(state, Append([i \in DOMAIN attempts |-> Abandoned(attempts[i])],
                                     Opened(Outstanding)))
  /\ UNCHANGED <<state, amount, refunds, recorded, history>>

(* How many events are recorded, and how often persons act, are bounds.      *)
AnEvent == reports < MaxReports /\ reports' = reports + 1
Acts == acts < MaxActs /\ acts' = acts + 1

(* What the provider reports of a payment but that money was captured.       *)
Moved(a, to, n) ==
  IF Rank[to] <= Rank[a.status] THEN a
  ELSE [a EXCEPT !.status = to, !.authorized = IF to = "authorized" THEN n ELSE @,
                 !.failed = @ \/ to = "failed"]

Reports(i, to, n) ==
  /\ AnEvent
  /\ attempts' = After(state, [attempts EXCEPT ![i] = Finished(Moved(@, to, n))])
  /\ UNCHANGED <<state, amount, refunds, recorded, changed, acts>>

(* Mutant: all past what is due is asked back, again by each event.          *)
ExcessOfAll(as, event) == AtLeastZero(Captured(as) - Due(as))

(* What event brought past what is due, as far as one attempt can give it    *)
(* back.                                                                     *)
Excess(as, event) ==
  LET past == AtLeastZero(Captured(as) - Largest(Captured(as) - event.amount, Due(as)))
      most == Max({Refundable(as, i) : i \in DOMAIN as})
  IN Min({past, most})
VoidOthers(as, i) ==
  [k \in DOMAIN as |-> IF k # i /\ VoidsOnce(as[k]) THEN Voided(as[k]) ELSE as[k]]

(* Once what is captured covers what is due, the other attempts are voided,  *)
(* and the excess is asked back.                                             *)
SettleCapture(as, event) ==
  IF Captured(as) < Due(as)
  THEN attempts' = After(state, as) /\ UNCHANGED refunds
  ELSE /\ attempts' = After(state, VoidOthers(as, event.attempt))
       /\ IF Excess(as, event) = 0 THEN UNCHANGED refunds
          ELSE Asks(as, Excess(as, event), "overpaid")

FollowsCapture(as, event) ==
  IF state \notin VoidOn THEN SettleCapture(as, event)
  ELSE /\ attempts' = After(state, as)
       /\ IF AfterRelease = "keep" THEN UNCHANGED refunds
          ELSE Asks(as, event.amount, "release")

Paid(a, n) == [a EXCEPT !.status = "captured", !.captured = @ + n]
Brought(event) == [attempts EXCEPT ![event.attempt] = Finished(Paid(@, event.amount))]
Numbered(i) == Cardinality({e \in recorded : e.attempt = i})
(* Mutant: an event counts each time it comes.                               *)
RecordedNever(event) == FALSE

Recorded(event) ==
  \E e \in recorded : e.attempt = event.attempt /\ e.number = event.number

(* Money captured is counted once per event, whatever came before it.  The   *)
(* provider numbers its captures of an attempt, and sends any again.         *)
ReportsCapture(event) ==
  /\ AnEvent
  /\ event.number <= 1 + Numbered(event.attempt) /\ ~Recorded(event)
  /\ attempts[event.attempt].captured + event.amount <= Capturable(attempts[event.attempt])
  /\ recorded' = recorded \cup {event}
  /\ FollowsCapture(Brought(event), event)
  /\ UNCHANGED <<state, amount, changed, acts>>

ReportsRefund(k, to, n) ==
  /\ AnEvent
  /\ refunds[k].status = "pending" /\ n <= refunds[k].amount
  /\ refunds' = [refunds EXCEPT ![k].status = to, ![k].refunded = n]
  /\ attempts' = After(state, attempts)
  /\ UNCHANGED <<state, amount, recorded, changed, acts>>

Waiting(a) == SumFunction(a.captures)
(* Mutant: the captures that wait are forgotten.                             *)
UncapturedYet(a) == a.authorized - a.captured

Uncaptured(a) == a.authorized - a.captured - Waiting(a)

CapturePayment(i, n) ==
  /\ Acts /\ UNCHANGED <<changed, reports>>
  /\ attempts[i].status = "authorized"
  /\ attempts[i].captures # <<>> => n # Head(attempts[i].captures)
  /\ n <= Uncaptured(attempts[i])
  /\ attempts' = After(state, [attempts EXCEPT ![i] = Capture(@, n)])
  /\ UNCHANGED <<state, amount, refunds, recorded>>

VoidPayment(i) ==
  /\ Acts /\ UNCHANGED <<changed, reports>>
  /\ attempts[i].status \in Voidable /\ attempts[i].void # "waits"
  /\ attempts' = After(state, [attempts EXCEPT ![i] = Voided(@)])
  /\ UNCHANGED <<state, amount, refunds, recorded>>

RefundPayment(n) ==
  /\ Acts /\ UNCHANGED <<changed, reports>>
  /\ Asks(attempts, n, "person")
  /\ attempts' = After(state, attempts)
  /\ UNCHANGED <<state, amount, recorded>>

(* A move waits for what is processing, and for what its state requires.     *)
Met(to) ==
  CASE Requires[to] = "nothing" -> TRUE
    [] Requires[to] = "paid" -> Captured(attempts) >= Due(attempts)
    [] Requires[to] = "authorized" ->
         Captured(attempts) + Authorized(attempts) >= Due(attempts)

MovesTo(to) ==
  /\ <<state, to>> \in Moves
  /\ \A i \in DOMAIN attempts : attempts[i].status # "processing"
  /\ Met(to)
  /\ state' = to /\ attempts' = After(to, attempts)
  /\ UNCHANGED <<amount, refunds, recorded, history>>

(* The amount stays while an attempt is in flight.                           *)
Update(n) ==
  /\ n # amount /\ Flying(attempts) = {}
  /\ Acts
  /\ amount' = n /\ changed' = (changed \/ attempts # <<>>)
  /\ attempts' = After(state, attempts)
  /\ UNCHANGED <<state, refunds, recorded, reports>>

Units == 1..Max(Owed \cup {1})

PayNext ==
  \/ OpenPayment
  \/ \E i \in DOMAIN attempts :
       \/ \E to \in {"processing", "failed", "cancelled"} : Reports(i, to, 0)
       \/ \E n \in 1..attempts[i].amount : Reports(i, "authorized", n)
       \/ \E number, n \in Units :
            ReportsCapture([attempt |-> i, number |-> number, amount |-> n])
       \/ \E n \in Units : CapturePayment(i, n)
       \/ VoidPayment(i)
  \/ \E k \in DOMAIN refunds :
       ReportsRefund(k, "failed", 0)
         \/ \E n \in 0..refunds[k].amount : ReportsRefund(k, "succeeded", n)
  \/ \E n \in Units : RefundPayment(n)
  \/ \E to \in Stages : MovesTo(to)
  \/ \E n \in Owed : Update(n)

PaySpec == PayInit /\ [][PayNext]_payVars
-----------------------------------------------------------------------------
(* Every variable keeps its type.                                            *)
PayTypeOK ==
  /\ state \in Stages /\ amount \in Nat /\ changed \in BOOLEAN /\ acts \in Nat /\ reports \in Nat
  /\ attempts \in Seq(Attempt) /\ refunds \in Seq(Refund)
  /\ recorded \subseteq Event

(* What an attempt captured is what the events recorded for it say, each     *)
(* once however often it comes, and never past what it may capture.          *)
CountedOnce ==
  \A i \in DOMAIN attempts :
    /\ attempts[i].captured =
         SumFunction([e \in recorded |-> IF e.attempt = i THEN e.amount ELSE 0])
    /\ attempts[i].captured <= Capturable(attempts[i])

(* Refunds never take more of an attempt than it captured, however asks,     *)
(* failures and partial outcomes fall.                                       *)
DrawsFit == \A i \in DOMAIN attempts : Drawn(refunds, i) <= attempts[i].captured

(* The captures that wait never ask the provider for more than it            *)
(* authorized, whoever asked for them.                                       *)
CapturesFit ==
  \A i \in DOMAIN attempts :
    attempts[i].captures # <<>> => Waiting(attempts[i]) + attempts[i].captured <= attempts[i].authorized

(* Each attempt's money adds up: counted once, drawn on once, captured once.  *)
AttemptsAddUp == CountedOnce /\ DrawsFit /\ CapturesFit

AskedFor(why) ==
  SumFunction([k \in DOMAIN refunds |-> IF refunds[k].why = why THEN refunds[k].amount ELSE 0])

(* While the amount stays, whichever attempts the provider finished and in   *)
(* whatever order it said so: what it captured past what is owed is asked    *)
(* back, all of it unless the service keeps what comes after the release,    *)
(* and nothing that is owed is.                                              *)
ExcessAskedBack ==
  ~changed =>
    /\ AfterRelease = "refund" =>
         Captured(attempts) - AskedFor("overpaid") - AskedFor("release") <= amount
    /\ AskedFor("overpaid") <= AtLeastZero(Captured(attempts) - amount)

(* No second attempt opens while one is in flight.                           *)
OpensAlone == [][OpenPayment => Flying(attempts) = {}]_payVars

(* In a state that voids, what a provider could still take waits to be       *)
(* voided, unless the provider once said that it failed.                     *)
VoidsWait ==
  state \in VoidOn =>
    \A i \in DOMAIN attempts :
      attempts[i].status \in Voidable /\ ~attempts[i].failed => attempts[i].void = "waits"

(* While an attempt is in flight what is due does not change, so what a      *)
(* capture is asked back as overpaid is past what was due before it came.    *)
OwedIsKept ==
  [][Flying(attempts) # {} /\ Flying(attempts)' # {} =>
       AskedFor("overpaid")' - AskedFor("overpaid")
         <= AtLeastZero(Captured(attempts)' - Due(attempts))]_payVars
=============================================================================
