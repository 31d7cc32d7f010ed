--------------------------- MODULE PaymentsProofs ---------------------------
(***************************************************************************)
(* What Payments says of the money: counted once, drawn on once, captured as *)
(* authorized, and asked back when it is past what is owed, for any Workflow *)
(* and any number of attempts, events and refunds.                           *)
(***************************************************************************)
EXTENDS Payments, SumTheorems

-----------------------------------------------------------------------------
(* Sums, and the ends of a set. *)

LEMMA SumOver == \A f : SumFunction(f) = SumFunctionOnSet(f, DOMAIN f)
BY DEF SumFunction

LEMMA SumsAgree ==
  ASSUME NEW f, NEW g, DOMAIN f = DOMAIN g, IsFiniteSet(DOMAIN f),
         \A x \in DOMAIN f : f[x] = g[x]
  PROVE  SumFunction(f) = SumFunction(g)
BY SumSame, SumOver

(* A sum takes what is added at its end. *)
LEMMA SumExtends ==
  ASSUME NEW n \in Nat, NEW f, NEW g, DOMAIN f = 1..n, DOMAIN g = 1..(n + 1),
         \A k \in 1..n : f[k] \in Int /\ g[k] = f[k], g[n + 1] \in Int
  PROVE  SumFunction(g) = SumFunction(f) + g[n + 1]
<1>1. IsFiniteSet(1..n) /\ IsFiniteSet(1..(n + 1))
  BY FS_Interval
<1>2. \A k \in 1..(n + 1) : g[k] \in Int
  <2>1. \A k \in 1..(n + 1) : k \in 1..n \/ k = n + 1
    OBVIOUS
  <2> QED
    BY <2>1
<1>3. (1..(n + 1)) \ {n + 1} = 1..n /\ n + 1 \in 1..(n + 1)
  OBVIOUS
<1>4. SumFunctionOnSet(g, 1..(n + 1)) = g[n + 1] + SumFunctionOnSet(g, 1..n)
  BY <1>1, <1>2, <1>3, SumTakes
<1>5. SumFunctionOnSet(g, 1..n) = SumFunctionOnSet(f, 1..n)
  BY <1>1, SumSame
<1>6. SumFunctionOnSet(f, 1..n) \in Int
  BY <1>1, SumInt
<1> QED
  BY <1>4, <1>5, <1>6, SumOver

(* A finite set of integers has a first and a last. *)
LEMMA EndsOf ==
  ASSUME NEW S \in SUBSET Int, IsFiniteSet(S), S # {}
  PROVE  /\ Max(S) \in S /\ \A y \in S : y <= Max(S)
         /\ Min(S) \in S /\ \A y \in S : Min(S) <= y
<1> DEFINE P == {T \in SUBSET S : T # {} => /\ \E x \in T : \A y \in T : y <= x
                                           /\ \E x \in T : \A y \in T : x <= y}
<1>1. ASSUME NEW T \in SUBSET S, \A U \in SUBSET T : U # T => U \in P
      PROVE  T \in P
  <2> SUFFICES ASSUME T # {}
               PROVE  /\ \E x \in T : \A y \in T : y <= x
                      /\ \E x \in T : \A y \in T : x <= y
    OBVIOUS
  <2>1. PICK z \in T : z \in Int
    OBVIOUS
  <2>2. T \ {z} \in P
    BY <1>1
  <2>3. CASE T \ {z} = {}
    BY <2>1, <2>3
  <2>4. CASE T \ {z} # {}
    <3>1. PICK a \in T \ {z} : \A y \in T \ {z} : y <= a
      BY <2>2, <2>4
    <3>2. PICK b \in T \ {z} : \A y \in T \ {z} : b <= y
      BY <2>2, <2>4
    <3>3. a \in Int /\ b \in Int /\ \A y \in T : y \in Int
      OBVIOUS
    <3>4. \A y \in T : y <= IF z <= a THEN a ELSE z
      BY <2>1, <3>1, <3>3
    <3>5. \A y \in T : (IF b <= z THEN b ELSE z) <= y
      BY <2>1, <3>2, <3>3
    <3> QED
      BY <3>4, <3>5
  <2> QED
    BY <2>3, <2>4
<1>2. S \in P
  <2> HIDE DEF P
  <2> QED
    BY <1>1, SubsetInduction
<1>3. \E x \in S : \A y \in S : x >= y
  BY <1>2
<1>4. \E x \in S : \A y \in S : x <= y
  BY <1>2
<1>5. Max(S) \in S /\ \A y \in S : Max(S) >= y
  BY <1>3 DEF Max
<1>6. Min(S) \in S /\ \A y \in S : Min(S) <= y
  BY <1>4 DEF Min
<1> QED
  BY <1>5, <1>6

LEMMA PairFinite == ASSUME NEW a, NEW b PROVE IsFiniteSet({a, b})
<1>1. IsFiniteSet({a})
  BY FS_Singleton
<1>2. IsFiniteSet({a} \cup {b})
  BY <1>1, FS_AddElement
<1>3. {a} \cup {b} = {a, b}
  OBVIOUS
<1> QED
  BY <1>2, <1>3

LEMMA ZeroAtLeast ==
  \A n \in Int : AtLeastZero(n) \in Nat /\ n <= AtLeastZero(n)
                   /\ (AtLeastZero(n) = n \/ AtLeastZero(n) = 0)
BY DEF AtLeastZero

-----------------------------------------------------------------------------
(* One attempt.                                                              *)

Sound(a) ==
  /\ a.captured > 0 => a.status = "captured"
  /\ a.captured <= Capturable(a)
  /\ a.captures # <<>> =>
       a.status = "authorized" /\ Waiting(a) + a.captured <= a.authorized
  /\ ~a.asked => a.captures = <<>>
  /\ a.status = "failed" => a.failed
  /\ a.void = "done" => a.failed \/ a.status \in {"cancelled", "captured"}

(* What stays of an attempt in a step that brings it no money. *)
SameMoney(a, b) ==
  b.captured = a.captured /\ b.amount = a.amount /\ b.due = a.due

Statuses == {"open", "processing", "failed", "authorized", "cancelled", "captured"}

LEMMA RankType ==
  /\ DOMAIN Rank = Statuses
  /\ Rank["open"] = 0 /\ Rank["processing"] = 2 /\ Rank["failed"] = 3
  /\ Rank["authorized"] = 4 /\ Rank["cancelled"] = 5 /\ Rank["captured"] = 6
BY DEF Rank, Statuses

LEMMA VoidedSound ==
  ASSUME NEW a \in Attempt, Sound(a)
  PROVE  /\ Voided(a) \in Attempt /\ Sound(Voided(a)) /\ SameMoney(a, Voided(a))
         /\ Voided(a).status = a.status /\ Voided(a).failed = a.failed
         /\ Voided(a).void = "waits"
<1> DEFINE b == Voided(a)
<1>1. /\ b \in Attempt /\ b.void = "waits" /\ b.status = a.status /\ b.failed = a.failed
      /\ b.captured = a.captured /\ b.captures = a.captures /\ b.amount = a.amount
      /\ b.due = a.due /\ b.authorized = a.authorized /\ b.asked = a.asked
  BY DEF Voided, Attempt
<1>2. Capturable(b) = Capturable(a) /\ Waiting(b) = Waiting(a)
  BY <1>1 DEF Capturable, Waiting
<1> HIDE DEF b
<1>3. Sound(b) /\ SameMoney(a, b)
  BY <1>1, <1>2 DEF Sound, SameMoney
<1> QED
  BY <1>1, <1>3 DEF b

(* The captures that wait, with one more. *)
LEMMA WaitingType ==
  ASSUME NEW s \in Seq(Nat)
  PROVE  /\ SumFunction(s) \in Nat
         /\ \A n \in Nat : SumFunction(Append(s, n)) = SumFunction(s) + n
<1>1. Len(s) \in Nat /\ DOMAIN s = 1..Len(s) /\ \A k \in 1..Len(s) : s[k] \in Nat
  OBVIOUS
<1>2. SumFunction(s) \in Nat
  <2>1. IsFiniteSet(1..Len(s))
    BY <1>1, FS_Interval
  <2>2. SumFunctionOnSet(s, 1..Len(s)) \in Nat
    BY <1>1, <2>1, SumNat
  <2> QED
    BY <1>1, <2>2, SumOver
<1>3. ASSUME NEW n \in Nat PROVE SumFunction(Append(s, n)) = SumFunction(s) + n
  <2> DEFINE t == Append(s, n)
  <2>1. /\ DOMAIN t = 1..(Len(s) + 1) /\ t[Len(s) + 1] = n
        /\ \A k \in 1..Len(s) : t[k] = s[k]
    OBVIOUS
  <2> HIDE DEF t
  <2>2. SumFunction(t) = SumFunction(s) + t[Len(s) + 1]
    BY <1>1, <2>1, SumExtends
  <2> QED
    BY <2>1, <2>2 DEF t
<1> QED
  BY <1>2, <1>3

LEMMA CaptureSound ==
  ASSUME NEW a \in Attempt, Sound(a), NEW n \in Nat, a.status = "authorized",
         Waiting(a) + a.captured + n <= a.authorized
  PROVE  /\ Capture(a, n) \in Attempt /\ Sound(Capture(a, n))
         /\ SameMoney(a, Capture(a, n))
         /\ Capture(a, n).status = a.status /\ Capture(a, n).failed = a.failed
         /\ Capture(a, n).void = a.void
<1> DEFINE b == Capture(a, n)
<1>1. a.captures \in Seq(Nat) /\ a.captured \in Nat /\ a.authorized \in Nat
  BY DEF Attempt
<1>2. /\ b.captures = Append(a.captures, n) /\ b.captured = a.captured
      /\ b.authorized = a.authorized /\ b.status = a.status /\ b.amount = a.amount
      /\ b.due = a.due /\ b.asked = TRUE /\ b.failed = a.failed /\ b.void = a.void
  BY DEF Capture, Attempt
<1>3. b \in Attempt
  <2>1. Append(a.captures, n) \in Seq(Nat)
    BY <1>1
  <2> QED
    BY <2>1 DEF Capture, Attempt
<1>4. Waiting(b) = Waiting(a) + n /\ Waiting(a) \in Nat
  BY <1>1, <1>2, WaitingType DEF Waiting
<1>5. Waiting(b) + b.captured <= b.authorized
  BY <1>1, <1>2, <1>4
<1>6. Capturable(b) = Capturable(a)
  BY <1>2 DEF Capturable
<1> HIDE DEF b
<1>7. Sound(b)
  BY <1>2, <1>5, <1>6 DEF Sound
<1> QED
  BY <1>2, <1>3, <1>7 DEF b, SameMoney

(* What follows any change: a voidOn state asks for what could still be taken *)
(* to be voided, a captureOn state for what is authorized to be captured.     *)
LEMMA AfterSound ==
  ASSUME NEW a \in Attempt, Sound(a), NEW st,
         NEW b, b = AfterCapture(st, AfterVoid(st, a))
  PROVE  /\ b \in Attempt /\ Sound(b) /\ SameMoney(a, b) /\ b.status = a.status
         /\ st \in VoidOn /\ b.status \in Voidable /\ ~b.failed => b.void = "waits"
<1> DEFINE v == AfterVoid(st, a)
<1>1. /\ v \in Attempt /\ Sound(v) /\ SameMoney(a, v) /\ v.status = a.status
      /\ v.failed = a.failed
  BY VoidedSound DEF AfterVoid, SameMoney
<1>2. st \in VoidOn /\ v.status \in Voidable /\ ~v.failed => v.void = "waits"
  <2> SUFFICES ASSUME st \in VoidOn, v.status \in Voidable, ~v.failed
               PROVE  v.void = "waits"
    OBVIOUS
  <2>1. CASE VoidsOnce(a)
    BY <2>1, VoidedSound DEF AfterVoid
  <2>2. CASE ~VoidsOnce(a)
    <3>1. v = a /\ a.void # "none"
      BY <1>1, <2>2 DEF AfterVoid, VoidsOnce
    <3>2. a.void # "done"
      BY <1>1, <3>1 DEF Sound, Voidable, InFlight
    <3> QED
      BY <3>1, <3>2 DEF Attempt
  <2> QED
    BY <2>1, <2>2
<1> HIDE DEF v
<1>3. CASE st \in CaptureOn /\ CapturesOnce(v)
  <2>1. v.authorized \in Nat /\ v.captured \in Nat
    BY <1>1 DEF Attempt
  <2>2. v.status = "authorized" /\ HoldingOf(v) > 0 /\ v.captures = <<>>
    BY <1>1, <1>3 DEF CapturesOnce, Sound
  <2>3. HoldingOf(v) = v.authorized - v.captured /\ HoldingOf(v) \in Nat
    BY <2>1, <2>2 DEF HoldingOf, AtLeastZero
  <2>4. Waiting(v) = 0
    BY <2>2, SumEmpty, SumOver DEF Waiting
  <2>5. Waiting(v) + v.captured + HoldingOf(v) <= v.authorized
    BY <2>1, <2>3, <2>4
  <2>6. b = Capture(v, HoldingOf(v))
    BY <1>3 DEF v, AfterCapture
  <2> QED
    BY <1>1, <1>2, <2>2, <2>3, <2>5, <2>6, CaptureSound DEF SameMoney
<1>4. CASE ~(st \in CaptureOn /\ CapturesOnce(v))
  <2>1. b = v
    BY <1>4 DEF v, AfterCapture
  <2> QED
    BY <1>1, <1>2, <2>1
<1> QED
  BY <1>3, <1>4

LEMMA FinishedType ==
  ASSUME NEW a \in Attempt
  PROVE  Finished(a) \in Attempt /\ SameMoney(a, Finished(a))
<1>1. <<>> \in Seq(Nat)
  OBVIOUS
<1>2. CASE a.status \in InFlight
  BY <1>2 DEF Finished, SameMoney
<1>3. CASE a.status \notin InFlight
  <2> DEFINE void == IF a.void = "waits" THEN "done" ELSE a.void
  <2>1. Finished(a) = [a EXCEPT !.captures = <<>>, !.void = void]
    BY <1>3 DEF Finished, Attempt
  <2>2. void \in {"none", "waits", "done"}
    BY DEF Attempt
  <2> HIDE DEF void
  <2> QED
    BY <1>1, <2>1, <2>2 DEF Attempt, SameMoney
<1> QED
  BY <1>2, <1>3

(* An event that moves an attempt, and ends its actions with it. *)
LEMMA MovedSound ==
  ASSUME NEW a \in Attempt, Sound(a), NEW n \in Nat,
         NEW to \in {"processing", "failed", "cancelled", "authorized"},
         NEW b, b = Finished(Moved(a, to, n))
  PROVE  b \in Attempt /\ Sound(b) /\ SameMoney(a, b)
<1> DEFINE m == Moved(a, to, n)
<1>t. /\ a.status \in Statuses /\ a.captured \in Nat /\ a.captures \in Seq(Nat)
      /\ a.failed \in BOOLEAN /\ a.amount \in Nat
  BY RankType DEF Attempt
<1>1. CASE Rank[to] <= Rank[a.status]
  <2>1. b = Finished(a)
    BY <1>1 DEF Moved
  <2>2. b \in Attempt /\ SameMoney(a, b)
    BY <2>1, FinishedType
  <2>3. /\ b.status = a.status /\ b.captured = a.captured /\ b.authorized = a.authorized
        /\ b.amount = a.amount /\ b.asked = a.asked /\ b.failed = a.failed
        /\ b.captures = a.captures \/ b.captures = <<>>
        /\ b.void = a.void \/ a.status \notin InFlight
    BY <2>1 DEF Finished, Attempt
  <2>4. Capturable(b) = Capturable(a) /\ (b.captures # <<>> => Waiting(b) = Waiting(a))
    BY <2>3 DEF Capturable, Waiting
  <2>5. b.void = "done" => b.failed \/ b.status \in {"cancelled", "captured"}
    BY <1>t, <2>3 DEF Sound, InFlight, Statuses
  <2> QED
    BY <2>2, <2>3, <2>4, <2>5 DEF Sound
<1>2. CASE ~(Rank[to] <= Rank[a.status])
  <2>1. a.status # "captured" /\ a.captured = 0
    BY <1>2, <1>t, RankType DEF Sound
  <2>2. /\ m \in Attempt /\ m.status = to /\ m.captured = 0 /\ m.captures = a.captures
        /\ m.amount = a.amount /\ m.due = a.due /\ m.asked = a.asked
        /\ m.void = a.void /\ m.failed = (a.failed \/ to = "failed")
        /\ m.authorized \in Nat
    BY <1>2, <1>t, <2>1, RankType DEF Moved, Attempt, Statuses
  <2>3. to \in {"processing", "authorized"} => a.captures = <<>>
    BY <1>2, <1>t, RankType DEF Sound
  <2> HIDE DEF m
  <2>4. /\ b \in Attempt /\ b.status = to /\ b.captured = 0 /\ b.amount = m.amount
        /\ b.due = m.due /\ b.asked = m.asked /\ b.failed = m.failed
        /\ b.authorized = m.authorized
        /\ b.captures = <<>>
        /\ b.void = m.void \/ to \in {"failed", "cancelled"}
    <3>1. b = Finished(m)
      BY DEF m
    <3>2. b \in Attempt
      BY <2>2, <3>1, FinishedType
    <3>3. CASE to \in InFlight
      <4>1. b = m /\ to \in {"processing", "authorized"}
        BY <2>2, <3>1, <3>3 DEF Finished, InFlight
      <4> QED
        BY <2>2, <2>3, <3>2, <4>1
    <3>4. CASE to \notin InFlight
      <4>1. b = [m EXCEPT !.captures = <<>>, !.void = IF @ = "waits" THEN "done" ELSE @]
        BY <2>2, <3>1, <3>4 DEF Finished
      <4>2. to \in {"failed", "cancelled"}
        BY <3>4 DEF InFlight
      <4> QED
        BY <2>2, <3>2, <4>1, <4>2 DEF Attempt
    <3> QED
      BY <3>3, <3>4
  <2>5. b.captured <= Capturable(b)
    BY <2>4 DEF Capturable, Attempt
  <2>6. b.void = "done" => b.failed \/ b.status = "cancelled"
    <3>1. CASE to = "failed"
      BY <2>2, <2>4, <3>1
    <3>2. CASE to \in {"processing", "authorized"}
      BY <1>t, <2>1, <2>2, <2>4, <3>2, <1>2, RankType DEF Sound
    <3> QED
      BY <2>4, <3>1, <3>2
  <2> QED
    BY <1>t, <2>1, <2>2, <2>4, <2>5, <2>6 DEF Sound, SameMoney
<1> QED
  BY <1>1, <1>2

(* An event that brings money. *)
LEMMA BroughtSound ==
  ASSUME NEW a \in Attempt, Sound(a), NEW x \in Nat, x > 0,
         a.captured + x <= Capturable(a),
         NEW b, b = Finished(Paid(a, x))
  PROVE  /\ b \in Attempt /\ Sound(b) /\ b.captured = a.captured + x
         /\ b.amount = a.amount /\ b.due = a.due
<1>1. a.captured \in Nat
  BY DEF Attempt
<1>2. /\ b.status = "captured" /\ b.captured = a.captured + x /\ b.captures = <<>>
      /\ b.amount = a.amount /\ b.due = a.due /\ b.authorized = a.authorized
  BY DEF Finished, Paid, InFlight, Attempt
<1>3. b \in Attempt
  <2>1. a.captured + x \in Nat /\ "captured" \in DOMAIN Rank
    BY <1>1, RankType DEF Statuses
  <2>2. Paid(a, x) \in Attempt
    BY <2>1 DEF Attempt, Paid
  <2> QED
    BY <2>2, FinishedType
<1>4. Capturable(b) = Capturable(a)
  BY <1>2 DEF Capturable
<1> QED
  BY <1>2, <1>3, <1>4 DEF Sound

-----------------------------------------------------------------------------
(* All attempts, and what the books say of them.                             *)

AllSound(as) == as \in Seq(Attempt) /\ \A i \in DOMAIN as : Sound(as[i])
Alike(as, bs) == DOMAIN bs = DOMAIN as /\ \A i \in DOMAIN as : SameMoney(as[i], bs[i])
Voiding(st, as) ==
  st \in VoidOn =>
    \A i \in DOMAIN as : as[i].status \in Voidable /\ ~as[i].failed => as[i].void = "waits"

LEMMA IsSeq ==
  ASSUME NEW S, NEW n \in Nat, NEW f \in [1..n -> S]
  PROVE  f \in Seq(S) /\ Len(f) = n
  OBVIOUS

LEMMA SeqParts ==
  ASSUME NEW S, NEW s \in Seq(S)
  PROVE  /\ Len(s) \in Nat /\ DOMAIN s = 1..Len(s) /\ IsFiniteSet(DOMAIN s)
         /\ DOMAIN s \subseteq Int
         /\ \A i \in DOMAIN s : s[i] \in S
<1>1. Len(s) \in Nat /\ DOMAIN s = 1..Len(s) /\ \A i \in DOMAIN s : s[i] \in S
  OBVIOUS
<1> QED
  BY <1>1, FS_Interval

LEMMA Appended ==
  ASSUME NEW S, NEW s \in Seq(S), NEW a
  PROVE  /\ DOMAIN Append(s, a) = 1..(Len(s) + 1) /\ Append(s, a)[Len(s) + 1] = a
         /\ \A k \in 1..Len(s) : Append(s, a)[k] = s[k]
  OBVIOUS

(* What follows a change keeps every attempt sound and its money, and has all *)
(* that a provider could take wait to be voided in a state that voids.        *)
LEMMA AfterKeeps ==
  ASSUME NEW as, AllSound(as), NEW st, NEW bs, bs = After(st, as)
  PROVE  AllSound(bs) /\ Alike(as, bs) /\ Voiding(st, bs)
<1>1. as \in Seq(Attempt) /\ Len(as) \in Nat /\ DOMAIN as = 1..Len(as)
      /\ \A i \in DOMAIN as : as[i] \in Attempt
  BY SeqParts DEF AllSound
<1>2. DOMAIN bs = DOMAIN as
      /\ \A i \in DOMAIN as : bs[i] = AfterCapture(st, AfterVoid(st, as[i]))
  BY DEF After
<1>3. ASSUME NEW i \in DOMAIN as
      PROVE  /\ bs[i] \in Attempt /\ Sound(bs[i]) /\ SameMoney(as[i], bs[i])
             /\ st \in VoidOn /\ bs[i].status \in Voidable /\ ~bs[i].failed
                  => bs[i].void = "waits"
  <2>1. as[i] \in Attempt /\ Sound(as[i])
    BY <1>1 DEF AllSound
  <2>2. bs[i] = AfterCapture(st, AfterVoid(st, as[i]))
    BY <1>2
  <2> HIDE DEF AllSound
  <2> QED
    BY <2>1, <2>2, AfterSound
<1>4. bs \in Seq(Attempt)
  <2>1. bs \in [1..Len(as) -> Attempt]
    BY <1>1, <1>2, <1>3 DEF After
  <2> QED
    BY <1>1, <2>1, IsSeq
<1> QED
  BY <1>2, <1>3, <1>4 DEF AllSound, Alike, Voiding

LEMMA CapturedType ==
  ASSUME NEW as, AllSound(as)
  PROVE  /\ Captured(as) \in Nat
         /\ \A i \in DOMAIN as : as[i].captured \in Nat /\ as[i].captured <= Captured(as)
<1> DEFINE f == [i \in DOMAIN as |-> as[i].captured]
<1>a. as \in Seq(Attempt) /\ \A a \in Attempt : a.captured \in Nat
  BY DEF AllSound, Attempt
<1>1. IsFiniteSet(DOMAIN as) /\ \A i \in DOMAIN as : as[i].captured \in Nat
  BY <1>a, SeqParts
<1>2. DOMAIN f = DOMAIN as /\ (\A i \in DOMAIN as : f[i] = as[i].captured)
      /\ Captured(as) = SumFunction(f)
  BY DEF Captured
<1> HIDE DEF f
<1> QED
  BY <1>1, <1>2, SumNat, SumOver

LEMMA CapturedAlike ==
  ASSUME NEW as, AllSound(as), NEW bs, AllSound(bs), Alike(as, bs)
  PROVE  Captured(bs) = Captured(as)
<1>1. [i \in DOMAIN bs |-> bs[i].captured] = [i \in DOMAIN as |-> as[i].captured]
  BY DEF Alike, SameMoney
<1> QED
  BY <1>1 DEF Captured

(* Money brought to one attempt is brought to all. *)
LEMMA CapturedBrought ==
  ASSUME NEW as, AllSound(as), NEW bs, AllSound(bs), DOMAIN bs = DOMAIN as,
         NEW i \in DOMAIN as, NEW x \in Nat, bs[i].captured = as[i].captured + x,
         \A k \in DOMAIN as \ {i} : bs[k].captured = as[k].captured
  PROVE  Captured(bs) = Captured(as) + x
<1> DEFINE f == [k \in DOMAIN as |-> as[k].captured]
           g == [k \in DOMAIN bs |-> bs[k].captured]
           S == DOMAIN as
<1>1. IsFiniteSet(S)
  BY SeqParts DEF AllSound
<1>2. \A k \in S : f[k] \in Int /\ g[k] \in Int
  <2>1. \A k \in DOMAIN as : as[k].captured \in Nat
    BY CapturedType
  <2>2. \A k \in DOMAIN bs : bs[k].captured \in Nat
    BY CapturedType
  <2>3. \A n \in Nat : n \in Int
    OBVIOUS
  <2>4. ASSUME NEW k \in DOMAIN as PROVE f[k] \in Int
    BY <2>1, <2>3, <2>4
  <2>5. ASSUME NEW k \in DOMAIN bs PROVE g[k] \in Int
    BY <2>2, <2>3, <2>5
  <2> QED
    BY <2>4, <2>5
<1>3. g[i] = f[i] + x /\ \A k \in S \ {i} : f[k] = g[k]
  OBVIOUS
<1>4. /\ Captured(as) = SumFunctionOnSet(f, S)
      /\ Captured(bs) = SumFunctionOnSet(g, S)
  BY SumOver DEF Captured
<1>s. i \in S
  OBVIOUS
<1> HIDE DEF f, g, S
<1>5. SumFunctionOnSet(g, S) = SumFunctionOnSet(f, S) - f[i] + g[i]
  BY <1>1, <1>2, <1>3, <1>s, SumChanges
<1>6. SumFunctionOnSet(f, S) \in Int
  BY <1>1, <1>2, SumInt
<1>7. f[i] \in Int
  BY <1>2, <1>s
<1> QED
  BY <1>3, <1>4, <1>5, <1>6, <1>7

LEMMA CapturedOpened ==
  ASSUME NEW as, AllSound(as), NEW a \in Attempt, a.captured = 0
  PROVE  Captured(Append(as, a)) = Captured(as)
<1> DEFINE f == [k \in DOMAIN as |-> as[k].captured]
           bs == Append(as, a)
           g == [k \in DOMAIN bs |-> bs[k].captured]
           n == Len(as)
<1>a. as \in Seq(Attempt)
  BY DEF AllSound
<1>1. n \in Nat /\ DOMAIN as = 1..n /\ \A k \in 1..n : as[k] \in Attempt
  <2>1. Len(as) \in Nat /\ DOMAIN as = 1..Len(as) /\ \A k \in DOMAIN as : as[k] \in Attempt
    BY <1>a, SeqParts
  <2> QED
    BY <2>1
<1>2. DOMAIN bs = 1..(n + 1) /\ bs[n + 1] = a /\ \A k \in 1..n : bs[k] = as[k]
  <2>1. /\ DOMAIN Append(as, a) = 1..(Len(as) + 1) /\ Append(as, a)[Len(as) + 1] = a
        /\ \A k \in 1..Len(as) : Append(as, a)[k] = as[k]
    <3>1. ASSUME NEW s \in Seq(Attempt)
          PROVE  /\ DOMAIN Append(s, a) = 1..(Len(s) + 1) /\ Append(s, a)[Len(s) + 1] = a
                 /\ \A k \in 1..Len(s) : Append(s, a)[k] = s[k]
      BY Appended
    <3> HIDE DEF bs, f, g, n
    <3> QED
      BY <1>a, <3>1
  <2> QED
    BY <2>1
<1>c. \A k \in 1..n : as[k].captured \in Int
  <2>1. \A b \in Attempt : b.captured \in Int
    BY DEF Attempt
  <2> HIDE DEF n
  <2> QED
    BY <1>1, <2>1
<1>m. n \in Nat
  BY <1>1
<1> HIDE DEF bs, n
<1>n. n + 1 \in 1..(n + 1) /\ \A k \in 1..n : k \in 1..(n + 1)
  BY <1>m
<1>3. /\ DOMAIN f = 1..n /\ DOMAIN g = 1..(n + 1)
      /\ \A k \in 1..n : f[k] \in Int /\ g[k] = f[k]
  <2>1. \A k \in 1..n : f[k] = as[k].captured
    BY <1>1
  <2>2. \A k \in 1..n : g[k] = as[k].captured
    BY <1>2, <1>n
  <2> QED
    BY <1>1, <1>2, <1>c, <2>1, <2>2
<1>4. g[n + 1] = 0
  <2>1. n + 1 \in DOMAIN bs
    BY <1>2, <1>n
  <2>2. g[n + 1] = bs[n + 1].captured
    BY <2>1
  <2> QED
    BY <1>2, <2>2
<1>5. SumFunction(f) \in Int
  <2>1. Captured(as) \in Nat
    BY CapturedType
  <2>2. Captured(as) = SumFunction(f)
    BY DEF Captured
  <2> HIDE DEF f
  <2> QED
    BY <2>1, <2>2
<1> HIDE DEF f, g
<1>6. SumFunction(g) = SumFunction(f) + g[n + 1]
  BY <1>1, <1>3, <1>4, SumExtends
<1>7. SumFunction(g) = SumFunction(f)
  BY <1>4, <1>5, <1>6
<1> QED
  BY <1>7 DEF Captured, f, g, bs

-----------------------------------------------------------------------------
(* Refunds: what they draw, and what was asked.                              *)

Asked(rs, why) ==
  SumFunction([k \in DOMAIN rs |-> IF rs[k].why = why THEN rs[k].amount ELSE 0])

LEMMA DrawsType == \A r \in Refund : Draws(r) \in Nat
BY DEF Refund, Draws

LEMMA DrawnType ==
  ASSUME NEW rs \in Seq(Refund), NEW i
  PROVE  Drawn(rs, i) \in Nat /\ Asked(rs, i) \in Nat
<1> DEFINE f == [k \in DOMAIN rs |-> IF rs[k].attempt = i THEN Draws(rs[k]) ELSE 0]
           g == [k \in DOMAIN rs |-> IF rs[k].why = i THEN rs[k].amount ELSE 0]
<1>a. IsFiniteSet(DOMAIN rs) /\ \A k \in DOMAIN rs : rs[k] \in Refund
  BY SeqParts
<1>b. \A k \in DOMAIN rs : Draws(rs[k]) \in Nat /\ rs[k].amount \in Nat
  BY <1>a, DrawsType DEF Refund
<1>1. /\ DOMAIN f = DOMAIN rs /\ DOMAIN g = DOMAIN rs
      /\ \A k \in DOMAIN rs : f[k] \in Nat /\ g[k] \in Nat
  BY <1>b
<1> HIDE DEF f, g
<1>2. SumFunction(f) \in Nat /\ SumFunction(g) \in Nat
  BY <1>a, <1>1, SumNat, SumOver
<1> QED
  BY <1>2 DEF Drawn, Asked, f, g

LEMMA DrawnExtends ==
  ASSUME NEW rs \in Seq(Refund), NEW r \in Refund, NEW i
  PROVE  /\ Drawn(Append(rs, r), i) = Drawn(rs, i) + IF r.attempt = i THEN Draws(r) ELSE 0
         /\ Asked(Append(rs, r), i) = Asked(rs, i) + IF r.why = i THEN r.amount ELSE 0
<1> DEFINE n == Len(rs)
           qs == Append(rs, r)
           f == [k \in DOMAIN rs |-> IF rs[k].attempt = i THEN Draws(rs[k]) ELSE 0]
           g == [k \in DOMAIN qs |-> IF qs[k].attempt = i THEN Draws(qs[k]) ELSE 0]
           h == [k \in DOMAIN rs |-> IF rs[k].why = i THEN rs[k].amount ELSE 0]
           j == [k \in DOMAIN qs |-> IF qs[k].why = i THEN qs[k].amount ELSE 0]
<1>1. n \in Nat /\ DOMAIN rs = 1..n /\ \A k \in 1..n : rs[k] \in Refund
  BY SeqParts
<1>2. DOMAIN qs = 1..(n + 1) /\ qs[n + 1] = r /\ \A k \in 1..n : qs[k] = rs[k]
  BY <1>1
<1>3. n + 1 \in 1..(n + 1) /\ \A k \in 1..n : k \in 1..(n + 1)
  BY <1>1
<1>4. Draws(r) \in Int /\ r.amount \in Int /\ \A k \in 1..n : Draws(rs[k]) \in Int
                                                              /\ rs[k].amount \in Int
  BY <1>1, DrawsType DEF Refund
<1> HIDE DEF n, qs
<1>5. /\ DOMAIN f = 1..n /\ DOMAIN g = 1..(n + 1)
      /\ \A k \in 1..n : f[k] \in Int /\ g[k] = f[k]
      /\ g[n + 1] = (IF r.attempt = i THEN Draws(r) ELSE 0) /\ g[n + 1] \in Int
  BY <1>1, <1>2, <1>3, <1>4
<1>6. /\ DOMAIN h = 1..n /\ DOMAIN j = 1..(n + 1)
      /\ \A k \in 1..n : h[k] \in Int /\ j[k] = h[k]
      /\ j[n + 1] = (IF r.why = i THEN r.amount ELSE 0) /\ j[n + 1] \in Int
  BY <1>1, <1>2, <1>3, <1>4
<1> HIDE DEF f, g, h, j
<1>7. SumFunction(g) = SumFunction(f) + g[n + 1] /\ SumFunction(j) = SumFunction(h) + j[n + 1]
  BY <1>1, <1>5, <1>6, SumExtends
<1> QED
  BY <1>5, <1>6, <1>7 DEF f, g, h, j, Drawn, Asked, qs

(* A refund that ends draws no more than it did, and was asked as it was.     *)
DrawsNoMore(rs, qs, i) ==
  /\ qs \in Seq(Refund) /\ DOMAIN qs = DOMAIN rs
  /\ \A m \in DOMAIN rs : qs[m].attempt = rs[m].attempt
  /\ Drawn(qs, i) <= Drawn(rs, i) /\ Asked(qs, i) = Asked(rs, i)

LEMMA DrawnEnds ==
  ASSUME NEW rs \in Seq(Refund), NEW k \in DOMAIN rs, rs[k].status = "pending",
         NEW to \in {"failed", "succeeded"}, NEW n \in 0..rs[k].amount,
         NEW qs, qs = [rs EXCEPT ![k].status = to, ![k].refunded = n], NEW i
  PROVE  DrawsNoMore(rs, qs, i)
<1> DEFINE f == [m \in DOMAIN rs |-> IF rs[m].attempt = i THEN Draws(rs[m]) ELSE 0]
           g == [m \in DOMAIN qs |-> IF qs[m].attempt = i THEN Draws(qs[m]) ELSE 0]
           r == [rs[k] EXCEPT !.status = to, !.refunded = n]
<1>1. /\ Len(rs) \in Nat /\ DOMAIN rs = 1..Len(rs) /\ IsFiniteSet(DOMAIN rs)
      /\ \A m \in DOMAIN rs : rs[m] \in Refund
  BY SeqParts
<1>2. n \in Nat /\ rs[k].amount \in Nat /\ n <= rs[k].amount
  BY <1>1 DEF Refund
<1>3. /\ r \in Refund /\ r.attempt = rs[k].attempt /\ r.amount = rs[k].amount
      /\ r.why = rs[k].why /\ r.status = to /\ r.refunded = n
  BY <1>1, <1>2 DEF Refund
<1>4. Draws(r) <= Draws(rs[k])
  BY <1>2, <1>3 DEF Draws
<1>5. qs = [rs EXCEPT ![k] = r]
  OBVIOUS
<1> HIDE DEF r
<1>6. DOMAIN qs = DOMAIN rs /\ \A m \in DOMAIN rs : qs[m] = IF m = k THEN r ELSE rs[m]
  BY <1>5
<1>7. qs \in Seq(Refund)
  <2>1. qs \in [1..Len(rs) -> Refund]
    BY <1>1, <1>3, <1>5
  <2>2. Len(rs) \in Nat
    BY <1>1
  <2> QED
    BY <2>1, <2>2, IsSeq
<1>8. \A m \in DOMAIN rs : /\ qs[m].attempt = rs[m].attempt /\ qs[m].amount = rs[m].amount
                           /\ qs[m].why = rs[m].why
                           /\ Draws(qs[m]) <= Draws(rs[m])
                           /\ Draws(qs[m]) \in Int /\ Draws(rs[m]) \in Int
  <2> SUFFICES ASSUME NEW m \in DOMAIN rs
               PROVE  /\ qs[m].attempt = rs[m].attempt /\ qs[m].amount = rs[m].amount
                      /\ qs[m].why = rs[m].why
                      /\ Draws(qs[m]) <= Draws(rs[m])
                      /\ Draws(qs[m]) \in Int /\ Draws(rs[m]) \in Int
    OBVIOUS
  <2>1. Draws(rs[m]) \in Int /\ Draws(r) \in Int
    BY <1>1, <1>3, DrawsType
  <2> QED
    BY <1>3, <1>4, <1>6, <2>1
<1>9. Asked(qs, i) = Asked(rs, i)
  <2>1. [m \in DOMAIN qs |-> IF qs[m].why = i THEN qs[m].amount ELSE 0]
          = [m \in DOMAIN rs |-> IF rs[m].why = i THEN rs[m].amount ELSE 0]
    BY <1>6, <1>8
  <2> QED
    BY <2>1 DEF Asked
<1>10. \A m \in DOMAIN rs : f[m] \in Int /\ g[m] \in Int /\ g[m] <= f[m]
  BY <1>6, <1>8
<1>11. SumFunction(g) <= SumFunction(f)
  <2>1. DOMAIN f = DOMAIN rs /\ DOMAIN g = DOMAIN rs
    BY <1>6
  <2> HIDE DEF f, g
  <2> QED
    BY <1>1, <1>10, <2>1, SumGrows, SumOver
<1> QED
  BY <1>6, <1>7, <1>8, <1>9, <1>11 DEF Drawn, DrawsNoMore

-----------------------------------------------------------------------------
(* The books: attempts as, refunds rs, events rec, the amount am, and whether *)
(* it changed after an attempt opened, ch.                                    *)

BroughtTo(rec, i) == SumFunction([e \in rec |-> IF e.attempt = i THEN e.amount ELSE 0])

Known(as, rs, rec) ==
  /\ \A k \in DOMAIN rs : rs[k].attempt \in DOMAIN as
  /\ \A e \in rec : e.attempt \in DOMAIN as
Counted(as, rec) == \A i \in DOMAIN as : as[i].captured = BroughtTo(rec, i)
Drawing(as, rs) == \A i \in DOMAIN as : Drawn(rs, i) <= as[i].captured
(* An attempt opens for all that was not captured, and captures only grow. *)
Covered(as) == \A i \in DOMAIN as : as[i].due <= as[i].amount + Captured(as)
DueStays(as, am, ch) == ch = FALSE => \A i \in DOMAIN as : as[i].due = am
Balanced(as, rs, am, ch) ==
  ch = FALSE =>
    /\ AfterRelease = "refund" =>
         Captured(as) - Asked(rs, "overpaid") - Asked(rs, "release") <= am
    /\ Asked(rs, "overpaid") <= AtLeastZero(Captured(as) - am)

Books(as, rs, rec, am, ch) ==
  /\ Known(as, rs, rec) /\ Counted(as, rec) /\ Drawing(as, rs)
  /\ Covered(as) /\ DueStays(as, am, ch) /\ Balanced(as, rs, am, ch)

(* A step that brings no money keeps the books. *)
LEMMA BooksAlike ==
  ASSUME NEW as, AllSound(as), NEW bs, AllSound(bs), Alike(as, bs),
         NEW rs, NEW rec, NEW am, NEW ch, Books(as, rs, rec, am, ch)
  PROVE  Books(bs, rs, rec, am, ch)
<1>1. Captured(bs) = Captured(as)
  BY CapturedAlike
<1>2. DOMAIN bs = DOMAIN as /\ \A i \in DOMAIN as : /\ bs[i].captured = as[i].captured
                                                    /\ bs[i].amount = as[i].amount
                                                    /\ bs[i].due = as[i].due
  BY DEF Alike, SameMoney
<1>3. Known(bs, rs, rec) /\ Counted(bs, rec) /\ Drawing(bs, rs)
  BY <1>2 DEF Books, Known, Counted, Drawing
<1>4. Covered(bs) /\ DueStays(bs, am, ch)
  BY <1>1, <1>2 DEF Books, Covered, DueStays
<1>5. Balanced(bs, rs, am, ch)
  BY <1>1 DEF Books, Balanced
<1> QED
  BY <1>3, <1>4, <1>5 DEF Books

(* What follows every change. *)
LEMMA BooksAfter ==
  ASSUME NEW as, AllSound(as), NEW rs, NEW rec, NEW am, NEW ch, Books(as, rs, rec, am, ch),
         NEW st, NEW bs, bs = After(st, as)
  PROVE  AllSound(bs) /\ Voiding(st, bs) /\ Books(bs, rs, rec, am, ch)
<1>1. AllSound(bs) /\ Alike(as, bs) /\ Voiding(st, bs)
  BY AfterKeeps
<1> QED
  BY <1>1, BooksAlike

LEMMA BroughtToAdds ==
  ASSUME NEW rec \in SUBSET Event, IsFiniteSet(rec), NEW e \in Event, e \notin rec, NEW i
  PROVE  /\ BroughtTo(rec, i) \in Nat
         /\ BroughtTo(rec \cup {e}, i) = BroughtTo(rec, i) + IF e.attempt = i THEN e.amount ELSE 0
         /\ IsFiniteSet(rec \cup {e})
<1> DEFINE more == rec \cup {e}
           f == [x \in rec |-> IF x.attempt = i THEN x.amount ELSE 0]
           g == [x \in more |-> IF x.attempt = i THEN x.amount ELSE 0]
<1>1. IsFiniteSet(more) /\ more \ {e} = rec /\ e \in more
  BY FS_AddElement
<1>2. \A x \in more : x.amount \in Nat
  BY DEF Event
<1>3. /\ DOMAIN f = rec /\ DOMAIN g = more /\ g[e] = IF e.attempt = i THEN e.amount ELSE 0
      /\ \A x \in rec : f[x] \in Nat /\ f[x] = g[x]
      /\ \A x \in more : g[x] \in Int
  BY <1>1, <1>2
<1> HIDE DEF f, g, more
<1>4. SumFunctionOnSet(g, more) = g[e] + SumFunctionOnSet(g, rec)
  BY <1>1, <1>3, SumTakes
<1>5. SumFunctionOnSet(f, rec) = SumFunctionOnSet(g, rec) /\ SumFunctionOnSet(f, rec) \in Nat
  BY <1>3, SumSame, SumNat
<1>6. g[e] \in Int
  BY <1>1, <1>3
<1>7. BroughtTo(rec, i) = SumFunctionOnSet(f, rec) /\ BroughtTo(more, i) = SumFunctionOnSet(g, more)
  BY <1>3, SumOver DEF BroughtTo, f, g
<1>8. BroughtTo(more, i) = BroughtTo(rec, i) + g[e]
  BY <1>4, <1>5, <1>6, <1>7
<1> QED
  BY <1>1, <1>3, <1>5, <1>7, <1>8 DEF more

(* An attempt no event was recorded for captured nothing. *)
LEMMA NoneBrought ==
  ASSUME NEW rec, IsFiniteSet(rec), NEW i, \A e \in rec : e.attempt # i
  PROVE  BroughtTo(rec, i) = 0
<1> DEFINE f == [e \in rec |-> IF e.attempt = i THEN e.amount ELSE 0]
<1>1. DOMAIN f = rec /\ \A e \in rec : f[e] = 0
  OBVIOUS
<1>2. BroughtTo(rec, i) = SumFunction(f)
  BY DEF BroughtTo
<1> HIDE DEF f
<1> QED
  BY <1>1, <1>2, SumOfZeros, SumOver

-----------------------------------------------------------------------------
(* What is due, and what is asked back of it.                                *)

LEMMA FlyingFinite ==
  ASSUME NEW as, AllSound(as)
  PROVE  Flying(as) \in SUBSET Int /\ IsFiniteSet(Flying(as)) /\ Flying(as) \subseteq DOMAIN as
<1>1. IsFiniteSet(DOMAIN as) /\ DOMAIN as \subseteq Int
  BY SeqParts DEF AllSound
<1>2. Flying(as) \subseteq DOMAIN as
  BY DEF Flying
<1> QED
  BY <1>1, <1>2, FS_Subset

(* The model's operators read the amount and the refunds: what they say of    *)
(* any.                                                                       *)
DueIn(as, am) == IF Flying(as) = {} THEN am ELSE as[Max(Flying(as))].due
Left(as, rs, i) == AtLeastZero(as[i].captured - Drawn(rs, i))
EnoughIn(as, rs, n) == {i \in DOMAIN as : as[i].captured > 0 /\ Left(as, rs, i) >= n}
(* A refund of n is asked for why, and the refunds become qs.                 *)
AskedIn(as, rs, n, why, qs) ==
  /\ EnoughIn(as, rs, n) # {}
  /\ qs = Append(rs, [attempt |-> Min(EnoughIn(as, rs, n)), amount |-> n,
                      refunded |-> 0, why |-> why, status |-> "pending"])

PastDue(as, am, event) ==
  AtLeastZero(Captured(as) - Largest(Captured(as) - event.amount, DueIn(as, am)))
ExcessIn(as, rs, am, event) ==
  Min({PastDue(as, am, event), Max({Left(as, rs, i) : i \in DOMAIN as})})

LEMMA DueOf ==
  ASSUME NEW as, AllSound(as), NEW am \in Nat
  PROVE  /\ DueIn(as, am) \in Nat
         /\ Flying(as) = {} => DueIn(as, am) = am
         /\ Flying(as) # {} => /\ Max(Flying(as)) \in Flying(as)
                               /\ DueIn(as, am) = as[Max(Flying(as))].due
<1>1. \A i \in DOMAIN as : as[i].due \in Nat
  <2>1. \A i \in DOMAIN as : as[i] \in Attempt
    BY SeqParts DEF AllSound
  <2>2. \A a \in Attempt : a.due \in Nat
    BY DEF Attempt
  <2> QED
    BY <2>1, <2>2
<1>2. Flying(as) # {} => Max(Flying(as)) \in Flying(as) /\ Max(Flying(as)) \in DOMAIN as
  BY FlyingFinite, EndsOf
<1>3. Flying(as) = {} => DueIn(as, am) = am
  BY DEF DueIn
<1>4. Flying(as) # {} => DueIn(as, am) = as[Max(Flying(as))].due
  BY DEF DueIn
<1> QED
  BY <1>1, <1>2, <1>3, <1>4

LEMMA LeftType ==
  ASSUME NEW as, AllSound(as), NEW rs \in Seq(Refund), NEW i \in DOMAIN as
  PROVE  /\ Left(as, rs, i) \in Nat
         /\ as[i].captured - Drawn(rs, i) <= Left(as, rs, i)
         /\ Left(as, rs, i) > 0 => Left(as, rs, i) = as[i].captured - Drawn(rs, i)
<1>1. as[i].captured \in Nat /\ Drawn(rs, i) \in Nat
  BY CapturedType, DrawnType
<1>2. \A c, d \in Nat : /\ AtLeastZero(c - d) \in Nat /\ c - d <= AtLeastZero(c - d)
                        /\ AtLeastZero(c - d) > 0 => AtLeastZero(c - d) = c - d
  BY DEF AtLeastZero
<1> QED
  BY <1>1, <1>2 DEF Left

(* What a refund of n asked for why does to the refunds. *)
AskAdds(as, rs, n, why, qs) ==
  /\ qs \in Seq(Refund) /\ Drawing(as, qs)
  /\ \A k \in DOMAIN qs : qs[k].attempt \in DOMAIN as
  /\ Asked(qs, why) = Asked(rs, why) + n
  /\ \A w : w # why => Asked(qs, w) = Asked(rs, w)

(* A refund is asked of an attempt that has so much left. *)
LEMMA AsksAdds ==
  ASSUME NEW as, AllSound(as), NEW rs \in Seq(Refund), Drawing(as, rs),
         NEW rec, Known(as, rs, rec),
         NEW n \in Nat \ {0}, NEW why \in {"person", "overpaid", "release"},
         NEW qs, AskedIn(as, rs, n, why, qs)
  PROVE  AskAdds(as, rs, n, why, qs)
<1>p. n \in Nat /\ n > 0
  OBVIOUS
<1> DEFINE i == Min(EnoughIn(as, rs, n))
           r == [attempt |-> i, amount |-> n, refunded |-> 0, why |-> why, status |-> "pending"]
<1>1. i \in DOMAIN as /\ i \in Nat /\ Left(as, rs, i) >= n
  <2>1. EnoughIn(as, rs, n) \in SUBSET Int /\ IsFiniteSet(EnoughIn(as, rs, n))
    <3>1. IsFiniteSet(DOMAIN as) /\ DOMAIN as \subseteq Int
      BY SeqParts DEF AllSound
    <3>2. EnoughIn(as, rs, n) \subseteq DOMAIN as
      BY DEF EnoughIn
    <3> QED
      BY <3>1, <3>2, FS_Subset
  <2>2. i \in EnoughIn(as, rs, n)
    <3>1. EnoughIn(as, rs, n) # {}
      BY DEF AskedIn
    <3> QED
      BY <2>1, <3>1, EndsOf
  <2>3. Len(as) \in Nat /\ DOMAIN as = 1..Len(as)
    BY SeqParts DEF AllSound
  <2>4. i \in DOMAIN as /\ Left(as, rs, i) >= n
    BY <2>2 DEF EnoughIn
  <2>5. \A l \in Nat : \A k \in 1..l : k \in Nat
    OBVIOUS
  <2> HIDE DEF i
  <2> QED
    BY <2>3, <2>4, <2>5
<1>2. qs = Append(rs, r)
  BY DEF AskedIn
<1> HIDE DEF i
<1>3. r \in Refund /\ r.attempt = i /\ r.amount = n /\ r.why = why /\ Draws(r) = n
  BY <1>1 DEF Refund, Draws
<1> HIDE DEF r
<1>4. qs \in Seq(Refund)
  BY <1>2, <1>3
<1>5. ASSUME NEW w
      PROVE  /\ Drawn(qs, w) = Drawn(rs, w) + IF i = w THEN n ELSE 0
             /\ Asked(qs, w) = Asked(rs, w) + IF why = w THEN n ELSE 0
  BY <1>2, <1>3, DrawnExtends
<1>7. Asked(qs, why) = Asked(rs, why) + n
  BY <1>5
<1>8. ASSUME NEW w, w # why PROVE Asked(qs, w) = Asked(rs, w)
  <2>1. Asked(qs, w) = Asked(rs, w) + 0
    BY <1>5, <1>8
  <2>2. Asked(rs, w) \in Nat
    BY DrawnType
  <2>3. \A m \in Nat : m + 0 = m
    OBVIOUS
  <2> QED
    BY <2>1, <2>2, <2>3
<1>n. \A l, m \in Nat : l >= m /\ m > 0 => l > 0
  OBVIOUS
<1>m. \A c, d, d2, m, l \in Nat :
        /\ d2 = d + m /\ l = c - d /\ l >= m => d2 <= c
        /\ d2 = d + 0 /\ d <= c => d2 <= c
  OBVIOUS
<1>6. Drawing(as, qs)
  <2> SUFFICES ASSUME NEW j \in DOMAIN as PROVE Drawn(qs, j) <= as[j].captured
    BY DEF Drawing
  <2>1. /\ Drawn(rs, j) <= as[j].captured /\ Drawn(rs, j) \in Nat /\ as[j].captured \in Nat
        /\ Drawn(qs, j) \in Nat
    BY <1>4, DrawnType, CapturedType DEF Drawing
  <2>2. CASE i = j
    <3>1. Left(as, rs, j) = as[j].captured - Drawn(rs, j)
      <4>1. Left(as, rs, j) \in Nat /\ Left(as, rs, j) >= n
        BY <1>1, <2>2, LeftType
      <4>2. Left(as, rs, j) > 0
        BY <1>n, <1>p, <4>1
      <4> QED
        BY <4>2, LeftType
    <3>2. Drawn(qs, j) = Drawn(rs, j) + n
      BY <1>5, <2>2
    <3>3. Left(as, rs, j) \in Nat /\ Left(as, rs, j) >= n
      BY <1>1, <2>2, LeftType
    <3> QED
      BY <1>m, <2>1, <3>1, <3>2, <3>3
  <2>3. CASE i # j
    <3>1. Drawn(qs, j) = Drawn(rs, j) + 0
      BY <1>5, <2>3
    <3> QED
      BY <1>m, <2>1, <3>1
  <2> QED
    BY <2>2, <2>3
<1>9. \A k \in DOMAIN qs : qs[k].attempt \in DOMAIN as
  <2>1. /\ DOMAIN rs = 1..Len(rs) /\ DOMAIN qs = 1..(Len(rs) + 1) /\ qs[Len(rs) + 1] = r
        /\ \A k \in 1..Len(rs) : qs[k] = rs[k]
    <3>1. ASSUME NEW s \in Seq(Refund)
          PROVE  /\ DOMAIN s = 1..Len(s) /\ DOMAIN Append(s, r) = 1..(Len(s) + 1)
                 /\ Append(s, r)[Len(s) + 1] = r
                 /\ \A k \in 1..Len(s) : Append(s, r)[k] = s[k]
      BY Appended
    <3> QED
      BY <1>2, <3>1
  <2>2. \A l \in Nat : \A k \in 1..(l + 1) : k = l + 1 \/ k \in 1..l
    OBVIOUS
  <2>3. Len(rs) \in Nat
    OBVIOUS
  <2> QED
    BY <1>1, <1>3, <2>1, <2>2, <2>3 DEF Known
<1> QED
  BY <1>4, <1>6, <1>7, <1>8, <1>9 DEF AskAdds

(* The excess of a capture is all of what it brought past what is due: the    *)
(* attempt it came to can give it back.                                       *)
LEMMA ExcessIs ==
  ASSUME NEW as, AllSound(as), NEW rs \in Seq(Refund), NEW am \in Nat,
         NEW event \in Event, NEW i \in DOMAIN as, event.attempt = i,
         Drawn(rs, i) + event.amount <= as[i].captured
  PROVE  /\ ExcessIn(as, rs, am, event) = PastDue(as, am, event)
         /\ PastDue(as, am, event) \in Nat
<1> DEFINE past == PastDue(as, am, event)
           R == {Left(as, rs, k) : k \in DOMAIN as}
<1>1. Captured(as) \in Nat /\ DueIn(as, am) \in Nat /\ event.amount \in Nat
  BY CapturedType, DueOf DEF Event
<1>2. past \in Nat /\ past <= event.amount
  <2>1. \A c, d, x \in Nat : /\ AtLeastZero(c - Largest(c - x, d)) \in Nat
                            /\ AtLeastZero(c - Largest(c - x, d)) <= x
    BY DEF AtLeastZero, Largest
  <2> QED
    BY <1>1, <2>1 DEF PastDue
<1>3. Left(as, rs, i) \in Nat /\ event.amount <= Left(as, rs, i)
  <2>1. as[i].captured \in Nat /\ Drawn(rs, i) \in Nat
    BY CapturedType, DrawnType
  <2>2. Left(as, rs, i) \in Nat /\ as[i].captured - Drawn(rs, i) <= Left(as, rs, i)
    BY LeftType
  <2>3. \A c, d, l, x \in Nat : c - d <= l /\ d + x <= c => x <= l
    OBVIOUS
  <2> QED
    BY <1>1, <2>1, <2>2, <2>3
<1>4. R \in SUBSET Int /\ IsFiniteSet(R) /\ Left(as, rs, i) \in R
  <2>1. IsFiniteSet(DOMAIN as)
    BY SeqParts DEF AllSound
  <2>2. IsFiniteSet(R)
    <3> DEFINE g == [k \in DOMAIN as |-> Left(as, rs, k)]
    <3>1. g \in Surjection(DOMAIN as, R)
      BY DEF Surjection
    <3> QED
      BY <2>1, <3>1, FS_Surjection
  <2>3. \A k \in DOMAIN as : Left(as, rs, k) \in Int
    <3>1. \A k \in DOMAIN as : Left(as, rs, k) \in Nat
      BY LeftType
    <3>2. \A n \in Nat : n \in Int
      OBVIOUS
    <3> QED
      BY <3>1, <3>2
  <2> QED
    BY <2>2, <2>3
<1>5. ExcessIn(as, rs, am, event) = Min({past, Max(R)})
  BY DEF ExcessIn
<1> HIDE DEF past, R
<1>6. Max(R) \in Int /\ Left(as, rs, i) <= Max(R)
  BY <1>4, EndsOf
<1>7. past <= Max(R)
  <2>1. \A p, x, l \in Nat : \A m \in Int : p <= x /\ x <= l /\ l <= m => p <= m
    OBVIOUS
  <2> QED
    BY <1>1, <1>2, <1>3, <1>6, <2>1
<1>8. Min({past, Max(R)}) = past
  <2>1. {past, Max(R)} \in SUBSET Int /\ {past, Max(R)} # {}
    <3>1. \A n \in Nat : n \in Int
      OBVIOUS
    <3> QED
      BY <1>2, <1>6, <3>1
  <2>2. IsFiniteSet({past, Max(R)})
    BY PairFinite
  <2>3. Min({past, Max(R)}) \in {past, Max(R)} /\ \A y \in {past, Max(R)} : Min({past, Max(R)}) <= y
    BY <2>1, <2>2, EndsOf
  <2>4. \A p \in Nat : \A m, x \in Int : x \in {p, m} /\ x <= p /\ x <= m /\ p <= m => x = p
    OBVIOUS
  <2> QED
    BY <1>2, <1>6, <1>7, <2>1, <2>3, <2>4
<1> QED
  BY <1>2, <1>5, <1>8 DEF past

-----------------------------------------------------------------------------
(* An attempt opens. *)

LEMMA PendingOf ==
  ASSUME NEW as, AllSound(as)
  PROVE  /\ Pending(as) \in Nat
         /\ Flying(as) = {} => Pending(as) = 0
         /\ \A i \in Flying(as) : as[i].amount <= Pending(as)
<1> DEFINE f == [i \in Flying(as) |-> AtLeastZero(as[i].amount - as[i].captured)]
<1>1. \A i \in Flying(as) : as[i].amount \in Nat /\ as[i].captured = 0
  <2> SUFFICES ASSUME NEW i \in Flying(as) PROVE as[i].amount \in Nat /\ as[i].captured = 0
    OBVIOUS
  <2>1. i \in DOMAIN as /\ as[i].status \in InFlight
    BY DEF Flying
  <2>2. as[i] \in Attempt /\ Sound(as[i])
    BY <2>1, SeqParts DEF AllSound
  <2>3. \A a \in Attempt : a.amount \in Nat /\ a.captured \in Nat
    BY DEF Attempt
  <2>4. ~(as[i].captured > 0)
    BY <2>1, <2>2 DEF Sound, InFlight
  <2>5. \A n \in Nat : ~(n > 0) => n = 0
    OBVIOUS
  <2> QED
    BY <2>2, <2>3, <2>4, <2>5
<1>2. \A n \in Nat : AtLeastZero(n - 0) = n
  BY DEF AtLeastZero
<1>3. DOMAIN f = Flying(as) /\ \A i \in Flying(as) : f[i] = as[i].amount /\ f[i] \in Nat
  BY <1>1, <1>2
<1>4. Pending(as) = SumFunction(f)
  BY DEF Pending
<1> HIDE DEF f
<1>5. IsFiniteSet(Flying(as))
  BY FlyingFinite
<1>6. Pending(as) = SumFunctionOnSet(f, Flying(as))
  BY <1>3, <1>4, SumOver
<1>7. /\ SumFunctionOnSet(f, Flying(as)) \in Nat
      /\ \A i \in Flying(as) : f[i] <= SumFunctionOnSet(f, Flying(as))
  BY <1>3, <1>5, SumNat
<1>8. Flying(as) = {} => SumFunctionOnSet(f, Flying(as)) = 0
  BY SumEmpty
<1> QED
  BY <1>3, <1>6, <1>7, <1>8

(* What is left to open is nothing while an attempt is in flight: that one    *)
(* opened for all that was not captured then, and no more is due than then.   *)
LEMMA NothingMoreWhileFlying ==
  ASSUME NEW as, AllSound(as), Covered(as), NEW am \in Nat,
         DueIn(as, am) - Captured(as) - Pending(as) > 0
  PROVE  /\ Flying(as) = {} /\ DueIn(as, am) = am
         /\ DueIn(as, am) - Captured(as) - Pending(as) = am - Captured(as)
         /\ am - Captured(as) \in Nat /\ am - Captured(as) > 0
<1>1. Captured(as) \in Nat /\ Pending(as) \in Nat /\ DueIn(as, am) \in Nat
  BY CapturedType, PendingOf, DueOf
<1>2. Flying(as) = {}
  <2> SUFFICES ASSUME Flying(as) # {} PROVE FALSE
    OBVIOUS
  <2> DEFINE i == Max(Flying(as))
  <2>1. i \in Flying(as) /\ DueIn(as, am) = as[i].due
    BY DueOf
  <2>2. i \in DOMAIN as
    BY <2>1 DEF Flying
  <2> HIDE DEF i
  <2>3. as[i].due <= as[i].amount + Captured(as)
    BY <2>2 DEF Covered
  <2>4. as[i].amount <= Pending(as)
    BY <2>1, PendingOf
  <2>5. as[i].amount \in Nat
    <3>1. as[i] \in Attempt
      BY <2>2, SeqParts DEF AllSound
    <3>2. \A a \in Attempt : a.amount \in Nat
      BY DEF Attempt
    <3> QED
      BY <3>1, <3>2
  <2>6. \A d, n, c, p \in Nat : d <= n + c /\ n <= p => ~(d - c - p > 0)
    OBVIOUS
  <2> QED
    BY <1>1, <2>1, <2>3, <2>4, <2>5, <2>6
<1>3. DueIn(as, am) = am /\ Pending(as) = 0
  BY <1>2, DueOf, PendingOf
<1>4. \A d, c \in Nat : d - c - 0 > 0 => d - c - 0 = d - c /\ d - c \in Nat /\ d - c > 0
  OBVIOUS
<1> QED
  BY <1>1, <1>2, <1>3, <1>4

LEMMA AppendedSound ==
  ASSUME NEW as, AllSound(as), NEW a \in Attempt, Sound(a)
  PROVE  AllSound(Append(as, a))
<1>1. as \in Seq(Attempt)
  BY DEF AllSound
<1>2. Append(as, a) \in Seq(Attempt)
  <2>1. \A s \in Seq(Attempt) : Append(s, a) \in Seq(Attempt)
    OBVIOUS
  <2> QED
    BY <1>1, <2>1
<1>3. ASSUME NEW s \in Seq(Attempt)
      PROVE  /\ DOMAIN s = 1..Len(s) /\ DOMAIN Append(s, a) = 1..(Len(s) + 1)
             /\ Append(s, a)[Len(s) + 1] = a
             /\ \A k \in 1..Len(s) : Append(s, a)[k] = s[k]
             /\ \A k \in 1..(Len(s) + 1) : k = Len(s) + 1 \/ k \in 1..Len(s)
  BY Appended
<1> QED
  BY <1>1, <1>2, <1>3 DEF AllSound

LEMMA OpensBooks ==
  ASSUME NEW as, AllSound(as), NEW rs \in Seq(Refund),
         NEW rec \in SUBSET Event, IsFiniteSet(rec), NEW am \in Nat, NEW ch,
         Books(as, rs, rec, am, ch), am - Captured(as) \in Nat, am - Captured(as) > 0,
         NEW a \in Attempt, Sound(a), a.captured = 0, a.due = am, a.amount = am - Captured(as)
  PROVE  AllSound(Append(as, a)) /\ Books(Append(as, a), rs, rec, am, ch)
<1> DEFINE bs == Append(as, a)
           n == Len(as)
<1>1. AllSound(bs)
  BY AppendedSound
<1>2. n \in Nat /\ DOMAIN as = 1..n /\ DOMAIN bs = 1..(n + 1) /\ bs[n + 1] = a
      /\ \A k \in DOMAIN as : bs[k] = as[k]
  <2>1. ASSUME NEW s \in Seq(Attempt)
        PROVE  /\ Len(s) \in Nat /\ DOMAIN s = 1..Len(s) /\ DOMAIN Append(s, a) = 1..(Len(s) + 1)
               /\ Append(s, a)[Len(s) + 1] = a
               /\ \A k \in DOMAIN s : Append(s, a)[k] = s[k]
    BY Appended
  <2> QED
    BY <2>1 DEF AllSound
<1>3. Captured(bs) = Captured(as)
  BY CapturedOpened
<1> HIDE DEF bs, n
<1>4. DOMAIN bs = DOMAIN as \cup {n + 1} /\ n + 1 \notin DOMAIN as
  <2>1. \A l \in Nat : 1..(l + 1) = (1..l) \cup {l + 1} /\ l + 1 \notin 1..l
    OBVIOUS
  <2> QED
    BY <1>2, <2>1
<1>5. Known(bs, rs, rec)
  BY <1>4 DEF Books, Known
<1>6. Counted(bs, rec)
  <2>1. BroughtTo(rec, n + 1) = 0
    BY <1>4, NoneBrought DEF Books, Known
  <2> QED
    BY <1>2, <1>4, <2>1 DEF Books, Counted
<1>7. Drawing(bs, rs)
  <2>1. Drawn(rs, n + 1) = 0
    <3> DEFINE f == [k \in DOMAIN rs |-> IF rs[k].attempt = n + 1 THEN Draws(rs[k]) ELSE 0]
    <3>1. \A k \in DOMAIN rs : rs[k].attempt # n + 1
      BY <1>4 DEF Books, Known
    <3>2. IsFiniteSet(DOMAIN rs)
      BY SeqParts
    <3>3. DOMAIN f = DOMAIN rs /\ \A k \in DOMAIN rs : f[k] = 0
      BY <3>1
    <3>4. Drawn(rs, n + 1) = SumFunction(f)
      BY DEF Drawn
    <3> HIDE DEF f
    <3> QED
      BY <3>2, <3>3, <3>4, SumOfZeros, SumOver
  <2>2. Drawn(rs, n + 1) <= bs[n + 1].captured
    <3>1. bs[n + 1].captured = 0 /\ 0 <= 0
      BY <1>2
    <3> QED
      BY <2>1, <3>1
  <2> QED
    BY <1>2, <1>4, <2>2 DEF Books, Drawing
<1>8. Covered(bs)
  <2>1. Captured(as) \in Nat
    BY CapturedType
  <2>2. \A d, c \in Nat : d <= (d - c) + c
    OBVIOUS
  <2>3. a.due <= a.amount + Captured(as)
    BY <2>1, <2>2
  <2> QED
    BY <1>2, <1>3, <1>4, <2>3 DEF Books, Covered
<1>9. DueStays(bs, am, ch)
  BY <1>2, <1>4 DEF Books, DueStays
<1>10. Balanced(bs, rs, am, ch)
  BY <1>3 DEF Books, Balanced
<1> QED
  BY <1>1, <1>5, <1>6, <1>7, <1>8, <1>9, <1>10 DEF Books, bs

-----------------------------------------------------------------------------
(* Money comes. *)

(* An event brings what it captured to its attempt, and nothing else moves.   *)
Comes(as, bs, event) ==
  /\ event \in Event /\ event.amount \in Nat \ {0} /\ event.attempt \in DOMAIN as
  /\ AllSound(bs) /\ DOMAIN bs = DOMAIN as
  /\ bs[event.attempt].captured = as[event.attempt].captured + event.amount
  /\ \A k \in DOMAIN as \ {event.attempt} : bs[k].captured = as[k].captured
  /\ \A k \in DOMAIN as : bs[k].amount = as[k].amount /\ bs[k].due = as[k].due

LEMMA BroughtOne ==
  ASSUME NEW as, AllSound(as), NEW event, event \in Event, event.attempt \in DOMAIN as,
         event.amount \in Nat \ {0},
         as[event.attempt].captured + event.amount <= Capturable(as[event.attempt]),
         NEW bs, bs = [as EXCEPT ![event.attempt] =
                         Finished(Paid(as[event.attempt], event.amount))]
  PROVE  Comes(as, bs, event)
<1> DEFINE i == event.attempt
           x == event.amount
           b == Finished(Paid(as[i], x))
<1>i. i \in DOMAIN as /\ as[i].captured + x <= Capturable(as[i])
  OBVIOUS
<1>x. x \in Nat /\ x > 0
  <2>1. \A m \in Nat \ {0} : m \in Nat /\ m > 0
    OBVIOUS
  <2> QED
    BY <2>1
<1>1. as[i] \in Attempt /\ Sound(as[i])
  BY SeqParts DEF AllSound
<1>2. /\ b \in Attempt /\ Sound(b) /\ b.captured = as[i].captured + x
      /\ b.amount = as[i].amount /\ b.due = as[i].due
  <2> DEFINE a == as[i]
  <2>1. a \in Attempt /\ Sound(a) /\ a.captured + x <= Capturable(a)
        /\ b = Finished(Paid(a, x)) /\ x \in Nat /\ x > 0
    BY <1>1, <1>i, <1>x
  <2> HIDE DEF a, b, x
  <2>2. /\ b \in Attempt /\ Sound(b) /\ b.captured = a.captured + x
        /\ b.amount = a.amount /\ b.due = a.due
    BY <2>1, BroughtSound
  <2> QED
    BY <2>2 DEF a
<1>3. bs = [as EXCEPT ![i] = b]
  OBVIOUS
<1> HIDE DEF b, i, x
<1>4. DOMAIN bs = DOMAIN as /\ bs[i] = b /\ \A k \in DOMAIN as \ {i} : bs[k] = as[k]
  BY <1>3, <1>i
<1>5. AllSound(bs)
  <2>1. Len(as) \in Nat /\ DOMAIN as = 1..Len(as) /\ \A k \in DOMAIN as : as[k] \in Attempt
    BY SeqParts DEF AllSound
  <2>2. \A s \in Seq(Attempt) : s \in [1..Len(s) -> Attempt]
    OBVIOUS
  <2>3. bs \in [1..Len(as) -> Attempt]
    <3>1. as \in [1..Len(as) -> Attempt]
      BY <2>2 DEF AllSound
    <3> QED
      BY <1>2, <1>3, <3>1
  <2>4. bs \in Seq(Attempt)
    BY <2>1, <2>3, IsSeq
  <2> QED
    BY <1>2, <1>4, <2>4 DEF AllSound
<1>6. \A k \in DOMAIN as : bs[k].amount = as[k].amount /\ bs[k].due = as[k].due
  BY <1>2, <1>4
<1>7. /\ bs[i].captured = as[i].captured + x
      /\ \A k \in DOMAIN as \ {i} : bs[k].captured = as[k].captured
  BY <1>2, <1>4
<1> QED
  BY <1>4, <1>5, <1>6, <1>7 DEF Comes, i, x

LEMMA BroughtBooks ==
  ASSUME NEW as, AllSound(as), NEW rs \in Seq(Refund),
         NEW rec \in SUBSET Event, IsFiniteSet(rec), NEW am, NEW ch,
         Books(as, rs, rec, am, ch),
         NEW event, event \notin rec, NEW bs, Comes(as, bs, event)
  PROVE  /\ Captured(bs) = Captured(as) + event.amount
         /\ Drawn(rs, event.attempt) + event.amount <= bs[event.attempt].captured
         /\ Known(bs, rs, rec \cup {event}) /\ Counted(bs, rec \cup {event})
         /\ Drawing(bs, rs) /\ Covered(bs) /\ DueStays(bs, am, ch)
<1> DEFINE more == rec \cup {event}
           x == event.amount
           i == event.attempt
<1>e. /\ event \in Event /\ x \in Nat /\ i \in DOMAIN as
      /\ AllSound(bs) /\ DOMAIN bs = DOMAIN as
  BY DEF Comes
<1>1. \A k \in DOMAIN as : /\ bs[k].amount = as[k].amount /\ bs[k].due = as[k].due
                           /\ bs[k].captured = IF k = i THEN as[i].captured + x
                                               ELSE as[k].captured
  BY DEF Comes
<1>2. Captured(bs) = Captured(as) + x
  <2>1. /\ bs[i].captured = as[i].captured + x
        /\ \A k \in DOMAIN as \ {i} : bs[k].captured = as[k].captured
    BY DEF Comes
  <2> HIDE DEF x, i
  <2> QED
    BY <1>e, <2>1, CapturedBrought
<1>3. Known(bs, rs, more)
  BY <1>e DEF Books, Known
<1>4. Counted(bs, more)
  <2> SUFFICES ASSUME NEW k \in DOMAIN as PROVE bs[k].captured = BroughtTo(more, k)
    BY <1>e DEF Counted
  <2>1. /\ BroughtTo(rec, k) \in Nat
        /\ BroughtTo(more, k) = BroughtTo(rec, k) + IF event.attempt = k THEN event.amount ELSE 0
    BY <1>e, BroughtToAdds
  <2>2. as[k].captured = BroughtTo(rec, k)
    BY DEF Books, Counted
  <2>3. \A n \in Nat : n + 0 = n
    OBVIOUS
  <2>4. CASE k = i
    <3>1. BroughtTo(more, k) = BroughtTo(rec, k) + x
      BY <2>1, <2>4
    <3>2. bs[k].captured = as[k].captured + x
      BY <1>1, <2>4
    <3> QED
      BY <2>2, <3>1, <3>2
  <2>5. CASE k # i
    <3>1. BroughtTo(more, k) = BroughtTo(rec, k) + 0
      BY <2>1, <2>5
    <3>2. bs[k].captured = as[k].captured
      BY <1>1, <2>5
    <3> QED
      BY <2>1, <2>2, <2>3, <3>1, <3>2
  <2> QED
    BY <2>4, <2>5
<1>5. \A k \in DOMAIN as : as[k].captured \in Nat /\ Drawn(rs, k) \in Nat
  BY CapturedType, DrawnType
<1>6. Drawn(rs, i) + x <= bs[i].captured /\ Drawn(rs, i) <= bs[i].captured
  <2> DEFINE d == Drawn(rs, i)
             c == as[i].captured
             c2 == bs[i].captured
  <2>1. d \in Nat /\ c \in Nat /\ d <= c /\ c2 = c + x /\ x \in Nat
    BY <1>1, <1>5, <1>e DEF Books, Drawing
  <2> HIDE DEF d, c, c2, x
  <2>2. d + x <= c2 /\ d <= c2
    BY <2>1
  <2> QED
    BY <2>2 DEF d, c2
<1>7. Drawn(rs, i) + x <= bs[i].captured
  BY <1>6
<1>8. Drawing(bs, rs)
  <2> SUFFICES ASSUME NEW k \in DOMAIN as PROVE Drawn(rs, k) <= bs[k].captured
    BY <1>e DEF Drawing
  <2>1. Drawn(rs, k) <= as[k].captured
    BY DEF Books, Drawing
  <2>2. CASE k = i
    BY <1>6, <2>2
  <2>3. CASE k # i
    BY <1>1, <2>1, <2>3
  <2> QED
    BY <2>2, <2>3
<1>9. Covered(bs)
  <2>1. \A k \in DOMAIN as : as[k].due \in Nat /\ as[k].amount \in Nat
    <3>1. \A k \in DOMAIN as : as[k] \in Attempt
      BY SeqParts DEF AllSound
    <3>2. \A a \in Attempt : a.due \in Nat /\ a.amount \in Nat
      BY DEF Attempt
    <3> QED
      BY <3>1, <3>2
  <2>2. \A d, n, c, y \in Nat : d <= n + c => d <= n + (c + y)
    OBVIOUS
  <2>3. Captured(as) \in Nat
    BY CapturedType
  <2> SUFFICES ASSUME NEW k \in DOMAIN as PROVE bs[k].due <= bs[k].amount + Captured(bs)
    BY <1>e DEF Covered
  <2>4. as[k].due <= as[k].amount + Captured(as)
    BY DEF Books, Covered
  <2>5. as[k].due <= as[k].amount + (Captured(as) + x)
    BY <1>e, <2>1, <2>2, <2>3, <2>4
  <2> QED
    BY <1>1, <1>2, <2>5
<1>10. DueStays(bs, am, ch)
  BY <1>1, <1>e DEF Books, DueStays
<1> QED
  BY <1>2, <1>3, <1>4, <1>7, <1>8, <1>9, <1>10

LEMMA DueWhileItStays ==
  ASSUME NEW as, AllSound(as), NEW am \in Nat, DueStays(as, am, FALSE)
  PROVE  DueIn(as, am) = am
<1>1. Flying(as) # {} => Max(Flying(as)) \in DOMAIN as
  BY DueOf DEF Flying
<1> QED
  BY <1>1, DueOf DEF DueStays

(* The books stay balanced when nothing is asked back of what came: because   *)
(* it is all owed, or because the service keeps what comes after release.     *)
LEMMA KeptBalances ==
  ASSUME NEW as, AllSound(as), NEW bs, AllSound(bs), NEW rs \in Seq(Refund),
         NEW am \in Nat, NEW ch, NEW x \in Nat,
         Captured(bs) = Captured(as) + x, Balanced(as, rs, am, ch),
         ch = FALSE => Captured(bs) <= am \/ AfterRelease = "keep"
  PROVE  Balanced(bs, rs, am, ch)
<1> DEFINE o == Asked(rs, "overpaid")
           r == Asked(rs, "release")
           c == Captured(as)
           d == Captured(bs)
<1>1. o \in Nat /\ r \in Nat /\ c \in Nat /\ d = c + x
  BY DrawnType, CapturedType
<1>2. ch = FALSE => /\ o <= AtLeastZero(c - am)
                    /\ d <= am \/ AfterRelease = "keep"
  BY DEF Balanced
<1> HIDE DEF o, r, c, d
<1>3. ch = FALSE => o <= AtLeastZero(d - am)
  BY <1>1, <1>2 DEF AtLeastZero
<1>4. ch = FALSE /\ d <= am => d - o - r <= am
  BY <1>1
<1>5. ch = FALSE => (AfterRelease = "refund" => d - o - r <= am)
  BY <1>2, <1>4
<1> QED
  BY <1>3, <1>5 DEF Balanced, o, r, d

(* And when all of it is asked back, in a state that voids. *)
LEMMA ReleasedBalances ==
  ASSUME NEW as, AllSound(as), NEW bs, AllSound(bs),
         NEW rs \in Seq(Refund), NEW qs \in Seq(Refund),
         NEW am \in Nat, NEW ch, NEW x \in Nat,
         Captured(bs) = Captured(as) + x, Balanced(as, rs, am, ch),
         Asked(qs, "overpaid") = Asked(rs, "overpaid") + 0,
         Asked(qs, "release") = Asked(rs, "release") + x
  PROVE  Balanced(bs, qs, am, ch)
<1> DEFINE o == Asked(rs, "overpaid")
           r == Asked(rs, "release")
           c == Captured(as)
           d == Captured(bs)
           p == Asked(qs, "overpaid")
           q == Asked(qs, "release")
<1>1. o \in Nat /\ r \in Nat /\ c \in Nat /\ d = c + x /\ p = o + 0 /\ q = r + x
  BY DrawnType, CapturedType
<1>2. ch = FALSE => /\ o <= AtLeastZero(c - am)
                    /\ AfterRelease = "refund" => c - o - r <= am
  BY DEF Balanced
<1> HIDE DEF o, r, c, d, p, q
<1>3. ch = FALSE => p <= AtLeastZero(d - am)
  BY <1>1, <1>2 DEF AtLeastZero
<1>4. c - o - r <= am => d - p - q <= am
  BY <1>1
<1>5. ch = FALSE => (AfterRelease = "refund" => d - p - q <= am)
  BY <1>2, <1>4
<1> QED
  BY <1>3, <1>5 DEF Balanced, p, q, d

(* And when what is past what is due is asked back. *)
LEMMA ExcessBalances ==
  ASSUME NEW as, AllSound(as), NEW bs, AllSound(bs),
         NEW rs \in Seq(Refund), NEW qs \in Seq(Refund),
         NEW am \in Nat, NEW ch, NEW event \in Event,
         Captured(bs) = Captured(as) + event.amount, Balanced(as, rs, am, ch),
         DueStays(bs, am, ch), ~(Captured(bs) < DueIn(bs, am)),
         Asked(qs, "overpaid") = Asked(rs, "overpaid") + PastDue(bs, am, event),
         Asked(qs, "release") = Asked(rs, "release") + 0
  PROVE  Balanced(bs, qs, am, ch)
<1> DEFINE o == Asked(rs, "overpaid")
           r == Asked(rs, "release")
           c == Captured(as)
           d == Captured(bs)
           p == Asked(qs, "overpaid")
           q == Asked(qs, "release")
           x == event.amount
           past == PastDue(bs, am, event)
<1>1. o \in Nat /\ r \in Nat /\ c \in Nat /\ x \in Nat
  <2>1. \A e \in Event : e.amount \in Nat
    BY DEF Event
  <2> QED
    BY <2>1, DrawnType, CapturedType
<1>2. d = c + x /\ p = o + past /\ q = r + 0
  OBVIOUS
<1>3. ch = FALSE => DueIn(bs, am) = am
  BY DueWhileItStays
<1>4. ch = FALSE => past = AtLeastZero(d - Largest(d - x, am)) /\ ~(d < am)
  BY <1>3 DEF PastDue
<1>5. ch = FALSE => /\ o <= AtLeastZero(c - am)
                    /\ AfterRelease = "refund" => c - o - r <= am
  BY DEF Balanced
<1> HIDE DEF o, r, c, d, p, q, x, past
<1>6. ch = FALSE => p <= AtLeastZero(d - am)
  BY <1>1, <1>2, <1>4, <1>5 DEF AtLeastZero, Largest
<1>7. ch = FALSE /\ c - o - r <= am => d - p - q <= am
  BY <1>1, <1>2, <1>4, <1>5 DEF AtLeastZero, Largest
<1>8. ch = FALSE => (AfterRelease = "refund" => d - p - q <= am)
  BY <1>5, <1>7
<1> QED
  BY <1>6, <1>8 DEF Balanced, p, q, d

(* A refund a person asks leaves the balance as it is. *)
LEMMA PersonBooks ==
  ASSUME NEW as, AllSound(as), NEW rs \in Seq(Refund), NEW rec, NEW am, NEW ch,
         Books(as, rs, rec, am, ch), NEW n \in Nat \ {0}, NEW qs,
         AskedIn(as, rs, n, "person", qs)
  PROVE  qs \in Seq(Refund) /\ Books(as, qs, rec, am, ch)
<1>1. Drawing(as, rs) /\ Known(as, rs, rec)
  BY DEF Books
<1>2. AskAdds(as, rs, n, "person", qs)
  BY <1>1, AsksAdds
<1>3. Asked(qs, "overpaid") = Asked(rs, "overpaid") /\ Asked(qs, "release") = Asked(rs, "release")
  BY <1>2 DEF AskAdds
<1>4. Balanced(as, qs, am, ch)
  BY <1>3 DEF Books, Balanced
<1> QED
  BY <1>1, <1>2, <1>4 DEF Books, AskAdds, Known

(* What a capture event does to the books, in a state that voids or not.      *)
Follows(as, rs, am, event, qs) ==
  \/ qs = rs /\ Captured(as) < DueIn(as, am)
  \/ qs = rs /\ ~(Captured(as) < DueIn(as, am)) /\ ExcessIn(as, rs, am, event) = 0
  \/ /\ ~(Captured(as) < DueIn(as, am)) /\ ExcessIn(as, rs, am, event) # 0
     /\ AskedIn(as, rs, ExcessIn(as, rs, am, event), "overpaid", qs)
  \/ qs = rs /\ AfterRelease = "keep"
  \/ AskedIn(as, rs, event.amount, "release", qs)

LEMMA FollowsBooks ==
  ASSUME NEW as, AllSound(as), NEW rs \in Seq(Refund),
         NEW rec \in SUBSET Event, IsFiniteSet(rec), NEW am \in Nat, NEW ch,
         Books(as, rs, rec, am, ch), NEW event, event \notin rec,
         NEW bs, Comes(as, bs, event), NEW qs, Follows(bs, rs, am, event, qs)
  PROVE  qs \in Seq(Refund) /\ Books(bs, qs, rec \cup {event}, am, ch)
<1> DEFINE more == rec \cup {event}
           x == event.amount
<1>1. /\ Captured(bs) = Captured(as) + x
      /\ Drawn(rs, event.attempt) + x <= bs[event.attempt].captured
      /\ Known(bs, rs, more) /\ Counted(bs, more)
      /\ Drawing(bs, rs) /\ Covered(bs) /\ DueStays(bs, am, ch)
  BY BroughtBooks
<1>2. Balanced(as, rs, am, ch)
  BY DEF Books
<1>e. /\ event \in Event /\ x \in Nat /\ x \in Nat \ {0}
      /\ event.attempt \in DOMAIN bs /\ AllSound(bs)
  BY DEF Comes
<1> HIDE DEF more, x
<1>3. SUFFICES /\ qs \in Seq(Refund) /\ Known(bs, qs, more) /\ Drawing(bs, qs)
               /\ Balanced(bs, qs, am, ch)
  BY <1>1 DEF Books, more
<1>4. CASE qs = rs /\ Captured(bs) < DueIn(bs, am)
  <2>1. ch = FALSE => Captured(bs) <= am
    <3>1. ch = FALSE => DueIn(bs, am) = am
      BY <1>1, <1>e, DueWhileItStays
    <3>2. \A c, d \in Nat : c < d => c <= d
      OBVIOUS
    <3>3. Captured(bs) \in Nat
      BY <1>e, CapturedType
    <3> QED
      BY <1>4, <3>1, <3>2, <3>3
  <2>2. Balanced(bs, rs, am, ch)
    BY <1>1, <1>2, <1>e, <2>1, KeptBalances
  <2> QED
    BY <1>1, <1>4, <2>2
<1>5. CASE qs = rs /\ AfterRelease = "keep"
  <2>1. Balanced(bs, rs, am, ch)
    BY <1>1, <1>2, <1>5, <1>e, KeptBalances
  <2> QED
    BY <1>1, <1>5, <2>1
<1>6. ExcessIn(bs, rs, am, event) = PastDue(bs, am, event) /\ PastDue(bs, am, event) \in Nat
  BY <1>1, <1>e, ExcessIs DEF x
<1>7. Asked(rs, "overpaid") \in Nat /\ Asked(rs, "release") \in Nat
  BY DrawnType
<1>8. \A m \in Nat : m + 0 = m /\ (m # 0 => m \in Nat \ {0})
  OBVIOUS
<1>9. Captured(bs) = Captured(as) + event.amount
  BY <1>1 DEF x
<1>10. CASE qs = rs /\ ~(Captured(bs) < DueIn(bs, am)) /\ ExcessIn(bs, rs, am, event) = 0
  <2>1. /\ Asked(rs, "overpaid") = Asked(rs, "overpaid") + PastDue(bs, am, event)
        /\ Asked(rs, "release") = Asked(rs, "release") + 0
    BY <1>6, <1>7, <1>8, <1>10
  <2>2. Balanced(bs, rs, am, ch)
    BY <1>1, <1>2, <1>9, <1>10, <1>e, <2>1, ExcessBalances
  <2> QED
    BY <1>1, <1>10, <2>2
<1>11. CASE /\ ~(Captured(bs) < DueIn(bs, am)) /\ ExcessIn(bs, rs, am, event) # 0
            /\ AskedIn(bs, rs, ExcessIn(bs, rs, am, event), "overpaid", qs)
  <2>1. PastDue(bs, am, event) \in Nat \ {0}
    BY <1>6, <1>8, <1>11
  <2>2. AskedIn(bs, rs, PastDue(bs, am, event), "overpaid", qs)
    BY <1>6, <1>11
  <2>3. AskAdds(bs, rs, PastDue(bs, am, event), "overpaid", qs)
    BY <1>1, <1>e, <2>1, <2>2, AsksAdds
  <2>4. /\ Asked(qs, "overpaid") = Asked(rs, "overpaid") + PastDue(bs, am, event)
        /\ Asked(qs, "release") = Asked(rs, "release") + 0
    BY <1>7, <1>8, <2>3 DEF AskAdds
  <2>5. qs \in Seq(Refund) /\ Drawing(bs, qs) /\ Known(bs, qs, more)
    BY <1>1, <2>3 DEF AskAdds, Known
  <2>6. Balanced(bs, qs, am, ch)
    BY <1>1, <1>2, <1>9, <1>11, <1>e, <2>4, <2>5, ExcessBalances
  <2> QED
    BY <2>5, <2>6
<1>12. CASE AskedIn(bs, rs, event.amount, "release", qs)
  <2>1. AskedIn(bs, rs, x, "release", qs)
    BY <1>12 DEF x
  <2>2. AskAdds(bs, rs, x, "release", qs)
    BY <1>1, <1>e, <2>1, AsksAdds
  <2>3. /\ Asked(qs, "overpaid") = Asked(rs, "overpaid") + 0
        /\ Asked(qs, "release") = Asked(rs, "release") + x
    BY <1>7, <1>8, <2>2 DEF AskAdds
  <2>4. qs \in Seq(Refund) /\ Drawing(bs, qs) /\ Known(bs, qs, more)
    BY <1>1, <2>2 DEF AskAdds, Known
  <2>5. Balanced(bs, qs, am, ch)
    BY <1>1, <1>2, <1>e, <2>3, <2>4, ReleasedBalances
  <2> QED
    BY <2>4, <2>5
<1> QED
  BY <1>4, <1>5, <1>10, <1>11, <1>12 DEF Follows

-----------------------------------------------------------------------------
(* The invariant, and every step of Payments.                                *)

PayInv ==
  /\ PayTypeOK /\ AllSound(attempts) /\ Voiding(state, attempts) /\ IsFiniteSet(recorded)
  /\ Books(attempts, refunds, recorded, amount, changed)

LEMMA UnitsType == Units \subseteq Nat \ {0}
<1>1. IsFiniteSet(Owed \cup {1}) /\ Owed \cup {1} \in SUBSET Int /\ Owed \cup {1} # {}
  BY PaymentsAssumption, FS_AddElement
<1>2. Max(Owed \cup {1}) \in Int
  BY <1>1, EndsOf
<1> QED
  BY <1>2 DEF Units

LEMMA PayBegins == PayInit => PayInv
<1> SUFFICES ASSUME PayInit PROVE PayInv
  OBVIOUS
<1>1. attempts = <<>> /\ refunds = <<>> /\ recorded = {} /\ changed = FALSE
  BY DEF PayInit
<1>2. DOMAIN attempts = {} /\ DOMAIN refunds = {}
  BY <1>1
<1>3. PayTypeOK
  <2>1. <<>> \in Seq(Attempt) /\ <<>> \in Seq(Refund)
    OBVIOUS
  <2>2. state \in Stages /\ amount \in Nat
    BY PaymentsAssumption DEF PayInit
  <2>3. acts \in Nat /\ reports \in Nat
    BY DEF PayInit
  <2> QED
    BY <1>1, <2>1, <2>2, <2>3 DEF PayTypeOK
<1>4. AllSound(attempts) /\ Voiding(state, attempts) /\ IsFiniteSet(recorded)
  BY <1>1, <1>2, <1>3, FS_EmptySet DEF AllSound, Voiding, PayTypeOK
<1>5. \A w : Asked(refunds, w) = 0
  <2> SUFFICES ASSUME NEW w PROVE Asked(refunds, w) = 0
    OBVIOUS
  <2> DEFINE f == [k \in DOMAIN refunds |-> IF refunds[k].why = w THEN refunds[k].amount ELSE 0]
  <2>1. DOMAIN f = {} /\ Asked(refunds, w) = SumFunction(f)
    BY <1>2 DEF Asked
  <2> HIDE DEF f
  <2> QED
    BY <2>1, SumOver, SumEmpty
<1>6. Captured(attempts) = 0
  <2> DEFINE f == [k \in DOMAIN attempts |-> attempts[k].captured]
  <2>1. DOMAIN f = {} /\ Captured(attempts) = SumFunction(f)
    BY <1>2 DEF Captured
  <2> HIDE DEF f
  <2> QED
    BY <2>1, SumOver, SumEmpty
<1>7. Balanced(attempts, refunds, amount, changed)
  <2>1. \A a \in Nat : 0 - 0 - 0 <= a /\ 0 <= AtLeastZero(0 - a)
    BY DEF AtLeastZero
  <2> QED
    BY <1>3, <1>5, <1>6, <2>1 DEF Balanced, PayTypeOK
<1>8. Books(attempts, refunds, recorded, amount, changed)
  BY <1>1, <1>2, <1>7 DEF Books, Known, Counted, Drawing, Covered, DueStays
<1> QED
  BY <1>3, <1>4, <1>8 DEF PayInv

(* A change, with what follows it. *)
LEMMA StepKeeps ==
  ASSUME NEW xs, AllSound(xs), attempts' = After(state', xs),
         state' \in Stages, amount' \in Nat, changed' \in BOOLEAN, acts' \in Nat,
         reports' \in Nat, refunds' \in Seq(Refund), recorded' \in SUBSET Event,
         IsFiniteSet(recorded'), Books(xs, refunds', recorded', amount', changed')
  PROVE  PayInv'
<1>1. /\ AllSound(attempts') /\ Voiding(state', attempts')
      /\ Books(attempts', refunds', recorded', amount', changed')
  BY BooksAfter
<1>2. attempts' \in Seq(Attempt)
  BY <1>1 DEF AllSound
<1>3. PayTypeOK'
  BY <1>2 DEF PayTypeOK
<1> QED
  BY <1>1, <1>3 DEF PayInv

(* One attempt changes, and its money does not. *)
LEMMA OneAlike ==
  ASSUME NEW as, AllSound(as), NEW i \in DOMAIN as,
         NEW b \in Attempt, Sound(b), SameMoney(as[i], b)
  PROVE  AllSound([as EXCEPT ![i] = b]) /\ Alike(as, [as EXCEPT ![i] = b])
<1> DEFINE bs == [as EXCEPT ![i] = b]
<1>1. DOMAIN bs = DOMAIN as /\ bs[i] = b /\ \A k \in DOMAIN as : k # i => bs[k] = as[k]
  OBVIOUS
<1>2. \A s \in Seq(Attempt) : /\ s \in [1..Len(s) -> Attempt] /\ Len(s) \in Nat
                              /\ \A k \in DOMAIN s : [s EXCEPT ![k] = b] \in [1..Len(s) -> Attempt]
  OBVIOUS
<1>3. bs \in [1..Len(as) -> Attempt] /\ Len(as) \in Nat
  BY <1>2 DEF AllSound
<1> HIDE DEF bs
<1>4. bs \in Seq(Attempt)
  BY <1>3, IsSeq
<1>5. AllSound(bs)
  BY <1>1, <1>4 DEF AllSound
<1>6. Alike(as, bs)
  BY <1>1 DEF Alike, SameMoney
<1> QED
  BY <1>5, <1>6 DEF bs

LEMMA MapAlike ==
  ASSUME NEW as, AllSound(as), NEW bs, DOMAIN bs = DOMAIN as, bs = [i \in DOMAIN as |-> bs[i]],
         \A i \in DOMAIN as : bs[i] \in Attempt /\ Sound(bs[i]) /\ SameMoney(as[i], bs[i])
  PROVE  AllSound(bs) /\ Alike(as, bs)
<1>1. Len(as) \in Nat /\ DOMAIN as = 1..Len(as)
  BY SeqParts DEF AllSound
<1>2. bs \in [1..Len(as) -> Attempt]
  BY <1>1
<1>3. bs \in Seq(Attempt)
  BY <1>1, <1>2, IsSeq
<1> QED
  BY <1>3 DEF AllSound, Alike

LEMMA OneOf ==
  ASSUME PayInv, NEW i \in DOMAIN attempts
  PROVE  attempts[i] \in Attempt /\ Sound(attempts[i]) /\ i \in Nat
<1>1. /\ Len(attempts) \in Nat /\ DOMAIN attempts = 1..Len(attempts)
      /\ \A k \in DOMAIN attempts : attempts[k] \in Attempt
  BY SeqParts DEF PayInv, AllSound
<1>2. \A l \in Nat : \A k \in 1..l : k \in Nat
  OBVIOUS
<1> QED
  BY <1>1, <1>2 DEF PayInv, AllSound

(* A change to one attempt, that leaves its money and all else of the books.  *)
LEMMA OneStep ==
  ASSUME PayInv, NEW i \in DOMAIN attempts,
         NEW b \in Attempt, Sound(b), SameMoney(attempts[i], b),
         attempts' = After(state, [attempts EXCEPT ![i] = b]),
         UNCHANGED <<state, amount, refunds, recorded, changed>>,
         acts' \in Nat, reports' \in Nat
  PROVE  PayInv'
<1> DEFINE xs == [attempts EXCEPT ![i] = b]
<1>1. AllSound(xs) /\ Alike(attempts, xs)
  BY OneAlike DEF PayInv
<1> HIDE DEF xs
<1>2. Books(xs, refunds, recorded, amount, changed)
  BY <1>1, BooksAlike DEF PayInv
<1>3. /\ attempts' = After(state', xs)
      /\ Books(xs, refunds', recorded', amount', changed')
  BY <1>2 DEF xs
<1>4. /\ state' \in Stages /\ amount' \in Nat /\ changed' \in BOOLEAN
      /\ refunds' \in Seq(Refund) /\ recorded' \in SUBSET Event /\ IsFiniteSet(recorded')
  BY DEF PayInv, PayTypeOK
<1> QED
  BY <1>1, <1>3, <1>4, StepKeeps

(* What the provider reports of a payment, short of money.                   *)
LEMMA ReportsStep ==
  ASSUME PayInv, NEW i \in DOMAIN attempts, NEW n \in Nat,
         NEW to \in {"processing", "failed", "cancelled", "authorized"}, Reports(i, to, n)
  PROVE  PayInv'
<1> DEFINE b == Finished(Moved(attempts[i], to, n))
<1>1. b \in Attempt /\ Sound(b) /\ SameMoney(attempts[i], b)
  BY OneOf, MovedSound
<1>2. /\ attempts' = After(state, [attempts EXCEPT ![i] = b])
      /\ UNCHANGED <<state, amount, refunds, recorded, changed>>
  BY DEF Reports
<1>3. acts' \in Nat /\ reports' \in Nat
  BY DEF Reports, AnEvent, PayInv, PayTypeOK
<1> HIDE DEF b
<1> QED
  BY <1>1, <1>2, <1>3, OneStep

LEMMA CapturePaymentStep ==
  ASSUME PayInv, NEW i \in DOMAIN attempts, NEW n \in Nat, CapturePayment(i, n)
  PROVE  PayInv'
<1> DEFINE b == Capture(attempts[i], n)
<1>1. attempts[i] \in Attempt /\ Sound(attempts[i])
  BY OneOf
<1>2. attempts[i].status = "authorized"
      /\ Waiting(attempts[i]) + attempts[i].captured + n <= attempts[i].authorized
  <2> DEFINE a == attempts[i]
             w == Waiting(a)
  <2>1. w \in Nat
    <3>1. \A x \in Attempt : x.captures \in Seq(Nat)
      BY DEF Attempt
    <3> QED
      BY <1>1, <3>1, WaitingType DEF Waiting
  <2>2. a.authorized \in Nat /\ a.captured \in Nat
    <3>1. \A x \in Attempt : x.authorized \in Nat /\ x.captured \in Nat
      BY DEF Attempt
    <3> QED
      BY <1>1, <3>1
  <2>3. n <= a.authorized - a.captured - w
    BY DEF CapturePayment, Uncaptured
  <2> DEFINE au == a.authorized
             c == a.captured
  <2>4. au \in Nat /\ c \in Nat /\ n <= au - c - w
    BY <2>2, <2>3
  <2> HIDE DEF a, w, au, c
  <2>5. w + c + n <= au
    BY <2>1, <2>4
  <2> QED
    BY <2>5 DEF CapturePayment, a, w, au, c
<1>3. b \in Attempt /\ Sound(b) /\ SameMoney(attempts[i], b)
  BY <1>1, <1>2, CaptureSound
<1>4. /\ attempts' = After(state, [attempts EXCEPT ![i] = b])
      /\ UNCHANGED <<state, amount, refunds, recorded, changed>>
  BY DEF CapturePayment
<1>5. acts' \in Nat /\ reports' \in Nat
  BY DEF CapturePayment, Acts, PayInv, PayTypeOK
<1> HIDE DEF b
<1> QED
  BY <1>3, <1>4, <1>5, OneStep

LEMMA VoidPaymentStep ==
  ASSUME PayInv, NEW i \in DOMAIN attempts, VoidPayment(i)
  PROVE  PayInv'
<1> DEFINE b == Voided(attempts[i])
<1>1. b \in Attempt /\ Sound(b) /\ SameMoney(attempts[i], b)
  BY OneOf, VoidedSound
<1>2. /\ attempts' = After(state, [attempts EXCEPT ![i] = b])
      /\ UNCHANGED <<state, amount, refunds, recorded, changed>>
  BY DEF VoidPayment
<1>3. acts' \in Nat /\ reports' \in Nat
  BY DEF VoidPayment, Acts, PayInv, PayTypeOK
<1> HIDE DEF b
<1> QED
  BY <1>1, <1>2, <1>3, OneStep

(* Steps that change no attempt. *)
LEMMA MovesToStep ==
  ASSUME PayInv, NEW to \in Stages, MovesTo(to)
  PROVE  PayInv'
<1>1. AllSound(attempts) /\ Books(attempts, refunds', recorded', amount', changed')
  BY DEF PayInv, MovesTo, history
<1>2. attempts' = After(state', attempts) /\ state' \in Stages
  BY DEF MovesTo
<1>3. /\ amount' \in Nat /\ changed' \in BOOLEAN /\ acts' \in Nat /\ reports' \in Nat
      /\ refunds' \in Seq(Refund) /\ recorded' \in SUBSET Event /\ IsFiniteSet(recorded')
  BY DEF PayInv, PayTypeOK, MovesTo, history
<1> QED
  BY <1>1, <1>2, <1>3, StepKeeps

LEMMA RefundPaymentStep ==
  ASSUME PayInv, NEW n \in Units, RefundPayment(n)
  PROVE  PayInv'
<1>1. n \in Nat \ {0}
  BY UnitsType
<1>2. AskedIn(attempts, refunds, n, "person", refunds')
  BY DEF RefundPayment, Asks, AskedIn, Enough, EnoughIn, Refundable, Left
<1>3. AllSound(attempts) /\ refunds \in Seq(Refund)
      /\ Books(attempts, refunds, recorded, amount, changed)
  BY DEF PayInv, PayTypeOK
<1>4. refunds' \in Seq(Refund) /\ Books(attempts, refunds', recorded, amount, changed)
  BY <1>1, <1>2, <1>3, PersonBooks
<1>5. UNCHANGED <<state, amount, recorded, changed, reports>>
  BY DEF RefundPayment
<1>6. Books(attempts, refunds', recorded', amount', changed')
  BY <1>4, <1>5
<1>7. attempts' = After(state', attempts)
  BY <1>5 DEF RefundPayment
<1>8. /\ state' \in Stages /\ amount' \in Nat /\ changed' \in BOOLEAN /\ acts' \in Nat
      /\ reports' \in Nat /\ recorded' \in SUBSET Event /\ IsFiniteSet(recorded')
  BY <1>5 DEF PayInv, PayTypeOK, RefundPayment, Acts
<1> QED
  BY <1>3, <1>4, <1>6, <1>7, <1>8, StepKeeps

(* The amount changes only before any attempt, or as changed says. *)
LEMMA UpdateStep ==
  ASSUME PayInv, NEW n \in Owed, Update(n)
  PROVE  PayInv'
<1>1. AllSound(attempts) /\ refunds \in Seq(Refund)
      /\ Books(attempts, refunds, recorded, amount, changed)
  BY DEF PayInv, PayTypeOK
<1>2. /\ amount' = n /\ changed' = (changed \/ attempts # <<>>)
      /\ attempts' = After(state, attempts)
      /\ UNCHANGED <<state, refunds, recorded, reports>>
  BY DEF Update
<1>3. n \in Nat
  BY PaymentsAssumption
<1>4. changed' \in BOOLEAN
  BY <1>2 DEF PayInv, PayTypeOK
<1>5. changed' = FALSE => attempts = <<>>
  BY <1>2 DEF PayInv, PayTypeOK
<1>6. Books(attempts, refunds, recorded, n, changed')
  <2>1. changed' = FALSE => DueStays(attempts, n, changed')
    BY <1>5 DEF DueStays
  <2>2. changed' = FALSE => Balanced(attempts, refunds, n, changed')
    <3> SUFFICES ASSUME changed' = FALSE PROVE Balanced(attempts, refunds, n, changed')
      OBVIOUS
    <3>1. DOMAIN attempts = {}
      BY <1>5
    <3>2. DOMAIN refunds = {}
      BY <1>1, <3>1 DEF Books, Known
    <3>3. \A w : Asked(refunds, w) = 0
      <4> SUFFICES ASSUME NEW w PROVE Asked(refunds, w) = 0
        OBVIOUS
      <4> DEFINE f == [k \in DOMAIN refunds |-> IF refunds[k].why = w THEN refunds[k].amount ELSE 0]
      <4>1. DOMAIN f = {} /\ Asked(refunds, w) = SumFunction(f)
        BY <3>2 DEF Asked
      <4> HIDE DEF f
      <4> QED
        BY <4>1, SumOver, SumEmpty
    <3>4. Captured(attempts) = 0
      <4> DEFINE f == [k \in DOMAIN attempts |-> attempts[k].captured]
      <4>1. DOMAIN f = {} /\ Captured(attempts) = SumFunction(f)
        BY <3>1 DEF Captured
      <4> HIDE DEF f
      <4> QED
        BY <4>1, SumOver, SumEmpty
    <3>5. \A a \in Nat : 0 - 0 - 0 <= a /\ 0 <= AtLeastZero(0 - a)
      BY DEF AtLeastZero
    <3> QED
      BY <1>3, <3>3, <3>4, <3>5 DEF Balanced
  <2>3. changed' # FALSE => DueStays(attempts, n, changed') /\ Balanced(attempts, refunds, n, changed')
    BY DEF DueStays, Balanced
  <2> QED
    BY <1>1, <2>1, <2>2, <2>3 DEF Books
<1>7. Books(attempts, refunds', recorded', amount', changed')
  BY <1>2, <1>6
<1>8. attempts' = After(state', attempts)
  BY <1>2
<1>9. /\ state' \in Stages /\ amount' \in Nat /\ acts' \in Nat /\ reports' \in Nat
      /\ refunds' \in Seq(Refund) /\ recorded' \in SUBSET Event /\ IsFiniteSet(recorded')
  BY <1>2, <1>3 DEF PayInv, PayTypeOK, Update, Acts
<1> QED
  BY <1>1, <1>4, <1>7, <1>8, <1>9, StepKeeps

(* A refund is paid, in part or whole, or fails. *)
LEMMA ReportsRefundStep ==
  ASSUME PayInv, NEW k \in DOMAIN refunds, NEW to \in {"failed", "succeeded"},
         NEW n \in 0..refunds[k].amount, ReportsRefund(k, to, n)
  PROVE  PayInv'
<1>1. AllSound(attempts) /\ refunds \in Seq(Refund)
      /\ Books(attempts, refunds, recorded, amount, changed)
  BY DEF PayInv, PayTypeOK
<1> DEFINE qs == [refunds EXCEPT ![k].status = to, ![k].refunded = n]
<1>2. /\ refunds' = qs /\ refunds[k].status = "pending"
      /\ attempts' = After(state, attempts)
      /\ UNCHANGED <<state, amount, recorded, changed, acts>>
  BY DEF ReportsRefund
<1>3. ASSUME NEW i
      PROVE  /\ qs \in Seq(Refund) /\ DOMAIN qs = DOMAIN refunds
             /\ \A m \in DOMAIN refunds : qs[m].attempt = refunds[m].attempt
             /\ Drawn(qs, i) <= Drawn(refunds, i) /\ Asked(qs, i) = Asked(refunds, i)
  <2>1. DrawsNoMore(refunds, qs, i)
    BY <1>1, <1>2, DrawnEnds
  <2> HIDE DEF qs
  <2> QED
    BY <2>1 DEF DrawsNoMore
<1> HIDE DEF qs
<1>4. qs \in Seq(Refund) /\ Known(attempts, qs, recorded)
  BY <1>1, <1>3 DEF Books, Known
<1>5. Drawing(attempts, qs)
  <2> SUFFICES ASSUME NEW i \in DOMAIN attempts PROVE Drawn(qs, i) <= attempts[i].captured
    BY DEF Drawing
  <2> DEFINE d == Drawn(qs, i)
             e == Drawn(refunds, i)
             c == attempts[i].captured
  <2>1. d \in Nat /\ e \in Nat /\ c \in Nat
    BY <1>1, <1>4, DrawnType, CapturedType
  <2>2. d <= e /\ e <= c
    BY <1>1, <1>3 DEF Books, Drawing
  <2> HIDE DEF d, e, c
  <2>3. d <= c
    BY <2>1, <2>2
  <2> QED
    BY <2>3 DEF d, c
<1>6. Balanced(attempts, qs, amount, changed)
  BY <1>1, <1>3 DEF Books, Balanced
<1>7. Books(attempts, refunds', recorded', amount', changed')
  <2>1. Books(attempts, qs, recorded, amount, changed)
    BY <1>1, <1>4, <1>5, <1>6 DEF Books
  <2> QED
    BY <1>2, <2>1
<1>8. attempts' = After(state', attempts) /\ refunds' \in Seq(Refund)
  BY <1>2, <1>4
<1>9. /\ state' \in Stages /\ amount' \in Nat /\ changed' \in BOOLEAN /\ acts' \in Nat
      /\ reports' \in Nat /\ recorded' \in SUBSET Event /\ IsFiniteSet(recorded')
  BY <1>2 DEF PayInv, PayTypeOK, ReportsRefund, AnEvent
<1> QED
  BY <1>1, <1>7, <1>8, <1>9, StepKeeps

(* An attempt opens, and alone. *)
LEMMA OpensStep ==
  ASSUME PayInv, OpenPayment
  PROVE  PayInv' /\ Flying(attempts) = {}
<1> DEFINE ab == [i \in DOMAIN attempts |-> Abandoned(attempts[i])]
           a == Opened(Outstanding)
           left == amount - Captured(attempts)
<1>1. AllSound(attempts) /\ refunds \in Seq(Refund) /\ amount \in Nat
      /\ recorded \in SUBSET Event /\ IsFiniteSet(recorded)
      /\ Books(attempts, refunds, recorded, amount, changed)
  BY DEF PayInv, PayTypeOK
<1>2. attempts' = After(state, Append(ab, a)) /\ UNCHANGED <<state, amount, refunds, recorded, history>>
  BY DEF OpenPayment
<1>3. DueIn(attempts, amount) - Captured(attempts) - Pending(attempts) > 0
  BY DEF OpenPayment, Owes, Outstanding, Due, DueIn
<1>4. /\ Flying(attempts) = {} /\ DueIn(attempts, amount) = amount
      /\ DueIn(attempts, amount) - Captured(attempts) - Pending(attempts) = left
      /\ left \in Nat /\ left > 0
  BY <1>1, <1>3, NothingMoreWhileFlying DEF Books
<1>5. a = [status |-> "open", amount |-> left, due |-> amount, authorized |-> 0, captured |-> 0,
           captures |-> <<>>, asked |-> FALSE, void |-> "none", failed |-> FALSE]
  <2>1. a = [status |-> "open",
             amount |-> DueIn(attempts, amount) - Captured(attempts) - Pending(attempts),
             due |-> DueIn(attempts, amount), authorized |-> 0, captured |-> 0,
             captures |-> <<>>, asked |-> FALSE, void |-> "none", failed |-> FALSE]
    BY DEF Opened, Outstanding, Due, DueIn
  <2> HIDE DEF a, left
  <2> QED
    BY <1>4, <2>1
<1> HIDE DEF a
<1>6. AllSound(ab) /\ Alike(attempts, ab)
  <2>1. ASSUME NEW i \in DOMAIN attempts
        PROVE  ab[i] \in Attempt /\ Sound(ab[i]) /\ SameMoney(attempts[i], ab[i])
    <3>1. attempts[i] \in Attempt /\ Sound(attempts[i])
      BY OneOf
    <3>2. ab[i] = Voided(attempts[i]) \/ ab[i] = attempts[i]
      BY DEF Abandoned
    <3> HIDE DEF ab
    <3>3. CASE ab[i] = Voided(attempts[i])
      BY <3>1, <3>3, VoidedSound
    <3>4. CASE ab[i] = attempts[i]
      BY <3>1, <3>4 DEF SameMoney
    <3> QED
      BY <3>2, <3>3, <3>4
  <2>2. DOMAIN ab = DOMAIN attempts /\ ab = [i \in DOMAIN attempts |-> ab[i]]
    OBVIOUS
  <2> HIDE DEF ab
  <2> QED
    BY <1>1, <2>1, <2>2, MapAlike
<1> HIDE DEF ab
<1>7. Books(ab, refunds, recorded, amount, changed) /\ Captured(ab) = Captured(attempts)
  BY <1>1, <1>6, BooksAlike, CapturedAlike
<1>8. a \in Attempt /\ Sound(a) /\ a.captured = 0 /\ a.due = amount /\ a.amount = left
  <2>1. <<>> \in Seq(Nat)
    OBVIOUS
  <2> HIDE DEF left
  <2>2. a \in Attempt
    BY <1>1, <1>4, <1>5, <2>1, RankType DEF Attempt, Statuses
  <2>3. Capturable(a) = left
    BY <1>5 DEF Capturable
  <2>4. 0 <= left /\ ~(0 > 0)
    BY <1>4
  <2>5. Sound(a)
    BY <1>5, <2>3, <2>4 DEF Sound
  <2> QED
    BY <1>5, <2>2, <2>5
<1>9. AllSound(Append(ab, a)) /\ Books(Append(ab, a), refunds, recorded, amount, changed)
  <2>1. amount - Captured(ab) = left /\ amount - Captured(ab) \in Nat /\ amount - Captured(ab) > 0
    BY <1>4, <1>7
  <2> HIDE DEF left
  <2>2. a.amount = amount - Captured(ab)
    BY <1>8, <2>1
  <2> QED
    BY <1>1, <1>6, <1>7, <1>8, <2>1, <2>2, OpensBooks
<1>10. /\ attempts' = After(state', Append(ab, a))
       /\ Books(Append(ab, a), refunds', recorded', amount', changed')
  BY <1>2, <1>9 DEF history
<1>11. /\ state' \in Stages /\ amount' \in Nat /\ changed' \in BOOLEAN /\ acts' \in Nat
       /\ reports' \in Nat /\ refunds' \in Seq(Refund)
       /\ recorded' \in SUBSET Event /\ IsFiniteSet(recorded')
  BY <1>2 DEF PayInv, PayTypeOK, history
<1>12. PayInv'
  BY <1>9, <1>10, <1>11, StepKeeps
<1> QED
  BY <1>4, <1>12

LEMMA VoidOthersAlike ==
  ASSUME NEW as, AllSound(as), NEW i, NEW bs, bs = VoidOthers(as, i)
  PROVE  AllSound(bs) /\ Alike(as, bs)
<1>1. DOMAIN bs = DOMAIN as /\ bs = [k \in DOMAIN as |-> bs[k]]
  BY DEF VoidOthers
<1>2. ASSUME NEW k \in DOMAIN as
      PROVE  bs[k] \in Attempt /\ Sound(bs[k]) /\ SameMoney(as[k], bs[k])
  <2>1. as[k] \in Attempt /\ Sound(as[k])
    BY SeqParts DEF AllSound
  <2>2. bs[k] = Voided(as[k]) \/ bs[k] = as[k]
    BY DEF VoidOthers
  <2>3. CASE bs[k] = Voided(as[k])
    BY <2>1, <2>3, VoidedSound
  <2>4. CASE bs[k] = as[k]
    BY <2>1, <2>4 DEF SameMoney
  <2> QED
    BY <2>2, <2>3, <2>4
<1> QED
  BY <1>1, <1>2, MapAlike

(* Money captured comes, and what is past what is due is asked back. *)
LEMMA ReportsCaptureStep ==
  ASSUME PayInv, NEW event, event \in Event, event.attempt \in DOMAIN attempts,
         event.amount \in Nat \ {0}, ReportsCapture(event)
  PROVE  PayInv'
<1> DEFINE i == event.attempt
           bs == Brought(event)
<1>1. AllSound(attempts) /\ refunds \in Seq(Refund) /\ amount \in Nat
      /\ recorded \in SUBSET Event /\ IsFiniteSet(recorded)
      /\ Books(attempts, refunds, recorded, amount, changed)
  BY DEF PayInv, PayTypeOK
<1>2. Comes(attempts, bs, event)
  <2>1. attempts[i].captured + event.amount <= Capturable(attempts[i])
    BY DEF ReportsCapture
  <2>2. bs = [attempts EXCEPT ![i] = Finished(Paid(attempts[i], event.amount))]
    BY DEF Brought
  <2> HIDE DEF bs
  <2> QED
    BY <1>1, <2>1, <2>2, BroughtOne
<1>3. event \notin recorded
  BY DEF ReportsCapture, Recorded
<1>4. /\ recorded' = recorded \cup {event} /\ FollowsCapture(bs, event)
      /\ UNCHANGED <<state, amount, changed, acts>>
  BY DEF ReportsCapture
<1> HIDE DEF bs
<1>5. Follows(bs, refunds, amount, event, refunds')
  <2>1. CASE state \in VoidOn
    <3>1. \/ AfterRelease = "keep" /\ refunds' = refunds
          \/ AskedIn(bs, refunds, event.amount, "release", refunds')
      BY <1>4, <2>1 DEF FollowsCapture, Asks, AskedIn, Enough, EnoughIn, Refundable, Left
    <3> QED
      BY <3>1 DEF Follows
  <2>2. CASE state \notin VoidOn
    <3>1. SettleCapture(bs, event)
      BY <1>4, <2>2 DEF FollowsCapture
    <3>2. CASE Captured(bs) < DueIn(bs, amount)
      <4>1. Captured(bs) < Due(bs)
        BY <3>2 DEF Due, DueIn
      <4>2. refunds' = refunds
        BY <3>1, <4>1 DEF SettleCapture
      <4> QED
        BY <3>2, <4>2 DEF Follows
    <3>3. CASE ~(Captured(bs) < DueIn(bs, amount))
      <4>1. ~(Captured(bs) < Due(bs))
        BY <3>3 DEF Due, DueIn
      <4>2. IF Excess(bs, event) = 0 THEN UNCHANGED refunds
            ELSE Asks(bs, Excess(bs, event), "overpaid")
        BY <3>1, <4>1 DEF SettleCapture
      <4>3. Excess(bs, event) = ExcessIn(bs, refunds, amount, event)
        BY DEF Excess, ExcessIn, PastDue, Due, DueIn, Refundable, Left
      <4> DEFINE e == Excess(bs, event)
      <4>4. IF e = 0 THEN UNCHANGED refunds ELSE Asks(bs, e, "overpaid")
        BY <4>2
      <4>5. e = ExcessIn(bs, refunds, amount, event)
        BY <4>3
      <4> HIDE DEF e
      <4>6. IF e = 0 THEN refunds' = refunds
            ELSE AskedIn(bs, refunds, e, "overpaid", refunds')
        BY <4>4 DEF Asks, AskedIn, Enough, EnoughIn, Refundable, Left
      <4> QED
        BY <3>3, <4>5, <4>6 DEF Follows
    <3> QED
      BY <3>2, <3>3
  <2> QED
    BY <2>1, <2>2
<1>6. refunds' \in Seq(Refund) /\ Books(bs, refunds', recorded', amount, changed)
  <2>1. refunds' \in Seq(Refund)
        /\ Books(bs, refunds', recorded \cup {event}, amount, changed)
    BY <1>1, <1>2, <1>3, <1>5, FollowsBooks
  <2> QED
    BY <1>4, <2>1
<1>7. AllSound(bs)
  BY <1>2 DEF Comes
<1>8. PICK xs : /\ AllSound(xs) /\ attempts' = After(state, xs)
                /\ Books(xs, refunds', recorded', amount, changed)
  <2>1. attempts' = After(state, bs) \/ attempts' = After(state, VoidOthers(bs, i))
    BY <1>4 DEF FollowsCapture, SettleCapture
  <2>2. AllSound(VoidOthers(bs, i)) /\ Alike(bs, VoidOthers(bs, i))
    BY <1>7, VoidOthersAlike
  <2>3. Books(VoidOthers(bs, i), refunds', recorded', amount, changed)
    BY <1>6, <1>7, <2>2, BooksAlike
  <2> QED
    BY <1>6, <1>7, <2>1, <2>2, <2>3
<1>9. attempts' = After(state', xs) /\ Books(xs, refunds', recorded', amount', changed')
  BY <1>4, <1>8
<1>10. /\ state' \in Stages /\ amount' \in Nat /\ changed' \in BOOLEAN /\ acts' \in Nat
       /\ reports' \in Nat
  BY <1>4 DEF PayInv, PayTypeOK, ReportsCapture, AnEvent
<1>11. recorded' \in SUBSET Event /\ IsFiniteSet(recorded')
  BY <1>1, <1>4, FS_AddElement
<1> QED
  BY <1>6, <1>8, <1>9, <1>10, <1>11, StepKeeps

LEMMA PayInvStutters == PayInv /\ UNCHANGED payVars => PayInv'
BY DEF PayInv, PayTypeOK, payVars, history

LEMMA PaySteps == PayInv /\ [PayNext]_payVars => PayInv'
<1> SUFFICES ASSUME PayInv, [PayNext]_payVars PROVE PayInv'
  OBVIOUS
<1>1. CASE OpenPayment
  BY <1>1, OpensStep
<1>2. ASSUME NEW i \in DOMAIN attempts, NEW to \in {"processing", "failed", "cancelled"},
             Reports(i, to, 0)
      PROVE  PayInv'
  BY <1>2, ReportsStep
<1>3. ASSUME NEW i \in DOMAIN attempts, NEW n \in 1..attempts[i].amount,
             Reports(i, "authorized", n)
      PROVE  PayInv'
  <2>1. n \in Nat
    <3>1. \A a \in Attempt : a.amount \in Nat
      BY DEF Attempt
    <3>2. attempts[i].amount \in Nat
      BY <3>1, OneOf
    <3>3. \A m \in Nat : \A k \in 1..m : k \in Nat
      OBVIOUS
    <3> QED
      BY <3>2, <3>3
  <2> QED
    BY <1>3, <2>1, ReportsStep
<1>4. ASSUME NEW i \in DOMAIN attempts, NEW number \in Units, NEW n \in Units,
             ReportsCapture([attempt |-> i, number |-> number, amount |-> n])
      PROVE  PayInv'
  <2> DEFINE event == [attempt |-> i, number |-> number, amount |-> n]
  <2>1. i \in Nat /\ number \in Nat /\ n \in Nat \ {0}
    BY OneOf, UnitsType
  <2>2. event \in Event /\ event.attempt \in DOMAIN attempts /\ event.amount \in Nat \ {0}
    BY <2>1 DEF Event
  <2>3. ReportsCapture(event)
    BY <1>4
  <2> HIDE DEF event
  <2> QED
    BY <2>2, <2>3, ReportsCaptureStep
<1>5. ASSUME NEW i \in DOMAIN attempts, NEW n \in Units, CapturePayment(i, n)
      PROVE  PayInv'
  BY <1>5, UnitsType, CapturePaymentStep
<1>6. ASSUME NEW i \in DOMAIN attempts, VoidPayment(i)
      PROVE  PayInv'
  BY <1>6, VoidPaymentStep
<1>7. ASSUME NEW k \in DOMAIN refunds, ReportsRefund(k, "failed", 0)
      PROVE  PayInv'
  <2>1. 0 \in 0..refunds[k].amount
    <3>1. \A r \in Refund : r.amount \in Nat
      BY DEF Refund
    <3>2. refunds[k].amount \in Nat
      BY <3>1, SeqParts DEF PayInv, PayTypeOK
    <3>3. \A m \in Nat : 0 \in 0..m
      OBVIOUS
    <3> QED
      BY <3>2, <3>3
  <2> QED
    BY <1>7, <2>1, ReportsRefundStep
<1>8. ASSUME NEW k \in DOMAIN refunds, NEW n \in 0..refunds[k].amount,
             ReportsRefund(k, "succeeded", n)
      PROVE  PayInv'
  BY <1>8, ReportsRefundStep
<1>9. ASSUME NEW n \in Units, RefundPayment(n)
      PROVE  PayInv'
  BY <1>9, RefundPaymentStep
<1>10. ASSUME NEW to \in Stages, MovesTo(to)
       PROVE  PayInv'
  BY <1>10, MovesToStep
<1>11. ASSUME NEW n \in Owed, Update(n)
       PROVE  PayInv'
  BY <1>11, UpdateStep
<1>12. CASE UNCHANGED payVars
  BY <1>12, PayInvStutters
<1> QED
  BY <1>1, <1>2, <1>3, <1>4, <1>5, <1>6, <1>7, <1>8, <1>9, <1>10, <1>11, <1>12 DEF PayNext

LEMMA PayInvAlways == PaySpec => []PayInv
<1> QED
  BY PayBegins, PaySteps, PTL DEF PaySpec

-----------------------------------------------------------------------------
(* Every variable keeps its type, for any Workflow and settings.             *)
THEOREM PayTypeCorrect == PaySpec => []PayTypeOK
<1>1. PayInv => PayTypeOK
  BY DEF PayInv
<1> QED
  BY <1>1, PayInvAlways, PTL

(* Each attempt's money adds up, in any order of any number of events,        *)
(* refunds and captures: counted once per event, never drawn on past what was *)
(* captured, never asked to be captured past what was authorized.             *)
THEOREM MoneyAddsUp == PaySpec => []AttemptsAddUp
<1>1. PayInv => AttemptsAddUp
  <2> SUFFICES ASSUME PayInv PROVE AttemptsAddUp
    OBVIOUS
  <2>1. AllSound(attempts) /\ Books(attempts, refunds, recorded, amount, changed)
    BY DEF PayInv
  <2>2. \A i \in DOMAIN attempts : Sound(attempts[i])
    BY <2>1 DEF AllSound
  <2>3. CountedOnce
    BY <2>1, <2>2 DEF Books, Counted, BroughtTo, CountedOnce, Sound
  <2>4. DrawsFit
    BY <2>1 DEF Books, Drawing, DrawsFit
  <2>5. CapturesFit
    BY <2>2 DEF CapturesFit, Sound
  <2> QED
    BY <2>3, <2>4, <2>5 DEF AttemptsAddUp
<1> QED
  BY <1>1, PayInvAlways, PTL

(* While the amount stays, what is past it is asked back, and no more.        *)
THEOREM AsksBackExcess == PaySpec => []ExcessAskedBack
<1>1. PayInv => ExcessAskedBack
  <2> SUFFICES ASSUME PayInv, ~changed PROVE ExcessAskedBack
    BY DEF ExcessAskedBack
  <2>1. changed = FALSE
    BY DEF PayInv, PayTypeOK
  <2>2. Balanced(attempts, refunds, amount, changed)
    BY DEF PayInv, Books
  <2> QED
    BY <2>1, <2>2 DEF ExcessAskedBack, Balanced, AskedFor, Asked
<1> QED
  BY <1>1, PayInvAlways, PTL

(* In a state that voids, what could still be taken waits to be voided.       *)
THEOREM LetGoIsVoided == PaySpec => []VoidsWait
<1>1. PayInv => VoidsWait
  BY DEF PayInv, Voiding, VoidsWait
<1> QED
  BY <1>1, PayInvAlways, PTL

(* No second attempt opens while one is in flight: what is left to open is    *)
(* nothing until the one in flight ends.                                      *)
THEOREM OpensOneAtATime == PaySpec => OpensAlone
<1>1. PayInv /\ [PayNext]_payVars => [OpenPayment => Flying(attempts) = {}]_payVars
  <2>1. PayInv /\ OpenPayment => Flying(attempts) = {}
    BY OpensStep
  <2> QED
    BY <2>1
<1> QED
  BY <1>1, PayInvAlways, PTL DEF PaySpec, OpensAlone
==============================================================================
