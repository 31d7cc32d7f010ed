--------------------------- MODULE KeyCacheProofs ---------------------------
(* The properties of KeyCache, for any number of lookups and keys and any     *)
(* times that keep a fetch shorter than the interval between two, and that    *)
(* shorter than the keys' age.                                               *)
EXTENDS KeyCache, TLAPS

(* A fetch began no longer ago than it may last, and the keys are no younger  *)
(* than the last fetch.  A lookup that made its fetch looks again while it is *)
(* recent, so none runs: it cannot wait for another nor make one.             *)
Paced ==
  /\ fetchedAt <= attempted /\ attempted <= clock
  /\ inflight # NoLookup => attempted # Never /\ clock - attempted <= FetchTimeout
  /\ \A l \in Lookups :
       /\ At(l, "looks") => lookup[l].kid \in Kids
       /\ At(l, "waits") => lookup[l].kid \in Kids /\ lookup[l].fetches = 0
       /\ At(l, "fetches") => lookup[l].kid \in Kids /\ lookup[l].fetches <= 1
       /\ At(l, "looks") /\ lookup[l].fetches # 0 =>
            lookup[l].fetches = 1 /\ inflight = NoLookup /\ Recent
       /\ At(l, "idle") => lookup[l].fetches = 0

(* What a fetch taken at a time brings is what the issuer published at or     *)
(* after it: a key it brings was retired later, if ever, and one it does not  *)
(* bring was published later, if it is published.                             *)
TakenAt(ks, t) ==
  ks # NoKeys =>
    \A k \in Kids :
      /\ k \in ks /\ retired[k] # Never => retired[k] >= t
      /\ k \notin ks /\ Published(k) => issued[k] >= t

Timely ==
  /\ TakenAt(keys, fetchedAt)
  /\ inflight # NoLookup => TakenAt(answer, attempted)
  /\ ~failed /\ inflight = NoLookup => fetchedAt = attempted

KeysInv == KeysTypeOK /\ OneFetchForAll /\ Paced /\ Timely

LEMMA Names == \A k \in Kids : k \notin NoKeys
BY KeysAssumption DEF NoKeys

LEMMA InvInit == KeysInit => KeysInv
<1> SUFFICES ASSUME KeysInit PROVE KeysInv
  OBVIOUS
<1>1. \A l \in Lookups : lookup[l] = None
  BY DEF KeysInit
<1>2. KeysTypeOK
  <2>1. issued \in [Kids -> Nat \cup {Never}] /\ retired \in [Kids -> Nat \cup {Never}]
    BY DEF KeysInit
  <2>2. lookup \in [Lookups -> Lookup]
    BY DEF KeysInit, Lookup, None
  <2> QED
    BY <2>1, <2>2 DEF KeysInit, KeysTypeOK
<1>3. OneFetchForAll /\ Paced
  BY <1>1, KeysAssumption DEF KeysInit, OneFetchForAll, Paced, At, None, Never
<1>4. Timely
  BY DEF KeysInit, Timely, TakenAt
<1> QED
  BY <1>2, <1>3, <1>4 DEF KeysInv

(* The issuer's steps: a key it changes now, it changes no earlier than the   *)
(* fetches before.                                                            *)
LEMMA InvIssuer ==
  ASSUME KeysInv, NEW k \in Kids, Publish(k) \/ Retire(k)
  PROVE  KeysInv'
<1> USE DEF KeysInv
<1>1. UNCHANGED <<clock, keys, fetchedAt, attempted, inflight, answer, lookup, failed>>
  BY DEF Publish, Retire
<1>2. KeysTypeOK'
  BY DEF KeysTypeOK, Publish, Retire
<1>3. OneFetchForAll' /\ Paced'
  BY <1>1 DEF OneFetchForAll, Paced, At, Recent
<1>4. ASSUME NEW ks, NEW t \in Int, t <= clock, TakenAt(ks, t), NEW j \in Kids, ks # NoKeys
      PROVE  /\ j \in ks /\ retired'[j] # Never => retired'[j] >= t
             /\ j \notin ks /\ Published(j)' => issued'[j] >= t
  <2>1. CASE Publish(k)
    BY <1>4, <2>1 DEF Publish, TakenAt, Published, KeysTypeOK, Never
  <2>2. CASE Retire(k)
    BY <1>4, <2>2 DEF Retire, TakenAt, Published, KeysTypeOK, Never
  <2> QED
    BY <2>1, <2>2
<1>5. /\ fetchedAt \in Int /\ fetchedAt <= clock
      /\ attempted \in Int /\ attempted <= clock
  BY DEF KeysTypeOK, Paced, Never
<1>6. TakenAt(keys, fetchedAt)'
  BY <1>1, <1>4, <1>5 DEF Timely, TakenAt, Published
<1>7. inflight # NoLookup => TakenAt(answer, attempted)'
  BY <1>1, <1>4, <1>5 DEF Timely, TakenAt, Published
<1> QED
  BY <1>1, <1>2, <1>3, <1>6, <1>7 DEF Timely

(* The steps of one lookup that leave the cache and the fetch as they are.    *)
LEMMA InvLooks ==
  ASSUME KeysInv, NEW l \in Lookups,
         \/ \E k \in Kids : Begin(l, k)
         \/ Hit(l) \/ Wait(l) \/ GivesUp(l) \/ Miss(l)
  PROVE  KeysInv'
<1> USE DEF KeysInv
<1>1. UNCHANGED <<clock, issued, retired, keys, fetchedAt, attempted, inflight, answer,
                  failed>>
  BY DEF Begin, Hit, Wait, GivesUp, Miss
<1>2. Timely'
  BY <1>1 DEF Timely, TakenAt, Published
<1>3. PICK new \in Lookup :
        /\ lookup' = [lookup EXCEPT ![l] = new]
        /\ new.at # "fetches" /\ ~At(l, "fetches")
        /\ new.at = "waits" => inflight # NoLookup
        /\ new.at \in {"looks", "waits"} => new.kid \in Kids
        /\ new.fetches = 0
  <2>1. CASE \E k \in Kids : Begin(l, k)
    <3>1. PICK k \in Kids : Begin(l, k)
      BY <2>1
    <3>2. [at |-> "looks", kid |-> k, fetches |-> 0] \in Lookup
      BY DEF Lookup
    <3> QED
      BY <3>1, <3>2 DEF Begin, At
  <2>2. CASE Hit(l) \/ GivesUp(l) \/ Miss(l)
    <3>1. None \in Lookup /\ None.at = "idle" /\ None.fetches = 0
      BY DEF None, Lookup
    <3> QED
      BY <2>2, <3>1 DEF Hit, GivesUp, Miss, Returns, At
  <2>3. CASE Wait(l)
    <3>1. lookup[l] \in Lookup /\ lookup[l].fetches = 0 /\ lookup[l].kid \in Kids
      BY <2>3 DEF Wait, KeysTypeOK, Paced
    <3>2. [lookup[l] EXCEPT !.at = "waits"] \in Lookup
      BY <3>1 DEF Lookup
    <3> QED
      BY <2>3, <3>1, <3>2 DEF Wait, At, Lookup
  <2> QED
    BY <2>1, <2>2, <2>3
<1>4. KeysTypeOK'
  BY <1>1, <1>3 DEF KeysTypeOK
<1>5. lookup'[l] = new /\ \A m \in Lookups \ {l} : lookup'[m] = lookup[m]
  BY <1>3 DEF KeysTypeOK
<1>6. OneFetchForAll'
  BY <1>1, <1>3, <1>5 DEF OneFetchForAll, At
<1>7. Paced'
  BY <1>1, <1>3, <1>5 DEF Paced, At, Recent
<1> QED
  BY <1>2, <1>4, <1>6, <1>7

LEMMA InvFetch ==
  ASSUME KeysInv, NEW l \in Lookups, Fetch(l)
  PROVE  KeysInv'
<1> USE DEF KeysInv
<1>1. lookup[l] \in Lookup /\ lookup[l].kid \in Kids /\ lookup[l].fetches = 0
  BY DEF Fetch, KeysTypeOK, Paced
<1>2. [lookup[l] EXCEPT !.at = "fetches", !.fetches = @ + 1] \in Lookup
  <2>1. lookup[l].fetches + 1 \in 0..2
    BY <1>1
  <2> QED
    BY <1>1, <2>1 DEF Lookup
<1>3. lookup' = [lookup EXCEPT ![l] = [lookup[l] EXCEPT !.at = "fetches", !.fetches = @ + 1]]
  BY DEF Fetch, KeysTypeOK
<1>4. /\ lookup' \in [Lookups -> Lookup]
      /\ lookup'[l].at = "fetches" /\ lookup'[l].kid \in Kids /\ lookup'[l].fetches = 1
      /\ \A m \in Lookups \ {l} : lookup'[m] = lookup[m]
  BY <1>1, <1>2, <1>3 DEF KeysTypeOK, Lookup
<1>5. KeysTypeOK'
  <2>1. attempted' \in Nat /\ answer' = NoKeys /\ inflight' \in Lookups
    BY DEF Fetch, KeysTypeOK
  <2> QED
    BY <1>4, <2>1 DEF Fetch, KeysTypeOK
<1>6. OneFetchForAll'
  BY <1>4, KeysAssumption DEF Fetch, OneFetchForAll, At
<1>7. Paced'
  <2>1. fetchedAt' <= attempted' /\ attempted' <= clock'
        /\ attempted' # Never /\ clock' - attempted' <= FetchTimeout
    BY KeysAssumption DEF Fetch, Paced, KeysTypeOK, Never
  <2>2. \A m \in Lookups : At(m, "looks") => lookup[m].fetches = 0
    BY DEF Fetch, Paced
  <2> QED
    BY <1>4, <2>1, <2>2 DEF Fetch, Paced, At
<1>8. Timely'
  BY KeysAssumption DEF Fetch, Timely, TakenAt, Published
<1> QED
  BY <1>5, <1>6, <1>7, <1>8

LEMMA InvAnswers ==
  ASSUME KeysInv, Answers
  PROVE  KeysInv'
<1> USE DEF KeysInv
<1>1. KeysTypeOK' /\ OneFetchForAll' /\ Paced'
  BY DEF Answers, KeysTypeOK, OneFetchForAll, Paced, At, Recent
<1>2. Timely'
  BY DEF Answers, Timely, TakenAt, Published
<1> QED
  BY <1>1, <1>2

(* A fetch's end: its lookup looks again, or with nothing to look at returns. *)
LEMMA InvEnds ==
  ASSUME KeysInv, NEW l \in Lookups, FetchEnds(l) \/ FetchFails(l)
  PROVE  KeysInv'
<1> USE DEF KeysInv
<1>1. inflight = l /\ At(l, "fetches") /\ \A m \in Lookups \ {l} : ~At(m, "fetches")
  BY DEF FetchEnds, FetchFails, OneFetchForAll
<1>2. lookup[l] \in Lookup /\ lookup[l].kid \in Kids /\ lookup[l].fetches <= 1
  BY <1>1 DEF KeysTypeOK, Paced
<1>3. inflight # NoLookup /\ inflight' = NoLookup /\ UNCHANGED <<clock, attempted, issued, retired>>
  BY <1>1, KeysAssumption DEF FetchEnds, FetchFails
<1>4. attempted # Never /\ Recent /\ Recent'
  BY <1>3, KeysAssumption DEF Paced, Recent, KeysTypeOK, Never
<1>5. PICK next \in Lookup :
        /\ Woken(l, next)
        /\ \/ next.at = "looks" /\ next.kid \in Kids /\ next.fetches <= 1
           \/ next.at = "idle" /\ next.fetches = 0
  <2>1. [lookup[l] EXCEPT !.at = "looks"] \in Lookup
    BY <1>2 DEF Lookup
  <2>2. None \in Lookup /\ None.at = "idle" /\ None.fetches = 0
    BY DEF None, Lookup
  <2>3. /\ [lookup[l] EXCEPT !.at = "looks"].at = "looks"
        /\ [lookup[l] EXCEPT !.at = "looks"].kid = lookup[l].kid
        /\ [lookup[l] EXCEPT !.at = "looks"].fetches = lookup[l].fetches
    BY <1>2 DEF Lookup
  <2> QED
    BY <1>2, <2>1, <2>2, <2>3 DEF FetchEnds, FetchFails
<1>6. /\ lookup'[l] = next
      /\ \A m \in Lookups \ {l} :
           lookup'[m] = IF At(m, "waits") THEN [lookup[m] EXCEPT !.at = "looks"] ELSE lookup[m]
  BY <1>1, <1>5 DEF Woken, At
<1>7. \A m \in Lookups \ {l} :
        /\ lookup'[m] \in Lookup
        /\ lookup'[m].kid = lookup[m].kid /\ lookup'[m].fetches = lookup[m].fetches
        /\ lookup'[m].at \in {"looks", "idle"}
        /\ lookup'[m].at = "idle" => At(m, "idle")
        /\ lookup'[m].at = "looks" => At(m, "looks") \/ At(m, "waits")
  <2> SUFFICES ASSUME NEW m \in Lookups \ {l}
               PROVE  /\ lookup'[m] \in Lookup
                      /\ lookup'[m].kid = lookup[m].kid
                      /\ lookup'[m].fetches = lookup[m].fetches
                      /\ lookup'[m].at \in {"looks", "idle"}
                      /\ lookup'[m].at = "idle" => At(m, "idle")
                      /\ lookup'[m].at = "looks" => At(m, "looks") \/ At(m, "waits")
    OBVIOUS
  <2>1. lookup[m] \in Lookup /\ ~At(m, "fetches")
    BY <1>1 DEF KeysTypeOK
  <2> QED
    BY <1>6, <2>1 DEF At, Lookup
<1>8. lookup' \in [Lookups -> Lookup]
  BY <1>5, <1>6, <1>7 DEF Woken
<1>9. KeysTypeOK'
  <2>1. /\ keys' \in (SUBSET Kids) \cup {NoKeys} /\ fetchedAt' \in Nat \cup {Never}
        /\ answer' = NoKeys /\ failed' \in BOOLEAN
    BY DEF FetchEnds, FetchFails, KeysTypeOK
  <2> QED
    BY <1>3, <1>8, <2>1 DEF KeysTypeOK
<1>10. OneFetchForAll'
  BY <1>3, <1>5, <1>6, <1>7, KeysAssumption DEF OneFetchForAll, At
<1>11. Paced'
  <2>1. fetchedAt' <= attempted' /\ attempted' <= clock'
    BY DEF FetchEnds, FetchFails, Paced, KeysTypeOK, Never
  <2>2. \A m \in Lookups : At(m, "looks") => lookup[m].fetches = 0
    BY <1>3 DEF Paced
  <2>3. next.fetches # 0 => next.fetches = 1
    BY <1>5 DEF Lookup
  <2> QED
    BY <1>3, <1>4, <1>5, <1>6, <1>7, <2>1, <2>2, <2>3 DEF Paced, At
<1>12. Timely'
  <2>1. CASE FetchEnds(l)
    BY <1>3, <2>1 DEF FetchEnds, Timely, TakenAt, Published
  <2>2. CASE FetchFails(l)
    BY <1>3, <2>2 DEF FetchFails, Timely, TakenAt, Published
  <2> QED
    BY <2>1, <2>2
<1> QED
  BY <1>9, <1>10, <1>11, <1>12

LEMMA InvPasses ==
  ASSUME KeysInv, Passes
  PROVE  KeysInv'
<1> USE DEF KeysInv
<1>1. KeysTypeOK' /\ OneFetchForAll'
  BY DEF Passes, KeysTypeOK, OneFetchForAll, At
<1>2. Timely'
  BY DEF Passes, Timely, TakenAt, Published
<1>3. Paced'
  BY KeysAssumption DEF Passes, Paced, KeysTypeOK, Never, At
<1> QED
  BY <1>1, <1>2, <1>3

LEMMA InvStep == KeysInv /\ [KeysNext]_keyVars => KeysInv'
<1> SUFFICES ASSUME KeysInv, [KeysNext]_keyVars PROVE KeysInv'
  OBVIOUS
<1>1. CASE \E k \in Kids : Publish(k) \/ Retire(k)
  BY <1>1, InvIssuer
<1>2. CASE \E l \in Lookups, k \in Kids : Begin(l, k)
  BY <1>2, InvLooks
<1>3. CASE \E l \in Lookups : Looks(l)
  BY <1>3, InvLooks, InvFetch, InvEnds DEF Looks
<1>4. CASE Answers \/ Passes
  BY <1>4, InvAnswers, InvPasses
<1>5. CASE UNCHANGED keyVars
  BY <1>5 DEF keyVars, KeysInv, KeysTypeOK, OneFetchForAll, Paced, Timely, TakenAt,
              Published, At, Recent
<1> QED
  BY <1>1, <1>2, <1>3, <1>4, <1>5 DEF KeysNext

LEMMA InvHolds == KeysSpec => []KeysInv
BY InvInit, InvStep, PTL DEF KeysSpec

(* The cache, the fetch and every lookup keep their types.                    *)
THEOREM KeysTypeCorrect == KeysSpec => []KeysTypeOK
<1>1. KeysInv => KeysTypeOK
  BY DEF KeysInv
<1> QED
  BY <1>1, InvHolds, PTL

(* Lookups share one fetch, and none waits for a fetch that is not running;   *)
(* a lookup makes one fetch at most, whatever it finds after it.              *)
THEOREM OneFetchRuns == KeysSpec => []FetchesShared
<1>1. KeysInv => FetchesOnce
  <2> SUFFICES ASSUME KeysInv, NEW l \in Lookups PROVE lookup[l].fetches <= 1
    BY DEF FetchesOnce
  <2>1. lookup[l] \in Lookup
    BY DEF KeysInv, KeysTypeOK
  <2> QED
    BY <2>1 DEF KeysInv, Paced, At, Lookup
<1>2. KeysInv => FetchesShared
  BY <1>1 DEF KeysInv, FetchesShared
<1> QED
  BY <1>2, InvHolds, PTL

(* The cache that is neither fetching nor left by a failed fetch is as old as *)
(* the last fetch, so a recent fetch makes it fresh.                          *)
LEMMA RecentIsFresh ==
  ASSUME KeysInv, inflight = NoLookup, ~failed, Recent
  PROVE  Fresh /\ fetchedAt = attempted
BY KeysAssumption DEF KeysInv, Timely, Recent, Fresh, KeysTypeOK, Never

(* A key retired MaxAge ago is served, while no fetch failed, only during a   *)
(* fetch: one that began within FetchTimeout, so after the retirement, and    *)
(* brings the key no more.                                                   *)
THEOREM RetiredGo == KeysSpec => RetiredKeysGo
<1>1. KeysInv /\ [KeysNext]_keyVars =>
        [\A l \in Lookups :
           /\ Hit(l)
           /\ retired[lookup[l].kid] # Never
           /\ clock - retired[lookup[l].kid] >= MaxAge
           => \/ failed
              \/ /\ inflight # NoLookup /\ clock - attempted <= FetchTimeout
                 /\ lookup[l].kid \notin answer]_keyVars
  <2> SUFFICES ASSUME KeysInv, NEW l \in Lookups, Hit(l),
                      retired[lookup[l].kid] # Never,
                      clock - retired[lookup[l].kid] >= MaxAge, ~failed
               PROVE  /\ inflight # NoLookup /\ clock - attempted <= FetchTimeout
                      /\ lookup[l].kid \notin answer
    OBVIOUS
  <2> DEFINE k == lookup[l].kid
  <2>1. k \in Kids /\ k \in keys
    BY DEF Hit, Serves, Cached, KeysInv, Paced
  <2>2. /\ clock \in Nat /\ retired[k] \in Int /\ fetchedAt \in Int /\ attempted \in Int
    BY <2>1 DEF KeysInv, KeysTypeOK, Never
  <2>3. inflight # NoLookup
    <3> SUFFICES ASSUME inflight = NoLookup PROVE FALSE
      OBVIOUS
    <3>1. Fresh
      BY RecentIsFresh DEF Hit, Serves
    <3>2. retired[k] >= fetchedAt
      BY <2>1, Names DEF KeysInv, Timely, TakenAt
    <3> QED
      BY <2>2, <3>1, <3>2, KeysAssumption DEF Fresh
  <2>4. clock - attempted <= FetchTimeout
    BY <2>3 DEF KeysInv, Paced
  <2>5. ASSUME k \in answer PROVE FALSE
    <3>1. retired[k] >= attempted
      BY <2>1, <2>3, <2>5, Names DEF KeysInv, Timely, TakenAt
    <3> QED
      BY <2>2, <2>4, <3>1, KeysAssumption
  <2> QED
    BY <2>3, <2>4, <2>5
<1> QED
  BY <1>1, InvHolds, PTL DEF KeysSpec, RetiredKeysGo

(* A published key is noticed within the interval, unless fetches fail.       *)
THEOREM RotationsNoticed == KeysSpec => RotationNoticed
<1>1. KeysInv /\ [KeysNext]_keyVars =>
        [\A l \in Lookups :
           /\ Miss(l) /\ keys # NoKeys
           /\ Published(lookup[l].kid)
           => clock - issued[lookup[l].kid] < MinInterval \/ failed]_keyVars
  <2> SUFFICES ASSUME KeysInv, NEW l \in Lookups, Miss(l), keys # NoKeys,
                      Published(lookup[l].kid), ~failed
               PROVE  clock - issued[lookup[l].kid] < MinInterval
    OBVIOUS
  <2> DEFINE k == lookup[l].kid
  <2>1. k \in Kids /\ k \notin keys
    BY DEF Miss, Cached, KeysInv, Paced
  <2>2. fetchedAt = attempted /\ Recent
    BY RecentIsFresh DEF Miss
  <2>3. issued[k] >= fetchedAt
    BY <2>1 DEF KeysInv, Timely, TakenAt
  <2>4. clock \in Nat /\ issued[k] \in Int /\ fetchedAt \in Int
    BY <2>1 DEF KeysInv, KeysTypeOK, Never
  <2> QED
    BY <2>2, <2>3, <2>4, KeysAssumption DEF Recent
<1> QED
  BY <1>1, InvHolds, PTL DEF KeysSpec, RotationNoticed
=============================================================================
