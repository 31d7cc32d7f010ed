----------------------------- MODULE KeyCache ------------------------------
(***************************************************************************)
(* The cache of one issuer's keys, by which a service verifies the tokens it *)
(* is called with (serviceauth): lookups, each a goroutine, that share one   *)
(* fetch at a time of a key set the issuer changes meanwhile.                *)
(*                                                                          *)
(* A step is what a lookup does between taking the mutex and releasing it.   *)
(* Lookups run at once when they can: time passes only while each is idle,   *)
(* waits or fetches, since a descheduling as long as MinInterval is not the  *)
(* code's concern.  A fetch ends within FetchTimeout.                        *)
(***************************************************************************)
EXTENDS Integers

CONSTANTS Lookups, Kids,
          NoKid,         \* no kid of any token
          NoLookup,      \* who fetches while no fetch runs
          MaxAge, MinInterval, FetchTimeout,
          MaxClock       \* a bound

ASSUME KeysAssumption ==
  /\ NoLookup \notin Lookups /\ NoKid \notin Kids
  /\ MaxAge \in Nat /\ MinInterval \in Nat /\ FetchTimeout \in Nat
  /\ FetchTimeout < MinInterval /\ MinInterval < MaxAge
  /\ MaxClock \in Nat

VARIABLES clock,
          issued,     \* per kid: when the issuer last published it, or Never
          retired,    \* per kid: when it last took it away, or Never
          keys, fetchedAt, attempted,
          inflight,   \* the lookup that fetches, or NoLookup
          answer,     \* what the issuer gave that fetch so far
          lookup,     \* per lookup: where it is
          failed      \* the last fetch failed

keyVars == <<clock, issued, retired, keys, fetchedAt, attempted, inflight, answer,
             lookup, failed>>

Never == -1
NoKeys == {NoKid}    \* before the first fetch that succeeded

Lookup == [at : {"idle", "looks", "fetches", "waits"}, kid : Kids \cup {NoKid}, fetches : 0..2]
None == [at |-> "idle", kid |-> NoKid, fetches |-> 0]
Published(k) == issued[k] # Never /\ retired[k] = Never

KeysInit ==
  /\ clock = 0
  /\ \E ks \in SUBSET Kids : issued = [k \in Kids |-> IF k \in ks THEN 0 ELSE Never]
  /\ retired = [k \in Kids |-> Never]
  /\ keys = NoKeys /\ fetchedAt = Never /\ attempted = Never
  /\ inflight = NoLookup /\ answer = NoKeys
  /\ lookup = [l \in Lookups |-> None]
  /\ failed = FALSE

At(l, place) == lookup[l].at = place
Returns(l) == lookup' = [lookup EXCEPT ![l] = None]
Cached(k) == k \in keys
Fresh == fetchedAt # Never /\ clock - fetchedAt < MaxAge

(* Mutant: the interval counts from the last fetch that succeeded.           *)
RecentlyFetched == fetchedAt # Never /\ clock - fetchedAt < MinInterval

(* Mutant: no interval is kept.                                              *)
Unthrottled == FALSE

Recent == attempted # Never /\ clock - attempted < MinInterval

(* The issuer publishes a key, or retires one.                               *)
Publish(k) ==
  /\ issued[k] = Never
  /\ issued' = [issued EXCEPT ![k] = clock]
  /\ UNCHANGED <<clock, retired, keys, fetchedAt, attempted, inflight, answer, lookup,
                 failed>>

Retire(k) ==
  /\ Published(k)
  /\ retired' = [retired EXCEPT ![k] = clock]
  /\ UNCHANGED <<clock, issued, keys, fetchedAt, attempted, inflight, answer, lookup,
                 failed>>

(* A request whose token names a kid.                                        *)
Begin(l, k) ==
  /\ At(l, "idle")
  /\ lookup' = [lookup EXCEPT ![l] = [at |-> "looks", kid |-> k, fetches |-> 0]]
  /\ UNCHANGED <<clock, issued, retired, keys, fetchedAt, attempted, inflight, answer,
                 failed>>

(* A cached key serves while it is fresh, while a fetch runs, and between    *)
(* two fetches.                                                              *)
Serves(k) == Cached(k) /\ (Fresh \/ inflight # NoLookup \/ Recent)

Hit(l) ==
  /\ At(l, "looks") /\ Serves(lookup[l].kid)
  /\ Returns(l)
  /\ UNCHANGED <<clock, issued, retired, keys, fetchedAt, attempted, inflight, answer,
                 failed>>

Wait(l) ==
  /\ At(l, "looks") /\ ~Cached(lookup[l].kid) /\ inflight # NoLookup
  /\ lookup' = [lookup EXCEPT ![l].at = "waits"]
  /\ UNCHANGED <<clock, issued, retired, keys, fetchedAt, attempted, inflight, answer,
                 failed>>

(* The request's context ends while it waits.                                *)
GivesUp(l) ==
  /\ At(l, "waits")
  /\ Returns(l)
  /\ UNCHANGED <<clock, issued, retired, keys, fetchedAt, attempted, inflight, answer,
                 failed>>

(* Mutant: a lookup does not wait for the fetch that runs.                   *)
MissAtOnce(l) ==
  /\ At(l, "looks") /\ ~Cached(lookup[l].kid) /\ Recent
  /\ Returns(l)
  /\ UNCHANGED <<clock, issued, retired, keys, fetchedAt, attempted, inflight, answer,
                 failed>>

(* Refused: as unknown, or with no key fetched yet as unavailable.           *)
Miss(l) ==
  /\ At(l, "looks") /\ ~Cached(lookup[l].kid) /\ inflight = NoLookup /\ Recent
  /\ Returns(l)
  /\ UNCHANGED <<clock, issued, retired, keys, fetchedAt, attempted, inflight, answer,
                 failed>>

Fetch(l) ==
  /\ At(l, "looks") /\ ~(Cached(lookup[l].kid) /\ Fresh)
  /\ inflight = NoLookup /\ ~Recent
  /\ attempted' = clock /\ inflight' = l /\ answer' = NoKeys
  /\ lookup' = [lookup EXCEPT ![l].at = "fetches", ![l].fetches = @ + 1]
  /\ UNCHANGED <<clock, issued, retired, keys, fetchedAt, failed>>

(* The issuer answers with the keys it publishes then; the answer is on its  *)
(* way.                                                                      *)
Answers ==
  /\ inflight # NoLookup /\ answer = NoKeys
  /\ answer' = {k \in Kids : Published(k)}
  /\ UNCHANGED <<clock, issued, retired, keys, fetchedAt, attempted, inflight, lookup,
                 failed>>

(* Mutant: the channel is not closed.                                        *)
WakesItself(l, next) == lookup' = [lookup EXCEPT ![l] = next]

(* A fetch's end wakes who waits for it; its own lookup goes on as next.     *)
Woken(l, next) ==
  lookup' = [m \in Lookups |-> IF At(m, "waits") THEN [lookup[m] EXCEPT !.at = "looks"]
                               ELSE IF m = l THEN next
                               ELSE lookup[m]]

(* Mutant: the keys are as old as the fetch's end.                           *)
EndsNow(l) ==
  /\ inflight = l /\ answer # NoKeys
  /\ keys' = answer /\ fetchedAt' = clock /\ failed' = FALSE
  /\ inflight' = NoLookup /\ answer' = NoKeys
  /\ Woken(l, [lookup[l] EXCEPT !.at = "looks"])
  /\ UNCHANGED <<clock, issued, retired, attempted>>

(* The keys are as old as the fetch's beginning.                             *)
FetchEnds(l) ==
  /\ inflight = l /\ answer # NoKeys
  /\ keys' = answer /\ fetchedAt' = attempted /\ failed' = FALSE
  /\ inflight' = NoLookup /\ answer' = NoKeys
  /\ Woken(l, [lookup[l] EXCEPT !.at = "looks"])
  /\ UNCHANGED <<clock, issued, retired, attempted>>

(* A fetch that fails keeps what is cached; with nothing cached, its own     *)
(* lookup is refused at once.                                                *)
FetchFails(l) ==
  /\ inflight = l
  /\ failed' = TRUE
  /\ inflight' = NoLookup /\ answer' = NoKeys
  /\ Woken(l, IF keys = NoKeys THEN None ELSE [lookup[l] EXCEPT !.at = "looks"])
  /\ UNCHANGED <<clock, issued, retired, keys, fetchedAt, attempted>>

Passes ==
  /\ clock < MaxClock
  /\ \A l \in Lookups : ~At(l, "looks")
  /\ inflight # NoLookup => clock - attempted < FetchTimeout
  /\ clock' = clock + 1
  /\ UNCHANGED <<issued, retired, keys, fetchedAt, attempted, inflight, answer, lookup,
                 failed>>

Looks(l) == Hit(l) \/ Wait(l) \/ GivesUp(l) \/ Miss(l) \/ Fetch(l)
              \/ FetchEnds(l) \/ FetchFails(l)

KeysNext ==
  \/ \E k \in Kids : Publish(k) \/ Retire(k)
  \/ \E l \in Lookups, k \in Kids : Begin(l, k)
  \/ \E l \in Lookups : Looks(l)
  \/ Answers \/ Passes

KeysSpec == KeysInit /\ [][KeysNext]_keyVars
-----------------------------------------------------------------------------
(* Every variable keeps its type.                                            *)
KeysTypeOK ==
  /\ clock \in Nat
  /\ issued \in [Kids -> Nat \cup {Never}] /\ retired \in [Kids -> Nat \cup {Never}]
  /\ keys \in (SUBSET Kids) \cup {NoKeys} /\ answer \in (SUBSET Kids) \cup {NoKeys}
  /\ fetchedAt \in Nat \cup {Never} /\ attempted \in Nat \cup {Never}
  /\ inflight \in Lookups \cup {NoLookup}
  /\ lookup \in [Lookups -> Lookup] /\ failed \in BOOLEAN

(* One fetch runs at a time, whoever misses, and who waits does so for one   *)
(* that runs: its end wakes it.                                              *)
OneFetchForAll ==
  /\ \A l \in Lookups : At(l, "fetches") <=> inflight = l
  /\ \A l \in Lookups : At(l, "waits") => inflight # NoLookup

(* A request makes at most one fetch, whatever it finds after it: a fetch    *)
(* ends before the next may begin.                                           *)
FetchesOnce == \A l \in Lookups : lookup[l].fetches <= 1

(* However many lookups miss at once, they share a fetch, and each asks the   *)
(* issuer once at most.                                                      *)
FetchesShared == OneFetchForAll /\ FetchesOnce

(* A key the issuer retired MaxAge ago or longer is accepted only when the    *)
(* last fetch failed, or while a fetch runs: for FetchTimeout at most, and    *)
(* what that fetch brings no longer has the key.                              *)
RetiredKeysGo ==
  [][\A l \in Lookups :
       /\ Hit(l)
       /\ retired[lookup[l].kid] # Never
       /\ clock - retired[lookup[l].kid] >= MaxAge
       => \/ failed
          \/ /\ inflight # NoLookup /\ clock - attempted <= FetchTimeout
             /\ lookup[l].kid \notin answer]_keyVars

(* A key the issuer published is not refused as unknown once it is as old as *)
(* MinInterval, unless the last fetch failed: an issuer that publishes a key *)
(* that long before it signs by it loses no call.                            *)
RotationNoticed ==
  [][\A l \in Lookups :
       /\ Miss(l) /\ keys # NoKeys
       /\ Published(lookup[l].kid)
       => clock - issued[lookup[l].kid] < MinInterval \/ failed]_keyVars
=============================================================================
