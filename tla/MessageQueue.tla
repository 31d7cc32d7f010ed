---------------------------- MODULE MessageQueue ----------------------------
(***************************************************************************)
(* A queue: its table, the statements that change it and the clients that   *)
(* run them.  internal/generator/sqlutil writes the statements, one source   *)
(* for the Go, TypeScript and Rust clients; the client's claim runs two of   *)
(* them, expire and then claim, each at the database's clock as it runs.     *)
(*                                                                          *)
(* A statement is one step, but a claim on Postgres is two: its subquery     *)
(* reads the due heads on the statement's snapshot, and its update then      *)
(* takes the rows that still match, under the index of claimed messages by   *)
(* key.  On SQLite the write lock covers both.                               *)
(***************************************************************************)
EXTENDS Integers, FiniteSets

CONSTANTS Ids,          \* message IDs: numbers, since a claim orders by ID
          KeyOf,        \* the key column of the message an ID is given
          Tokens,       \* claim tokens
          NoToken,      \* the claim_token column's NULL
          Clients,      \* connections that claim
          Dialect,      \* "postgres" or "sqlite"
          OnDuplicate,  \* "append", "replace" or "skip"
          Serialize,    \* whether claims hold one message per key
          InOrder,      \* whether a key's line goes by created_at
          Operated,     \* whether an operator retries and drops
          Retries, Lease, Backoff, MaxBackoff, Retain,
          Batch,        \* the most messages one claim asks for
          MaxWrites,    \* bound: enqueues that store a message
          MaxNow        \* bound: the database's clock

ASSUME QueueAssumption ==
  /\ Ids \subseteq Nat
  /\ NoToken \notin Tokens
  /\ Dialect \in {"postgres", "sqlite"}
  /\ OnDuplicate \in {"append", "replace", "skip"}
  /\ Serialize \in BOOLEAN /\ InOrder \in BOOLEAN /\ Operated \in BOOLEAN
  /\ Retries \in Nat /\ Lease \in Nat \ {0} /\ Backoff \in Nat
  /\ MaxBackoff \in Nat /\ Retain \in Nat /\ Batch \in Nat
  /\ MaxWrites \in Nat /\ MaxNow \in Nat

(* Arithmetic the provers lack, of the exponents the backoff uses. *)
ASSUME PowersOfTwo == \A e \in 0..Retries : 2^e \in Nat

VARIABLES rows,      \* the table, a row per ID
          now,       \* the database's clock
          writes,    \* how many contents enqueues have stored
          given,     \* per message: the tokens its claims returned
          pc,        \* per client: where its claim is
          picked,    \* per client: what its claim's subquery read, and when
          last,      \* history: the token of each message's last claim
          finished   \* history: the token whose complete ended the message

vars == <<rows, now, writes, given, pc, picked, last, finished>>

States == {"absent", "ready", "claimed", "done", "dead", "gone"}

Row == [state : States, body : Nat, attempts : Nat, due : Nat,
        token : Tokens \cup {NoToken}, expires : Nat, created : Nat,
        updated : Nat]

TypeOK ==
  /\ rows \in [Ids -> Row]
  /\ now \in Nat
  /\ writes \in Nat
  /\ given \in [Ids -> SUBSET Tokens]
  /\ pc \in [Clients -> {"idle", "due", "expired", "reading"}]
  /\ picked \in [Clients -> [ids : SUBSET Ids, at : Nat]]
  /\ last \in [Ids -> Tokens \cup {NoToken}]
  /\ finished \in [Ids -> Tokens \cup {NoToken}]

NoPick == [ids |-> {}, at |-> 0]

Init ==
  /\ rows = [m \in Ids |->
               [state |-> "absent", body |-> 0, attempts |-> 0, due |-> 0,
                token |-> NoToken, expires |-> 0, created |-> 0, updated |-> 0]]
  /\ now = 0
  /\ writes = 0
  /\ given = [m \in Ids |-> {}]
  /\ pc = [c \in Clients |-> "idle"]
  /\ picked = [c \in Clients |-> NoPick]
  /\ last = [m \in Ids |-> NoToken]
  /\ finished = [m \in Ids |-> NoToken]

-----------------------------------------------------------------------------
(* What the statements read. *)

Dedupes == OnDuplicate \in {"replace", "skip"}
KeepDone == Retain # 0

InState(s) == {m \in Ids : rows[m].state = s}
SameKey(m, o) == KeyOf[m] = KeyOf[o]

(* queuePending: another message, ready, holds m's key. *)
Pending(m) == \E o \in InState("ready") : SameKey(m, o)

DueAt(m, t) ==
  \/ rows[m].state = "ready" /\ rows[m].due <= t
  \/ rows[m].state = "claimed" /\ rows[m].expires <= t

Before(x, o, y, m) == x < y \/ (x = y /\ o < m)
(* Mutant: the line of every queue goes by due time. *)
LineByDue(o, m) == Before(rows[o].due, o, rows[m].due, m)
LineBefore(o, m) ==
  IF InOrder THEN Before(rows[o].created, o, rows[m].created, m)
             ELSE Before(rows[o].due, o, rows[m].due, m)

(* The head of its key's line: no other claim holds the key, and no ready   *)
(* message of it comes before a ready m.                                    *)
Head(m) ==
  \A o \in Ids \ {m} : SameKey(m, o) =>
    /\ rows[o].state # "claimed"
    /\ ~ (rows[m].state = "ready" /\ rows[o].state = "ready" /\ LineBefore(o, m))

Claimable == {m \in Ids : DueAt(m, now) /\ (Serialize => Head(m))}

(* ORDER BY due_at, id LIMIT n. *)
FirstDue(n) ==
  {m \in Claimable : Cardinality({o \in Claimable :
                        Before(rows[o].due, o, rows[m].due, m)}) < n}

Lesser(a, b) == IF a < b THEN a ELSE b

(* The wait after a failure: doubled for each attempt before it, the        *)
(* exponent and the wait capped.                                            *)
Doublings == 40
Wait(attempts) == Lesser(Backoff * 2^Lesser(attempts - 1, Doublings), MaxBackoff)

Issued == UNION {given[m] : m \in Ids}

(* Mutant: the token is cleared to a value of its own instead of NULL. *)
UnclaimedToEmpty(r, state) ==
  [r EXCEPT !.state = state, !.token = 0, !.expires = 0, !.updated = now]

(* A row a claim holds no more. *)
Unclaimed(r, state) ==
  [r EXCEPT !.state = state, !.token = NoToken, !.expires = 0, !.updated = now]

-----------------------------------------------------------------------------
Written(r) ==
  [r EXCEPT !.state = "ready", !.body = writes + 1, !.due = now,
            !.created = now, !.updated = now]

Rewritten(r) ==
  [r EXCEPT !.body = writes + 1, !.due = now, !.attempts = 0, !.updated = now]

(* An enqueue, in its caller's transaction. *)

Enqueue(m) ==
  /\ writes < MaxWrites
  /\ rows[m].state = "absent"
  /\ ~ (Dedupes /\ Pending(m))
  /\ writes' = writes + 1
  /\ rows' = [rows EXCEPT ![m] = Written(@)]
  /\ UNCHANGED <<now, given, pc, picked, last, finished>>

(* ON CONFLICT of a queue that replaces: m, the ready message of the key,    *)
(* takes the new content, due at once, its attempts from the start.          *)
EnqueueReplaces(m) ==
  /\ OnDuplicate = "replace"
  /\ writes < MaxWrites
  /\ rows[m].state = "ready"
  /\ writes' = writes + 1
  /\ rows' = [rows EXCEPT ![m] = Rewritten(@)]
  /\ UNCHANGED <<now, given, pc, picked, last, finished>>

-----------------------------------------------------------------------------
(* A client's claim: the due read on SQLite, then expire, then claim. *)

Step(c, from, to) == pc[c] = from /\ pc' = [pc EXCEPT ![c] = to]

ReadDue(c) ==
  /\ Dialect = "sqlite"
  /\ Claimable # {}
  /\ Step(c, "idle", "due")
  /\ UNCHANGED <<rows, now, writes, given, picked, last, finished>>

(* Mutant: any expired claim is its message's last. *)
ClaimExpired(m) == rows[m].state = "claimed" /\ rows[m].expires <= now

LastClaimExpired(m) ==
  rows[m].state = "claimed" /\ rows[m].expires <= now /\ rows[m].attempts > Retries

Expire(c) ==
  /\ Step(c, IF Dialect = "sqlite" THEN "due" ELSE "idle", "expired")
  /\ rows' = [m \in Ids |-> IF LastClaimExpired(m)
                             THEN Unclaimed(rows[m], "dead") ELSE rows[m]]
  /\ UNCHANGED <<now, writes, given, picked, last, finished>>

(* A row the token t claims from the clock at on. *)
Taken(r, t, at) ==
  [r EXCEPT !.state = "claimed", !.token = t, !.attempts = @ + 1,
            !.updated = at, !.expires = at + Lease]

(* Mutant: a claim makes one token for all its rows. *)
TakeRowsTogether(S, at) ==
  \E t \in Tokens \ Issued :
    /\ rows' = [m \in Ids |-> IF m \in S THEN Taken(rows[m], t, at) ELSE rows[m]]
    /\ given' = [m \in Ids |-> IF m \in S THEN given[m] \cup {t} ELSE given[m]]
    /\ last' = [m \in Ids |-> IF m \in S THEN t ELSE last[m]]

(* The rows of S are claimed, each under a token no claim was given. *)
TakeRows(S, at) ==
  \E f \in [S -> Tokens \ Issued] :
    /\ \A a, b \in S : f[a] = f[b] => a = b
    /\ rows' = [m \in Ids |-> IF m \in S THEN Taken(rows[m], f[m], at) ELSE rows[m]]
    /\ given' = [m \in Ids |-> IF m \in S THEN given[m] \cup {f[m]} ELSE given[m]]
    /\ last' = [m \in Ids |-> IF m \in S THEN f[m] ELSE last[m]]

ClaimSQLite(c, n) ==
  /\ Dialect = "sqlite"
  /\ Step(c, "expired", "idle")
  /\ TakeRows(FirstDue(n), now)
  /\ UNCHANGED <<now, writes, picked, finished>>

ClaimReads(c, n) ==
  /\ Dialect = "postgres"
  /\ Step(c, "expired", "reading")
  /\ picked' = [picked EXCEPT ![c] = [ids |-> FirstDue(n), at |-> now]]
  /\ UNCHANGED <<rows, now, writes, given, last, finished>>

(* Mutant: no index of claimed messages by key. *)
NoIndexHeld(S) == FALSE

(* The index of claimed messages by key refuses a claim of S. *)
KeyHeld(S) ==
  Serialize /\ \E m \in S : \E o \in S \cup InState("claimed") :
                 o # m /\ SameKey(m, o)

(* The update locks the rows it picked that no other statement holds and     *)
(* that still match (SKIP LOCKED), or takes nothing when the index refuses.  *)
ClaimTakes(c) ==
  /\ Step(c, "reading", "idle")
  /\ picked' = [picked EXCEPT ![c] = NoPick]
  /\ \E S \in SUBSET {m \in picked[c].ids : DueAt(m, picked[c].at)} :
       IF KeyHeld(S) THEN UNCHANGED <<rows, given, last>>
                     ELSE TakeRows(S, picked[c].at)
  /\ UNCHANGED <<now, writes, finished>>

(* The connection, or the client, is lost between two statements. *)
GiveUp(c) ==
  /\ pc[c] # "idle"
  /\ pc' = [pc EXCEPT ![c] = "idle"]
  /\ picked' = [picked EXCEPT ![c] = NoPick]
  /\ UNCHANGED <<rows, now, writes, given, last, finished>>

-----------------------------------------------------------------------------
(* What a claim's holder may ask, with its token, however late.  A call      *)
(* whose row the token no longer claims changes nothing (ErrClaimLost).       *)

(* Mutant: a change names the message and not its claim's token. *)
HoldsAny(m, t) == rows[m].state = "claimed"

Holds(m, t) == rows[m].state = "claimed" /\ rows[m].token = t

Change(m, r) ==
  /\ rows' = [rows EXCEPT ![m] = r]
  /\ UNCHANGED <<now, writes, given, pc, picked, last>>

Complete(m, t) ==
  /\ Holds(m, t)
  /\ Change(m, Unclaimed(rows[m], IF KeepDone THEN "done" ELSE "gone"))
  /\ finished' = [finished EXCEPT ![m] = t]

(* Mutant: any other message of the key takes a failed one's place. *)
GivesWayToAnother(m) ==
  Dedupes /\ \E o \in Ids \ InState("absent") : o # m /\ SameKey(m, o)

GivesWay(m) == Dedupes /\ Pending(m)

Fail(m, t) ==
  /\ Holds(m, t)
  /\ Change(m, IF rows[m].attempts > Retries THEN Unclaimed(rows[m], "dead")
               ELSE IF GivesWay(m) THEN Unclaimed(rows[m], "done")
               ELSE [Unclaimed(rows[m], "ready") EXCEPT
                       !.due = now + Wait(rows[m].attempts)])
  /\ UNCHANGED finished

Extend(m, t) ==
  /\ Holds(m, t)
  /\ Change(m, [rows[m] EXCEPT !.expires = now + Lease, !.updated = now])
  /\ UNCHANGED finished

Release(m, t) ==
  /\ Holds(m, t)
  /\ Change(m, [Unclaimed(rows[m], IF GivesWay(m) THEN "done" ELSE "ready")
                 EXCEPT !.attempts = IF @ = 0 THEN 0 ELSE @ - 1])
  /\ UNCHANGED finished

(* A batch of the messages done for the retention, the oldest first. *)
Prunable == {m \in InState("done") : rows[m].updated + Retain <= now}

Prune(S) ==
  /\ S # {} /\ S \subseteq Prunable
  /\ \A m \in S, o \in Prunable \ S : rows[m].updated <= rows[o].updated
  /\ rows' = [m \in Ids |-> IF m \in S THEN [rows[m] EXCEPT !.state = "gone"]
                                        ELSE rows[m]]
  /\ UNCHANGED <<now, writes, given, pc, picked, last, finished>>

-----------------------------------------------------------------------------
(* An operator's retry and drop: every dead message asked for, or none. *)

DiedBefore(o, m) == Before(rows[o].updated, m, rows[m].updated, o)

(* Mutant: a retry asks only that no ready message holds the key. *)
RetryableEach(D) == {m \in D : Dedupes => ~ Pending(m)}

(* On a queue that keeps one ready message per key, of the dead messages D   *)
(* the last of each key to die, where no ready one holds the key.            *)
Retryable(D) ==
  {m \in D : Dedupes => /\ ~ Pending(m)
                        /\ \A o \in D \ {m} : SameKey(m, o) => DiedBefore(o, m)}

MakeReady(S) ==
  rows' = [m \in Ids |->
             IF m \in S THEN [Unclaimed(rows[m], "ready") EXCEPT
                                !.attempts = 0, !.due = now]
                        ELSE rows[m]]

RetryDead(D) ==
  /\ Operated /\ Dialect = "postgres"
  /\ D # {} /\ D \subseteq InState("dead")
  /\ Retryable(D) = D \/ D = InState("dead")
  /\ MakeReady(Retryable(D))
  /\ UNCHANGED <<now, writes, given, pc, picked, last, finished>>

DropDead(D) ==
  /\ Operated /\ Dialect = "postgres"
  /\ D # {} /\ D \subseteq InState("dead")
  /\ rows' = [m \in Ids |-> IF m \in D THEN [rows[m] EXCEPT !.state = "gone"]
                                        ELSE rows[m]]
  /\ UNCHANGED <<now, writes, given, pc, picked, last, finished>>

Tick ==
  /\ now < MaxNow
  /\ now' = now + 1
  /\ UNCHANGED <<rows, writes, given, pc, picked, last, finished>>

-----------------------------------------------------------------------------
Next ==
  \/ Tick
  \/ \E m \in Ids : Enqueue(m) \/ EnqueueReplaces(m)
  \/ \E c \in Clients :
       \/ ReadDue(c) \/ Expire(c) \/ ClaimTakes(c) \/ GiveUp(c)
       \/ \E n \in 1..Batch : ClaimSQLite(c, n) \/ ClaimReads(c, n)
  \/ \E m \in Ids : \E t \in given[m] :
       Complete(m, t) \/ Fail(m, t) \/ Extend(m, t) \/ Release(m, t)
  \/ \E S \in SUBSET Ids : Prune(S) \/ RetryDead(S) \/ DropDead(S)

Spec == Init /\ [][Next]_vars

-----------------------------------------------------------------------------
(* A queue that dedupes keeps at most one ready message per key, whatever    *)
(* enqueues, failures, releases and retries of the key cross.                *)
OneReadyPerKey ==
  Dedupes => \A m, o \in InState("ready") : SameKey(m, o) => m = o

(* A queue that serializes holds each key to one claim, whatever two clients *)
(* that claim at once read.                                                  *)
OneClaimPerKey ==
  Serialize => \A m, o \in InState("claimed") : SameKey(m, o) => m = o

(* Only the last claim of a message ends it by completing it, and then       *)
(* nothing brings it back: a handler that outlived its claim completes        *)
(* nothing.                                                                  *)
FinishedByHolder ==
  \A m \in Ids : finished[m] # NoToken =>
    finished[m] = last[m] /\ rows[m].state \in {"done", "gone"}

(* A message dies only once its retries are spent, releases between its      *)
(* attempts not counted.                                                     *)
DeadSpentItsRetries == \A m \in InState("dead") : rows[m].attempts > Retries

(* On a queue that keeps its lines in order and that no operator changes, a   *)
(* claimed message has no ready message of its key written at an earlier     *)
(* time: a failure's backoff, a release or an expired claim lets no later     *)
(* message of the key past it.                                               *)
InOrderLine ==
  Serialize /\ InOrder /\ ~ Operated =>
    \A m \in InState("claimed"), o \in InState("ready") :
      SameKey(m, o) => rows[m].created <= rows[o].created

(* A claimed message that fails or is released is done unhandled only when a *)
(* message with newer content waits in its place.                            *)
GivesWayToNewer ==
  [][\A m \in Ids :
       rows[m].state = "claimed" /\ rows'[m].state = "done"
         /\ finished'[m] = finished[m]
       => \E o \in InState("ready") : SameKey(m, o) /\ rows[o].body > rows[m].body]_vars

(* What the table promises a worker: the life of a message and its claims.   *)
Phase(m) == CASE rows[m].state = "ready" -> "waiting"
              [] rows[m].state = "claimed" -> "held"
              [] OTHER -> rows[m].state

Contract == INSTANCE QueueContract
              WITH phase <- [m \in Ids |-> Phase(m)],
                   holder <- [m \in Ids |-> rows[m].token]

ImplementsContract == Contract!ContractSpec
=============================================================================
