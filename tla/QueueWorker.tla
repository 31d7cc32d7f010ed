---------------------------- MODULE QueueWorker ----------------------------
(***************************************************************************)
(* The workers of a queue: processes that each run worker.Run, a claim loop  *)
(* and a goroutine per claimed message, over the queue QueueContract states. *)
(* A process stops on SIGTERM, releasing what its grace cuts short, or       *)
(* crashes; and a worker starts anew in its place.                           *)
(*                                                                          *)
(* The loop keeps its running messages in a map by message ID, and a channel *)
(* of as many wake-ups as it has slots.  Time is abstract: a claim's lease   *)
(* ends when no handler extends it, or, as a fault, while one does.          *)
(***************************************************************************)
EXTENDS QueueContract

CONSTANTS Workers,
          NoWorker,     \* of a token no handler ran under
          Concurrency,  \* the slots of each worker
          Retries,
          MaxFaults,    \* bound: stops, crashes, lost calls and cut claims
          MaxCuts       \* bound, of those: leases that end under a handler

ASSUME WorkerAssumption ==
  /\ IsFiniteSet(Ids)
  /\ Concurrency \in Nat \ {0} /\ Retries \in Nat
  /\ MaxFaults \in Nat /\ MaxCuts \in Nat
  /\ NoWorker \notin Workers

VARIABLES lapsed,    \* messages whose claim's lease is over
          tries,     \* per message: its row's attempts
          life,      \* per worker: where its process is
          loop,      \* per worker: where its claim loop is
          free,      \* per worker: how many messages its claim asks for
          done,      \* per worker: the wake-ups in its channel
          running,   \* per worker: its map of running messages
          by,        \* per token: the worker whose handler runs under it
          stage,     \* per token: where that handler's goroutine is
          released,  \* tokens whose message the end of a grace marked released
          toRelease, \* those of them whose release call is to come
          recorded,  \* history: tokens under which an outcome was recorded
          faults, cuts

loopVars == <<loop, free, done>>
workerVars == <<lapsed, tries, life, loop, free, done, running, by, stage,
                released, toRelease, recorded, faults, cuts>>
vars == <<contractVars, workerVars>>

TypeOK ==
  /\ ContractTypeOK
  /\ lapsed \subseteq Ids
  /\ tries \in [Ids -> Nat]
  /\ life \in [Workers -> {"running", "stopping", "releasing", "stopped", "down"}]
  /\ loop \in [Workers -> {"top", "claiming", "full", "idle", "exited"}]
  /\ free \in [Workers -> 0..Concurrency]
  /\ done \in [Workers -> 0..Concurrency]
  /\ running \in [Workers -> [Ids -> Tokens \cup {NoToken}]]
  /\ by \in [Tokens -> Workers \cup {NoWorker}]
  /\ stage \in [Tokens -> {"none", "handling", "ok", "err", "signal", "over"}]
  /\ released \subseteq Tokens /\ toRelease \subseteq released
  /\ recorded \subseteq Tokens
  /\ faults \in 0..MaxFaults /\ cuts \in 0..MaxCuts

NothingRuns == [m \in Ids |-> NoToken]

Init ==
  /\ ContractInit
  /\ lapsed = {}
  /\ tries = [m \in Ids |-> 0]
  /\ life = [w \in Workers |-> "running"]
  /\ loop = [w \in Workers |-> "top"]
  /\ free = [w \in Workers |-> 0]
  /\ done = [w \in Workers |-> 0]
  /\ running = [w \in Workers |-> NothingRuns]
  /\ by = [t \in Tokens |-> NoWorker]
  /\ stage = [t \in Tokens |-> "none"]
  /\ released = {} /\ toRelease = {} /\ recorded = {}
  /\ faults = 0 /\ cuts = 0

Fault == faults < MaxFaults /\ faults' = faults + 1
NoFault == UNCHANGED <<faults, cuts>>

Moves(w, from, to) == loop[w] = from /\ loop' = [loop EXCEPT ![w] = to]
Lives(w, from, to) == life[w] = from /\ life' = [life EXCEPT ![w] = to]

Count(w) == Cardinality({m \in Ids : running[w][m] # NoToken})

(* The goroutines of w that have not returned. *)
Alive(w) ==
  {t \in Tokens : by[t] = w /\ stage[t] \in {"handling", "ok", "err", "signal"}}

-----------------------------------------------------------------------------
(* The claim loop. *)

Full(w) ==
  /\ life[w] = "running"
  /\ Count(w) >= Concurrency
  /\ Moves(w, "top", "full")
  /\ UNCHANGED <<contractVars, lapsed, tries, life, free, done, running, by,
                 stage, released, toRelease, recorded, faults, cuts>>

Wake(w) ==
  /\ done[w] > 0
  /\ Moves(w, "full", "top")
  /\ done' = [done EXCEPT ![w] = @ - 1]
  /\ UNCHANGED <<contractVars, lapsed, tries, life, free, running, by, stage,
                 released, toRelease, recorded, faults, cuts>>

(* Mutant: a claim asks for every slot, free or not. *)
EverySlot(w) == Concurrency

Slots(w) == Concurrency - Count(w)

(* The loop counts its free slots and claims that many: the queue's expire,  *)
(* which the claim begins with, is here, and what the claim takes in Claim.  *)
AskClaim(w) ==
  /\ life[w] = "running"
  /\ Slots(w) > 0
  /\ Moves(w, "top", "claiming")
  /\ free' = [free EXCEPT ![w] = Slots(w)]
  /\ LET spent == {m \in lapsed : tries[m] > Retries} IN
       Lapse(spent) /\ lapsed' = lapsed \ spent
  /\ UNCHANGED <<tries, life, done, running, by, stage, released, toRelease,
                 recorded, faults, cuts>>

(* What a claim of w may take. *)
Claims(w, S) ==
  /\ Cardinality(S) <= free[w]
  /\ S \subseteq {m \in Ids : phase[m] = "waiting"} \cup lapsed
  /\ Take(S)
  /\ lapsed' = lapsed \ S
  /\ tries' = [m \in Ids |-> IF m \in S THEN tries[m] + 1 ELSE tries[m]]

(* The claim returns the messages of S, and each one's handler starts.  A    *)
(* claim that filled every slot is followed by another at once.              *)
Claim(w, S) ==
  /\ Claims(w, S)
  /\ Moves(w, "claiming", IF Cardinality(S) < free[w] THEN "idle" ELSE "top")
  /\ running' = [running EXCEPT
       ![w] = [m \in Ids |-> IF m \in S THEN holder'[m] ELSE @[m]]]
  /\ by' = [t \in Tokens |-> IF \E m \in S : holder'[m] = t THEN w ELSE by[t]]
  /\ stage' = [t \in Tokens |-> IF \E m \in S : holder'[m] = t
                                THEN "handling" ELSE stage[t]]
  /\ NoFault
  /\ UNCHANGED <<life, free, done, released, toRelease, recorded>>

(* The claim fails, or its answer is lost after the queue made it: a loop    *)
(* whose context ended returns, and another waits.                           *)
ClaimFails(w, S) ==
  /\ Claims(w, S)
  /\ \/ life[w] = "running" /\ Moves(w, "claiming", "idle") /\ Fault
     \/ life[w] = "stopping" /\ Moves(w, "claiming", "exited") /\ UNCHANGED faults
  /\ UNCHANGED <<life, free, done, running, by, stage, released, toRelease,
                 recorded, cuts>>

IdleEnds(w) ==
  /\ Moves(w, "idle", "top")
  /\ UNCHANGED <<contractVars, lapsed, tries, life, free, done, running, by,
                 stage, released, toRelease, recorded, faults, cuts>>

(* The worker's other loop prunes the messages done for the retention.       *)
Prune(w, S) ==
  /\ life[w] = "running"
  /\ S # {} /\ \A m \in S : phase[m] = "done"
  /\ Discard(S)
  /\ UNCHANGED workerVars

-----------------------------------------------------------------------------
(* A handler's goroutine, of the message m under the token t. *)

Extend(m, t) ==
  /\ stage[t] = "handling"
  /\ Held(m, t) /\ m \in lapsed
  /\ lapsed' = lapsed \ {m}
  /\ UNCHANGED <<contractVars, tries, life, loopVars, running, by, stage,
                 released, toRelease, recorded, faults, cuts>>

(* Mutant: finish does not look whether the message was released. *)
HandlerReturnsBlind(m, t) ==
  /\ stage[t] = "handling"
  /\ running' = [running EXCEPT ![by[t]][m] = NoToken]
  /\ \E s \in {"ok", "err"} : stage' = [stage EXCEPT ![t] = s]
  /\ UNCHANGED <<contractVars, lapsed, tries, life, loopVars, by, released,
                 toRelease, recorded, faults, cuts>>

(* The handler returns, or panics: finish deletes the message from the map,  *)
(* and reads whether a stopping worker released it, under one lock.          *)
HandlerReturns(m, t) ==
  /\ stage[t] = "handling"
  /\ running' = [running EXCEPT ![by[t]][m] = NoToken]
  /\ \E s \in IF t \in released THEN {"signal"} ELSE {"ok", "err"} :
       stage' = [stage EXCEPT ![t] = s]
  /\ UNCHANGED <<contractVars, lapsed, tries, life, loopVars, by, released,
                 toRelease, recorded, faults, cuts>>

(* The queue's answer to a handler's outcome: what a claim still held makes  *)
(* of it, and nothing once another claim, or none, holds the message.        *)
Outcome(m, t) ==
  IF ~ Held(m, t) THEN UNCHANGED <<contractVars, lapsed>>
  ELSE /\ lapsed' = lapsed \ {m}
       /\ IF stage[t] = "ok" THEN Finish(m, t)
          ELSE IF tries[m] > Retries THEN Settle({m}, "dead")
          ELSE \E p \in {"waiting", "done"} : Settle({m}, p)

Record(m, t) ==
  /\ stage[t] \in {"ok", "err"}
  /\ Outcome(m, t)
  /\ stage' = [stage EXCEPT ![t] = "signal"]
  /\ recorded' = recorded \cup {t}
  /\ UNCHANGED <<tries, life, loopVars, running, by, released, toRelease,
                 faults, cuts>>

(* Mutant: finish returns early, with no wake-up, when its call fails. *)
RecordFailsSilently(t) ==
  /\ stage[t] \in {"ok", "err"}
  /\ stage' = [stage EXCEPT ![t] = "over"]
  /\ recorded' = recorded \cup {t}
  /\ Fault
  /\ UNCHANGED <<contractVars, lapsed, tries, life, loopVars, running, by,
                 released, toRelease, cuts>>

(* A call that fails is logged, and not made again. *)
RecordFails(t) ==
  /\ stage[t] \in {"ok", "err"}
  /\ stage' = [stage EXCEPT ![t] = "signal"]
  /\ recorded' = recorded \cup {t}
  /\ Fault
  /\ UNCHANGED <<contractVars, lapsed, tries, life, loopVars, running, by,
                 released, toRelease, cuts>>

(* Mutant: the channel has room for every wake-up. *)
SignalAlways(t) ==
  /\ stage[t] = "signal"
  /\ stage' = [stage EXCEPT ![t] = "over"]
  /\ done' = [done EXCEPT ![by[t]] = @ + 1]
  /\ UNCHANGED <<contractVars, lapsed, tries, life, loop, free, running, by,
                 released, toRelease, recorded, faults, cuts>>

(* The goroutine's last act: a wake-up, unless the channel is full of them.  *)
Signal(t) ==
  /\ stage[t] = "signal"
  /\ stage' = [stage EXCEPT ![t] = "over"]
  /\ done' = [done EXCEPT ![by[t]] = IF @ < Concurrency THEN @ + 1 ELSE @]
  /\ UNCHANGED <<contractVars, lapsed, tries, life, loop, free, running, by,
                 released, toRelease, recorded, faults, cuts>>

-----------------------------------------------------------------------------
(* Leases.  A handler extends its claim; an outage, or a pause of its        *)
(* process, past the lease cuts it all the same.                             *)

(* Mutant: a handler's claim is not extended while it runs. *)
NeverHandled(m) == FALSE

Handled(m) == holder[m] # NoToken /\ stage[holder[m]] \in {"handling", "ok", "err"}

LeaseEnds(m) ==
  /\ phase[m] = "held" /\ m \notin lapsed
  /\ ~ Handled(m)
  /\ lapsed' = lapsed \cup {m}
  /\ NoFault
  /\ UNCHANGED <<contractVars, tries, life, loopVars, running, by, stage,
                 released, toRelease, recorded>>

LeaseCut(m) ==
  /\ phase[m] = "held" /\ m \notin lapsed
  /\ Handled(m)
  /\ lapsed' = lapsed \cup {m}
  /\ Fault
  /\ cuts < MaxCuts /\ cuts' = cuts + 1
  /\ UNCHANGED <<contractVars, tries, life, loopVars, running, by, stage,
                 released, toRelease, recorded>>

-----------------------------------------------------------------------------
(* SIGTERM, the grace and the process's end. *)

Stop(w) ==
  /\ Lives(w, "running", "stopping")
  /\ Fault
  /\ UNCHANGED <<contractVars, lapsed, tries, loopVars, running, by, stage,
                 released, toRelease, recorded, cuts>>

LoopExits(w) ==
  /\ life[w] = "stopping"
  /\ loop[w] \in {"top", "full", "idle"}
  /\ loop' = [loop EXCEPT ![w] = "exited"]
  /\ UNCHANGED <<contractVars, lapsed, tries, life, free, done, running, by,
                 stage, released, toRelease, recorded, faults, cuts>>

AllFinish(w) ==
  /\ loop[w] = "exited"
  /\ Alive(w) = {}
  /\ Lives(w, "stopping", "stopped")
  /\ UNCHANGED <<contractVars, lapsed, tries, loopVars, running, by, stage,
                 released, toRelease, recorded, faults, cuts>>

(* Mutant: a stopping worker cancels its handlers and releases nothing. *)
GraceEndsCancels(w) ==
  /\ loop[w] = "exited"
  /\ Alive(w) # {}
  /\ Lives(w, "stopping", "stopped")
  /\ UNCHANGED <<contractVars, lapsed, tries, loopVars, running, by, stage,
                 released, toRelease, recorded, faults, cuts>>

(* The grace is over: what the map still holds is to be released. *)
GraceEnds(w) ==
  /\ loop[w] = "exited"
  /\ Alive(w) # {}
  /\ Lives(w, "stopping", "releasing")
  /\ LET unfinished == {running[w][m] : m \in Ids} \ {NoToken} IN
       /\ released' = released \cup unfinished
       /\ toRelease' = toRelease \cup unfinished
  /\ UNCHANGED <<contractVars, lapsed, tries, loopVars, running, by, stage,
                 recorded, faults, cuts>>

Release(m, t) ==
  /\ t \in toRelease
  /\ toRelease' = toRelease \ {t}
  /\ IF Held(m, t)
     THEN /\ \E p \in {"waiting", "done"} : Settle({m}, p)
          /\ lapsed' = lapsed \ {m}
          /\ tries' = [tries EXCEPT ![m] = IF @ = 0 THEN 0 ELSE @ - 1]
     ELSE UNCHANGED <<contractVars, lapsed, tries>>
  /\ UNCHANGED <<life, loopVars, running, by, stage, released, recorded,
                 faults, cuts>>

ReleaseFails(t) ==
  /\ t \in toRelease
  /\ toRelease' = toRelease \ {t}
  /\ Fault
  /\ UNCHANGED <<contractVars, lapsed, tries, life, loopVars, running, by,
                 stage, released, recorded, cuts>>

AllReleased(w) ==
  /\ \A t \in toRelease : by[t] # w
  /\ Lives(w, "releasing", "stopped")
  /\ UNCHANGED <<contractVars, lapsed, tries, loopVars, running, by, stage,
                 released, toRelease, recorded, faults, cuts>>

(* The process ends, and its goroutines with it. *)
Ends(w) ==
  /\ life' = [life EXCEPT ![w] = "down"]
  /\ stage' = [t \in Tokens |-> IF t \in Alive(w) THEN "over" ELSE stage[t]]
  /\ toRelease' = {t \in toRelease : by[t] # w}
  /\ running' = [running EXCEPT ![w] = NothingRuns]
  /\ loop' = [loop EXCEPT ![w] = "exited"]
  /\ done' = [done EXCEPT ![w] = 0]
  /\ UNCHANGED <<contractVars, lapsed, tries, free, by, released, recorded, cuts>>

ProcessExits(w) == life[w] = "stopped" /\ Ends(w) /\ UNCHANGED faults
Crash(w) == life[w] \notin {"stopped", "down"} /\ Ends(w) /\ Fault

Start(w) ==
  /\ Lives(w, "down", "running")
  /\ loop' = [loop EXCEPT ![w] = "top"]
  /\ UNCHANGED <<contractVars, lapsed, tries, free, done, running, by, stage,
                 released, toRelease, recorded, faults, cuts>>

Enqueue(m) == Write(m) /\ UNCHANGED workerVars

-----------------------------------------------------------------------------
LoopStep(w) ==
  \/ Full(w) \/ Wake(w) \/ AskClaim(w) \/ IdleEnds(w) \/ LoopExits(w)
  \/ \E S \in SUBSET Ids : Claim(w, S) \/ ClaimFails(w, S) \/ Prune(w, S)

StopStep(w) ==
  \/ Stop(w) \/ AllFinish(w) \/ GraceEnds(w) \/ AllReleased(w)
  \/ ProcessExits(w) \/ Crash(w) \/ Start(w)

HandlerStep(m, t) ==
  \/ Extend(m, t) \/ HandlerReturns(m, t) \/ Record(m, t) \/ RecordFails(t)
  \/ Signal(t) \/ Release(m, t) \/ ReleaseFails(t)

Next ==
  \/ \E m \in Ids : Enqueue(m) \/ LeaseEnds(m) \/ LeaseCut(m)
  \/ \E w \in Workers : LoopStep(w) \/ StopStep(w)
  \/ \E m \in Ids : \E t \in given[m] : HandlerStep(m, t)

Spec == Init /\ [][Next]_vars

(* A live process runs; a handler returns, as a handler that minds its       *)
(* context does; a lease nobody extends ends; a process is started again;    *)
(* and a message that is due is claimed, since a claim takes the first due.  *)
Fairness ==
  /\ \A w \in Workers :
       /\ WF_vars(Full(w) \/ Wake(w) \/ AskClaim(w) \/ IdleEnds(w) \/ LoopExits(w))
       /\ WF_vars(\E S \in SUBSET Ids : Claim(w, S) \/ ClaimFails(w, S))
       /\ WF_vars(AllFinish(w) \/ GraceEnds(w) \/ AllReleased(w))
       /\ WF_vars(ProcessExits(w) \/ Start(w))
  /\ \A t \in Tokens :
       /\ WF_vars(\E m \in Ids : t \in given[m] /\ HandlerReturns(m, t))
       /\ WF_vars(\E m \in Ids : t \in given[m] /\ Record(m, t))
       /\ WF_vars(\E m \in Ids : t \in given[m] /\ Release(m, t))
       /\ WF_vars(Signal(t))
  /\ \A m \in Ids :
       /\ WF_vars(LeaseEnds(m))
       /\ SF_vars(\E w \in Workers, S \in SUBSET Ids : m \in S /\ Claim(w, S))

FairSpec == Spec /\ Fairness

-----------------------------------------------------------------------------
(* A worker runs at most its concurrency of messages at a time: what         *)
(* claimLoop counts before a claim still bounds what the claim starts.        *)
ConcurrencyKept ==
  \A w \in Workers :
    Cardinality({m \in Ids : \E t \in given[m] :
                   by[t] = w /\ stage[t] = "handling"}) <= Concurrency

(* A claim loop that waits for a slot is woken: a wake-up is in its channel, *)
(* or a goroutine that will send one is still to return.                     *)
NoLostWakeup ==
  \A w \in Workers : loop[w] = "full" => done[w] > 0 \/ Alive(w) # {}

(* A claim's message is released or has its outcome recorded, never both,    *)
(* though the handler may return as the grace ends.                          *)
ReleasedOrRecorded == released \cap recorded = {}

(* While a lease holds, one goroutine at a time handles a message: another   *)
(* starts only after the first is released, which lets a handler that         *)
(* ignores its context run on.                                               *)
OneHandler ==
  cuts = 0 => \A m \in Ids : \A t, u \in given[m] \ released :
                stage[t] = "handling" /\ stage[u] = "handling" => t = u

(* A stopped worker has released the message of every claim it still holds   *)
(* whose handler did not return, but for the calls that failed.              *)
ReleasesTheUnfinished ==
  \A w \in Workers : life[w] = "stopped" =>
    \A m \in Ids : \A t \in given[m] :
      Held(m, t) /\ by[t] = w /\ stage[t] = "handling" => t \in released

(* A written message is done, dead or pruned in the end, whatever workers    *)
(* stop, crash or lose on the way.                                           *)
EveryMessageSettles ==
  \A m \in Ids : phase[m] # "absent" ~> phase[m] \in {"done", "dead", "gone"}
=============================================================================
