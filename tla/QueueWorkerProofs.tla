------------------------- MODULE QueueWorkerProofs -------------------------
(* The safety properties of QueueWorker, for any messages, tokens, workers    *)
(* and concurrency: three of them whatever leases are cut, two for runs in    *)
(* which none is cut under its handler.                                      *)
EXTENDS QueueWorker, FiniteSetTheorems, TLAPS

(* A token is given once, for one message, and a goroutine runs under a      *)
(* given one.                                                                *)
Given ==
  /\ \A m, n \in Ids : \A t \in given[m] : t \in given[n] => m = n
  /\ \A t \in Tokens : stage[t] # "none" =>
       by[t] \in Workers /\ \E m \in Ids : t \in given[m]

(* What a map holds is a handler of its worker that runs. *)
Mapped ==
  \A w \in Workers, m \in Ids : running[w][m] # NoToken =>
    /\ running[w][m] \in given[m]
    /\ by[running[w][m]] = w /\ stage[running[w][m]] = "handling"

(* How far a goroutine got whose message was released, or its outcome        *)
(* recorded: never the same one.                                             *)
Staged ==
  \A t \in Tokens :
    /\ t \in released => stage[t] \in {"handling", "signal", "over"}
    /\ t \in recorded => stage[t] \in {"signal", "over"}
    /\ t \notin released \cap recorded

(* A worker past its grace claims nothing, one that is down runs nothing, and *)
(* only one past its grace runs what was released.                           *)
Stops ==
  \A w \in Workers :
    /\ life[w] \in {"releasing", "stopped", "down"} => loop[w] = "exited"
    /\ life[w] = "down" => Alive(w) = {}
    /\ life[w] \in {"running", "stopping"} => Alive(w) \cap released = {}

(* The map and the claim asked for fit the slots. *)
Fits ==
  \A w \in Workers :
    /\ Count(w) <= Concurrency
    /\ loop[w] = "claiming" => Count(w) + free[w] <= Concurrency

(* Unless a lease was cut under a handler, a handler whose message was not   *)
(* released holds it, its worker's map has it, and a worker past its grace    *)
(* has none.                                                                 *)
Uncut ==
  cuts = 0 =>
    \A m \in Ids : \A t \in given[m] : stage[t] = "handling" =>
      /\ t \notin released => Held(m, t) /\ m \notin lapsed
      /\ running[by[t]][m] = t
      /\ life[by[t]] \in {"releasing", "stopped"} => t \in released

WorkerInv ==
  TypeOK /\ Given /\ Mapped /\ Staged /\ Stops /\ Fits /\ Uncut /\ NoLostWakeup

-----------------------------------------------------------------------------
(* The queue's steps. *)

(* A claim gives each message it takes a token of its own, new to the queue.  *)
LEMMA TakeGives ==
  ASSUME ContractTypeOK, NEW S \in SUBSET Ids, Take(S)
  PROVE  /\ ContractTypeOK'
         /\ \A m \in S : /\ holder'[m] \in Tokens /\ holder'[m] \notin Issued
                         /\ given'[m] = given[m] \cup {holder'[m]}
                         /\ phase'[m] = "held"
         /\ \A m \in Ids \ S : /\ holder'[m] = holder[m] /\ phase'[m] = phase[m]
                               /\ given'[m] = given[m]
         /\ \A m, n \in S : holder'[m] = holder'[n] => m = n
<1>1. PICK f \in [S -> Tokens \ Issued] :
        /\ \A a, b \in S : f[a] = f[b] => a = b
        /\ phase' = [m \in Ids |-> IF m \in S THEN "held" ELSE phase[m]]
        /\ holder' = [m \in Ids |-> IF m \in S THEN f[m] ELSE holder[m]]
        /\ given' = [m \in Ids |-> IF m \in S THEN given[m] \cup {f[m]} ELSE given[m]]
  BY DEF Take
<1>2. \A m \in S : f[m] \in Tokens /\ f[m] \notin Issued
  OBVIOUS
<1>3. ContractTypeOK'
  BY <1>1, <1>2 DEF ContractTypeOK, Phases
<1> QED
  BY <1>1, <1>2, <1>3

(* What a queue's other steps leave alone. *)
LEMMA SettleKeeps ==
  ASSUME ContractTypeOK, NEW S \in SUBSET Ids, NEW p \in Phases, Settle(S, p)
  PROVE  /\ ContractTypeOK' /\ given' = given
         /\ \A m \in Ids \ S : holder'[m] = holder[m] /\ phase'[m] = phase[m]
BY DEF Settle, ContractTypeOK

(* An outcome or a release changes the message of the claim that still holds  *)
(* it, and no other.                                                          *)
LEMMA AnswerKeeps ==
  ASSUME TypeOK, NEW m \in Ids, NEW t \in given[m], Outcome(m, t) \/ Release(m, t)
  PROVE  /\ ContractTypeOK' /\ given' = given /\ lapsed' \subseteq lapsed
         /\ \A n \in Ids : \A u \in given[n] :
              u # t /\ Held(n, u) => Held(n, u)' /\ (n \notin lapsed => n \notin lapsed')
<1>1. ContractTypeOK
  BY DEF TypeOK
<1>2. CASE UNCHANGED <<contractVars, lapsed>>
  BY <1>1, <1>2 DEF contractVars, ContractTypeOK, Held
<1>3. CASE /\ Held(m, t) /\ lapsed' = lapsed \ {m}
           /\ \E p \in Phases : Settle({m}, p)
  <2>1. PICK p \in Phases : Settle({m}, p)
    BY <1>3
  <2>2. /\ ContractTypeOK' /\ given' = given
        /\ \A n \in Ids \ {m} : holder'[n] = holder[n] /\ phase'[n] = phase[n]
    BY <1>1, <2>1, SettleKeeps
  <2> QED
    BY <1>3, <2>2 DEF Held
<1>4. CASE Outcome(m, t)
  BY <1>2, <1>3, <1>4 DEF Outcome, Finish, Phases
<1>5. CASE Release(m, t)
  BY <1>2, <1>3, <1>5 DEF Release, Phases
<1> QED
  BY <1>4, <1>5

(* A worker's map is as large as the messages it may hold. *)
LEMMA Counted ==
  ASSUME TypeOK, NEW w \in Workers
  PROVE  /\ IsFiniteSet({m \in Ids : running[w][m] # NoToken})
         /\ Count(w) \in Nat
<1>1. IsFiniteSet({m \in Ids : running[w][m] # NoToken})
  BY WorkerAssumption, FS_Subset
<1> QED
  BY <1>1, FS_CardinalityType DEF Count

LEMMA InvInit == Init => WorkerInv
<1> SUFFICES ASSUME Init PROVE WorkerInv
  OBVIOUS
<1>1. TypeOK
  BY WorkerAssumption DEF Init, TypeOK, ContractInit, ContractTypeOK, Phases, NothingRuns
<1>2. Given /\ Mapped /\ Staged /\ Stops /\ Uncut /\ NoLostWakeup
  BY DEF Init, ContractInit, NothingRuns, Given, Mapped, Staged, Stops, Alive, Uncut,
         NoLostWakeup
<1>3. ASSUME NEW w \in Workers PROVE Count(w) = 0
  <2>1. {m \in Ids : running[w][m] # NoToken} = {}
    BY DEF Init, NothingRuns
  <2> QED
    BY <2>1, FS_EmptySet DEF Count
<1>4. Fits
  BY <1>3, WorkerAssumption DEF Fits, Init
<1> QED
  BY <1>1, <1>2, <1>4 DEF WorkerInv

(* What the goroutines and the maps are made of. *)
tied == <<given, running, by, stage, released, recorded>>

LEMMA Tied ==
  ASSUME WorkerInv, UNCHANGED tied
  PROVE  /\ Given' /\ Mapped' /\ Staged'
         /\ \A w \in Workers : Alive(w)' = Alive(w) /\ Count(w)' = Count(w)
BY DEF WorkerInv, tied, Given, Mapped, Staged, Alive, Count

(* The steps of the loop and of the process that start and end no handler.    *)
LEMMA InvLoop ==
  ASSUME WorkerInv, NEW w \in Workers,
         \/ Full(w) \/ Wake(w) \/ IdleEnds(w) \/ LoopExits(w)
         \/ Stop(w) \/ AllFinish(w) \/ AllReleased(w) \/ Start(w)
  PROVE  WorkerInv'
<1> USE DEF WorkerInv
<1>1. UNCHANGED tied /\ UNCHANGED <<phase, holder, lapsed, tries, free, toRelease, cuts>>
  BY DEF Full, Wake, IdleEnds, LoopExits, Stop, AllFinish, AllReleased, Start, tied,
         contractVars, loopVars
<1>2. Given' /\ Mapped' /\ Staged'
      /\ \A v \in Workers : Alive(v)' = Alive(v) /\ Count(v)' = Count(v)
  BY <1>1, Tied
<1>3. TypeOK'
  <2>1. /\ life' \in [Workers -> {"running", "stopping", "releasing", "stopped", "down"}]
        /\ loop' \in [Workers -> {"top", "claiming", "full", "idle", "exited"}]
    BY DEF TypeOK, Full, Wake, IdleEnds, LoopExits, Stop, AllFinish, AllReleased, Start,
           Moves, Lives, loopVars
  <2>2. done' \in [Workers -> 0..Concurrency]
    <3>1. CASE Wake(w)
      <4>1. done[w] - 1 \in 0..Concurrency
        BY <3>1, WorkerAssumption DEF Wake, TypeOK
      <4> QED
        BY <3>1, <4>1 DEF Wake, TypeOK
    <3>2. CASE ~ Wake(w)
      BY <3>2 DEF TypeOK, Full, IdleEnds, LoopExits, Stop, AllFinish, AllReleased, Start,
             loopVars
    <3> QED
      BY <3>1, <3>2
  <2>3. faults' \in 0..MaxFaults
    BY WorkerAssumption
       DEF TypeOK, Full, Wake, IdleEnds, LoopExits, Stop, AllFinish, AllReleased, Start,
           Fault
  <2> QED
    BY <1>1, <2>1, <2>2, <2>3 DEF TypeOK, ContractTypeOK, tied
<1>4. Stops'
  <2>1. \A v \in Workers :
          /\ life'[v] = life[v] \/ <<life[v], life'[v]>> \in
               {<<"running", "stopping">>, <<"stopping", "stopped">>,
                <<"releasing", "stopped">>, <<"down", "running">>}
          /\ life'[v] \in {"releasing", "stopped", "down"} => loop'[v] = "exited"
    BY DEF Stops, TypeOK, Full, Wake, IdleEnds, LoopExits, Stop, AllFinish, AllReleased,
           Start, Moves, Lives, loopVars
  <2> QED
    BY <1>1, <1>2, <2>1 DEF Stops, tied
<1>5. Fits'
  <2>1. \A v \in Workers : loop'[v] = "claiming" => loop[v] = "claiming"
    BY DEF TypeOK, Full, Wake, IdleEnds, LoopExits, Stop, AllFinish, AllReleased, Start,
           Moves, Lives, loopVars
  <2> QED
    BY <1>1, <1>2, <2>1 DEF Fits
<1>6. Uncut'
  <2>1. ASSUME NEW v \in Workers, life'[v] \in {"releasing", "stopped"},
               life[v] \notin {"releasing", "stopped"}
        PROVE  Alive(v) = {}
    BY <2>1 DEF TypeOK, Full, Wake, IdleEnds, LoopExits, Stop, AllFinish, AllReleased,
           Start, Lives, loopVars
  <2>2. \A m \in Ids : \A t \in given[m] : stage[t] = "handling" =>
          by[t] \in Workers /\ t \in Alive(by[t])
    BY DEF Given, Alive, TypeOK, ContractTypeOK
  <2> QED
    BY <1>1, <2>1, <2>2 DEF Uncut, Held, tied
<1>7. NoLostWakeup'
  <2>1. ASSUME NEW v \in Workers, loop'[v] = "full", done'[v] <= 0
        PROVE  Alive(v) # {}
    <3>1. CASE loop[v] = "full" /\ done[v] = done'[v]
      BY <2>1, <3>1 DEF NoLostWakeup, TypeOK
    <3>2. CASE Full(v)
      <4>1. {m \in Ids : running[v][m] # NoToken} # {}
        BY <3>2, FS_EmptySet, WorkerAssumption DEF Full, Count
      <4> QED
        BY <4>1 DEF Mapped, Alive, TypeOK, ContractTypeOK
    <3>3. (loop[v] = "full" /\ done[v] = done'[v]) \/ Full(v)
      BY <2>1 DEF TypeOK, Full, Wake, IdleEnds, LoopExits, Stop, AllFinish, AllReleased,
             Start, Moves, Lives, loopVars
    <3> QED
      BY <3>1, <3>2, <3>3
  <2>2. \A v \in Workers : done'[v] \in 0..Concurrency
    BY <1>3 DEF TypeOK
  <2> QED
    BY <1>2, <2>1, <2>2, WorkerAssumption DEF NoLostWakeup
<1> QED
  BY <1>2, <1>3, <1>4, <1>5, <1>6, <1>7

(* The steps of the queue and its leases, under no goroutine's eyes.          *)
LEMMA InvQueue ==
  ASSUME WorkerInv, NEW m, NEW t, NEW w, NEW S,
         \/ m \in Ids /\ (Enqueue(m) \/ LeaseEnds(m) \/ LeaseCut(m))
         \/ S \in SUBSET Ids /\ Prune(w, S)
         \/ m \in Ids /\ t \in given[m]
              /\ (Extend(m, t) \/ Release(m, t) \/ ReleaseFails(t))
  PROVE  WorkerInv'
<1> USE DEF WorkerInv
<1>1. UNCHANGED tied /\ UNCHANGED <<life, loopVars>>
  BY SettleKeeps, AnswerKeeps
     DEF Enqueue, LeaseEnds, LeaseCut, Prune, Extend, Release, ReleaseFails, tied, TypeOK,
         Write, Discard, Settle, workerVars, loopVars, contractVars
<1>2. /\ Given' /\ Mapped' /\ Staged'
      /\ \A v \in Workers : Alive(v)' = Alive(v) /\ Count(v)' = Count(v)
  BY <1>1, Tied
<1>3. Stops' /\ Fits' /\ NoLostWakeup'
  BY <1>1, <1>2 DEF Stops, Fits, NoLostWakeup, loopVars, tied
<1>4. ContractTypeOK'
  <2>1. ContractTypeOK
    BY DEF TypeOK
  <2>2. CASE m \in Ids /\ Enqueue(m)
    BY <2>1, <2>2, SettleKeeps DEF Enqueue, Write, Phases
  <2>3. CASE S \in SUBSET Ids /\ Prune(w, S)
    BY <2>1, <2>3, SettleKeeps DEF Prune, Discard, Phases
  <2>4. CASE m \in Ids /\ t \in given[m] /\ Release(m, t)
    BY <2>4, AnswerKeeps
  <2>5. CASE LeaseEnds(m) \/ LeaseCut(m) \/ Extend(m, t) \/ ReleaseFails(t)
    BY <2>1, <2>5
       DEF LeaseEnds, LeaseCut, Extend, ReleaseFails, contractVars, ContractTypeOK
  <2> QED
    BY <2>2, <2>3, <2>4, <2>5
<1>5. TypeOK'
  <2>1. lapsed' \subseteq Ids /\ toRelease' \subseteq released
    BY DEF TypeOK, Enqueue, LeaseEnds, LeaseCut, Prune, Extend, Release, ReleaseFails,
           workerVars
  <2>3. tries' \in [Ids -> Nat]
    <3>1. tries' = tries \/ (m \in Ids /\ tries' =
            [tries EXCEPT ![m] = IF tries[m] = 0 THEN 0 ELSE tries[m] - 1])
      BY DEF Enqueue, LeaseEnds, LeaseCut, Prune, Extend, Release, ReleaseFails,
             workerVars
    <3>2. m \in Ids => (IF tries[m] = 0 THEN 0 ELSE tries[m] - 1) \in Nat
      BY DEF TypeOK
    <3> QED
      BY <3>1, <3>2 DEF TypeOK
  <2>2. faults' \in 0..MaxFaults /\ cuts' \in 0..MaxCuts
    BY WorkerAssumption
       DEF TypeOK, Enqueue, LeaseEnds, LeaseCut, Prune, Extend, Release, ReleaseFails,
           workerVars, Fault, NoFault
  <2> QED
    BY <1>1, <1>4, <2>1, <2>2, <2>3 DEF TypeOK, tied, loopVars
<1>6. Uncut'
  <2>1. ASSUME cuts' = 0, NEW n \in Ids, NEW u \in given[n], stage[u] = "handling",
               u \notin released
        PROVE  Held(n, u)' /\ n \notin lapsed'
    <3>1. cuts = 0
      BY <2>1, WorkerAssumption
         DEF TypeOK, Enqueue, LeaseEnds, LeaseCut, Prune, Extend, Release, ReleaseFails,
             workerVars, NoFault
    <3>2. Held(n, u) /\ n \notin lapsed /\ u \in Tokens /\ u # NoToken
      BY <2>1, <3>1, NoTokenIsNoToken DEF Uncut, TypeOK, ContractTypeOK
    <3>3. CASE m \in Ids /\ Enqueue(m)
      BY <3>2, <3>3 DEF Enqueue, Write, Settle, Held, workerVars
    <3>4. CASE S \in SUBSET Ids /\ Prune(w, S)
      BY <3>2, <3>4 DEF Prune, Discard, Settle, Held, workerVars
    <3>5. CASE m \in Ids /\ t \in given[m] /\ Release(m, t)
      <4>1. t \in released
        BY <3>5 DEF Release, TypeOK
      <4> QED
        BY <2>1, <3>2, <3>5, <4>1, AnswerKeeps
    <3>6. CASE LeaseEnds(m)
      BY <2>1, <3>2, <3>6 DEF LeaseEnds, Handled, Held, contractVars
    <3>7. CASE LeaseCut(m)
      BY <2>1, <3>1, <3>7 DEF LeaseCut
    <3>8. CASE Extend(m, t) \/ ReleaseFails(t)
      BY <3>2, <3>8 DEF Extend, ReleaseFails, Held, contractVars
    <3> QED
      BY <3>3, <3>4, <3>5, <3>6, <3>7, <3>8
  <2>2. cuts' = 0 => cuts = 0
    BY WorkerAssumption
       DEF TypeOK, Enqueue, LeaseEnds, LeaseCut, Prune, Extend, Release, ReleaseFails,
           workerVars, NoFault
  <2> QED
    BY <1>1, <2>1, <2>2 DEF Uncut, tied
<1> QED
  BY <1>2, <1>3, <1>5, <1>6

(* A claim asks for the free slots, and lets messages whose tries are spent    *)
(* expire, which no handler runs for.                                         *)
LEMMA InvAsk ==
  ASSUME WorkerInv, NEW w \in Workers, AskClaim(w)
  PROVE  WorkerInv'
<1> USE DEF WorkerInv
<1>1. PICK spent \in SUBSET lapsed : Lapse(spent) /\ lapsed' = lapsed \ spent
  BY DEF AskClaim
<1>2. /\ ContractTypeOK' /\ given' = given
      /\ \A m \in Ids \ spent : holder'[m] = holder[m] /\ phase'[m] = phase[m]
  BY <1>1, SettleKeeps DEF Lapse, TypeOK, Phases
<1>3. UNCHANGED tied /\ UNCHANGED <<life, done, tries, toRelease, faults, cuts>>
  BY <1>2 DEF AskClaim, tied
<1>4. /\ Given' /\ Mapped' /\ Staged'
      /\ \A v \in Workers : Alive(v)' = Alive(v) /\ Count(v)' = Count(v)
  BY <1>3, Tied
<1>5. /\ Slots(w) \in 0..Concurrency /\ Count(w) + Slots(w) = Concurrency
      /\ loop[w] = "top"
  <2>1. Count(w) \in Nat /\ Slots(w) = Concurrency - Count(w) /\ Slots(w) > 0
    BY Counted DEF AskClaim, Slots
  <2> QED
    BY <2>1, WorkerAssumption DEF AskClaim, Moves
<1>6. /\ free' = [free EXCEPT ![w] = Slots(w)]
      /\ loop' = [loop EXCEPT ![w] = "claiming"]
      /\ life[w] = "running" /\ lapsed' \subseteq Ids
  BY <1>1 DEF AskClaim, Moves, TypeOK
<1>7. TypeOK'
  BY <1>2, <1>3, <1>5, <1>6 DEF TypeOK, tied
<1>8. Stops' /\ NoLostWakeup'
  BY <1>3, <1>4, <1>6 DEF Stops, NoLostWakeup, TypeOK, tied
<1>9. Fits'
  <2>1. free'[w] = Slots(w) /\ \A v \in Workers \ {w} :
          free'[v] = free[v] /\ loop'[v] = loop[v]
    BY <1>6 DEF TypeOK
  <2>2. ASSUME NEW v \in Workers
        PROVE  Count(v) <= Concurrency
               /\ (loop'[v] = "claiming" => Count(v) + free'[v] <= Concurrency)
    BY <1>5, <2>1, WorkerAssumption DEF Fits
  <2> QED
    BY <1>4, <2>2 DEF Fits
<1>10. Uncut'
  BY <1>1, <1>2, <1>3 DEF Uncut, Held, tied
<1> QED
  BY <1>4, <1>7, <1>8, <1>9, <1>10

(* What a claim takes, whether or not its answer arrives: no handler held it.  *)
LEMMA ClaimsKeep ==
  ASSUME WorkerInv, NEW w \in Workers, NEW S \in SUBSET Ids, Claims(w, S)
  PROVE  /\ ContractTypeOK' /\ lapsed' \subseteq Ids /\ tries' \in [Ids -> Nat]
         /\ \A m \in S : holder'[m] \in Tokens \ Issued
                       /\ given'[m] = given[m] \cup {holder'[m]}
                       /\ phase'[m] = "held" /\ m \notin lapsed'
         /\ \A m, n \in S : holder'[m] = holder'[n] => m = n
         /\ \A m \in Ids \ S : given'[m] = given[m]
         /\ \A m \in Ids : \A t \in given[m] :
              /\ t \in Tokens
              /\ Held(m, t) /\ m \notin lapsed =>
                   m \notin S /\ Held(m, t)' /\ m \notin lapsed'
<1> USE DEF WorkerInv
<1>1. /\ S \subseteq {m \in Ids : phase[m] = "waiting"} \cup lapsed /\ Take(S)
      /\ lapsed' = lapsed \ S
      /\ tries' = [m \in Ids |-> IF m \in S THEN tries[m] + 1 ELSE tries[m]]
  BY DEF Claims
<1>2. ContractTypeOK
  BY DEF TypeOK
<1>3. /\ ContractTypeOK'
      /\ \A m \in S : /\ holder'[m] \in Tokens /\ holder'[m] \notin Issued
                      /\ given'[m] = given[m] \cup {holder'[m]}
                      /\ phase'[m] = "held"
      /\ \A m \in Ids \ S : /\ holder'[m] = holder[m] /\ phase'[m] = phase[m]
                            /\ given'[m] = given[m]
      /\ \A m, n \in S : holder'[m] = holder'[n] => m = n
  BY <1>1, <1>2, TakeGives
<1>4. lapsed' \subseteq Ids /\ tries' \in [Ids -> Nat]
  BY <1>1 DEF TypeOK
<1>5. \A m \in Ids : \A t \in given[m] :
        /\ t \in Tokens
        /\ Held(m, t) /\ m \notin lapsed => m \notin S /\ Held(m, t)' /\ m \notin lapsed'
  BY <1>1, <1>2, <1>3 DEF Held, ContractTypeOK
<1> QED
  BY <1>1, <1>3, <1>4, <1>5

LEMMA InvClaimFails ==
  ASSUME WorkerInv, NEW w \in Workers, NEW S \in SUBSET Ids, ClaimFails(w, S)
  PROVE  WorkerInv'
<1> USE DEF WorkerInv
<1>1. /\ ContractTypeOK' /\ lapsed' \subseteq Ids /\ tries' \in [Ids -> Nat]
      /\ \A m \in S : /\ holder'[m] \in Tokens \ Issued
                      /\ given'[m] = given[m] \cup {holder'[m]}
      /\ \A m, n \in S : holder'[m] = holder'[n] => m = n
      /\ \A m \in Ids \ S : given'[m] = given[m]
      /\ \A m \in Ids : \A t \in given[m] :
           /\ t \in Tokens
           /\ Held(m, t) /\ m \notin lapsed => Held(m, t)' /\ m \notin lapsed'
  BY ClaimsKeep DEF ClaimFails
<1>2. UNCHANGED <<life, free, done, running, by, stage, released, toRelease, recorded, cuts>>
  BY DEF ClaimFails
<1>3. /\ loop[w] = "claiming" /\ life[w] \in {"running", "stopping"}
      /\ \E to \in {"idle", "exited"} : loop' = [loop EXCEPT ![w] = to]
      /\ faults' \in 0..MaxFaults
  BY WorkerAssumption DEF ClaimFails, Moves, Fault, TypeOK
<1>4. TypeOK'
  BY <1>1, <1>2, <1>3 DEF TypeOK
<1>5. \A v \in Workers : Alive(v)' = Alive(v) /\ Count(v)' = Count(v)
  BY <1>2 DEF Alive, Count
<1>6. \A m \in Ids : \A t \in given'[m] :
        t \in given[m] \/ (m \in S /\ t = holder'[m] /\ t \in Tokens \ Issued)
  BY <1>1
<1>7. Given'
  <2>1. \A m \in Ids : given[m] \subseteq given'[m] /\ given[m] \subseteq Issued
    BY <1>1 DEF Issued
  <2> QED
    BY <1>1, <1>2, <1>6, <2>1 DEF Given
<1>8. Mapped' /\ Staged' /\ Stops' /\ Fits' /\ NoLostWakeup'
  BY <1>1, <1>2, <1>3, <1>5 DEF Mapped, Staged, Stops, Fits, NoLostWakeup, TypeOK
<1>9. Uncut'
  <2>1. \A t \in Tokens \ Issued : stage[t] = "none"
    BY DEF Given, Issued, TypeOK
  <2> QED
    BY <1>1, <1>2, <1>6, <2>1 DEF Uncut
<1> QED
  BY <1>4, <1>7, <1>8, <1>9

(* The handlers of a claim start: their tokens are new, so no goroutine ran    *)
(* under them, and no map, release or record has them.                        *)
LEMMA InvClaim ==
  ASSUME WorkerInv, NEW w \in Workers, NEW S \in SUBSET Ids, Claim(w, S)
  PROVE  WorkerInv'
<1> DEFINE new == {holder'[m] : m \in S}
<1> USE DEF WorkerInv
<1>1. /\ ContractTypeOK' /\ lapsed' \subseteq Ids /\ tries' \in [Ids -> Nat]
      /\ \A m \in S : /\ holder'[m] \in Tokens \ Issued
                      /\ given'[m] = given[m] \cup {holder'[m]}
                      /\ phase'[m] = "held" /\ m \notin lapsed'
      /\ \A m, n \in S : holder'[m] = holder'[n] => m = n
      /\ \A m \in Ids \ S : given'[m] = given[m]
      /\ \A m \in Ids : \A t \in given[m] :
           /\ t \in Tokens
           /\ Held(m, t) /\ m \notin lapsed =>
                m \notin S /\ Held(m, t)' /\ m \notin lapsed'
  BY ClaimsKeep DEF Claim
<1>2. /\ loop[w] = "claiming" /\ \E to \in {"idle", "top"} : loop' = [loop EXCEPT ![w] = to]
      /\ UNCHANGED <<life, free, done, released, toRelease, recorded, faults, cuts>>
      /\ Cardinality(S) <= free[w]
  BY DEF Claim, Claims, Moves, NoFault
<1>3. /\ by' = [t \in Tokens |-> IF t \in new THEN w ELSE by[t]]
      /\ stage' = [t \in Tokens |-> IF t \in new THEN "handling" ELSE stage[t]]
      /\ running' = [running EXCEPT
           ![w] = [m \in Ids |-> IF m \in S THEN holder'[m] ELSE running[w][m]]]
  BY DEF Claim
<1>4. /\ new \subseteq Tokens \ Issued
      /\ \A t \in Tokens \ Issued : stage[t] = "none" /\ t \notin released \cup recorded
  BY <1>1 DEF Given, Staged, Issued, TypeOK
<1>5. /\ \A m \in Ids : given[m] \subseteq Issued /\ given[m] \subseteq given'[m]
      /\ \A m \in Ids : \A t \in given'[m] :
           t \in given[m] \/ (m \in S /\ t = holder'[m] /\ t \in new)
  BY <1>1 DEF Issued
<1> HIDE DEF new
<1>6. \A t \in Tokens : /\ t \in new => by'[t] = w /\ stage'[t] = "handling"
                        /\ t \notin new => by'[t] = by[t] /\ stage'[t] = stage[t]
  BY <1>3
<1>7. \A v \in Workers, m \in Ids :
        IF v = w /\ m \in S THEN running'[v][m] = holder'[m] /\ holder'[m] \in new
                           ELSE running'[v][m] = running[v][m]
  BY <1>3 DEF TypeOK, new
<1>8. TypeOK'
  <2>1. running' \in [Workers -> [Ids -> Tokens \cup {NoToken}]]
    BY <1>1, <1>3 DEF TypeOK
  <2> QED
    BY <1>1, <1>2, <1>3, <2>1 DEF TypeOK
<1>9. Given'
  <2>1. \A m \in S : holder'[m] \in given'[m] /\ holder'[m] \in new
    BY <1>1 DEF new
  <2>2. \A t \in new : \E m \in S : t = holder'[m]
    BY DEF new
  <2>3. \A m, n \in Ids : \A t \in given'[m] : t \in given'[n] => m = n
    BY <1>1, <1>4, <1>5 DEF Given
  <2>4. \A t \in Tokens : stage'[t] # "none" =>
          by'[t] \in Workers /\ \E m \in Ids : t \in given'[m]
    <3> SUFFICES ASSUME NEW t \in Tokens, stage'[t] # "none"
                 PROVE  by'[t] \in Workers /\ \E m \in Ids : t \in given'[m]
      OBVIOUS
    <3>1. CASE t \in new
      BY <1>6, <2>1, <2>2, <3>1
    <3>2. CASE t \notin new
      BY <1>5, <1>6, <3>2 DEF Given
    <3> QED
      BY <3>1, <3>2
  <2> QED
    BY <2>3, <2>4 DEF Given
<1>10. Mapped'
  <2> SUFFICES ASSUME NEW v \in Workers, NEW m \in Ids, running'[v][m] # NoToken
               PROVE  /\ running'[v][m] \in given'[m]
                      /\ by'[running'[v][m]] = v /\ stage'[running'[v][m]] = "handling"
    BY DEF Mapped
  <2>1. CASE v = w /\ m \in S
    <3>1. running'[v][m] = holder'[m] /\ holder'[m] \in new
      BY <1>7, <2>1
    <3>2. holder'[m] \in given'[m] /\ holder'[m] \in Tokens
      BY <1>1, <2>1
    <3> QED
      BY <1>6, <2>1, <3>1, <3>2
  <2>2. CASE ~ (v = w /\ m \in S)
    <3>1. running[v][m] \in given[m] /\ running[v][m] \in Tokens
          /\ by[running[v][m]] = v /\ stage[running[v][m]] = "handling"
      BY <1>1, <1>7, <2>2 DEF Mapped
    <3> QED
      BY <1>4, <1>5, <1>6, <1>7, <2>2, <3>1
  <2> QED
    BY <2>1, <2>2
<1>11. Staged'
  BY <1>2, <1>4, <1>6 DEF Staged
<1>12. \A v \in Workers : Alive(v)' = IF v = w THEN Alive(v) \cup new ELSE Alive(v)
  <2> SUFFICES ASSUME NEW v \in Workers, NEW t \in Tokens
               PROVE  t \in Alive(v)' <=> (t \in Alive(v) \/ (v = w /\ t \in new))
    BY <1>4 DEF Alive
  <2>1. CASE t \in new
    BY <1>4, <1>6, <2>1 DEF Alive
  <2>2. CASE t \notin new
    BY <1>6, <2>2 DEF Alive
  <2> QED
    BY <2>1, <2>2
<1>13. Stops'
  BY <1>2, <1>4, <1>12 DEF Stops, TypeOK
<1>14. Fits'
  <2> DEFINE kept(v) == {m \in Ids : running[v][m] # NoToken}
             now(v) == {m \in Ids : running'[v][m] # NoToken}
  <2>1. IsFiniteSet(S) /\ Cardinality(S) \in Nat /\ Count(w) \in Nat
        /\ IsFiniteSet(kept(w))
    BY Counted, WorkerAssumption, FS_Subset, FS_CardinalityType
  <2>2. now(w) \in SUBSET (kept(w) \cup S)
    BY <1>7
  <2>3. /\ Cardinality(now(w)) \in Nat
        /\ Cardinality(now(w)) <= Count(w) + Cardinality(S)
    <3>1. /\ IsFiniteSet(kept(w) \cup S) /\ Cardinality(kept(w) \cap S) \in Nat
          /\ Cardinality(kept(w) \cup S) =
               Cardinality(kept(w)) + Cardinality(S) - Cardinality(kept(w) \cap S)
      <4>1. IsFiniteSet(kept(w) \cap S)
        BY <2>1, FS_Subset
      <4> QED
        BY <2>1, <4>1, FS_Union, FS_CardinalityType
    <3>2. /\ Cardinality(now(w)) <= Cardinality(kept(w) \cup S)
          /\ Cardinality(now(w)) \in Nat
      BY <2>2, <3>1, FS_Subset, FS_CardinalityType
    <3>3. Count(w) = Cardinality(kept(w))
      BY DEF Count
    <3> HIDE DEF kept, now
    <3> QED
      BY <2>1, <3>1, <3>2, <3>3
  <2>4. Count(w)' = Cardinality(now(w))
    BY DEF Count
  <2>5. Count(w) + free[w] <= Concurrency /\ free[w] \in Nat
    BY <1>2, WorkerAssumption DEF Fits, TypeOK
  <2>6. \A v \in Workers \ {w} : Count(v)' = Count(v) /\ loop'[v] = loop[v]
    <3>1. \A v \in Workers \ {w} : now(v) = kept(v)
      BY <1>7
    <3> QED
      BY <1>2, <3>1 DEF Count, TypeOK
  <2>7. loop'[w] # "claiming" /\ Count(w)' <= Concurrency
    <3>1. Count(w)' <= Concurrency
      BY <1>2, <2>1, <2>3, <2>4, <2>5, WorkerAssumption
    <3> QED
      BY <1>2, <3>1 DEF TypeOK
  <2> QED
    BY <1>2, <2>6, <2>7 DEF Fits
<1>15. Uncut'
  <2> SUFFICES ASSUME cuts = 0, NEW m \in Ids, NEW t \in given'[m], stage'[t] = "handling"
               PROVE  /\ t \notin released => Held(m, t)' /\ m \notin lapsed'
                      /\ running'[by'[t]][m] = t
                      /\ life[by'[t]] \in {"releasing", "stopped"} => t \in released
    BY <1>2 DEF Uncut
  <2>1. CASE t \in given[m]
    <3>1. t \in Tokens /\ t \notin new /\ by[t] \in Workers
          /\ by'[t] = by[t] /\ stage[t] = "handling"
      BY <1>1, <1>4, <1>5, <1>6, <2>1 DEF Given
    <3>2. /\ t \notin released => Held(m, t) /\ m \notin lapsed
          /\ running[by[t]][m] = t
          /\ life[by[t]] \in {"releasing", "stopped"} => t \in released
      BY <2>1, <3>1 DEF Uncut
    <3>3. t \in released => by[t] # w
      BY <1>2, <3>1 DEF Stops, Alive, TypeOK
    <3>4. t \notin released => m \notin S /\ Held(m, t)' /\ m \notin lapsed'
      BY <1>1, <2>1, <3>2
    <3>5. running'[by[t]][m] = t
      BY <1>7, <3>1, <3>2, <3>3, <3>4
    <3> QED
      BY <3>1, <3>2, <3>4, <3>5
  <2>2. CASE t \notin given[m]
    <3>1. m \in S /\ t = holder'[m] /\ by'[t] = w /\ life[w] \notin {"releasing", "stopped"}
      BY <1>2, <1>4, <1>5, <1>6, <2>2 DEF Stops, TypeOK
    <3> QED
      BY <1>1, <1>7, <3>1 DEF Held
  <2> QED
    BY <2>1, <2>2
<1>16. NoLostWakeup'
  BY <1>2, <1>12 DEF NoLostWakeup, TypeOK
<1> QED
  BY <1>8, <1>9, <1>10, <1>11, <1>13, <1>14, <1>15, <1>16

-----------------------------------------------------------------------------
(* The goroutines' steps, and the end of a grace and of a process. *)

(* A handler returns, and its map forgets the message it ran.                 *)
LEMMA InvReturns ==
  ASSUME WorkerInv, NEW m \in Ids, NEW t \in given[m], HandlerReturns(m, t)
  PROVE  WorkerInv'
<1> USE DEF WorkerInv
<1>1. t \in Tokens /\ stage[t] = "handling" /\ by[t] \in Workers
  BY DEF HandlerReturns, Given, TypeOK, ContractTypeOK
<1>2. /\ running' = [running EXCEPT ![by[t]][m] = NoToken]
      /\ \E s \in {"ok", "err", "signal"} :
           stage' = [stage EXCEPT ![t] = s] /\ (t \in released => s = "signal")
      /\ UNCHANGED <<phase, holder, given, lapsed, tries, life, loop, free, done, by,
                     released, toRelease, recorded, faults, cuts>>
  BY DEF HandlerReturns, contractVars, loopVars
<1>3. /\ stage'[t] \in {"ok", "err", "signal"} /\ (t \in released => stage'[t] = "signal")
      /\ \A u \in Tokens \ {t} : stage'[u] = stage[u]
  BY <1>1, <1>2 DEF TypeOK
<1>4. \A v \in Workers, n \in Ids :
        running'[v][n] = IF v = by[t] /\ n = m THEN NoToken ELSE running[v][n]
  BY <1>1, <1>2 DEF TypeOK
<1>5. TypeOK'
  BY <1>1, <1>2 DEF TypeOK, ContractTypeOK
<1>6. Given' /\ Staged'
  BY <1>1, <1>2, <1>3 DEF Given, Staged
<1>7. Mapped'
  <2> SUFFICES ASSUME NEW v \in Workers, NEW n \in Ids, running'[v][n] # NoToken
               PROVE  /\ running[v][n] \in given[n] /\ running'[v][n] = running[v][n]
                      /\ by[running[v][n]] = v /\ stage'[running[v][n]] = "handling"
    BY <1>2 DEF Mapped
  <2>1. /\ running'[v][n] = running[v][n] /\ ~ (v = by[t] /\ n = m)
        /\ running[v][n] \in given[n] /\ running[v][n] \in Tokens
        /\ by[running[v][n]] = v /\ stage[running[v][n]] = "handling"
    BY <1>4 DEF Mapped, TypeOK, ContractTypeOK
  <2>2. running[v][n] # t
    BY <2>1 DEF Given
  <2> QED
    BY <1>3, <2>1, <2>2
<1>8. \A v \in Workers : Alive(v)' = Alive(v)
  BY <1>1, <1>2, <1>3 DEF Alive
<1>9. Stops' /\ NoLostWakeup'
  BY <1>2, <1>8 DEF Stops, NoLostWakeup
<1>10. Fits'
  <2>1. ASSUME NEW v \in Workers PROVE Count(v)' \in Nat /\ Count(v)' <= Count(v)
    <3>1. {n \in Ids : running'[v][n] # NoToken} \in SUBSET
            {n \in Ids : running[v][n] # NoToken}
      BY <1>4
    <3> QED
      BY <3>1, Counted, FS_Subset, FS_CardinalityType DEF Count
  <2>2. \A v \in Workers : Count(v) \in Nat
    BY Counted
  <2>3. \A v \in Workers : free[v] \in Nat
    BY WorkerAssumption DEF TypeOK
  <2> QED
    BY <1>2, <2>1, <2>2, <2>3, WorkerAssumption DEF Fits
<1>11. Uncut'
  <2> SUFFICES ASSUME cuts = 0, NEW n \in Ids, NEW u \in given[n], stage'[u] = "handling"
               PROVE  /\ u \notin released => Held(n, u) /\ n \notin lapsed
                      /\ running'[by[u]][n] = u
                      /\ life[by[u]] \in {"releasing", "stopped"} => u \in released
    BY <1>2 DEF Uncut, Held
  <2>1. u \in Tokens /\ u # t /\ stage[u] = "handling" /\ by[u] \in Workers
    BY <1>3 DEF TypeOK, ContractTypeOK, Given
  <2>2. ~ (by[u] = by[t] /\ n = m)
    BY <1>1, <2>1 DEF Uncut
  <2> QED
    BY <1>4, <2>1, <2>2 DEF Uncut
<1> QED
  BY <1>5, <1>6, <1>7, <1>9, <1>10, <1>11

(* An outcome is recorded, or its call fails: the goroutine is still to send   *)
(* its wake-up.                                                               *)
LEMMA InvRecords ==
  ASSUME WorkerInv, NEW m \in Ids, NEW t \in given[m], Record(m, t) \/ RecordFails(t)
  PROVE  WorkerInv'
<1> USE DEF WorkerInv
<1>1. t \in Tokens /\ stage[t] \in {"ok", "err"}
  BY DEF Record, RecordFails, TypeOK, ContractTypeOK
<1>2. /\ stage' = [stage EXCEPT ![t] = "signal"] /\ recorded' = recorded \cup {t}
      /\ UNCHANGED <<tries, life, loop, free, done, running, by, released, toRelease, cuts>>
      /\ faults' \in 0..MaxFaults
  BY WorkerAssumption DEF Record, RecordFails, loopVars, Fault, TypeOK
<1>3. /\ ContractTypeOK' /\ given' = given /\ lapsed' \subseteq lapsed
      /\ \A n \in Ids : \A u \in given[n] :
           u # t /\ Held(n, u) => Held(n, u)' /\ (n \notin lapsed => n \notin lapsed')
  <2>1. CASE Record(m, t)
    BY <2>1, AnswerKeeps DEF Record
  <2>2. CASE RecordFails(t)
    BY <2>2 DEF RecordFails, contractVars, Held, TypeOK, ContractTypeOK
  <2> QED
    BY <2>1, <2>2
<1>4. stage'[t] = "signal" /\ \A u \in Tokens \ {t} : stage'[u] = stage[u]
  BY <1>1, <1>2 DEF TypeOK
<1>5. TypeOK'
  BY <1>1, <1>2, <1>3 DEF TypeOK
<1>6. Given' /\ Staged'
  BY <1>1, <1>2, <1>3, <1>4 DEF Given, Staged
<1>7. Mapped'
  BY <1>1, <1>2, <1>3, <1>4 DEF Mapped, TypeOK
<1>8. \A v \in Workers : Alive(v)' = Alive(v) /\ Count(v)' = Count(v)
  BY <1>1, <1>2, <1>4 DEF Alive, Count
<1>9. Stops' /\ Fits' /\ NoLostWakeup'
  BY <1>2, <1>8 DEF Stops, Fits, NoLostWakeup
<1>10. Uncut'
  <2> SUFFICES ASSUME cuts = 0, NEW n \in Ids, NEW u \in given[n], stage'[u] = "handling"
               PROVE  /\ u \notin released => Held(n, u)' /\ n \notin lapsed'
                      /\ running[by[u]][n] = u
                      /\ life[by[u]] \in {"releasing", "stopped"} => u \in released
    BY <1>2, <1>3 DEF Uncut
  <2>1. u # t /\ stage[u] = "handling"
    BY <1>4 DEF TypeOK, ContractTypeOK
  <2> QED
    BY <1>3, <2>1 DEF Uncut
<1> QED
  BY <1>5, <1>6, <1>7, <1>9, <1>10

(* A goroutine ends, and a wake-up is in its worker's channel.                *)
LEMMA InvSignal ==
  ASSUME WorkerInv, NEW m \in Ids, NEW t \in given[m], Signal(t)
  PROVE  WorkerInv'
<1> USE DEF WorkerInv
<1>1. t \in Tokens /\ stage[t] = "signal" /\ by[t] \in Workers
  BY DEF Signal, TypeOK, ContractTypeOK, Given
<1>2. /\ stage' = [stage EXCEPT ![t] = "over"]
      /\ UNCHANGED <<phase, holder, given, lapsed, tries, life, loop, free, running, by,
                     released, toRelease, recorded, faults, cuts>>
  BY DEF Signal, contractVars
<1>3. PICK d \in 1..Concurrency : done' = [done EXCEPT ![by[t]] = d]
  <2>1. (IF done[by[t]] < Concurrency THEN done[by[t]] + 1 ELSE done[by[t]])
          \in 1..Concurrency
    BY <1>1, WorkerAssumption DEF TypeOK
  <2> QED
    BY <2>1 DEF Signal
<1>4. stage'[t] = "over" /\ \A u \in Tokens \ {t} : stage'[u] = stage[u]
  BY <1>1, <1>2 DEF TypeOK
<1>5. d \in 0..Concurrency /\ done'[by[t]] = d /\ d > 0
      /\ \A v \in Workers \ {by[t]} : done'[v] = done[v]
  BY <1>1, <1>3, WorkerAssumption DEF TypeOK
<1>6. TypeOK'
  BY <1>1, <1>2, <1>3, <1>5 DEF TypeOK, ContractTypeOK
<1>7. Given' /\ Staged'
  BY <1>1, <1>2, <1>4 DEF Given, Staged
<1>8. Mapped'
  BY <1>1, <1>2, <1>4 DEF Mapped, TypeOK
<1>9. \A v \in Workers : Alive(v)' = Alive(v) \ {t} /\ Count(v)' = Count(v)
  BY <1>1, <1>2, <1>4 DEF Alive, Count
<1>10. \A v \in Workers \ {by[t]} : t \notin Alive(v)
  BY DEF Alive
<1>11. Stops' /\ Fits'
  BY <1>2, <1>9 DEF Stops, Fits
<1>12. NoLostWakeup'
  BY <1>1, <1>2, <1>5, <1>9, <1>10 DEF NoLostWakeup
<1>13. Uncut'
  BY <1>1, <1>2, <1>4 DEF Uncut, Held, TypeOK, ContractTypeOK
<1> QED
  BY <1>6, <1>7, <1>8, <1>11, <1>12, <1>13

(* A grace ends, and every handler in the worker's map is released.           *)
LEMMA InvGrace ==
  ASSUME WorkerInv, NEW w \in Workers, GraceEnds(w)
  PROVE  WorkerInv'
<1> DEFINE unfinished == {running[w][m] : m \in Ids} \ {NoToken}
<1> USE DEF WorkerInv
<1>1. /\ loop[w] = "exited" /\ life[w] = "stopping"
      /\ life' = [life EXCEPT ![w] = "releasing"]
      /\ released' = released \cup unfinished
      /\ toRelease' = toRelease \cup unfinished
      /\ UNCHANGED <<phase, holder, given, lapsed, tries, loop, free, done, running, by,
                     stage, recorded, faults, cuts>>
  BY DEF GraceEnds, Lives, contractVars, loopVars
<1>2. \A t \in unfinished : t \in Tokens /\ by[t] = w /\ stage[t] = "handling"
  BY DEF Mapped, TypeOK
<1>3. \A m \in Ids : running[w][m] # NoToken => running[w][m] \in unfinished
  OBVIOUS
<1> HIDE DEF unfinished
<1>4. TypeOK'
  BY <1>1, <1>2 DEF TypeOK, ContractTypeOK
<1>5. Given' /\ Mapped' /\ Staged'
  BY <1>1, <1>2 DEF Given, Mapped, Staged
<1>6. \A v \in Workers : Alive(v)' = Alive(v) /\ Count(v)' = Count(v)
  BY <1>1 DEF Alive, Count
<1>7. Fits' /\ NoLostWakeup'
  BY <1>1, <1>6 DEF Fits, NoLostWakeup
<1>8. life'[w] = "releasing" /\ \A v \in Workers \ {w} : life'[v] = life[v]
  BY <1>1 DEF TypeOK
<1>9. Stops'
  <2>1. \A v \in Workers \ {w} : Alive(v) \cap unfinished = {}
    BY <1>2 DEF Alive
  <2> QED
    BY <1>1, <1>6, <1>8, <2>1 DEF Stops
<1>10. Uncut'
  <2> SUFFICES ASSUME cuts = 0, NEW m \in Ids, NEW t \in given[m], stage[t] = "handling"
               PROVE  /\ t \notin released' => Held(m, t) /\ m \notin lapsed
                      /\ running[by[t]][m] = t
                      /\ life'[by[t]] \in {"releasing", "stopped"} => t \in released'
    BY <1>1 DEF Uncut, Held
  <2>1. /\ t \notin released => Held(m, t) /\ m \notin lapsed
        /\ running[by[t]][m] = t /\ t # NoToken /\ by[t] \in Workers
        /\ life[by[t]] \in {"releasing", "stopped"} => t \in released
    BY NoTokenIsNoToken DEF Uncut, Given, TypeOK, ContractTypeOK
  <2>2. by[t] = w => t \in released'
    BY <1>1, <1>3, <2>1
  <2> QED
    BY <1>1, <1>8, <2>1, <2>2
<1> QED
  BY <1>4, <1>5, <1>7, <1>9, <1>10

(* A process ends, and its handlers with it.                                  *)
LEMMA InvEnds ==
  ASSUME WorkerInv, NEW w \in Workers, ProcessExits(w) \/ Crash(w)
  PROVE  WorkerInv'
<1> USE DEF WorkerInv
<1>1. /\ life' = [life EXCEPT ![w] = "down"] /\ loop' = [loop EXCEPT ![w] = "exited"]
      /\ stage' = [t \in Tokens |-> IF t \in Alive(w) THEN "over" ELSE stage[t]]
      /\ toRelease' = {t \in toRelease : by[t] # w}
      /\ running' = [running EXCEPT ![w] = NothingRuns]
      /\ done' = [done EXCEPT ![w] = 0]
      /\ UNCHANGED <<phase, holder, given, lapsed, tries, free, by, released, recorded, cuts>>
      /\ faults' \in 0..MaxFaults
  BY WorkerAssumption DEF ProcessExits, Crash, Ends, contractVars, Fault, TypeOK
<1>2. /\ \A v \in Workers \ {w} : /\ life'[v] = life[v] /\ loop'[v] = loop[v]
                                /\ running'[v] = running[v] /\ done'[v] = done[v]
      /\ life'[w] = "down" /\ loop'[w] = "exited"
      /\ \A m \in Ids : running'[w][m] = NoToken
  BY <1>1 DEF TypeOK, NothingRuns
<1>3. \A t \in Tokens : stage'[t] = IF t \in Alive(w) THEN "over" ELSE stage[t]
  BY <1>1
<1>4. TypeOK'
  <2>1. /\ running' \in [Workers -> [Ids -> Tokens \cup {NoToken}]]
        /\ stage' \in [Tokens -> {"none", "handling", "ok", "err", "signal", "over"}]
        /\ life' \in [Workers -> {"running", "stopping", "releasing", "stopped", "down"}]
        /\ loop' \in [Workers -> {"top", "claiming", "full", "idle", "exited"}]
    BY <1>1 DEF TypeOK, NothingRuns
  <2>2. done' \in [Workers -> 0..Concurrency]
    BY <1>1, WorkerAssumption DEF TypeOK
  <2> QED
    BY <1>1, <2>1, <2>2 DEF TypeOK, ContractTypeOK
<1>5. Given' /\ Staged'
  BY <1>1, <1>3 DEF Given, Staged, Alive
<1>6. Mapped'
  BY <1>1, <1>2, <1>3 DEF Mapped, Alive, TypeOK
<1>7. \A v \in Workers : Alive(v)' = IF v = w THEN {} ELSE Alive(v)
  BY <1>1, <1>3 DEF Alive
<1>8. Stops' /\ NoLostWakeup'
  BY <1>1, <1>2, <1>7 DEF Stops, NoLostWakeup
<1>9. Fits'
  <2>1. \A v \in Workers \ {w} : Count(v)' = Count(v)
    BY <1>2 DEF Count
  <2>2. Count(w)' = 0
    <3>1. {m \in Ids : running'[w][m] # NoToken} = {}
      BY <1>2
    <3> QED
      BY <3>1, FS_EmptySet DEF Count
  <2> QED
    BY <1>1, <1>2, <2>1, <2>2, WorkerAssumption DEF Fits
<1>10. Uncut'
  <2> SUFFICES ASSUME cuts = 0, NEW m \in Ids, NEW t \in given[m], stage'[t] = "handling"
               PROVE  /\ t \notin released => Held(m, t) /\ m \notin lapsed
                      /\ running'[by[t]][m] = t
                      /\ life'[by[t]] \in {"releasing", "stopped"} => t \in released
    BY <1>1 DEF Uncut, Held
  <2>1. t \in Tokens /\ stage[t] = "handling" /\ by[t] \in Workers \ {w}
    BY <1>3 DEF Alive, Given, TypeOK, ContractTypeOK
  <2> QED
    BY <1>2, <2>1 DEF Uncut
<1> QED
  BY <1>4, <1>5, <1>6, <1>8, <1>9, <1>10

-----------------------------------------------------------------------------
LEMMA InvNext == WorkerInv /\ [Next]_vars => WorkerInv'
<1> SUFFICES ASSUME WorkerInv, [Next]_vars PROVE WorkerInv'
  OBVIOUS
<1>1. CASE UNCHANGED vars
  BY <1>1 DEF vars, contractVars, workerVars, WorkerInv, TypeOK, ContractTypeOK, Given,
              Mapped, Staged, Stops, Fits, Uncut, NoLostWakeup, Alive, Count, Held
<1>2. ASSUME NEW m \in Ids, Enqueue(m) \/ LeaseEnds(m) \/ LeaseCut(m) PROVE WorkerInv'
  BY <1>2, InvQueue
<1>3. ASSUME NEW w \in Workers, LoopStep(w) PROVE WorkerInv'
  <2>1. CASE Full(w) \/ Wake(w) \/ IdleEnds(w) \/ LoopExits(w)
    BY <2>1, InvLoop
  <2>2. CASE AskClaim(w)
    BY <2>2, InvAsk
  <2>3. ASSUME NEW S \in SUBSET Ids, Claim(w, S) PROVE WorkerInv'
    BY <2>3, InvClaim
  <2>4. ASSUME NEW S \in SUBSET Ids, ClaimFails(w, S) PROVE WorkerInv'
    BY <2>4, InvClaimFails
  <2>5. ASSUME NEW S \in SUBSET Ids, Prune(w, S) PROVE WorkerInv'
    BY <2>5, InvQueue
  <2> QED
    BY <1>3, <2>1, <2>2, <2>3, <2>4, <2>5 DEF LoopStep
<1>4. ASSUME NEW w \in Workers, StopStep(w) PROVE WorkerInv'
  <2>1. CASE Stop(w) \/ AllFinish(w) \/ AllReleased(w) \/ Start(w)
    BY <2>1, InvLoop
  <2>2. CASE GraceEnds(w)
    BY <2>2, InvGrace
  <2>3. CASE ProcessExits(w) \/ Crash(w)
    BY <2>3, InvEnds
  <2> QED
    BY <1>4, <2>1, <2>2, <2>3 DEF StopStep
<1>5. ASSUME NEW m \in Ids, NEW t \in given[m], HandlerStep(m, t) PROVE WorkerInv'
  <2>1. CASE Extend(m, t) \/ Release(m, t) \/ ReleaseFails(t)
    BY <2>1, InvQueue
  <2>2. CASE HandlerReturns(m, t)
    BY <2>2, InvReturns
  <2>3. CASE Record(m, t) \/ RecordFails(t)
    BY <2>3, InvRecords
  <2>4. CASE Signal(t)
    BY <2>4, InvSignal
  <2> QED
    BY <1>5, <2>1, <2>2, <2>3, <2>4 DEF HandlerStep
<1> QED
  BY <1>1, <1>2, <1>3, <1>4, <1>5 DEF Next

LEMMA InvHolds == Spec => []WorkerInv
BY InvInit, InvNext, PTL DEF Spec

(* Every variable of the workers keeps its type, the counts that bound the     *)
(* claims and the wake-ups among them.                                        *)
THEOREM WorkerTypeCorrect == Spec => []TypeOK
<1>1. WorkerInv => TypeOK
  BY DEF WorkerInv
<1> QED
  BY <1>1, InvHolds, PTL

(* A loop that waits for a slot is woken: claimLoop never sleeps on a channel  *)
(* into which no goroutine is left to send.                                   *)
THEOREM WaitersAreWoken == Spec => []NoLostWakeup
<1>1. WorkerInv => NoLostWakeup
  BY DEF WorkerInv
<1> QED
  BY <1>1, InvHolds, PTL

(* No claim is both released by stop and given an outcome by finish, however   *)
(* the handler's return and the end of the grace race.                        *)
THEOREM NeverBoth == Spec => []ReleasedOrRecorded
<1>1. WorkerInv => ReleasedOrRecorded
  BY DEF WorkerInv, TypeOK, Staged, ReleasedOrRecorded
<1> QED
  BY <1>1, InvHolds, PTL

(* Two goroutines handle one message only if a lease was cut under the first,  *)
(* or its message was released under it.                                      *)
THEOREM HandledByOne == Spec => []OneHandler
<1>1. WorkerInv => OneHandler
  BY DEF WorkerInv, Uncut, OneHandler, Held
<1> QED
  BY <1>1, InvHolds, PTL

(* When no lease is cut under a handler, the map by message ID has every       *)
(* running handler: what claimLoop counts bounds what the worker runs.         *)
THEOREM UncutRunsFit ==
  ASSUME MaxCuts = 0
  PROVE  Spec => []ConcurrencyKept
<1>1. WorkerInv => ConcurrencyKept
  <2> SUFFICES ASSUME WorkerInv, NEW w \in Workers
               PROVE  Cardinality({m \in Ids : \E t \in given[m] :
                        by[t] = w /\ stage[t] = "handling"}) <= Concurrency
    BY DEF ConcurrencyKept
  <2> DEFINE mapped == {m \in Ids : running[w][m] # NoToken}
             handled == {m \in Ids : \E t \in given[m] :
                           by[t] = w /\ stage[t] = "handling"}
  <2>1. cuts = 0
    BY DEF WorkerInv, TypeOK
  <2>2. handled \in SUBSET mapped
    BY <2>1, NoTokenIsNoToken DEF WorkerInv, Uncut, TypeOK, ContractTypeOK
  <2>3. IsFiniteSet(mapped) /\ Cardinality(mapped) \in Nat
        /\ Cardinality(mapped) <= Concurrency
    BY Counted DEF WorkerInv, Fits, Count
  <2>4. Cardinality(handled) <= Cardinality(mapped) /\ Cardinality(handled) \in Nat
    BY <2>2, <2>3, FS_Subset, FS_CardinalityType
  <2> HIDE DEF mapped, handled
  <2>5. Cardinality(handled) <= Concurrency
    BY <2>3, <2>4, WorkerAssumption
  <2> QED
    BY <2>5 DEF handled
<1> QED
  BY <1>1, InvHolds, PTL

(* When no lease is cut under a handler, stop leaves no message claimed by the *)
(* worker without having marked it released.                                  *)
THEOREM UncutRunsRelease ==
  ASSUME MaxCuts = 0
  PROVE  Spec => []ReleasesTheUnfinished
<1>1. WorkerInv => ReleasesTheUnfinished
  BY DEF WorkerInv, TypeOK, Uncut, ReleasesTheUnfinished
<1> QED
  BY <1>1, InvHolds, PTL
-----------------------------------------------------------------------------
(* What the queue's promises are to its workers. *)

QueueStep == ContractNext \/ UNCHANGED contractVars

(* The calls of a claim: the one that finishes its handler, with its outcome, *)
(* and the one that releases it.                                             *)
LEMMA CallsTheContract ==
  ASSUME TypeOK, NEW m \in Ids, NEW t \in given[m], Record(m, t) \/ Release(m, t)
  PROVE  QueueStep
<1>1. CASE UNCHANGED contractVars
  BY <1>1 DEF QueueStep
<1>2. CASE Finish(m, t)
  BY <1>2 DEF QueueStep, ContractNext
<1>3. CASE Held(m, t) /\ \E p \in {"waiting", "dead", "done"} : Settle({m}, p)
  BY <1>3 DEF QueueStep, ContractNext, GiveBack
<1>4. CASE Record(m, t)
  <2>1. Outcome(m, t)
    BY <1>4 DEF Record
  <2> QED
    BY <2>1, <1>1, <1>2, <1>3 DEF Outcome
<1>5. CASE Release(m, t)
  BY <1>1, <1>3, <1>5 DEF Release
<1> QED
  BY <1>4, <1>5

LEMMA StepsTheContract ==
  ASSUME TypeOK, [Next]_vars
  PROVE  QueueStep
<1>1. CASE UNCHANGED vars
  BY <1>1 DEF vars, QueueStep
<1>2. ASSUME NEW m \in Ids, Enqueue(m) PROVE QueueStep
  BY <1>2 DEF Enqueue, QueueStep, ContractNext
<1>3. ASSUME NEW m \in Ids, LeaseEnds(m) \/ LeaseCut(m) PROVE QueueStep
  BY <1>3 DEF LeaseEnds, LeaseCut, QueueStep
<1>4. ASSUME NEW w \in Workers, AskClaim(w) PROVE QueueStep
  <2>1. {m \in lapsed : tries[m] > Retries} \in SUBSET Ids
    BY DEF TypeOK
  <2> QED
    BY <1>4, <2>1 DEF AskClaim, QueueStep, ContractNext
<1>5. ASSUME NEW w \in Workers, NEW S \in SUBSET Ids,
             Claim(w, S) \/ ClaimFails(w, S)
      PROVE  QueueStep
  <2>1. Take(S)
    BY <1>5 DEF Claim, ClaimFails, Claims
  <2> QED
    BY <2>1 DEF QueueStep, ContractNext
<1>6. ASSUME NEW w \in Workers, NEW S \in SUBSET Ids, Prune(w, S) PROVE QueueStep
  BY <1>6 DEF Prune, QueueStep, ContractNext
<1>7. ASSUME NEW w \in Workers,
             Full(w) \/ Wake(w) \/ IdleEnds(w) \/ LoopExits(w) \/ StopStep(w)
      PROVE  QueueStep
  BY <1>7 DEF Full, Wake, IdleEnds, LoopExits, StopStep, Stop, AllFinish, GraceEnds,
              AllReleased, ProcessExits, Crash, Ends, Start, QueueStep
<1>8. ASSUME NEW m \in Ids, NEW t \in given[m], HandlerStep(m, t) PROVE QueueStep
  <2>1. CASE Record(m, t) \/ Release(m, t)
    BY <2>1, CallsTheContract
  <2>2. CASE Extend(m, t) \/ HandlerReturns(m, t) \/ RecordFails(t) \/ Signal(t)
             \/ ReleaseFails(t)
    BY <2>2 DEF Extend, HandlerReturns, RecordFails, Signal, ReleaseFails, QueueStep
  <2> QED
    BY <1>8, <2>1, <2>2 DEF HandlerStep
<1> QED
  BY <1>1, <1>2, <1>3, <1>4, <1>5, <1>6, <1>7, <1>8 DEF Next, LoopStep

(* The workers ask nothing of the queue that QueueContract does not promise:  *)
(* every step of theirs is one of its steps, or leaves the queue alone.       *)
THEOREM WorkersUseTheContract == Spec => ContractSpec
<1>1. Init => ContractInit
  BY DEF Init
<1>2. WorkerInv /\ [Next]_vars => [ContractNext]_contractVars
  BY StepsTheContract DEF WorkerInv, QueueStep
<1> QED
  BY <1>1, <1>2, InvHolds, PTL DEF Spec, ContractSpec

(* A claim that was lost, to a lapse, a release or an answer, is not held      *)
(* again: no later claim of any message has its token.                        *)
LostIsLost ==
  \A m \in Ids : \A t \in given[m] : ~ Held(m, t) => t \in given'[m] /\ ~ Held(m, t)'

LEMMA ContractKeeps ==
  ASSUME ContractTypeOK, ContractNext
  PROVE  ContractTypeOK' /\ LostIsLost
<1>1. ASSUME NEW S \in SUBSET Ids, NEW p \in Phases \ {"held"}, Settle(S, p)
      PROVE  ContractTypeOK' /\ LostIsLost
  <2>1. ContractTypeOK' /\ given' = given
        /\ \A m \in Ids \ S : holder'[m] = holder[m] /\ phase'[m] = phase[m]
    BY <1>1, SettleKeeps
  <2>2. \A m \in S : phase'[m] # "held"
    BY <1>1 DEF Settle
  <2> QED
    BY <2>1, <2>2 DEF LostIsLost, Held
<1>2. ASSUME NEW m \in Ids, Write(m) PROVE ContractTypeOK' /\ LostIsLost
  BY <1>1, <1>2 DEF Write, Phases
<1>3. ASSUME NEW S \in SUBSET Ids, Take(S) PROVE ContractTypeOK' /\ LostIsLost
  BY <1>3, TakeGives DEF LostIsLost, Held, Issued
<1>4. ASSUME NEW S \in SUBSET Ids, Lapse(S) \/ Revive(S) \/ Discard(S)
      PROVE  ContractTypeOK' /\ LostIsLost
  BY <1>1, <1>4 DEF Lapse, Revive, Discard, Phases
<1>5. ASSUME NEW m \in Ids, NEW t \in given[m], Finish(m, t) \/ GiveBack(m, t)
      PROVE  ContractTypeOK' /\ LostIsLost
  BY <1>1, <1>5 DEF Finish, GiveBack, Phases
<1> QED
  BY <1>2, <1>3, <1>4, <1>5 DEF ContractNext

(* What fences a worker's late call: QueueContract gives no claim back to a    *)
(* worker that lost it, so neither do the tables that implement it.           *)
THEOREM ClaimsAreFenced == ContractSpec => [][LostIsLost]_contractVars
<1>1. ContractInit => ContractTypeOK
  BY DEF ContractInit, ContractTypeOK, Phases
<1>2. ContractTypeOK /\ [ContractNext]_contractVars
        => ContractTypeOK' /\ [LostIsLost]_contractVars
  <2>1. ContractTypeOK /\ UNCHANGED contractVars => ContractTypeOK'
    BY DEF contractVars, ContractTypeOK
  <2> QED
    BY <2>1, ContractKeeps
<1> QED
  BY <1>1, <1>2, PTL DEF ContractSpec
=============================================================================
