----------------------- MODULE MigrationRunnerProofs -----------------------
(***************************************************************************)
(* What MigrationRunner keeps for any runners, plans and models.  On Postgres *)
(* and D1 it does so whatever plans are applied.  On SQLite no lock keeps the *)
(* runs in place: the runner accepts plans that return the database to a      *)
(* model it left, and with them only the types are kept.                      *)
(***************************************************************************)
EXTENDS MigrationRunner, FiniteSetTheorems, WellFoundedInduction, TLAPS

Climbs == \E rank \in [Models -> Nat] : Ascends("sqlite", rank)

(* The database is not SQLite's, or its plans never return to a model.        *)
NeverReturns == driver = "sqlite" => Climbs

Rank == CHOOSE rank \in [Models -> Nat] : Ascends("sqlite", rank)

-----------------------------------------------------------------------------
(* The invariant. *)

Places == {"idle", "lock", "decide", "steps", "session", "statements", "end", "unlock"}
Phases == {"expand", "contract", "all"}
LogType == {f \in [Plans -> UNION {[Steps(p) -> Marks] : p \in Plans}] :
              \A p \in Plans : f[p] \in [Steps(p) -> Marks]}
TablesType == [row : RowType, log : LogType]
RunType == [pc : Places, plan : Plans \cup {NoPlan}, phase : Phases,
            left : SUBSET Nat, read : SUBSET TablesType]

Typed ==
  /\ driver \in Drivers
  /\ row \in RowType
  /\ log \in LogType
  /\ owner \in Runners \cup {NoRunner} /\ leased \in BOOLEAN
  /\ run \in [Runners -> RunType]
  /\ runs \in 0..MaxRuns /\ faults \in 0..MaxFaults

(* The state row: the plan in progress and its phase, and the model applied.  *)
RowHolds ==
  IF row.plan = NoPlan THEN row.phase = "none"
  ELSE /\ row.plan \in Applied[driver]
       /\ IF row.phase = "expanded" THEN row.model = Expanded[row.plan] /\ row.model # NoModel
                                    ELSE row.model = From[row.plan]
       /\ row.phase # "none" =>
            /\ Expands[row.plan] < Length[row.plan]
            /\ \A i \in ExpandSteps(row.plan) : log[row.plan][i] = "finished"

(* The first n steps of p have finished and no later one has; the next may    *)
(* have been interrupted.                                                     *)
PlacedAt(p, n) ==
  /\ \A i \in Steps(p) : /\ i <= n => log[p][i] = "finished"
                         /\ i > n => log[p][i] # "finished"
                         /\ i > n + 1 => log[p][i] = "none"
  /\ IF n + 1 \in Steps(p) /\ log[p][n + 1] = "started"
     THEN schema \in {At(p, n), Half(p, n + 1), At(p, n + 1)}
     ELSE schema = At(p, n)

InPlace ==
  IF row.plan = NoPlan THEN schema = <<"at", row.model>>
  ELSE \E n \in 0..Length[row.plan] : PlacedAt(row.plan, n)

(* On SQLite a plan that ran a step, unless it is in progress, started from a *)
(* model below the one applied.                                               *)
LeftBehind ==
  driver = "sqlite" =>
    \A p \in Applied["sqlite"] :
      p # row.plan /\ (\E i \in Steps(p) : log[p][i] # "none")
        => Rank[From[p]] < Rank[row.model]

Writer(r) == driver = "sqlite" \/ owner = r
Busy(r) == run[r].pc \in {"steps", "session", "statements", "end"}
Done(r) == PhaseSteps(run[r].plan, run[r].phase) \ run[r].left

(* One runner's part: its steps taken are those that have finished, and what  *)
(* it is to write to is its plan.                                             *)
RunHolds(r) ==
  /\ run[r].pc # "idle" =>
       /\ run[r].plan \in Applied[driver]
       /\ run[r].left \subseteq PhaseSteps(run[r].plan, run[r].phase)
  /\ run[r].pc \in {"lock", "decide"} =>
       run[r].left = PhaseSteps(run[r].plan, run[r].phase)
  /\ driver = "postgres" /\ run[r].pc \notin {"idle", "lock"} => owner = r
  /\ driver = "d1" /\ owner = r => run[r].read \subseteq {Tables}
  /\ Busy(r) /\ Writer(r) =>
       /\ \A i \in Done(r) : log[run[r].plan][i] = "finished"
       /\ run[r].phase = "contract" =>
            \A i \in ExpandSteps(run[r].plan) : log[run[r].plan][i] = "finished"
       /\ driver # "sqlite" /\ run[r].left # {} => row.plan = run[r].plan
  /\ run[r].pc \in {"session", "statements"} =>
       /\ driver = "postgres" /\ run[r].left # {}
       /\ log[run[r].plan][First(run[r].left)] = "started"
       /\ schema \in IF run[r].pc = "statements" THEN {At(run[r].plan, First(run[r].left))}
                     ELSE {At(run[r].plan, First(run[r].left) - 1),
                           Half(run[r].plan, First(run[r].left))}

TablesHold == RowHolds /\ InPlace /\ LeftBehind
RunnerInv == Typed /\ TablesHold /\ \A r \in Runners : RunHolds(r)

-----------------------------------------------------------------------------
(* Facts of the operators. *)

LEMMA FirstOf ==
  ASSUME NEW S \in SUBSET Nat, S # {}
  PROVE  First(S) \in S /\ \A j \in S : First(S) <= j
<1>1. PICK n \in S : n \in Nat
  OBVIOUS
<1>2. \A j \in S : j \in Nat
  OBVIOUS
<1> DEFINE upTo(i) == {j \in S : j <= i}
           all == 0..n
           sets == {T \in SUBSET all : \E i \in S : T = upTo(i)}
<1>3. IsWellFoundedOn(StrictSubsetOrdering(all), SUBSET all)
  <2>1. IsFiniteSet(all)
    BY <1>1, FS_Interval
  <2> HIDE DEF all
  <2> QED
    BY <2>1, FS_FiniteSubsetsOfFinite, FS_StrictSubsetOrderingWellFounded
<1>4. sets # {}
  <2>1. \A j \in upTo(n) : j \in all
    BY <1>1, <1>2
  <2> QED
    BY <1>1, <2>1
<1>5. PICK T \in sets : \A U \in sets : <<U, T>> \notin StrictSubsetOrdering(all)
  <2>1. sets \subseteq SUBSET all
    OBVIOUS
  <2> HIDE DEF sets, all
  <2> QED
    BY <1>3, <1>4, <2>1, WFMin
<1>6. PICK i \in S : T = upTo(i)
  BY <1>5
<1>7. ASSUME NEW j \in S, ~ (i <= j) PROVE FALSE
  <2>1. i \in Nat /\ j \in Nat /\ j < i
    BY <1>7
  <2>2. \A k \in upTo(j) : k \in upTo(i)
    BY <2>1, <1>2
  <2>3. upTo(j) \subseteq T /\ upTo(j) # T
    <3>1. i \in upTo(i) /\ i \notin upTo(j)
      BY <2>1
    <3> HIDE DEF upTo
    <3> QED
      BY <1>6, <2>2, <3>1
  <2>4. upTo(j) \in sets
    BY <1>5, <2>3
  <2> QED
    BY <1>5, <2>3, <2>4 DEF StrictSubsetOrdering
<1> QED
  BY <1>7 DEF First

LEMMA ModelsOf ==
  ASSUME NEW p \in Plans
  PROVE  /\ Empty \in Models /\ From[p] \in Models /\ To[p] \in Models
         /\ Expanded[p] # NoModel => Expanded[p] \in Models
BY MigrationAssumption DEF Models

LEMMA ModelIs ==
  ASSUME NEW m \in Models
  PROVE  m # NoModel /\ (m = Empty \/ \E p \in Plans : m \in {From[p], To[p], Expanded[p]})
<1>1. m # NoModel /\ (m = Empty \/ m \in {f[p] : p \in Plans, f \in {From, To, Expanded}})
  BY DEF Models
<1>2. ASSUME m \in {f[p] : p \in Plans, f \in {From, To, Expanded}}
      PROVE  \E p \in Plans : m \in {From[p], To[p], Expanded[p]}
  <2>1. \E p \in Plans, f \in {From, To, Expanded} : m = f[p]
    BY <1>2
  <2> QED
    BY <2>1
<1> QED
  BY <1>1, <1>2

LEMMA LengthType ==
  ASSUME NEW p \in Plans
  PROVE  /\ Expands[p] \in Nat /\ Length[p] \in Nat /\ Expands[p] <= Length[p]
         /\ Steps(p) \subseteq Nat /\ ExpandSteps(p) \subseteq Steps(p)
         /\ Unlogged(p) \in [Steps(p) -> Marks]
         /\ \A f \in Phases : PhaseSteps(p, f) \subseteq Steps(p)
<1>1. Expands[p] \in Nat /\ Length[p] \in Nat /\ Expands[p] <= Length[p]
  BY MigrationAssumption
<1>2. ExpandSteps(p) \subseteq Steps(p) /\ Steps(p) \subseteq Nat
  BY <1>1 DEF Steps, ExpandSteps
<1>3. Unlogged(p) \in [Steps(p) -> Marks]
  BY DEF Unlogged, Marks
<1> QED
  BY <1>1, <1>2, <1>3 DEF PhaseSteps, Phases

LEMMA LogOf == ASSUME log \in LogType, NEW p \in Plans PROVE log[p] \in [Steps(p) -> Marks]
BY DEF LogType

LEMMA LogWith ==
  ASSUME log \in LogType, NEW p \in Plans, NEW g \in [Steps(p) -> Marks]
  PROVE  [log EXCEPT ![p] = g] \in LogType
<1> DEFINE ranges == UNION {[Steps(q) -> Marks] : q \in Plans}
<1>1. log \in [Plans -> ranges] /\ \A q \in Plans : log[q] \in [Steps(q) -> Marks]
  BY DEF LogType
<1>2. g \in ranges
  OBVIOUS
<1> HIDE DEF ranges
<1>3. [log EXCEPT ![p] = g] \in [Plans -> ranges]
  BY <1>1, <1>2
<1>4. \A q \in Plans : [log EXCEPT ![p] = g][q] \in [Steps(q) -> Marks]
  BY <1>1
<1> QED
  BY <1>3, <1>4 DEF LogType, ranges

(* A log that marks one step.                                                 *)
LEMMA Marked ==
  ASSUME log \in LogType, NEW p \in Plans, NEW i \in Steps(p), NEW mark \in Marks,
         log' = [log EXCEPT ![p][i] = mark]
  PROVE  /\ log' \in LogType /\ log'[p][i] = mark
         /\ \A q \in Plans : q # p => log'[q] = log[q]
         /\ \A j \in Steps(p) : j # i => log'[p][j] = log[p][j]
<1> DEFINE g == [log[p] EXCEPT ![i] = mark]
<1>1. log[p] \in [Steps(p) -> Marks]
  BY LogOf
<1>2. g \in [Steps(p) -> Marks] /\ g[i] = mark /\ \A j \in Steps(p) : j # i => g[j] = log[p][j]
  BY <1>1
<1>3. log' = [log EXCEPT ![p] = g]
  OBVIOUS
<1> HIDE DEF g
<1>4. log'[p] = g /\ \A q \in Plans : q # p => log'[q] = log[q]
  BY <1>3 DEF LogType
<1>5. [log EXCEPT ![p] = g] \in LogType
  BY <1>2, LogWith
<1> QED
  BY <1>2, <1>3, <1>4, <1>5

LEMMA AtUnbroken ==
  ASSUME NEW p, NEW n, NEW i PROVE At(p, n) # Broken /\ Half(p, i) # Broken
BY DEF At, Half, Broken

LEMMA RankType ==
  ASSUME NeverReturns, driver = "sqlite"
  PROVE  Rank \in [Models -> Nat] /\ Ascends("sqlite", Rank)
<1> DEFINE ranks == [Models -> Nat]
           ascends(rank) == Ascends("sqlite", rank)
<1>1. \E rank \in ranks : ascends(rank)
  BY DEF NeverReturns, Climbs
<1> HIDE DEF ranks, ascends
<1>2. (CHOOSE rank \in ranks : ascends(rank)) \in ranks
        /\ ascends(CHOOSE rank \in ranks : ascends(rank))
  BY <1>1, Zenon
<1> QED
  BY <1>2, Zenon DEF Rank, ranks, ascends
-----------------------------------------------------------------------------
(* What a step does to one runner. *)

LEMMA GoesTo ==
  ASSUME Typed, NEW r \in Runners, NEW pc \in Places, Goes(r, pc)
  PROVE  /\ run' \in [Runners -> RunType]
         /\ \A q \in Runners : q # r => run'[q] = run[q]
         /\ run'[r].pc = pc /\ run'[r].read = {} /\ run'[r].left = run[r].left
         /\ run'[r].plan = run[r].plan /\ run'[r].phase = run[r].phase
<1> DEFINE next == [run[r] EXCEPT !.pc = pc, !.read = {}]
<1>1. run[r] \in RunType
  BY DEF Typed
<1>2. next \in RunType /\ next.pc = pc /\ next.read = {} /\ next.left = run[r].left
        /\ next.plan = run[r].plan /\ next.phase = run[r].phase
  BY <1>1 DEF RunType
<1>3. run' = [run EXCEPT ![r] = next]
  BY DEF Goes
<1> HIDE DEF next
<1>4. run \in [Runners -> RunType]
  BY DEF Typed
<1> QED
  BY <1>2, <1>3, <1>4

LEMMA StepDoneTo ==
  ASSUME Typed, NEW r \in Runners, NEW i, StepDone(r, i)
  PROVE  /\ run' \in [Runners -> RunType]
         /\ \A q \in Runners : q # r => run'[q] = run[q]
         /\ run'[r].pc = "steps" /\ run'[r].read = {} /\ run'[r].left = run[r].left \ {i}
         /\ run'[r].plan = run[r].plan /\ run'[r].phase = run[r].phase
<1> DEFINE next == [run[r] EXCEPT !.left = @ \ {i}, !.read = {}, !.pc = "steps"]
<1>1. run[r] \in RunType
  BY DEF Typed
<1>2. next \in RunType /\ next.pc = "steps" /\ next.read = {} /\ next.left = run[r].left \ {i}
        /\ next.plan = run[r].plan /\ next.phase = run[r].phase
  BY <1>1 DEF RunType, Places
<1>3. run' = [run EXCEPT ![r] = next]
  BY DEF StepDone
<1> HIDE DEF next
<1>4. run \in [Runners -> RunType]
  BY DEF Typed
<1> QED
  BY <1>2, <1>3, <1>4

LEMMA Rests ==
  ASSUME Typed, NEW r \in Runners, run' = [run EXCEPT ![r] = Resting]
  PROVE  /\ run' \in [Runners -> RunType]
         /\ \A q \in Runners : q # r => run'[q] = run[q]
         /\ run'[r].pc = "idle" /\ run'[r].read = {}
<1>1. Resting \in RunType
  BY DEF Resting, RunType, Places, Phases
<1> QED
  BY <1>1 DEF Typed, Resting

(* A runner that may write sees the tables as they are.                       *)
LEMMA WriterSees ==
  ASSUME RunnerInv, NEW r \in Runners, Writer(r), NEW v \in Views(r)
  PROVE  v = Tables
BY DEF RunnerInv, RunHolds, Writer, Views

(* Past its lock, a run that a batch does not fail may write.                 *)
LEMMA MayWrite ==
  ASSUME RunnerInv, NEW r \in Runners, run[r].pc \notin {"idle", "lock"},
         driver = "d1" => owner = r
  PROVE  Writer(r)
<1>1. driver \in {"postgres", "sqlite", "d1"}
  BY MigrationAssumption DEF RunnerInv, Typed
<1> QED
  BY <1>1 DEF RunnerInv, RunHolds, Writer

LEMMA PlanOf ==
  ASSUME RunnerInv, NEW r \in Runners, run[r].pc # "idle"
  PROVE  /\ run[r].plan \in Plans /\ run[r].plan \in Applied[driver]
         /\ run[r].left \subseteq Steps(run[r].plan)
         /\ run[r].phase \in Phases
<1>1. run[r] \in RunType /\ driver \in Drivers
  BY DEF RunnerInv, Typed
<1>2. run[r].plan \in Applied[driver] /\ run[r].left \subseteq PhaseSteps(run[r].plan, run[r].phase)
  BY DEF RunnerInv, RunHolds
<1>3. run[r].plan \in Plans /\ run[r].phase \in Phases
  BY <1>1, <1>2, MigrationAssumption DEF RunType
<1> QED
  BY <1>2, <1>3, LengthType

(* The others, of whom none may write unless all may, keep their parts: on    *)
(* SQLite the steps that have finished have.                                  *)
LEMMA OthersHold ==
  ASSUME RunnerInv, NEW r \in Runners, Writer(r), driver' = driver, owner' = owner,
         NEW q \in Runners, q # r, run'[q] = run[q],
         driver = "sqlite" =>
           \A p \in Plans : \A i \in Steps(p) : log[p][i] = "finished" => log'[p][i] = "finished"
  PROVE  RunHolds(q)'
<1>1. RunHolds(q) /\ driver \in {"postgres", "sqlite", "d1"}
  BY MigrationAssumption DEF RunnerInv, Typed
<1>2. CASE driver = "sqlite"
  <2>1. run[q].pc # "idle" =>
          /\ run[q].plan \in Plans
          /\ \A i \in Done(q) : i \in Steps(run[q].plan)
          /\ \A i \in ExpandSteps(run[q].plan) : i \in Steps(run[q].plan)
    BY PlanOf, LengthType DEF Done
  <2> QED
    BY <1>1, <1>2, <2>1 DEF RunHolds, Busy, Writer, Done
<1>3. CASE driver # "sqlite"
  <2>1. owner = r
    BY <1>3 DEF Writer
  <2> QED
    BY <1>1, <1>3, <2>1 DEF RunHolds, Busy, Writer
<1> QED
  BY <1>2, <1>3

(* Steps that leave the database as it is.                                    *)
LEMMA TablesStay ==
  ASSUME TablesHold, UNCHANGED <<driver, row, log, schema>>
  PROVE  TablesHold'
BY DEF TablesHold, RowHolds, InPlace, LeftBehind, PlacedAt

LEMMA RunStays ==
  ASSUME NEW q \in Runners, RunHolds(q), UNCHANGED <<driver, row, log, schema>>,
         run'[q] = run[q],
         \/ owner' = owner
         \/ owner' # q /\ (driver = "postgres" => run[q].pc \in {"idle", "lock"})
  PROVE  RunHolds(q)'
BY DEF RunHolds, Busy, Writer, Done, Tables
-----------------------------------------------------------------------------
(* The steps that write nothing. *)

LEMMA GoesHolds ==
  ASSUME RunnerInv, driver' = driver, NEW r \in Runners, NEW pc \in {"steps", "end", "unlock"},
         run[r].pc \notin {"idle", "lock"}, Goes(r, pc),
         UNCHANGED <<row, log, schema, owner, leased, runs>>, faults' \in 0..MaxFaults,
         \/ Busy(r)
         \/ pc = "unlock"
         \/ /\ run[r].pc = "decide" /\ (Writer(r) => row.plan = run[r].plan)
            /\ Writer(r) /\ run[r].phase = "contract" =>
                 \A i \in ExpandSteps(run[r].plan) : log[run[r].plan][i] = "finished"
  PROVE  RunnerInv'
<1>1. /\ run' \in [Runners -> RunType]
      /\ \A q \in Runners : q # r => run'[q] = run[q]
      /\ run'[r].pc = pc /\ run'[r].read = {} /\ run'[r].left = run[r].left
      /\ run'[r].plan = run[r].plan /\ run'[r].phase = run[r].phase
  BY GoesTo DEF RunnerInv, Places
<1>2. Typed'
  BY <1>1 DEF RunnerInv, Typed
<1>3. TablesHold'
  BY TablesStay DEF RunnerInv
<1>4. ASSUME NEW q \in Runners, q # r PROVE RunHolds(q)'
  BY <1>1, <1>4, RunStays DEF RunnerInv
<1>5. RunHolds(r)'
  <2>1. RunHolds(r)
    BY DEF RunnerInv
  <2>2. Done(r)' = Done(r) /\ Writer(r)' = Writer(r)
    BY <1>1 DEF Done, Writer
  <2>3. CASE Busy(r)
    BY <1>1, <2>1, <2>2, <2>3 DEF RunHolds, Busy
  <2>4. CASE pc = "unlock"
    BY <1>1, <2>1, <2>4 DEF RunHolds, Busy
  <2>5. CASE /\ run[r].pc = "decide" /\ (Writer(r) => row.plan = run[r].plan)
             /\ Writer(r) /\ run[r].phase = "contract" =>
                  \A i \in ExpandSteps(run[r].plan) : log[run[r].plan][i] = "finished"
    <3>1. Done(r) = {}
      BY <2>1, <2>5 DEF RunHolds, Done
    <3> QED
      BY <1>1, <2>1, <2>2, <2>5, <3>1 DEF RunHolds, Busy
  <2> QED
    BY <2>3, <2>4, <2>5
<1> QED
  BY <1>2, <1>3, <1>4, <1>5 DEF RunnerInv

LEMMA ReadHolds ==
  ASSUME RunnerInv, driver' = driver, NEW r \in Runners, Read(r)
  PROVE  RunnerInv'
<1> DEFINE next == [run[r] EXCEPT !.read = {Tables}]
<1>1. run' = [run EXCEPT ![r] = next] /\ UNCHANGED <<row, log, schema, owner, leased, runs, faults>>
  BY DEF Read
<1>2. run[r] \in RunType /\ {Tables} \in SUBSET TablesType
  BY DEF RunnerInv, Typed, Tables, TablesType
<1>3. /\ next \in RunType /\ next.read = {Tables} /\ next.pc = run[r].pc
      /\ next.left = run[r].left /\ next.plan = run[r].plan /\ next.phase = run[r].phase
  BY <1>2 DEF RunType
<1> HIDE DEF next
<1>4. /\ run' \in [Runners -> RunType] /\ run'[r] = next
      /\ \A q \in Runners : q # r => run'[q] = run[q]
  BY <1>1, <1>3 DEF RunnerInv, Typed
<1>5. Typed'
  BY <1>1, <1>4 DEF RunnerInv, Typed
<1>6. TablesHold'
  BY <1>1, TablesStay DEF RunnerInv
<1>7. ASSUME NEW q \in Runners, q # r PROVE RunHolds(q)'
  BY <1>1, <1>4, <1>7, RunStays DEF RunnerInv
<1>8. RunHolds(r)'
  BY <1>1, <1>3, <1>4 DEF RunnerInv, RunHolds, Busy, Writer, Done, Tables
<1> QED
  BY <1>5, <1>6, <1>7, <1>8 DEF RunnerInv

LEMMA BeginHolds ==
  ASSUME RunnerInv, driver' = driver, NEW r \in Runners, NEW p \in Plans, NEW f \in Phases,
         Begin(r, p, f)
  PROVE  RunnerInv'
<1> DEFINE next == [pc |-> "lock", plan |-> p, phase |-> f, left |-> PhaseSteps(p, f), read |-> {}]
<1>1. /\ run' = [run EXCEPT ![r] = next] /\ UNCHANGED <<row, log, schema, owner, leased, faults>>
      /\ p \in Applied[driver] /\ runs < MaxRuns /\ runs' = runs + 1
  BY DEF Begin
<1>2. PhaseSteps(p, f) \subseteq Nat
  BY LengthType
<1>3. /\ next \in RunType /\ next.read = {} /\ next.pc = "lock"
      /\ next.left = PhaseSteps(p, f) /\ next.plan = p /\ next.phase = f
  BY <1>2 DEF RunType, Places
<1> HIDE DEF next
<1>4. /\ run' \in [Runners -> RunType] /\ run'[r] = next
      /\ \A q \in Runners : q # r => run'[q] = run[q]
  BY <1>1, <1>3 DEF RunnerInv, Typed
<1>5. Typed'
  <2>1. runs' \in 0..MaxRuns
    BY <1>1, MigrationAssumption DEF RunnerInv, Typed
  <2> QED
    BY <1>1, <1>4, <2>1 DEF RunnerInv, Typed
<1>6. TablesHold'
  BY <1>1, TablesStay DEF RunnerInv
<1>7. ASSUME NEW q \in Runners, q # r PROVE RunHolds(q)'
  BY <1>1, <1>4, <1>7, RunStays DEF RunnerInv
<1>8. RunHolds(r)'
  BY <1>1, <1>3, <1>4 DEF RunHolds, Busy
<1> QED
  BY <1>5, <1>6, <1>7, <1>8 DEF RunnerInv

(* Only a runner that has the lock, or whose lease it was, can write on       *)
(* Postgres and D1: none has it who did before.                               *)
LEMMA LockHolds ==
  ASSUME RunnerInv, driver' = driver, NEW r \in Runners, Lock(r)
  PROVE  RunnerInv'
<1>1. /\ run[r].pc = "lock" /\ Goes(r, "decide") /\ UNCHANGED <<row, log, schema, runs, faults>>
  BY DEF Lock
<1>2. /\ run' \in [Runners -> RunType]
      /\ \A q \in Runners : q # r => run'[q] = run[q]
      /\ run'[r].pc = "decide" /\ run'[r].read = {} /\ run'[r].left = run[r].left
      /\ run'[r].plan = run[r].plan /\ run'[r].phase = run[r].phase
  BY <1>1, GoesTo DEF RunnerInv, Places
<1>3. driver \in {"postgres", "sqlite", "d1"} /\ owner \in Runners \cup {NoRunner}
        /\ leased \in BOOLEAN
  BY MigrationAssumption DEF RunnerInv, Typed
<1>4. /\ owner' \in Runners \cup {NoRunner} /\ leased' \in BOOLEAN
      /\ driver = "postgres" => owner' = r /\ owner = NoRunner
      /\ owner' = owner \/ owner' = r
  BY <1>3 DEF Lock
<1>5. Typed'
  BY <1>1, <1>2, <1>4 DEF RunnerInv, Typed
<1>6. TablesHold'
  BY <1>1, TablesStay DEF RunnerInv
<1>7. ASSUME NEW q \in Runners, q # r PROVE RunHolds(q)'
  <2>1. driver = "postgres" => run[q].pc \in {"idle", "lock"}
    BY <1>4, MigrationAssumption DEF RunnerInv, RunHolds
  <2> QED
    BY <1>1, <1>2, <1>4, <1>7, <2>1, RunStays DEF RunnerInv
<1>8. RunHolds(r)'
  BY <1>1, <1>2, <1>4 DEF RunnerInv, RunHolds, Busy
<1> QED
  BY <1>5, <1>6, <1>7, <1>8 DEF RunnerInv

(* A run that ends or dies gives up the lock that is its own.                 *)
LEMMA RestHolds ==
  ASSUME RunnerInv, driver' = driver, NEW r \in Runners, run' = [run EXCEPT ![r] = Resting],
         UNCHANGED <<row, log, schema, runs>>, faults' \in 0..MaxFaults,
         UNCHANGED <<owner, leased>> \/ Frees(r)
  PROVE  RunnerInv'
<1>1. /\ run' \in [Runners -> RunType]
      /\ \A q \in Runners : q # r => run'[q] = run[q]
      /\ run'[r].pc = "idle" /\ run'[r].read = {}
  BY Rests DEF RunnerInv
<1>2. /\ owner' \in Runners \cup {NoRunner} /\ leased' \in BOOLEAN
      /\ owner' = owner \/ (owner' = NoRunner /\ owner = r)
  BY DEF RunnerInv, Typed, Frees
<1>3. Typed'
  BY <1>1, <1>2 DEF RunnerInv, Typed
<1>4. TablesHold'
  BY TablesStay DEF RunnerInv
<1>5. ASSUME NEW q \in Runners, q # r PROVE RunHolds(q)'
  <2>1. owner = r => (driver = "postgres" => run[q].pc \in {"idle", "lock"})
    BY <1>5 DEF RunnerInv, RunHolds
  <2> QED
    BY <1>1, <1>2, <1>5, <2>1, RunStays, MigrationAssumption DEF RunnerInv
<1>6. RunHolds(r)'
  BY <1>1 DEF RunHolds, Busy
<1> QED
  BY <1>3, <1>4, <1>5, <1>6 DEF RunnerInv

LEMMA DecideHolds ==
  ASSUME RunnerInv, driver' = driver, NEW r \in Runners, DecideReads(r)
  PROVE  RunnerInv'
<1> DEFINE p == run[r].plan
<1>1. run[r].pc = "decide" /\ UNCHANGED <<row, log, schema, owner, leased, runs, faults>>
  BY DEF DecideReads, NoWrite
<1>2. PICK v \in Views(r) :
        \/ /\ Decision(v, p) = "resume" /\ (run[r].phase = "contract" => ContractAllowed(v, p))
           /\ Goes(r, "steps")
        \/ Goes(r, "unlock")
  BY DEF DecideReads
<1>3. faults' \in 0..MaxFaults
  BY <1>1 DEF RunnerInv, Typed
<1>4. CASE Goes(r, "unlock")
  BY <1>1, <1>3, <1>4, GoesHolds
<1>5. CASE /\ Decision(v, p) = "resume" /\ (run[r].phase = "contract" => ContractAllowed(v, p))
           /\ Goes(r, "steps")
  <2>1. v.row.plan = p
    BY <1>5 DEF Decision
  <2>2. run[r].phase = "contract" => \A i \in ExpandSteps(p) : v.log[p][i] = "finished"
    BY <1>5 DEF ContractAllowed, Finished
  <2>3. Writer(r) => v.row = row /\ v.log = log
    BY WriterSees DEF Tables
  <2> QED
    BY <1>1, <1>3, <1>5, <2>1, <2>2, <2>3, GoesHolds
<1> QED
  BY <1>2, <1>4, <1>5

(* A step of a plan in progress that has finished already is the run's too.   *)
LEMMA SkipHolds ==
  ASSUME RunnerInv, driver' = driver, NEW r \in Runners, NEW i \in Steps(run[r].plan),
         run[r].pc = "steps", StepDone(r, i),
         Writer(r) => log[run[r].plan][i] = "finished",
         UNCHANGED <<row, log, schema, owner, leased, runs, faults>>
  PROVE  RunnerInv'
<1>1. /\ run' \in [Runners -> RunType]
      /\ \A q \in Runners : q # r => run'[q] = run[q]
      /\ run'[r].pc = "steps" /\ run'[r].read = {} /\ run'[r].left = run[r].left \ {i}
      /\ run'[r].plan = run[r].plan /\ run'[r].phase = run[r].phase
  BY StepDoneTo DEF RunnerInv
<1>2. Typed'
  BY <1>1 DEF RunnerInv, Typed
<1>3. TablesHold'
  BY TablesStay DEF RunnerInv
<1>4. ASSUME NEW q \in Runners, q # r PROVE RunHolds(q)'
  BY <1>1, <1>4, RunStays DEF RunnerInv
<1>5. RunHolds(r)'
  <2>1. RunHolds(r) /\ Busy(r)
    BY DEF RunnerInv, Busy
  <2>2. \A j \in Done(r)' : j \in Done(r) \/ j = i
    BY <1>1 DEF Done
  <2>3. Writer(r)' = Writer(r) /\ (run'[r].left # {} => run[r].left # {})
    BY <1>1 DEF Writer
  <2> QED
    BY <1>1, <2>1, <2>2, <2>3 DEF RunHolds, Busy
<1> QED
  BY <1>2, <1>3, <1>4, <1>5 DEF RunnerInv

LEMMA TransactionalReadsHold ==
  ASSUME RunnerInv, driver' = driver, NEW r \in Runners, NEW i \in Steps(run[r].plan),
         TransactionalReads(r, i)
  PROVE  RunnerInv'
<1>1. run[r].pc = "steps" /\ UNCHANGED <<row, log, schema, owner, leased, runs, faults>>
  BY DEF TransactionalReads, AtStep, NoWrite
<1>2. PICK v \in Views(r) :
        Goes(r, "unlock") \/ (i \in Finished(v, run[r].plan) /\ StepDone(r, i))
  BY DEF TransactionalReads
<1>3. CASE Goes(r, "unlock")
  <2>1. faults' \in 0..MaxFaults
    BY <1>1 DEF RunnerInv, Typed
  <2> QED
    BY <1>1, <1>3, <2>1, GoesHolds
<1>4. CASE i \in Finished(v, run[r].plan) /\ StepDone(r, i)
  <2>1. Writer(r) => log[run[r].plan][i] = "finished"
    BY <1>4, WriterSees DEF Finished, Tables
  <2> QED
    BY <1>1, <1>4, <2>1, SkipHolds
<1> QED
  BY <1>2, <1>3, <1>4

-----------------------------------------------------------------------------
(* Where a plan in progress is. *)

(* A run that may write is at the first step that has not finished.           *)
LEMMA AtFirst ==
  ASSUME RunnerInv, NEW r \in Runners, NEW p \in Plans, p = run[r].plan,
         Busy(r), Writer(r), run[r].left # {}, row.plan = p,
         NEW i, i = First(run[r].left), log[p][i] # "finished"
  PROVE  i \in Steps(p) /\ i \in run[r].left /\ PlacedAt(p, i - 1)
           /\ i - 1 \in 0..Length[p] /\ (i > Expands[p] => \A j \in ExpandSteps(p) : log[p][j] = "finished")
<1>1. /\ Expands[p] \in Nat /\ Length[p] \in Nat /\ Steps(p) \subseteq Nat
      /\ run[r].left \subseteq Steps(p) /\ run[r].phase \in Phases
  BY LengthType, PlanOf DEF Busy
<1>2. i \in run[r].left /\ \A j \in run[r].left : i <= j
  BY <1>1, FirstOf
<1>3. i \in 1..Length[p]
  BY <1>1, <1>2 DEF Steps
<1>4. ASSUME NEW j \in Steps(p), j < i PROVE log[p][j] = "finished"
  <2>1. j \notin run[r].left
    BY <1>1, <1>2, <1>3, <1>4
  <2>2. RunHolds(r)
    BY DEF RunnerInv
  <2>3. j \in Done(r) \/ (run[r].phase = "contract" /\ j \in ExpandSteps(p))
    <3>1. i \in PhaseSteps(p, run[r].phase)
      BY <1>2, <2>2 DEF RunHolds, Busy
    <3>2. j \in PhaseSteps(p, run[r].phase) \/ (run[r].phase = "contract" /\ j \in ExpandSteps(p))
      BY <1>1, <1>3, <1>4, <3>1 DEF PhaseSteps, Phases, Steps, ExpandSteps
    <3> QED
      BY <2>1, <3>2 DEF Done
  <2> QED
    BY <2>2, <2>3 DEF RunHolds
<1>5. PICK n \in 0..Length[p] : PlacedAt(p, n)
  BY MigrationAssumption DEF RunnerInv, TablesHold, InPlace
<1>6. n = i - 1
  <2>1. ~ (i <= n)
    BY <1>3, <1>5 DEF PlacedAt, Steps
  <2>2. ~ (n + 1 < i)
    <3> SUFFICES ASSUME n + 1 < i PROVE FALSE
      OBVIOUS
    <3>1. n + 1 \in Steps(p) /\ n + 1 > n
      BY <1>1, <1>3, <1>5 DEF Steps
    <3> QED
      BY <1>4, <1>5, <3>1 DEF PlacedAt
  <2> QED
    BY <1>3, <1>5, <2>1, <2>2
<1>7. i > Expands[p] => \A j \in ExpandSteps(p) : log[p][j] = "finished"
  <2> SUFFICES ASSUME i > Expands[p], NEW j \in ExpandSteps(p) PROVE log[p][j] = "finished"
    OBVIOUS
  <2>1. j \in Steps(p) /\ j < i
    BY <1>1, <1>3, LengthType DEF ExpandSteps
  <2> QED
    BY <1>4, <2>1
<1> QED
  BY <1>2, <1>3, <1>5, <1>6, <1>7 DEF Steps

(* With no contract step of an expanded plan begun, the database holds the    *)
(* model that was recorded for it.                                            *)
LEMMA Recorded == RunnerInv => RecordedModelHeld
<1> SUFFICES ASSUME RunnerInv, row.phase = "expanded", row.plan # NoPlan,
                    ~ ContractStarted(Tables)
             PROVE  schema = <<"at", row.model>>
  BY DEF RecordedModelHeld, RunnerInv, TablesHold, InPlace
<1> DEFINE p == row.plan
<1>1. p \in Plans /\ RowHolds /\ row.model = Expanded[p] /\ row.model # NoModel
  BY MigrationAssumption DEF RunnerInv, Typed, TablesHold, RowHolds
<1>2. /\ Expands[p] \in Nat /\ Length[p] \in Nat /\ Expands[p] < Length[p]
      /\ \A i \in ExpandSteps(p) : log[p][i] = "finished"
  BY <1>1, LengthType DEF RowHolds
<1>3. PICK n \in 0..Length[p] : PlacedAt(p, n)
  BY DEF RunnerInv, TablesHold, InPlace
<1>4. \A i \in Steps(p) \ ExpandSteps(p) : log[p][i] = "none"
  BY DEF ContractStarted, Tables
<1>5. Expands[p] + 1 \in Steps(p) \ ExpandSteps(p)
  BY <1>2 DEF Steps, ExpandSteps
<1>6. n = Expands[p]
  <2>1. ~ (Expands[p] < n)
    <3> SUFFICES ASSUME Expands[p] < n PROVE FALSE
      OBVIOUS
    <3>1. Expands[p] + 1 <= n
      BY <1>2, <1>3
    <3> QED
      BY <1>3, <1>4, <1>5, <3>1 DEF PlacedAt
  <2>2. ~ (n < Expands[p])
    <3> SUFFICES ASSUME n < Expands[p] PROVE FALSE
      OBVIOUS
    <3>1. n + 1 \in ExpandSteps(p) /\ n + 1 \in Steps(p) /\ n + 1 > n
      BY <1>2, <1>3 DEF Steps, ExpandSteps
    <3> QED
      BY <1>2, <1>3, <3>1 DEF PlacedAt
  <2> QED
    BY <1>2, <1>3, <2>1, <2>2
<1>7. schema = At(p, Expands[p])
  BY <1>3, <1>4, <1>5, <1>6 DEF PlacedAt
<1>8. Expands[p] = 0 => Expanded[p] = From[p]
  BY <1>1, MigrationAssumption
<1> QED
  BY <1>1, <1>2, <1>7, <1>8 DEF At

(* The next step takes the plan a place on.                                   *)
LEMMA NextPlace ==
  ASSUME log \in LogType, NEW p \in Plans, NEW i \in Steps(p), PlacedAt(p, i - 1),
         log' = [log EXCEPT ![p][i] = "finished"], schema' = At(p, i)
  PROVE  PlacedAt(p, i)' /\ i \in 0..Length[p]
<1>1. /\ log'[p][i] = "finished"
      /\ \A j \in Steps(p) : j # i => log'[p][j] = log[p][j]
  BY Marked DEF Marks
<1>2. i \in 1..Length[p] /\ \A j \in Steps(p) : j \in 1..Length[p]
  BY DEF Steps
<1>3. ASSUME NEW j \in Steps(p)
      PROVE  /\ j <= i => log'[p][j] = "finished"
             /\ j > i => log'[p][j] = "none"
  <2>1. /\ j <= i - 1 => log[p][j] = "finished"
        /\ j > i => log[p][j] = "none"
    BY <1>2, LengthType DEF PlacedAt
  <2>2. j <= i => j <= i - 1 \/ j = i
    BY <1>2, LengthType
  <2>3. i \in Int /\ j \in Int
    BY <1>2, LengthType
  <2> QED
    BY <1>1, <2>1, <2>2, <2>3
<1>4. i + 1 \in Steps(p) => log'[p][i + 1] = "none"
  BY <1>2, <1>3, LengthType
<1>5. \A j \in Steps(p) : j > i + 1 => j > i
  BY <1>2, LengthType
<1> QED
  BY <1>2, <1>3, <1>4, <1>5, LengthType DEF PlacedAt
-----------------------------------------------------------------------------
(* The steps that write. *)

(* What a write leaves of the plan in progress: its place, and a state row    *)
(* that says as much.                                                         *)
LEMMA AdvancedHolds ==
  ASSUME NeverReturns, RunnerInv, driver' = driver, NEW p \in Plans, row.plan = p,
         log' \in LogType, \A q \in Plans : q # p => log'[q] = log[q],
         \A i \in Steps(p) : log[p][i] = "finished" => log'[p][i] = "finished",
         NEW n \in 0..Length[p], PlacedAt(p, n)',
         NEW done, done = {i \in Steps(p) : log'[p][i] = "finished"},
         row' = Advanced(row, p, done)
  PROVE  row' \in RowType /\ TablesHold'
<1>1. /\ Expands[p] \in Nat /\ Length[p] \in Nat /\ Expands[p] <= Length[p]
      /\ ExpandSteps(p) \subseteq Steps(p) /\ p # NoPlan
  BY LengthType, MigrationAssumption
<1>2. /\ p \in Applied[driver] /\ row \in RowType /\ driver \in Drivers
      /\ IF row.phase = "expanded" THEN row.model = Expanded[p] /\ row.model # NoModel
                                   ELSE row.model = From[p]
      /\ row.phase # "none" =>
            /\ Expands[p] < Length[p]
            /\ \A i \in ExpandSteps(p) : log[p][i] = "finished"
  BY <1>1 DEF RunnerInv, Typed, TablesHold, RowHolds
<1>3. CASE ~ Advances(row, p, done)
  <2>1. row' = row
    BY <1>3 DEF Advanced, Advances
  <2>2. RowHolds'
    BY <1>1, <1>2, <2>1 DEF RowHolds
  <2>3. InPlace'
    BY <1>1, <2>1 DEF InPlace
  <2>4. LeftBehind'
    BY <1>2, <2>1, MigrationAssumption DEF RunnerInv, TablesHold, LeftBehind
  <2> QED
    BY <1>2, <2>1, <2>2, <2>3, <2>4 DEF TablesHold
<1>4. CASE Steps(p) \subseteq done
  <2>1. row' = [model |-> To[p], plan |-> NoPlan, phase |-> "none"]
    BY <1>4 DEF Advanced, Advances
  <2>2. row' \in RowType /\ RowHolds'
    BY <2>1, ModelsOf DEF RowType, RowHolds
  <2>3. InPlace'
    <3>1. ~ (n < Length[p])
      <4> SUFFICES ASSUME n < Length[p] PROVE FALSE
        OBVIOUS
      <4>1. n + 1 \in Steps(p) /\ n + 1 > n
        BY <1>1 DEF Steps
      <4> QED
        BY <1>4, <4>1 DEF PlacedAt
    <3>2. n = Length[p] /\ n + 1 \notin Steps(p)
      BY <1>1, <3>1 DEF Steps
    <3>3. schema' = At(p, n)
      BY <3>2 DEF PlacedAt
    <3>4. At(p, n) = <<"at", To[p]>>
      BY <1>1, <3>2, MigrationAssumption DEF At
    <3> QED
      BY <2>1, <3>3, <3>4 DEF InPlace
  <2>4. LeftBehind'
    <3> SUFFICES ASSUME driver = "sqlite", NEW q \in Applied["sqlite"],
                        NEW i \in Steps(q), log'[q][i] # "none"
                 PROVE  Rank[From[q]] < Rank[To[p]]
      BY <2>1 DEF LeftBehind
    <3>1. /\ Rank \in [Models -> Nat] /\ Ascends("sqlite", Rank) /\ q \in Plans
          /\ p \in Applied["sqlite"]
      BY <1>2, RankType, MigrationAssumption
    <3>2. CASE q = p
      <4>1. Length[p] # 0
        BY <1>1, <3>2 DEF Steps
      <4> QED
        BY <3>1, <3>2, <4>1 DEF Ascends
    <3>3. CASE q # p
      <4>1. Rank[From[q]] < Rank[row.model]
        BY <1>2, <3>1, <3>3 DEF RunnerInv, TablesHold, LeftBehind
      <4>2. Rank[row.model] <= Rank[To[p]]
        <5>1. Rank[From[p]] \in Nat /\ Rank[To[p]] \in Nat
          BY <3>1, ModelsOf
        <5>2. Rank[From[p]] <= Rank[To[p]]
          BY <3>1, <5>1 DEF Ascends
        <5>3. row.phase = "expanded" => Rank[row.model] <= Rank[To[p]]
          BY <1>2, <3>1 DEF Ascends
        <5> QED
          BY <1>2, <5>2, <5>3
      <4>3. Rank[From[q]] \in Nat /\ Rank[row.model] \in Nat /\ Rank[To[p]] \in Nat
        BY <1>2, <3>1, ModelsOf DEF RowType
      <4> QED
        BY <4>1, <4>2, <4>3
    <3> QED
      BY <3>2, <3>3
  <2> QED
    BY <2>2, <2>3, <2>4 DEF TablesHold
<1>5. CASE ~ (Steps(p) \subseteq done) /\ Advances(row, p, done)
  <2>1. ExpandSteps(p) \subseteq done /\ row.phase = "none"
    BY <1>5 DEF Advances
  <2>2. row' = IF Expanded[p] = NoModel THEN [row EXCEPT !.phase = "expand"]
               ELSE [row EXCEPT !.phase = "expanded", !.model = Expanded[p]]
    BY <1>5 DEF Advanced
  <2>3. /\ row'.plan = p /\ row'.phase \in {"expand", "expanded"} /\ row' \in RowType
        /\ IF row'.phase = "expanded" THEN row'.model = Expanded[p] /\ row'.model # NoModel
                                      ELSE row'.model = From[p]
    BY <1>2, <2>1, <2>2, ModelsOf DEF RowType
  <2>4. Expands[p] < Length[p]
    <3> SUFFICES ASSUME Expands[p] = Length[p] PROVE FALSE
      BY <1>1
    <3> QED
      BY <1>5, <2>1 DEF Steps, ExpandSteps
  <2>5. RowHolds'
    <3>1. \A i \in ExpandSteps(p) : log'[p][i] = "finished"
      BY <2>1
    <3>2. row'.plan # NoPlan /\ row'.plan \in Applied[driver'] /\ row'.plan = p
      BY <1>1, <1>2, <2>3
    <3>3. /\ Expands[row'.plan] < Length[row'.plan]
          /\ \A i \in ExpandSteps(row'.plan) : log'[row'.plan][i] = "finished"
      BY <2>4, <3>1, <3>2
    <3>4. IF row'.phase = "expanded" THEN row'.model = Expanded[row'.plan] /\ row'.model # NoModel
                                     ELSE row'.model = From[row'.plan]
      BY <2>3
    <3> QED
      BY <3>2, <3>3, <3>4 DEF RowHolds
  <2>6. InPlace'
    BY <1>1, <2>3 DEF InPlace
  <2>7. LeftBehind'
    <3> SUFFICES ASSUME driver = "sqlite", NEW q \in Applied["sqlite"], q # p,
                        NEW i \in Steps(q), log'[q][i] # "none"
                 PROVE  Rank[From[q]] < Rank[row'.model]
      BY <2>3 DEF LeftBehind
    <3>1. /\ Rank \in [Models -> Nat] /\ Ascends("sqlite", Rank) /\ q \in Plans
          /\ p \in Applied["sqlite"]
      BY <1>2, RankType, MigrationAssumption
    <3>2. Rank[From[q]] < Rank[row.model]
      BY <1>2, <3>1 DEF RunnerInv, TablesHold, LeftBehind
    <3>3. row.model = From[p]
      BY <1>2, <2>1
    <3>4. Rank[From[q]] \in Nat /\ Rank[From[p]] \in Nat /\ Rank[row'.model] \in Nat
      BY <2>3, <3>1, ModelsOf DEF RowType
    <3>5. Rank[From[p]] <= Rank[row'.model]
      BY <2>3, <3>1, <3>4 DEF Ascends
    <3> QED
      BY <3>2, <3>3, <3>4, <3>5
  <2> QED
    BY <2>3, <2>5, <2>6, <2>7 DEF TablesHold
<1> QED
  BY <1>3, <1>4, <1>5

(* A batch of a runner that may write leaves it so.                           *)
LEMMA FencedStays ==
  ASSUME RunnerInv, NEW r \in Runners, run[r].pc \notin {"idle", "lock"}, Fenced(r)
  PROVE  Writer(r) /\ owner' = owner /\ leased' \in BOOLEAN /\ UNCHANGED <<runs, faults>>
BY MayWrite DEF Fenced

LEMMA StartHolds ==
  ASSUME NeverReturns, RunnerInv, driver' = driver, NEW r \in Runners, StartPlan(r),
         NEW p \in Plans, p = run[r].plan
  PROVE  RunnerInv'
<1>1. /\ run[r].pc = "decide" /\ run[r].phase # "contract" /\ Fenced(r) /\ Goes(r, "steps")
      /\ schema' = schema
  BY DEF StartPlan
<1>2. Writer(r) /\ owner' = owner /\ leased' \in BOOLEAN /\ UNCHANGED <<runs, faults>>
  BY <1>1, FencedStays
<1>3. p \in Plans /\ p \in Applied[driver] /\ p # NoPlan
  BY <1>1, PlanOf, MigrationAssumption
<1>4. /\ Decision(Tables, p) \in {"start", "supersede"}
      /\ row' = [row EXCEPT !.plan = p, !.phase = "none"]
      /\ log' = [log EXCEPT ![p] = Unlogged(p)]
  BY <1>2, WriterSees DEF StartPlan
<1>5. /\ row.model = From[p] /\ row.plan # p
      /\ row.plan = NoPlan \/ (row.phase = "expanded" /\ ~ ContractStarted(Tables))
  <2>1. Tables.row = row
    BY DEF Tables
  <2> QED
    BY <1>4, <2>1, <1>3 DEF Decision
<1>6. schema = <<"at", From[p]>>
  BY <1>5, Recorded DEF RecordedModelHeld
<1>7. /\ run' \in [Runners -> RunType]
      /\ \A q \in Runners : q # r => run'[q] = run[q]
      /\ run'[r].pc = "steps" /\ run'[r].read = {} /\ run'[r].left = run[r].left
      /\ run'[r].plan = run[r].plan /\ run'[r].phase = run[r].phase
  BY <1>1, GoesTo DEF RunnerInv, Places
<1>8. /\ log' \in LogType /\ \A q \in Plans : q # p => log'[q] = log[q]
      /\ \A i \in Steps(p) : log'[p][i] = "none"
  <2>1. log \in LogType
    BY DEF RunnerInv, Typed
  <2>2. Unlogged(p) \in [Steps(p) -> Marks] /\ \A i \in Steps(p) : Unlogged(p)[i] = "none"
    BY <1>3, LengthType DEF Unlogged
  <2>3. log'[p] = Unlogged(p) /\ \A q \in Plans : q # p => log'[q] = log[q]
    BY <1>3, <1>4, <2>1 DEF LogType
  <2> QED
    BY <1>3, <1>4, <2>1, <2>2, <2>3, LogWith
<1>9. /\ row' \in RowType /\ row'.plan = p /\ row'.phase = "none" /\ row'.model = From[p]
  BY <1>3, <1>4, <1>5 DEF RunnerInv, Typed, RowType
<1>10. Typed'
  BY <1>2, <1>7, <1>8, <1>9, <1>1 DEF RunnerInv, Typed
<1>11. RowHolds'
  BY <1>3, <1>9 DEF RowHolds
<1>12. InPlace'
  <2>1. Length[p] \in Nat
    BY <1>3, LengthType
  <2>2. PlacedAt(p, 0)'
    <3>1. schema' = At(p, 0)
      BY <1>1, <1>6 DEF At
    <3>2. \A i \in Steps(p) : i \in Nat /\ i > 0
      BY <2>1 DEF Steps
    <3> QED
      BY <1>8, <3>1, <3>2 DEF PlacedAt
  <2> QED
    BY <1>3, <1>9, <2>1, <2>2 DEF InPlace
<1>13. LeftBehind'
  <2> SUFFICES ASSUME driver = "sqlite", NEW q \in Applied["sqlite"], q # p,
                      NEW i \in Steps(q), log'[q][i] # "none"
               PROVE  Rank[From[q]] < Rank[From[p]]
    BY <1>9 DEF LeftBehind
  <2>1. /\ Rank \in [Models -> Nat] /\ Ascends("sqlite", Rank) /\ q \in Plans
    BY RankType, MigrationAssumption DEF RunnerInv, Typed
  <2>2. log[q][i] # "none"
    BY <1>8, <2>1
  <2>3. CASE q # row.plan
    BY <1>5, <2>2, <2>3 DEF RunnerInv, TablesHold, LeftBehind
  <2>4. CASE q = row.plan
    <3>1. row.phase = "expanded" /\ ~ ContractStarted(Tables)
      BY <1>5, <2>1, <2>4, MigrationAssumption
    <3>2. i \in ExpandSteps(q)
      BY <2>2, <2>4, <3>1 DEF ContractStarted, Tables
    <3>3. Expands[q] # 0
      BY <3>2 DEF ExpandSteps
    <3>4. row.model = Expanded[q] /\ row.model # NoModel
      BY <2>1, <2>4, <3>1, MigrationAssumption DEF RunnerInv, TablesHold, RowHolds
    <3> QED
      BY <1>5, <2>1, <3>3, <3>4 DEF Ascends
  <2> QED
    BY <2>3, <2>4
<1>14. driver = "sqlite" =>
         \A q \in Plans : \A i \in Steps(q) : log[q][i] = "finished" => log'[q][i] = "finished"
  <2> SUFFICES ASSUME driver = "sqlite", NEW q \in Plans, NEW i \in Steps(q),
                      log[q][i] = "finished", q = p
               PROVE  FALSE
    BY <1>8
  <2>1. Rank[From[p]] < Rank[row.model]
    BY <1>3, <1>5 DEF RunnerInv, TablesHold, LeftBehind
  <2>2. Rank[From[p]] \in Nat
    BY <1>3, RankType, ModelsOf DEF RunnerInv, Typed
  <2> QED
    BY <1>5, <2>1, <2>2
<1>15. ASSUME NEW q \in Runners, q # r PROVE RunHolds(q)'
  BY <1>2, <1>7, <1>14, <1>15, OthersHold
<1>16. RunHolds(r)'
  <2>1. RunHolds(r) /\ Done(r) = {} /\ Done(r)' = {}
    BY <1>1, <1>7 DEF RunnerInv, RunHolds, Done
  <2> QED
    BY <1>1, <1>2, <1>7, <1>9, <2>1 DEF RunHolds, Busy
<1> QED
  BY <1>10, <1>11, <1>12, <1>13, <1>15, <1>16 DEF RunnerInv, TablesHold

(* A step finishes: in a transaction with its statements, or after them.      *)
LEMMA FinishHolds ==
  ASSUME NeverReturns, RunnerInv, driver' = driver, NEW r \in Runners,
         NEW p \in Plans, p = run[r].plan, NEW i, i = First(run[r].left),
         Busy(r), Writer(r), run[r].left # {}, row.plan = p, log[p][i] # "finished",
         owner' = owner, leased' \in BOOLEAN, UNCHANGED <<runs, faults>>,
         log' = [log EXCEPT ![p][i] = "finished"], schema' = At(p, i),
         row' = Advanced(row, p, Finished(Tables, p) \cup {i}), StepDone(r, i)
  PROVE  RunnerInv'
<1>1. i \in Steps(p) /\ i \in run[r].left /\ PlacedAt(p, i - 1)
  BY AtFirst
<1>2. PlacedAt(p, i)' /\ i \in 0..Length[p]
  BY <1>1, NextPlace DEF RunnerInv, Typed
<1>3. /\ log' \in LogType /\ log'[p][i] = "finished"
      /\ \A q \in Plans : q # p => log'[q] = log[q]
      /\ \A j \in Steps(p) : j # i => log'[p][j] = log[p][j]
  <2>1. log \in LogType /\ "finished" \in Marks
    BY DEF RunnerInv, Typed, Marks
  <2> QED
    BY <1>1, <2>1, Marked
<1> DEFINE done == Finished(Tables, p) \cup {i}
<1>4. done = {j \in Steps(p) : log'[p][j] = "finished"}
  BY <1>1, <1>3 DEF Finished, Tables
<1>5. \A q \in Plans : \A j \in Steps(q) : log[q][j] = "finished" => log'[q][j] = "finished"
  BY <1>3
<1> HIDE DEF done
<1>6. row' = Advanced(row, p, done)
  BY DEF done
<1>7. row' \in RowType /\ TablesHold'
  BY <1>2, <1>3, <1>4, <1>5, <1>6, AdvancedHolds
<1>8. /\ run' \in [Runners -> RunType]
      /\ \A q \in Runners : q # r => run'[q] = run[q]
      /\ run'[r].pc = "steps" /\ run'[r].read = {} /\ run'[r].left = run[r].left \ {i}
      /\ run'[r].plan = run[r].plan /\ run'[r].phase = run[r].phase
  BY StepDoneTo DEF RunnerInv
<1>9. Typed'
  <2>1. schema' = schema' /\ driver' \in Drivers /\ owner' \in Runners \cup {NoRunner}
          /\ runs' \in 0..MaxRuns /\ faults' \in 0..MaxFaults
    BY DEF RunnerInv, Typed
  <2> QED
    BY <1>3, <1>7, <1>8, <2>1 DEF Typed
<1>10. ASSUME NEW q \in Runners, q # r PROVE RunHolds(q)'
  BY <1>5, <1>8, <1>10, OthersHold
<1>11. RunHolds(r)'
  <2>1. RunHolds(r) /\ run[r].left \subseteq Steps(p) /\ ExpandSteps(p) \subseteq Steps(p)
    BY PlanOf, LengthType DEF RunnerInv, Busy
  <2>2. \A j \in Done(r)' : (j \in Done(r) \/ j = i) /\ j \in Steps(p)
    <3>1. run[r].phase \in Phases
      BY PlanOf DEF Busy
    <3> QED
      BY <1>1, <1>8, <3>1, LengthType DEF Done
  <2>3. \A j \in Done(r)' : log'[p][j] = "finished"
    BY <1>3, <1>5, <2>1, <2>2 DEF RunHolds
  <2>4. run[r].phase = "contract" => \A j \in ExpandSteps(p) : log'[p][j] = "finished"
    BY <1>5, <2>1 DEF RunHolds
  <2>5. run'[r].left # {} => row'.plan = p
    <3> SUFFICES ASSUME NEW j \in run[r].left \ {i} PROVE row'.plan = p
      BY <1>8
    <3>1. i <= j /\ j \in Nat /\ i \in Nat
      BY <1>1, <2>1, LengthType, FirstOf
    <3>2. j > i
      BY <3>1
    <3>3. log'[p][j] # "finished"
      BY <1>2, <2>1, <3>2 DEF PlacedAt
    <3>4. ~ (Steps(p) \subseteq done)
      BY <1>4, <2>1, <3>3
    <3> QED
      BY <1>6, <3>4 DEF Advanced, Advances, RunnerInv, Typed, RowType
  <2>6. driver = "postgres" => owner = r
    BY <2>1 DEF RunHolds, Busy
  <2> QED
    BY <1>8, <2>1, <2>3, <2>4, <2>5, <2>6 DEF RunHolds, Busy
<1> QED
  BY <1>7, <1>9, <1>10, <1>11 DEF RunnerInv

LEMMA TransactionalHolds ==
  ASSUME NeverReturns, RunnerInv, driver' = driver, NEW r \in Runners, NEW i,
         TransactionalStep(r, i)
  PROVE  RunnerInv'
<1>1. /\ run[r].pc = "steps" /\ run[r].left # {} /\ i = First(run[r].left)
      /\ Fenced(r) /\ StepDone(r, i)
  BY DEF TransactionalStep, AtStep
<1>2. Writer(r) /\ owner' = owner /\ leased' \in BOOLEAN /\ UNCHANGED <<runs, faults>>
  BY <1>1, FencedStays
<1>3. PICK p \in Plans : p = run[r].plan
  BY <1>1, PlanOf
<1>4. /\ row.plan = p /\ log[p][i] = "none" /\ schema' = RunOn(schema, p, i)
      /\ log' = [log EXCEPT ![p][i] = "finished"]
      /\ row' = Advanced(row, p, Finished(Tables, p) \cup {i})
  BY <1>2, <1>3, WriterSees DEF TransactionalStep, Tables
<1>5. Busy(r)
  BY <1>1 DEF Busy
<1>6. i \in Steps(p) /\ PlacedAt(p, i - 1)
  BY <1>1, <1>2, <1>3, <1>4, <1>5, AtFirst
<1>7. schema' = At(p, i)
  <2>1. (i - 1) + 1 = i
    BY <1>6, LengthType
  <2> QED
    BY <1>4, <1>6, <2>1 DEF PlacedAt, RunOn
<1> QED
  BY <1>1, <1>2, <1>3, <1>4, <1>5, <1>7, FinishHolds

LEMMA SessionEndsHold ==
  ASSUME NeverReturns, RunnerInv, driver' = driver, NEW r \in Runners, SessionEnds(r)
  PROVE  RunnerInv'
<1>1. PICK p \in Plans : p = run[r].plan
  BY PlanOf DEF SessionEnds
<1> DEFINE i == First(run[r].left)
<1>2. /\ run[r].pc = "statements" /\ UNCHANGED <<schema, owner, leased, runs, faults>>
      /\ log' = [log EXCEPT ![p][i] = "finished"]
      /\ row' = Advanced(row, p, Finished(Tables, p) \cup {i})
      /\ StepDone(r, i)
  BY <1>1 DEF SessionEnds
<1>3. /\ RunHolds(r) /\ leased \in BOOLEAN
      /\ driver = "postgres" /\ run[r].left # {} /\ log[p][i] = "started"
      /\ schema = At(p, i) /\ owner = r
  BY <1>1, <1>2 DEF RunnerInv, Typed, RunHolds
<1>4. Busy(r) /\ Writer(r) /\ row.plan = p
  BY <1>1, <1>2, <1>3 DEF RunHolds, Busy, Writer
<1>5. schema' = At(p, i)
  BY <1>2, <1>3
<1> QED
  BY <1>1, <1>2, <1>3, <1>4, <1>5, FinishHolds

(* A write that leaves the state row, and its plan as far along as it was.    *)
LEMMA SameRow ==
  ASSUME RunnerInv, driver' = driver, row' = row, NEW p \in Plans, row.plan = p,
         driver = "postgres",
         \A i \in Steps(p) : log[p][i] = "finished" => log'[p][i] = "finished",
         NEW n \in 0..Length[p], PlacedAt(p, n)'
  PROVE  TablesHold'
<1>1. p # NoPlan /\ ExpandSteps(p) \subseteq Steps(p)
  BY MigrationAssumption, LengthType
<1>2. RowHolds'
  <2>1. RowHolds
    BY DEF RunnerInv, TablesHold
  <2>2. row.phase # "none" =>
          /\ Expands[p] < Length[p]
          /\ \A i \in ExpandSteps(p) : log'[p][i] = "finished"
    BY <1>1, <2>1 DEF RowHolds
  <2> QED
    BY <1>1, <2>1, <2>2 DEF RowHolds
<1>3. InPlace'
  BY <1>1 DEF InPlace
<1> QED
  BY <1>2, <1>3 DEF TablesHold, LeftBehind

LEMMA SessionStartsHold ==
  ASSUME RunnerInv, driver' = driver, NEW r \in Runners, NEW i, SessionStarts(r, i)
  PROVE  RunnerInv'
<1>1. PICK p \in Plans : p = run[r].plan
  BY PlanOf DEF SessionStarts, AtStep
<1>2. /\ run[r].pc = "steps" /\ run[r].left # {} /\ i = First(run[r].left)
      /\ driver = "postgres" /\ i \in Sessions[p]
      /\ UNCHANGED <<row, owner, leased, runs, faults>>
  BY <1>1 DEF SessionStarts, AtStep, OutsideTx
<1>3. Busy(r) /\ owner = r /\ Writer(r) /\ RunHolds(r)
  BY <1>2 DEF Busy, Writer, RunnerInv, RunHolds
<1>4. row.plan = p /\ i \in Steps(p)
  <2>1. i \in run[r].left /\ run[r].left \subseteq Steps(p)
    BY <1>1, <1>2, PlanOf, LengthType, FirstOf
  <2> QED
    BY <1>1, <1>2, <1>3, <2>1 DEF RunHolds
<1>5. log \in LogType /\ log[p] \in [Steps(p) -> Marks]
  BY LogOf DEF RunnerInv, Typed
<1>6. CASE log[p][i] = "finished"
  <2>1. StepDone(r, i) /\ UNCHANGED <<log, schema>>
    BY <1>1, <1>6 DEF SessionStarts
  <2> QED
    BY <1>1, <1>2, <1>4, <1>6, <2>1, SkipHolds
<1>7. CASE log[p][i] # "finished"
  <2>1. PlacedAt(p, i - 1) /\ i - 1 \in 0..Length[p]
    BY <1>1, <1>2, <1>3, <1>4, <1>7, AtFirst
  <2>2. i \in Nat /\ (i - 1) + 1 = i /\ \A j \in Steps(p) : j \in Nat
    BY <1>4, LengthType
  <2>3. Goes(r, "session") /\ schema' = At(p, i - 1)
        /\ log' = [log EXCEPT ![p][i] = "started"]
    <3>1. CASE log[p][i] = "started"
      <4>1. Goes(r, "session") /\ schema' = Recovered(schema, p, i) /\ log' = log
        BY <1>1, <3>1 DEF SessionStarts
      <4>2. schema \in {At(p, i - 1), Half(p, i), At(p, i)}
        BY <1>4, <2>1, <2>2, <3>1 DEF PlacedAt
      <4>3. [log EXCEPT ![p][i] = "started"] = log
        BY <1>4, <1>5, <3>1 DEF LogType
      <4> QED
        BY <4>1, <4>2, <4>3 DEF Recovered
    <3>2. CASE log[p][i] = "none"
      <4>1. /\ Goes(r, "session") /\ log' = [log EXCEPT ![p][i] = "started"]
            /\ schema' = schema
        BY <1>1, <3>2 DEF SessionStarts
      <4>2. schema = At(p, i - 1)
        BY <2>1, <2>2, <3>2 DEF PlacedAt
      <4> QED
        BY <4>1, <4>2
    <3> QED
      BY <1>4, <1>5, <1>7, <3>1, <3>2 DEF Marks
  <2>4. /\ log' \in LogType /\ log'[p][i] = "started"
        /\ \A q \in Plans : q # p => log'[q] = log[q]
        /\ \A j \in Steps(p) : j # i => log'[p][j] = log[p][j]
    BY <1>4, <1>5, <2>3, Marked DEF Marks
  <2>5. /\ run' \in [Runners -> RunType]
        /\ \A q \in Runners : q # r => run'[q] = run[q]
        /\ run'[r].pc = "session" /\ run'[r].read = {} /\ run'[r].left = run[r].left
        /\ run'[r].plan = run[r].plan /\ run'[r].phase = run[r].phase
    BY <2>3, GoesTo DEF RunnerInv, Places
  <2>6. \A q \in Plans : \A j \in Steps(q) : log[q][j] = "finished" => log'[q][j] = "finished"
    BY <1>7, <2>4
  <2>7. PlacedAt(p, i - 1)'
    <3>1. \A j \in Steps(p) : /\ j <= i - 1 => j # i
                              /\ j > (i - 1) + 1 => j # i
      BY <2>2
    <3> QED
      BY <2>1, <2>2, <2>3, <2>4, <3>1 DEF PlacedAt
  <2>8. TablesHold'
    BY <1>2, <1>4, <2>1, <2>6, <2>7, SameRow
  <2>9. Typed'
    BY <1>2, <2>4, <2>5 DEF RunnerInv, Typed
  <2>10. ASSUME NEW q \in Runners, q # r PROVE RunHolds(q)'
    BY <1>2, <1>3, <2>5, <2>6, <2>10, OthersHold
  <2>11. RunHolds(r)'
    <3>1. \A j \in Done(r) : log'[p][j] = "finished"
      <4>1. \A j \in Done(r) : j \in Steps(p)
        BY <1>1, <1>3, PlanOf, LengthType DEF Done, Busy
      <4> QED
        BY <1>1, <1>3, <2>6, <4>1 DEF RunHolds
    <3>2. run[r].phase = "contract" => \A j \in ExpandSteps(p) : log'[p][j] = "finished"
      BY <1>1, <1>3, <2>6, LengthType DEF RunHolds
    <3>3. Done(r)' = Done(r)
      BY <2>5 DEF Done
    <3> QED
      BY <1>1, <1>2, <1>3, <1>4, <2>3, <2>4, <2>5, <3>1, <3>2, <3>3 DEF RunHolds, Busy
  <2> QED
    BY <2>8, <2>9, <2>10, <2>11 DEF RunnerInv
<1> QED
  BY <1>6, <1>7

LEMMA SessionStatementHolds ==
  ASSUME RunnerInv, driver' = driver, NEW r \in Runners, SessionStatement(r)
  PROVE  RunnerInv'
<1>1. PICK p \in Plans : p = run[r].plan
  BY PlanOf DEF SessionStatement
<1>2. PICK i : i = First(run[r].left)
  OBVIOUS
<1>3. /\ run[r].pc = "session" /\ UNCHANGED <<row, log, owner, leased, runs, faults>>
      /\ \/ schema = At(p, i - 1) /\ schema' = Half(p, i) /\ run' = run
         \/ /\ schema' = IF schema = Half(p, i) THEN At(p, i) ELSE RunOn(schema, p, i)
            /\ Goes(r, "statements")
  BY <1>1, <1>2 DEF SessionStatement
<1>4. /\ RunHolds(r) /\ driver = "postgres" /\ run[r].left # {} /\ log[p][i] = "started"
      /\ schema \in {At(p, i - 1), Half(p, i)} /\ owner = r
  BY <1>1, <1>2, <1>3 DEF RunnerInv, RunHolds
<1>5. Busy(r) /\ Writer(r) /\ row.plan = p
  BY <1>1, <1>3, <1>4 DEF RunHolds, Busy, Writer
<1>6. i \in Steps(p) /\ PlacedAt(p, i - 1) /\ i - 1 \in 0..Length[p]
  BY <1>1, <1>2, <1>4, <1>5, AtFirst
<1>7. (i - 1) + 1 = i
  BY <1>6, LengthType
<1>8. /\ run' \in [Runners -> RunType]
      /\ \A q \in Runners : q # r => run'[q] = run[q]
      /\ run'[r].left = run[r].left
      /\ run'[r].plan = run[r].plan /\ run'[r].phase = run[r].phase
      /\ \/ run'[r].pc = "session" /\ schema' = Half(p, i)
         \/ run'[r].pc = "statements" /\ schema' = At(p, i)
  <2>1. CASE schema' = Half(p, i) /\ run' = run
    BY <1>3, <2>1 DEF RunnerInv, Typed
  <2>2. CASE /\ schema' = IF schema = Half(p, i) THEN At(p, i) ELSE RunOn(schema, p, i)
             /\ Goes(r, "statements")
    BY <1>4, <2>2, GoesTo DEF RunnerInv, Places, RunOn
  <2> QED
    BY <1>3, <2>1, <2>2
<1>9. PlacedAt(p, i - 1)'
  BY <1>3, <1>4, <1>6, <1>7, <1>8 DEF PlacedAt
<1>10. TablesHold'
  BY <1>3, <1>4, <1>5, <1>6, <1>9, SameRow
<1>11. Typed'
  BY <1>3, <1>8 DEF RunnerInv, Typed
<1>12. ASSUME NEW q \in Runners, q # r PROVE RunHolds(q)'
  BY <1>3, <1>4, <1>5, <1>8, <1>12, OthersHold
<1>13. RunHolds(r)'
  <2>1. Done(r)' = Done(r) /\ Writer(r)
    BY <1>5, <1>8 DEF Done
  <2> QED
    BY <1>1, <1>2, <1>3, <1>4, <1>5, <1>8, <2>1 DEF RunHolds, Busy
<1> QED
  BY <1>10, <1>11, <1>12, <1>13 DEF RunnerInv

LEMMA EndHolds ==
  ASSUME NeverReturns, RunnerInv, driver' = driver, NEW r \in Runners, EndRun(r)
  PROVE  RunnerInv'
<1>1. PICK p \in Plans : p = run[r].plan
  BY PlanOf DEF EndRun
<1>2. run[r].pc = "end" /\ Goes(r, "unlock") /\ UNCHANGED <<log, schema>> /\ Busy(r)
  BY DEF EndRun, Busy
<1>3. CASE UNCHANGED <<row, owner, leased, runs, faults>>
  <2>1. faults' \in 0..MaxFaults
    BY <1>3 DEF RunnerInv, Typed
  <2> QED
    BY <1>2, <1>3, <2>1, GoesHolds
<1>4. CASE /\ \E v \in Views(r) : v.row.plan = p /\ row' = Advanced(v.row, p, Finished(v, p))
           /\ Fenced(r)
  <2>1. Writer(r) /\ owner' = owner /\ leased' \in BOOLEAN /\ UNCHANGED <<runs, faults>>
    BY <1>2, <1>4, FencedStays
  <2>2. row.plan = p /\ row' = Advanced(row, p, Finished(Tables, p))
    BY <1>4, <2>1, WriterSees DEF Tables
  <2>3. PICK n \in 0..Length[p] : PlacedAt(p, n)
    BY <2>2, MigrationAssumption DEF RunnerInv, TablesHold, InPlace
  <2>4. PlacedAt(p, n)'
    BY <1>2, <2>3 DEF PlacedAt
  <2>5. PICK done : done = Finished(Tables, p)
    OBVIOUS
  <2>6. done = {i \in Steps(p) : log'[p][i] = "finished"}
    BY <1>2, <2>5 DEF Finished, Tables
  <2>7. log' \in LogType
    BY <1>2 DEF RunnerInv, Typed
  <2>8. row' \in RowType /\ TablesHold'
    BY <1>2, <2>2, <2>4, <2>5, <2>6, <2>7, AdvancedHolds
  <2>9. /\ run' \in [Runners -> RunType]
        /\ \A q \in Runners : q # r => run'[q] = run[q]
        /\ run'[r].pc = "unlock" /\ run'[r].read = {} /\ run'[r].left = run[r].left
        /\ run'[r].plan = run[r].plan /\ run'[r].phase = run[r].phase
    BY <1>2, GoesTo DEF RunnerInv, Places
  <2>10. Typed'
    BY <2>1, <2>7, <2>8, <2>9 DEF RunnerInv, Typed
  <2>11. ASSUME NEW q \in Runners, q # r PROVE RunHolds(q)'
    BY <1>2, <2>1, <2>9, <2>11, OthersHold
  <2>12. RunHolds(r)'
    BY <1>2, <2>1, <2>9 DEF RunnerInv, RunHolds, Busy
  <2> QED
    BY <2>8, <2>10, <2>11, <2>12 DEF RunnerInv
<1> QED
  BY <1>1, <1>3, <1>4 DEF EndRun
-----------------------------------------------------------------------------
(* The theorems. *)

LEMMA RunnerInit == Init => RunnerInv
<1> SUFFICES ASSUME Init PROVE RunnerInv
  OBVIOUS
<1>1. log \in LogType
  <2>1. \A p \in Plans : Unlogged(p) \in [Steps(p) -> Marks]
    BY LengthType
  <2> QED
    BY <2>1 DEF Init, LogType
<1>2. Typed
  <2>1. Resting \in RunType
    BY DEF Resting, RunType, Places, Phases
  <2>2. row \in RowType
    BY MigrationAssumption DEF Init, RowType, Models
  <2>3. run \in [Runners -> RunType]
    BY <2>1 DEF Init
  <2>4. runs \in 0..MaxRuns /\ faults \in 0..MaxFaults
    BY MigrationAssumption DEF Init
  <2>5. driver \in Drivers /\ owner \in Runners \cup {NoRunner} /\ leased \in BOOLEAN
    BY DEF Init
  <2> QED
    BY <1>1, <2>2, <2>3, <2>4, <2>5 DEF Typed
<1>3. TablesHold
  <2>1. \A p \in Plans : \A i \in Steps(p) : log[p][i] = "none"
    BY DEF Init, Unlogged
  <2>2. "sqlite" \in Drivers => Applied["sqlite"] \subseteq Plans
    BY MigrationAssumption
  <2> QED
    BY <2>1, <2>2 DEF Init, TablesHold, RowHolds, InPlace, LeftBehind
<1>4. ASSUME NEW r \in Runners PROVE RunHolds(r)
  <2>1. run[r].pc = "idle" /\ owner # r
    BY MigrationAssumption DEF Init, Resting
  <2> QED
    BY <2>1 DEF RunHolds, Busy
<1> QED
  BY <1>2, <1>3, <1>4 DEF RunnerInv

LEMMA RunnerStep == NeverReturns /\ RunnerInv /\ [Next]_vars => RunnerInv'
<1> SUFFICES ASSUME NeverReturns, RunnerInv, [Next]_vars PROVE RunnerInv'
  OBVIOUS
<1>1. CASE UNCHANGED vars
  <2>1. Typed'
    BY <1>1 DEF vars, RunnerInv, Typed
  <2>2. TablesHold'
    BY <1>1, TablesStay DEF vars, RunnerInv
  <2>3. ASSUME NEW q \in Runners PROVE RunHolds(q)'
    BY <1>1 DEF vars, RunnerInv, RunHolds, Busy, Writer, Done, Tables
  <2> QED
    BY <2>1, <2>2, <2>3 DEF RunnerInv
<1>2. CASE UNCHANGED driver /\ LeaseExpires
  <2>1. Typed'
    BY <1>2 DEF LeaseExpires, RunnerInv, Typed
  <2>2. TablesHold'
    BY <1>2, TablesStay DEF LeaseExpires, RunnerInv
  <2>3. ASSUME NEW q \in Runners PROVE RunHolds(q)'
    BY <1>2 DEF LeaseExpires, RunnerInv, RunHolds, Busy, Writer, Done, Tables
  <2> QED
    BY <2>1, <2>2, <2>3 DEF RunnerInv
<1>3. ASSUME NEW r \in Runners, run[r].pc # "idle", Progress(r) PROVE RunnerInv'
  <2>1. driver' = driver /\ run[r].plan \in Plans
    BY <1>3, PlanOf DEF Progress
  <2>2. faults \in 0..MaxFaults
    BY DEF RunnerInv, Typed
  <2>3. CASE StepsOver(r)
    BY <2>1, <2>2, <2>3, GoesHolds DEF StepsOver, NoWrite, Busy
  <2>4. CASE Unlock(r)
    BY <2>1, <2>2, <2>4, RestHolds DEF Unlock
  <2>5. ASSUME NEW i \in Steps(run[r].plan),
               TransactionalReads(r, i) \/ TransactionalStep(r, i) \/ SessionStarts(r, i)
        PROVE  RunnerInv'
    BY <2>1, <2>5, TransactionalReadsHold, TransactionalHolds, SessionStartsHold
  <2> QED
    BY <1>3, <2>1, <2>3, <2>4, <2>5, ReadHolds, DecideHolds, StartHolds, SessionStatementHolds,
       SessionEndsHold, EndHolds DEF Progress
<1>4. ASSUME NEW r \in Runners, UNCHANGED driver,
             \/ \E p \in Plans, f \in {"expand", "contract", "all"} : Begin(r, p, f)
             \/ Lock(r) \/ LockGivenUp(r) \/ Fails(r) \/ StepRetries(r) \/ Crash(r)
      PROVE  RunnerInv'
  <2>1. driver' = driver /\ faults \in 0..MaxFaults
          /\ (Fault => faults' \in 0..MaxFaults)
    BY <1>4, MigrationAssumption DEF RunnerInv, Typed, Fault
  <2>2. ASSUME NEW p \in Plans, NEW f \in {"expand", "contract", "all"}, Begin(r, p, f)
        PROVE  RunnerInv'
    BY <2>1, <2>2, BeginHolds DEF Phases
  <2>3. CASE LockGivenUp(r)
    BY <2>1, <2>3, RestHolds DEF LockGivenUp, NoWrite
  <2>4. CASE Fails(r)
    <3>1. /\ run[r].pc \notin {"idle", "lock"} /\ faults' \in 0..MaxFaults /\ Goes(r, "unlock")
          /\ UNCHANGED <<row, log, schema, owner, leased, runs>>
      BY <2>1, <2>4 DEF Fails
    <3> QED
      BY <2>1, <3>1, GoesHolds
  <2>5. CASE StepRetries(r)
    BY <2>1, <2>5, GoesHolds DEF StepRetries, Busy
  <2>6. CASE Crash(r)
    BY <2>1, <2>6, RestHolds DEF Crash
  <2> QED
    BY <1>4, <2>1, <2>2, <2>3, <2>4, <2>5, <2>6, LockHolds
<1> QED
  BY <1>1, <1>2, <1>3, <1>4 DEF Next

(* A database's plans stay as they are.                                       *)
LEMMA NeverReturnsStays == NeverReturns /\ [Next]_vars => NeverReturns'
<1>1. [Next]_vars => driver' = driver
  BY DEF Next, Progress, vars
<1> QED
  BY <1>1 DEF NeverReturns

LEMMA RunnerHolds == Spec /\ NeverReturns => []RunnerInv
BY RunnerInit, RunnerStep, NeverReturnsStays, PTL DEF Spec

-----------------------------------------------------------------------------
(* The types alone, which no plan disturbs on any of the databases.           *)

Aimed(r) ==
  run[r].pc # "idle" => run[r].plan \in Plans /\ run[r].left \subseteq Steps(run[r].plan)
TypesHold == Typed /\ \A r \in Runners : Aimed(r)

LEMMA AdvancedType ==
  ASSUME row \in RowType, NEW p \in Plans, NEW st, NEW done
  PROVE  Advanced(st, p, done) \in RowType
<1>1. [model |-> To[p], plan |-> NoPlan, phase |-> "none"] \in RowType
  BY ModelsOf DEF RowType
<1>2. [row EXCEPT !.phase = "expand"] \in RowType
  BY DEF RowType
<1>3. Expanded[p] # NoModel => [row EXCEPT !.phase = "expanded", !.model = Expanded[p]] \in RowType
  BY ModelsOf DEF RowType
<1> QED
  BY <1>1, <1>2, <1>3 DEF Advanced

LEMMA LogTyped ==
  ASSUME log \in LogType, NEW p \in Plans, NEW i, NEW mark \in Marks
  PROVE  [log EXCEPT ![p][i] = mark] \in LogType
<1>1. [log[p] EXCEPT ![i] = mark] \in [Steps(p) -> Marks]
  BY LogOf
<1> QED
  BY <1>1, LogWith

LEMMA GoesTyped ==
  ASSUME TypesHold, NEW r \in Runners, run[r].pc # "idle",
         \/ \E pc \in Places : Goes(r, pc)
         \/ \E i : StepDone(r, i)
         \/ run' = [run EXCEPT ![r] = Resting]
  PROVE  run' \in [Runners -> RunType] /\ \A q \in Runners : Aimed(q)'
<1>1. /\ run' \in [Runners -> RunType]
      /\ \A q \in Runners : q # r => run'[q] = run[q]
      /\ run'[r].pc # "idle" => run'[r].plan = run[r].plan /\ run'[r].left \subseteq run[r].left
  <2>1. CASE \E pc \in Places : Goes(r, pc)
    BY <2>1, GoesTo DEF TypesHold
  <2>2. CASE \E i : StepDone(r, i)
    BY <2>2, StepDoneTo DEF TypesHold
  <2>3. CASE run' = [run EXCEPT ![r] = Resting]
    BY <2>3, Rests DEF TypesHold
  <2> QED
    BY <2>1, <2>2, <2>3
<1> QED
  BY <1>1 DEF TypesHold, Aimed

LEMMA ProgressTyped ==
  ASSUME TypesHold, NEW r \in Runners, run[r].pc # "idle", Progress(r)
  PROVE  TypesHold'
<1> DEFINE p == run[r].plan
           Kept == run' \in [Runners -> RunType] /\ \A q \in Runners : Aimed(q)'
<1>1. /\ p \in Plans /\ row \in RowType /\ log \in LogType
      /\ owner \in Runners \cup {NoRunner} /\ leased \in BOOLEAN
      /\ runs \in 0..MaxRuns /\ faults \in 0..MaxFaults
      /\ driver \in Drivers /\ driver' = driver
  BY DEF TypesHold, Aimed, Typed, Progress
<1>2. Fenced(r) => UNCHANGED <<owner, runs, faults>> /\ leased' \in BOOLEAN
  BY DEF Fenced
<1>3. \A pc \in Places : Goes(r, pc) => Kept
  BY GoesTyped
<1>4. \A i : StepDone(r, i) => Kept
  BY GoesTyped
<1>5. {"steps", "unlock", "session", "statements", "end"} \subseteq Places
  BY DEF Places
<1> HIDE DEF Kept
<1>6. CASE Read(r)
  <2> DEFINE next == [run[r] EXCEPT !.read = {Tables}]
  <2>1. /\ run' = [run EXCEPT ![r] = next]
        /\ UNCHANGED <<row, log, schema, owner, leased, runs, faults>>
    BY <1>6 DEF Read
  <2>2. run[r] \in RunType /\ {Tables} \in SUBSET TablesType
    BY <1>1 DEF TypesHold, Typed, Tables, TablesType
  <2>3. next \in RunType /\ next.pc = run[r].pc /\ next.left = run[r].left /\ next.plan = p
    BY <2>2 DEF RunType
  <2> HIDE DEF next
  <2>4. /\ run' \in [Runners -> RunType] /\ run'[r] = next
        /\ \A q \in Runners : q # r => run'[q] = run[q]
    BY <2>1, <2>3 DEF TypesHold, Typed
  <2> QED
    BY <1>1, <2>1, <2>3, <2>4 DEF TypesHold, Typed, Aimed
<1>7. CASE StartPlan(r)
  <2>1. Goes(r, "steps") /\ Fenced(r) /\ log' = [log EXCEPT ![p] = Unlogged(p)]
          /\ row' = [row EXCEPT !.plan = p, !.phase = "none"]
    BY <1>7 DEF StartPlan
  <2>2. row' \in RowType
    BY <1>1, <2>1 DEF RowType
  <2>3. log' \in LogType
    BY <1>1, <2>1, LengthType, LogWith
  <2> QED
    BY <1>1, <1>2, <1>3, <1>5, <2>1, <2>2, <2>3 DEF Kept, TypesHold, Typed
<1>8. ASSUME NEW i, TransactionalStep(r, i) PROVE TypesHold'
  <2>1. StepDone(r, i) /\ Fenced(r) /\ log' = [log EXCEPT ![p][i] = "finished"]
          /\ \E st, done : row' = Advanced(st, p, done)
    BY <1>8 DEF TransactionalStep
  <2>2. row' \in RowType
    BY <1>1, <2>1, AdvancedType
  <2>3. log' \in LogType
    BY <1>1, <2>1, LogTyped DEF Marks
  <2> QED
    BY <1>1, <1>2, <1>4, <2>1, <2>2, <2>3 DEF Kept, TypesHold, Typed
<1>9. ASSUME NEW i, SessionStarts(r, i) PROVE TypesHold'
  <2>1. UNCHANGED <<row, owner, leased, runs, faults>>
    BY <1>9 DEF SessionStarts
  <2>2. i \in Steps(p)
    BY <1>1, <1>9, MigrationAssumption DEF SessionStarts, OutsideTx, Steps
  <2>3. log[p][i] \in Marks
    BY <1>1, <2>2, LogOf
  <2>4. /\ StepDone(r, i) \/ Goes(r, "session")
        /\ log' = log \/ log' = [log EXCEPT ![p][i] = "started"]
    <3>1. CASE log[p][i] = "none"
      BY <1>9, <3>1 DEF SessionStarts
    <3>2. CASE log[p][i] = "started"
      BY <1>9, <3>2 DEF SessionStarts
    <3>3. CASE log[p][i] = "finished"
      BY <1>9, <3>3 DEF SessionStarts
    <3> QED
      BY <2>3, <3>1, <3>2, <3>3 DEF Marks
  <2>5. log' \in LogType
    <3>1. [log EXCEPT ![p][i] = "started"] \in LogType
      BY <1>1, LogTyped DEF Marks
    <3> QED
      BY <1>1, <2>4, <3>1
  <2> QED
    BY <1>1, <1>3, <1>4, <1>5, <2>1, <2>4, <2>5 DEF Kept, TypesHold, Typed
<1>10. CASE SessionEnds(r)
  <2> DEFINE i == First(run[r].left)
             done == Finished(Tables, p) \cup {i}
  <2>1. /\ log' = [log EXCEPT ![p][i] = "finished"] /\ StepDone(r, i)
        /\ row' = Advanced(row, p, done)
        /\ UNCHANGED <<schema, owner, leased, runs, faults>>
    BY <1>10 DEF SessionEnds
  <2> HIDE DEF i, done
  <2>2. row' \in RowType
    BY <1>1, <2>1, AdvancedType
  <2>3. log' \in LogType
    BY <1>1, <2>1, LogTyped DEF Marks
  <2> QED
    BY <1>1, <1>4, <2>1, <2>2, <2>3 DEF Kept, TypesHold, Typed
<1>11. CASE EndRun(r)
  <2>1. /\ Goes(r, "unlock") /\ UNCHANGED <<log, schema>>
        /\ \/ Fenced(r) /\ \E st, done : row' = Advanced(st, p, done)
           \/ UNCHANGED <<row, owner, leased, runs, faults>>
    BY <1>11 DEF EndRun
  <2>2. row' \in RowType
    BY <1>1, <2>1, AdvancedType
  <2> QED
    BY <1>1, <1>2, <1>3, <1>5, <2>1, <2>2 DEF Kept, TypesHold, Typed
<1>12. CASE SessionStatement(r)
  <2>1. /\ UNCHANGED run \/ Goes(r, "statements")
        /\ UNCHANGED <<row, log, owner, leased, runs, faults>>
    BY <1>12 DEF SessionStatement
  <2>2. UNCHANGED run => Kept
    BY DEF Kept, TypesHold, Typed, Aimed
  <2> QED
    BY <1>1, <1>3, <1>5, <2>1, <2>2 DEF Kept, TypesHold, Typed
<1>13. CASE DecideReads(r) \/ StepsOver(r) \/ \E i : TransactionalReads(r, i)
  <2>1. /\ UNCHANGED <<row, log, schema, owner, leased, runs, faults>>
        /\ Goes(r, "steps") \/ Goes(r, "unlock") \/ Goes(r, "end") \/ \E i : StepDone(r, i)
    BY <1>13 DEF DecideReads, StepsOver, TransactionalReads, NoWrite
  <2> QED
    BY <1>1, <1>3, <1>4, <1>5, <2>1 DEF Kept, TypesHold, Typed
<1>14. CASE Unlock(r)
  <2>1. Kept
    BY <1>14, GoesTyped DEF Unlock, Kept
  <2> QED
    BY <1>1, <1>14, <2>1 DEF Unlock, Frees, Kept, TypesHold, Typed
<1> QED
  BY <1>6, <1>7, <1>8, <1>9, <1>10, <1>11, <1>12, <1>13, <1>14 DEF Progress

LEMMA OtherTyped ==
  ASSUME TypesHold, NEW r \in Runners, UNCHANGED driver,
         \/ \E p \in Plans, f \in Phases : Begin(r, p, f)
         \/ Lock(r) \/ LockGivenUp(r) \/ Fails(r) \/ StepRetries(r) \/ Crash(r)
  PROVE  TypesHold'
<1>1. /\ row \in RowType /\ log \in LogType /\ driver \in Drivers
      /\ owner \in Runners \cup {NoRunner} /\ leased \in BOOLEAN
      /\ runs \in 0..MaxRuns /\ faults \in 0..MaxFaults
      /\ (Fault => faults' \in 0..MaxFaults)
  BY MigrationAssumption DEF TypesHold, Typed, Fault
<1>2. ASSUME NEW p \in Plans, NEW f \in Phases, Begin(r, p, f) PROVE TypesHold'
  <2> DEFINE next == [pc |-> "lock", plan |-> p, phase |-> f, left |-> PhaseSteps(p, f),
                      read |-> {}]
  <2>1. /\ run' = [run EXCEPT ![r] = next] /\ UNCHANGED <<row, log, schema, owner, leased, faults>>
        /\ runs < MaxRuns /\ runs' = runs + 1
    BY <1>2 DEF Begin
  <2>2. PhaseSteps(p, f) \subseteq Steps(p) /\ Steps(p) \subseteq Nat
    BY LengthType
  <2>3. next \in RunType /\ next.left \subseteq Steps(p) /\ next.plan = p
    BY <2>2 DEF RunType, Places
  <2> HIDE DEF next
  <2>4. /\ run' \in [Runners -> RunType] /\ run'[r] = next
        /\ \A q \in Runners : q # r => run'[q] = run[q]
    BY <2>1, <2>3 DEF TypesHold, Typed
  <2>5. runs' \in 0..MaxRuns
    BY <1>1, <2>1, MigrationAssumption
  <2> QED
    BY <1>1, <2>1, <2>3, <2>4, <2>5 DEF TypesHold, Typed, Aimed
<1>3. ASSUME \/ Lock(r) \/ LockGivenUp(r) \/ Fails(r) \/ StepRetries(r) \/ Crash(r)
      PROVE  TypesHold'
  <2>1. /\ UNCHANGED <<row, log, schema, runs>>
        /\ run[r].pc # "idle"
        /\ Goes(r, "decide") \/ Goes(r, "unlock") \/ Goes(r, "steps")
             \/ run' = [run EXCEPT ![r] = Resting]
    BY <1>3 DEF Lock, LockGivenUp, NoWrite, Fails, StepRetries, Crash
  <2>2. {"decide", "unlock", "steps"} \subseteq Places
    BY DEF Places
  <2>3. run' \in [Runners -> RunType] /\ \A q \in Runners : Aimed(q)'
    BY <2>1, <2>2, GoesTyped
  <2>4. owner' \in Runners \cup {NoRunner} /\ leased' \in BOOLEAN /\ faults' \in 0..MaxFaults
    <3>1. driver \in {"postgres", "sqlite", "d1"}
      BY <1>1, MigrationAssumption
    <3> QED
      BY <1>1, <1>3, <3>1 DEF Lock, LockGivenUp, NoWrite, Fails, StepRetries, Crash, Frees
  <2> QED
    BY <1>1, <2>1, <2>3, <2>4 DEF TypesHold, Typed
<1> QED
  BY <1>2, <1>3

LEMMA TypesStay == TypesHold /\ [Next]_vars => TypesHold'
<1> SUFFICES ASSUME TypesHold, [Next]_vars PROVE TypesHold'
  OBVIOUS
<1>1. CASE UNCHANGED vars
  BY <1>1 DEF vars, TypesHold, Typed, Aimed
<1>2. CASE UNCHANGED driver /\ LeaseExpires
  BY <1>2 DEF LeaseExpires, TypesHold, Typed, Aimed
<1> QED
  BY <1>1, <1>2, ProgressTyped, OtherTyped DEF Next, Phases

(* Every column and every run keeps its type on any of the databases,        *)
(* whatever plans it is given, those that return to a model too.              *)
THEOREM RunnerTypeCorrect == Spec => []TypeOK
<1>1. Init => TypesHold
  <2> SUFFICES ASSUME Init PROVE TypesHold
    OBVIOUS
  <2>1. \A r \in Runners : run[r].pc = "idle"
    BY DEF Init, Resting
  <2> QED
    BY <2>1, RunnerInit DEF RunnerInv, TypesHold, Aimed
<1>2. TypesHold => TypeOK
  <2> SUFFICES ASSUME TypesHold PROVE TypeOK
    OBVIOUS
  <2>1. \A r \in Runners : run[r] \in RunType
    BY DEF TypesHold, Typed
  <2> QED
    BY <2>1, LogOf DEF TypeOK, TypesHold, Typed, Aimed, RunType, Places
<1> QED
  BY <1>1, <1>2, TypesStay, PTL DEF Spec

-----------------------------------------------------------------------------
(* What the runner promises, on a database whose plans never return.          *)

(* Whatever runs overlap, fail or die, a step's statements run only where the *)
(* plan has them, after the steps before and after none of them twice: on     *)
(* Postgres and D1 always, and on SQLite, where no lock keeps a paused run's  *)
(* plan in progress, unless a plan returns the database to a model it left.   *)
THEOREM StepsInPlace == Spec /\ NeverReturns => []StepsRunInPlace
<1>1. RunnerInv => StepsRunInPlace
  <2> SUFFICES ASSUME RunnerInv PROVE schema # Broken
    BY DEF StepsRunInPlace
  <2>1. CASE row.plan = NoPlan
    BY <2>1 DEF RunnerInv, TablesHold, InPlace, Broken
  <2>2. CASE row.plan # NoPlan
    BY <2>2, AtUnbroken DEF RunnerInv, TablesHold, InPlace, PlacedAt
  <2> QED
    BY <2>1, <2>2
<1> QED
  BY <1>1, RunnerHolds, PTL

(* The model the state row records is the one the database holds, on SQLite   *)
(* as long as no plan returns the database to a model it left.                *)
THEOREM RecordedIsHeld == Spec /\ NeverReturns => []RecordedModelHeld
BY Recorded, RunnerHolds, PTL

(* A contract step begins only for the plan in progress, its expand steps all *)
(* finished: on Postgres and D1 whatever plans are applied, and on SQLite     *)
(* unless a plan returns the database to a model it left, when a run paused   *)
(* between two steps goes on with an application that others undid.           *)
THEOREM ContractsLast == Spec /\ NeverReturns => ContractAfterExpand
<1> DEFINE Kept ==
      \A p \in Plans : \A i \in Steps(p) \ ExpandSteps(p) :
        log[p][i] = "none" /\ log'[p][i] # "none"
          => row.plan = p /\ \A j \in ExpandSteps(p) : log[p][j] = "finished"
<1>1. RunnerInv /\ [Next]_vars => [Kept]_vars
  <2> SUFFICES ASSUME RunnerInv, Next PROVE Kept
    BY DEF vars
  <2> SUFFICES ASSUME NEW p \in Plans, NEW i \in Steps(p) \ ExpandSteps(p),
                      log[p][i] = "none", log'[p][i] # "none"
               PROVE  row.plan = p /\ \A j \in ExpandSteps(p) : log[p][j] = "finished"
    OBVIOUS
  <2>1. log \in LogType /\ i \in Nat /\ i > Expands[p]
    BY LengthType DEF RunnerInv, Typed, Steps, ExpandSteps
  <2>2. log' # log
    OBVIOUS
  <2>3. PICK r \in Runners : \/ StartPlan(r) \/ SessionEnds(r)
                             \/ \E j \in Steps(run[r].plan) : TransactionalStep(r, j)
                             \/ \E j \in Steps(run[r].plan) : SessionStarts(r, j)
    BY <2>2 DEF Next, Progress, LeaseExpires, Read, DecideReads, TransactionalReads, NoWrite,
                SessionStatement, StepsOver, EndRun, Unlock, Begin, Lock, LockGivenUp, Fails,
                StepRetries, Crash
  <2>4. PICK q \in Plans : q = run[r].plan /\ run[r].pc # "idle"
    <3>1. run[r].pc # "idle"
      BY <2>3 DEF StartPlan, SessionEnds, TransactionalStep, SessionStarts, AtStep
    <3> QED
      BY <3>1, PlanOf
  <2>5. CASE StartPlan(r)
    <3>1. log' = [log EXCEPT ![q] = Unlogged(q)]
      BY <2>4, <2>5 DEF StartPlan
    <3> QED
      BY <2>1, <3>1 DEF LogType, Unlogged
  <2>6. CASE SessionEnds(r)
    <3>1. log' = [log EXCEPT ![q][First(run[r].left)] = "finished"] /\ run[r].pc = "statements"
      BY <2>4, <2>6 DEF SessionEnds
    <3>2. log[q][First(run[r].left)] = "started"
      BY <2>4, <3>1 DEF RunnerInv, RunHolds
    <3> QED
      BY <2>1, <3>1, <3>2 DEF LogType
  <2>7. ASSUME NEW j, TransactionalStep(r, j) \/ SessionStarts(r, j)
        PROVE  row.plan = p /\ \A k \in ExpandSteps(p) : log[p][k] = "finished"
    <3>1. /\ run[r].pc = "steps" /\ run[r].left # {} /\ j = First(run[r].left)
          /\ \E mark : log' = [log EXCEPT ![q][j] = mark]
      <4>1. CASE TransactionalStep(r, j)
        BY <2>4, <4>1 DEF TransactionalStep, AtStep
      <4>2. CASE SessionStarts(r, j)
        <5>1. AtStep(r, j) /\ j \in Steps(q)
          BY <2>4, <4>2, MigrationAssumption DEF SessionStarts, OutsideTx, Steps
        <5>2. log[q][j] \in Marks
          BY <2>1, <5>1 DEF LogType
        <5>3. log[q][j] = "none"
          BY <2>2, <2>4, <4>2, <5>2 DEF SessionStarts, Marks
        <5> QED
          BY <2>4, <4>2, <5>1, <5>3 DEF SessionStarts, AtStep
      <4> QED
        BY <2>7, <4>1, <4>2
    <3>2. q = p /\ j = i
      BY <2>1, <3>1 DEF LogType
    <3>3. Busy(r) /\ Writer(r) /\ row.plan = p
      <4>1. Busy(r)
        BY <3>1 DEF Busy
      <4>2. CASE TransactionalStep(r, j)
        <5>1. Writer(r)
          BY <3>1, <4>2, FencedStays DEF TransactionalStep
        <5> QED
          BY <2>4, <3>2, <4>1, <4>2, <5>1, WriterSees DEF TransactionalStep, Tables
      <4>3. CASE SessionStarts(r, j)
        <5>1. driver = "postgres"
          BY <4>3 DEF SessionStarts, OutsideTx
        <5> QED
          BY <2>4, <3>1, <3>2, <4>1, <5>1 DEF RunnerInv, RunHolds, Writer
      <4> QED
        BY <2>7, <4>2, <4>3
    <3>4. log[p][i] # "finished"
      OBVIOUS
    <3> QED
      BY <2>1, <2>4, <3>1, <3>2, <3>3, <3>4, AtFirst
  <2> QED
    BY <2>3, <2>5, <2>6, <2>7
<1> QED
  BY <1>1, RunnerHolds, PTL DEF Spec, ContractAfterExpand
==============================================================================
