-------------------------- MODULE MigrationRunner --------------------------
(***************************************************************************)
(* Runs of superschematic-migrate on one service's database: migrate.Runner  *)
(* over the drivers of Postgres, SQLite and D1, which differ in what keeps   *)
(* two runs apart.  Postgres holds an advisory lock for the run; SQLite has  *)
(* none, and each transaction checks the state again; D1 has a lease, which  *)
(* every batch of writes renews or fails on, and reads outside the batch.    *)
(*                                                                          *)
(* A schema is a model, or the place between two models that the steps of a  *)
(* plan have reached.  A step run anywhere but in its place breaks it.       *)
(***************************************************************************)
EXTENDS Integers, FiniteSets

CONSTANTS Runners,
          NoRunner,
          Plans,
          NoPlan,     \* plan_hash's NULL
          From, To,   \* per plan: its models
          Expanded,   \* per plan: its expanded model, or NoModel
          NoModel,
          Expands,    \* per plan: how many of its steps are expand steps
          Length,     \* per plan: how many steps it has
          Sessions,   \* per plan: its steps that are not transactional
          Empty,      \* the model of an empty database
          Drivers,    \* the databases: of "postgres", "sqlite" and "d1"
          Applied,    \* per driver: the plans that runs apply
          MaxRuns, MaxFaults  \* bounds: runs begun; crashes and failed steps

ASSUME MigrationAssumption ==
  /\ NoRunner \notin Runners /\ NoPlan \notin Plans /\ Empty # NoModel
  /\ Drivers \subseteq {"postgres", "sqlite", "d1"}
  /\ \A d \in Drivers : Applied[d] \subseteq Plans
  /\ \A p \in Plans :
       /\ NoModel \notin {From[p], To[p]}
       /\ Expands[p] \in Nat /\ Length[p] \in Nat /\ Expands[p] <= Length[p]
       /\ Sessions[p] \subseteq 1..Length[p]
       /\ Length[p] = 0 => To[p] = From[p]
       /\ Expands[p] = 0 => Expanded[p] \in {From[p], NoModel}
  /\ MaxRuns \in Nat /\ MaxFaults \in Nat

VARIABLES driver,   \* the database's
          row,      \* the service's row of the state table
          log,      \* per plan and step: its row of the log table
          schema,   \* what the database holds
          owner,    \* the runner that has the lock, or the lease's holder
          leased,   \* whether D1's lease has not expired
          run,      \* per runner: where its run is
          runs, faults

vars == <<driver, row, log, schema, owner, leased, run, runs, faults>>

Steps(p) == 1..Length[p]
ExpandSteps(p) == 1..Expands[p]
Models == ({Empty} \cup {f[p] : p \in Plans, f \in {From, To, Expanded}}) \ {NoModel}
Marks == {"none", "started", "finished"}

(* Every step of a plan d applies leads to a model of higher rank, so none    *)
(* returns the database to a model it left.                                   *)
Ascends(d, rank) ==
  \A p \in Applied[d] :
    /\ IF Length[p] = 0 THEN rank[From[p]] = rank[To[p]]
                        ELSE rank[From[p]] < rank[To[p]]
    /\ Expanded[p] # NoModel =>
         /\ IF Expands[p] = 0 THEN rank[From[p]] = rank[Expanded[p]]
                              ELSE rank[From[p]] < rank[Expanded[p]]
         /\ rank[Expanded[p]] <= rank[To[p]]
RowType == [model : Models, plan : Plans \cup {NoPlan},
            phase : {"none", "expand", "expanded"}]
OutsideTx(p) == IF driver = "postgres" THEN Sessions[p] ELSE {}
Unlogged(p) == [i \in Steps(p) |-> "none"]

(* The steps a run of a phase runs. *)
PhaseSteps(p, f) == CASE f = "expand" -> ExpandSteps(p)
                      [] f = "contract" -> Steps(p) \ ExpandSteps(p)
                      [] f = "all" -> Steps(p)

Resting == [pc |-> "idle", plan |-> NoPlan, phase |-> "all", left |-> {},
            read |-> {}]

TypeOK ==
  /\ driver \in Drivers
  /\ row \in RowType
  /\ \A p \in Plans : log[p] \in [Steps(p) -> Marks]
  /\ owner \in Runners \cup {NoRunner} /\ leased \in BOOLEAN
  /\ \A r \in Runners :
       /\ run[r].pc \in {"idle", "lock", "decide", "steps", "session",
                          "statements", "end", "unlock"}
       /\ run[r].pc # "idle" =>
            run[r].plan \in Plans /\ run[r].left \subseteq Steps(run[r].plan)
  /\ runs \in 0..MaxRuns /\ faults \in 0..MaxFaults

Init ==
  /\ driver \in Drivers
  /\ row = [model |-> Empty, plan |-> NoPlan, phase |-> "none"]
  /\ log = [p \in Plans |-> Unlogged(p)]
  /\ schema = <<"at", Empty>>
  /\ owner = NoRunner /\ leased = FALSE
  /\ run = [r \in Runners |-> Resting]
  /\ runs = 0 /\ faults = 0

-----------------------------------------------------------------------------
(* What the steps of a plan do to the schema. *)

Broken == <<"broken">>

(* The schema once the first n steps of p have run. *)
At(p, n) ==
  CASE n = 0 -> <<"at", From[p]>>
    [] n # 0 /\ n = Length[p] -> <<"at", To[p]>>
    [] n \notin {0, Length[p]} /\ n = Expands[p] /\ Expanded[p] # NoModel ->
         <<"at", Expanded[p]>>
    [] OTHER -> <<"in", p, n>>

Half(p, i) == <<"half", p, i>>

RunOn(s, p, i) == IF s = At(p, i - 1) THEN At(p, i) ELSE Broken

(* A recovery undoes what an interrupted run of its step left, all or part.  *)
Recovered(s, p, i) ==
  IF s \in {At(p, i - 1), Half(p, i), At(p, i)} THEN At(p, i - 1) ELSE Broken

-----------------------------------------------------------------------------
(* What a run reads of the state tables: as they are, in the transaction     *)
(* that then writes, or on D1 as they were when it read them.                *)

Tables == [row |-> row, log |-> log]
Views(r) == IF driver = "d1" THEN run[r].read ELSE {Tables}

Read(r) ==
  /\ driver = "d1"
  /\ run[r].pc \in {"decide", "steps", "end"} /\ run[r].read = {}
  /\ run' = [run EXCEPT ![r].read = {Tables}]
  /\ UNCHANGED <<row, log, schema, owner, leased, runs, faults>>

Finished(v, p) == {i \in Steps(p) : v.log[p][i] = "finished"}

Goes(r, pc) == run' = [run EXCEPT ![r].pc = pc, ![r].read = {}]
NoWrite == UNCHANGED <<row, log, schema, owner, leased, runs, faults>>

(* Mutant: a batch does not look at who holds the lease. *)
Unfenced(r) ==
  /\ leased' = (driver = "d1")
  /\ UNCHANGED <<owner, runs, faults>>

(* A batch of writes: D1's renews the writer's lease, expired or not, unless *)
(* another runner took it over, which fails the batch.                       *)
Fenced(r) ==
  /\ driver = "d1" => owner = r
  /\ leased' = (driver = "d1")
  /\ UNCHANGED <<owner, runs, faults>>

-----------------------------------------------------------------------------
Begin(r, p, f) ==
  /\ p \in Applied[driver]
  /\ runs < MaxRuns /\ runs' = runs + 1
  /\ run[r].pc = "idle"
  /\ run' = [run EXCEPT ![r] = [pc |-> "lock", plan |-> p, phase |-> f,
                                left |-> PhaseSteps(p, f), read |-> {}]]
  /\ UNCHANGED <<row, log, schema, owner, leased, faults>>

(* A run waits for the lock, or the lease; a SQLite run has none to wait for. *)
Lock(r) ==
  /\ run[r].pc = "lock"
  /\ CASE driver = "postgres" -> owner = NoRunner /\ owner' = r /\ UNCHANGED leased
       [] driver = "sqlite" -> UNCHANGED <<owner, leased>>
       [] driver = "d1" -> ~ leased /\ owner' = r /\ leased' = TRUE
  /\ Goes(r, "decide")
  /\ UNCHANGED <<row, log, schema, runs, faults>>

LockGivenUp(r) ==
  /\ driver = "d1" /\ leased
  /\ run[r].pc = "lock"
  /\ run' = [run EXCEPT ![r] = Resting]
  /\ NoWrite

LeaseExpires ==
  /\ leased
  /\ leased' = FALSE
  /\ UNCHANGED <<row, log, schema, owner, run, runs, faults>>

(* Whether a contract step of the plan in progress has a log row. *)
ContractStarted(v) ==
  \E i \in Steps(v.row.plan) \ ExpandSteps(v.row.plan) :
    v.log[v.row.plan][i] # "none"

Decision(v, p) ==
  LET st == v.row
      pending == st.plan # NoPlan /\ st.phase = "expanded" /\ st.model = From[p]
  IN CASE st.plan = p -> "resume"
       [] st.plan = NoPlan /\ st.model = To[p] /\ To[p] # From[p] -> "applied"
       [] st.plan \notin {p, NoPlan} /\ pending /\ ~ ContractStarted(v) -> "supersede"
       [] st.plan = NoPlan /\ st.model = From[p] -> "start"
       [] OTHER -> "refuse"

(* Mutant: the contract runs before its expand steps have finished. *)
ContractAtOnce(v, p) == Decision(v, p) = "resume"

(* The contract runs of the plan in progress alone, its expand steps done.   *)
ContractAllowed(v, p) ==
  Decision(v, p) = "resume" /\ ExpandSteps(p) \subseteq Finished(v, p)

(* The run resumes the plan, or has nothing to do, or is refused. *)
DecideReads(r) ==
  /\ run[r].pc = "decide"
  /\ \E v \in Views(r) :
       LET p == run[r].plan
           contract == run[r].phase = "contract" IN
       \/ /\ Decision(v, p) = "resume" /\ (contract => ContractAllowed(v, p))
          /\ Goes(r, "steps")
       \/ /\ \/ Decision(v, p) \in {"applied", "refuse"}
             \/ contract /\ ~ ContractAllowed(v, p)
          /\ Goes(r, "unlock")
  /\ NoWrite

(* Mutant: a plan that supersedes keeps the phase of the one it replaces. *)
StartKeepsPhase(r) ==
  /\ run[r].pc = "decide" /\ run[r].phase # "contract"
  /\ \E v \in Views(r) : LET p == run[r].plan IN
       /\ Decision(v, p) \in {"start", "supersede"}
       /\ row' = [row EXCEPT !.plan = p]
       /\ log' = [log EXCEPT ![p] = Unlogged(p)]
  /\ Fenced(r)
  /\ Goes(r, "steps")
  /\ UNCHANGED schema

(* startPlan: the plan is in progress, the log of an earlier application     *)
(* cleared; a plan that supersedes takes the place of the one in progress.   *)
StartPlan(r) ==
  /\ run[r].pc = "decide" /\ run[r].phase # "contract"
  /\ \E v \in Views(r) : LET p == run[r].plan IN
       /\ Decision(v, p) \in {"start", "supersede"}
       /\ row' = [row EXCEPT !.plan = p, !.phase = "none"]
       /\ log' = [log EXCEPT ![p] = Unlogged(p)]
  /\ Fenced(r)
  /\ Goes(r, "steps")
  /\ UNCHANGED schema

(* advance: the state row once the steps of done have finished, written by a *)
(* transaction that read st of it.                                           *)
Advances(st, p, done) ==
  Steps(p) \subseteq done \/ (ExpandSteps(p) \subseteq done /\ st.phase = "none")

(* Mutant: a plan without an expanded model records one. *)
AdvancedAnyway(st, p, done) ==
  CASE ~ Advances(st, p, done) -> row
    [] Steps(p) \subseteq done -> [model |-> To[p], plan |-> NoPlan, phase |-> "none"]
    [] OTHER -> [row EXCEPT !.phase = "expanded", !.model = Expanded[p]]

Advanced(st, p, done) ==
  CASE ~ Advances(st, p, done) -> row
    [] Steps(p) \subseteq done -> [model |-> To[p], plan |-> NoPlan, phase |-> "none"]
    [] OTHER -> IF row.plan # p THEN row
                ELSE IF Expanded[p] = NoModel THEN [row EXCEPT !.phase = "expand"]
                ELSE [row EXCEPT !.phase = "expanded", !.model = Expanded[p]]

First(left) == CHOOSE i \in left : \A j \in left : i <= j
AtStep(r, i) ==
  /\ run[r].pc = "steps" /\ run[r].left # {}
  /\ i = First(run[r].left)
StepDone(r, i) ==
  run' = [run EXCEPT ![r].left = @ \ {i}, ![r].read = {}, ![r].pc = "steps"]

(* A transactional step checks the state again: another run may have         *)
(* finished the plan, or this step, or put another plan in progress.         *)
TransactionalReads(r, i) ==
  /\ AtStep(r, i) /\ i \notin OutsideTx(run[r].plan)
  /\ \E v \in Views(r) : LET p == run[r].plan IN
       \/ v.row.plan # p /\ Goes(r, "unlock")
       \/ v.row.plan = p /\ i \in Finished(v, p) /\ StepDone(r, i)
  /\ NoWrite

TransactionalStep(r, i) ==
  /\ AtStep(r, i) /\ i \notin OutsideTx(run[r].plan)
  /\ \E v \in Views(r) : LET p == run[r].plan IN
       /\ v.row.plan = p /\ i \notin Finished(v, p)
       /\ log[p][i] = "none"
       /\ schema' = RunOn(schema, p, i)
       /\ log' = [log EXCEPT ![p][i] = "finished"]
       /\ row' = Advanced(v.row, p, Finished(v, p) \cup {i})
  /\ Fenced(r)
  /\ StepDone(r, i)

(* A step outside a transaction: its start is logged, or what an earlier     *)
(* start left is undone; its statements run, one by one; its end is logged.  *)
SessionStarts(r, i) ==
  /\ AtStep(r, i) /\ i \in OutsideTx(run[r].plan)
  /\ LET p == run[r].plan IN
       CASE log[p][i] = "finished" -> StepDone(r, i) /\ UNCHANGED <<log, schema>>
         [] log[p][i] = "started" ->
              Goes(r, "session") /\ schema' = Recovered(schema, p, i) /\ UNCHANGED log
         [] log[p][i] = "none" ->
              Goes(r, "session") /\ log' = [log EXCEPT ![p][i] = "started"]
                /\ UNCHANGED schema
  /\ UNCHANGED <<row, owner, leased, runs, faults>>

SessionStatement(r) ==
  /\ run[r].pc = "session"
  /\ LET p == run[r].plan
         i == First(run[r].left) IN
       \/ schema = At(p, i - 1) /\ schema' = Half(p, i) /\ UNCHANGED run
       \/ /\ schema' = IF schema = Half(p, i) THEN At(p, i) ELSE RunOn(schema, p, i)
          /\ Goes(r, "statements")
  /\ UNCHANGED <<row, log, owner, leased, runs, faults>>

SessionEnds(r) ==
  /\ run[r].pc = "statements"
  /\ LET p == run[r].plan
         i == First(run[r].left) IN
       /\ log' = [log EXCEPT ![p][i] = "finished"]
       /\ row' = Advanced(row, p, Finished(Tables, p) \cup {i})
       /\ StepDone(r, i)
  /\ UNCHANGED <<schema, owner, leased, runs, faults>>

StepsOver(r) ==
  /\ run[r].pc = "steps" /\ run[r].left = {}
  /\ Goes(r, "end")
  /\ NoWrite

(* The state a phase with no steps, or a run that resumed after the last of  *)
(* them, is to leave.                                                        *)
EndRun(r) ==
  /\ run[r].pc = "end"
  /\ \E v \in Views(r) : LET p == run[r].plan IN
       IF v.row.plan = p /\ Advances(v.row, p, Finished(v, p))
       THEN row' = Advanced(v.row, p, Finished(v, p)) /\ Fenced(r)
       ELSE UNCHANGED <<row, owner, leased, runs, faults>>
  /\ Goes(r, "unlock")
  /\ UNCHANGED <<log, schema>>

(* Mutant: a run that fails or ends leaves its lock. *)
KeepsLock(r) == UNCHANGED <<owner, leased>>

Frees(r) ==
  IF owner # r THEN UNCHANGED <<owner, leased>>
  ELSE /\ owner' = IF driver = "d1" THEN owner ELSE NoRunner
       /\ leased' = FALSE

Unlock(r) ==
  /\ run[r].pc = "unlock"
  /\ run' = [run EXCEPT ![r] = Resting]
  /\ Frees(r)
  /\ UNCHANGED <<row, log, schema, runs, faults>>

Fault == faults < MaxFaults /\ faults' = faults + 1

(* A statement, or the batch of a runner whose lease was taken, fails. *)
Fails(r) ==
  /\ run[r].pc \in {"decide", "steps", "session", "statements", "end"}
  /\ IF driver = "d1" /\ owner # r THEN UNCHANGED faults ELSE Fault
  /\ Goes(r, "unlock")
  /\ UNCHANGED <<row, log, schema, owner, leased, runs>>

(* A session step that timed out on a lock is run again from its log row. *)
StepRetries(r) ==
  /\ run[r].pc \in {"session", "statements"}
  /\ Fault
  /\ Goes(r, "steps")
  /\ UNCHANGED <<row, log, schema, owner, leased, runs>>

(* The process dies; its connection, and so Postgres's lock, with it. *)
Crash(r) ==
  /\ run[r].pc # "idle"
  /\ Fault
  /\ run' = [run EXCEPT ![r] = Resting]
  /\ IF driver = "postgres" THEN Frees(r) ELSE UNCHANGED <<owner, leased>>
  /\ UNCHANGED <<row, log, schema, runs>>

-----------------------------------------------------------------------------
Progress(r) ==
  /\ UNCHANGED driver
  /\ \/ Read(r) \/ DecideReads(r) \/ StartPlan(r)
     \/ \E i \in Steps(run[r].plan) :
          TransactionalReads(r, i) \/ TransactionalStep(r, i) \/ SessionStarts(r, i)
     \/ SessionStatement(r) \/ SessionEnds(r) \/ StepsOver(r) \/ EndRun(r)
     \/ Unlock(r)

Next ==
  \/ UNCHANGED driver /\ LeaseExpires
  \/ \E r \in Runners :
       \/ run[r].pc # "idle" /\ Progress(r)
       \/ /\ UNCHANGED driver
          /\ \/ \E p \in Plans, f \in {"expand", "contract", "all"} : Begin(r, p, f)
             \/ Lock(r) \/ LockGivenUp(r)
             \/ Fails(r) \/ StepRetries(r) \/ Crash(r)

Spec == Init /\ [][Next]_vars

(* A run that can go on does, and an expired lease is not held forever. *)
FairSpec ==
  /\ Spec
  /\ \A r \in Runners :
       /\ WF_vars(run[r].pc # "idle" /\ Progress(r))
       /\ WF_vars(UNCHANGED driver /\ driver = "d1" /\ owner # r /\ Fails(r))
       /\ WF_vars(UNCHANGED driver /\ Lock(r))
  /\ WF_vars(UNCHANGED driver /\ LeaseExpires)

-----------------------------------------------------------------------------
(* Every step's statements run on the schema the plan wrote them for: after  *)
(* the steps before it and after none of them twice, whatever runs overlap,  *)
(* fail or die, and however often the database returns to a plan.             *)
StepsRunInPlace == schema # Broken

(* The applied model the state row records is the schema the database holds: *)
(* with no plan in progress, and between a plan's phases until its contract  *)
(* starts, when another plan may start from it.                              *)
RecordedModelHeld ==
  row.plan = NoPlan
    \/ (row.phase = "expanded" /\ ~ ContractStarted(Tables))
  => schema = <<"at", row.model>>

(* A contract step runs only for the plan in progress, when all its expand   *)
(* steps have: a superseded contract never runs.                             *)
ContractAfterExpand ==
  [][\A p \in Plans : \A i \in Steps(p) \ ExpandSteps(p) :
       log[p][i] = "none" /\ log'[p][i] # "none"
         => row.plan = p /\ \A j \in ExpandSteps(p) : log[p][j] = "finished"]_vars

(* A run ends: no lock, lease or failed step holds another one up forever.   *)
EveryRunEnds == \A r \in Runners : run[r].pc # "idle" ~> run[r].pc = "idle"
=============================================================================
