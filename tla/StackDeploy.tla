---------------------------- MODULE StackDeploy ----------------------------
(***************************************************************************)
(* Deploys and destroys of one run of an environment with one database:      *)
(* stackdeploy's Deploy, Destroy and Unlock over the state stores of gcp and *)
(* cloudflare, calling the migration runner of MigrationRunner.              *)
(*                                                                          *)
(* A version of the service is the set of columns its servers use, and a     *)
(* model the set of columns a database has.  The plan between two models     *)
(* adds what is missing (expand) and then drops what is left over (contract),*)
(* a step per column.  A lock is the deploy that took it: its ID is its own. *)
(***************************************************************************)
EXTENDS Integers, Sequences, FiniteSets

CONSTANTS Deploys,         \* the deploys and destroys that may be started
          Persons,         \* who may run `stack unlock`
          Nobody,          \* no lock, and no runner
          Versions,
          NoVersion,       \* what a server that does not run runs
          Columns,
          Uses,            \* per version: the columns its servers use
          Servers, WaveOf, \* per server: its wave of the rollout
          Waves,           \* how many there are
          Stores,          \* of "gcp" and "cloudflare"
          NoPlan, NoModel,
          MaxFaults, MaxUnlocks, MaxRuns

ASSUME DeployAssumption ==
  /\ Nobody \notin Deploys /\ Deploys \cap Persons = {}
  /\ NoVersion \notin Versions
  /\ IsFiniteSet(Columns) /\ Uses \in [Versions -> SUBSET Columns]
  /\ Waves \in Nat /\ WaveOf \in [Servers -> 1..Waves]
  /\ Stores \subseteq {"gcp", "cloudflare"}
  /\ \A m \in SUBSET Columns : m # NoModel
  /\ NoPlan \notin [from : SUBSET Columns, to : SUBSET Columns]
  /\ MaxUnlocks \in Nat /\ MaxRuns \in Nat /\ MaxFaults \in Nat

VARIABLES driver, row, log, schema, owner, leased, run, runs, faults,
          store,     \* the target's state store
          lock,      \* the lock object: the deploy that took it, or Nobody
          manifest,  \* the manifest object
          serving,   \* per server: the version it runs
          deploy,    \* per deploy: where it is
          removing,  \* per caller of Unlock: the lock it read and will delete
          unlocks,
          forced,    \* a person removed the lock of a deploy that still ran
          slipped    \* a deploy ended with its progress not in the manifest, or a
                     \* run it had lost sight of strayed

runner == <<driver, row, log, schema, owner, leased, run, runs>>
vars == <<runner, faults, store, lock, manifest, serving, deploy, removing,
          unlocks, forced, slipped>>

Model == SUBSET Columns
Plans == [from : Model, to : {Uses[v] : v \in Versions}]
ContractSteps(p) == Cardinality(p.from \ p.to)
ExpandSteps(p) == Cardinality(p.to \ p.from)
StepsOf(p, phase) == IF phase = "expand" THEN ExpandSteps(p) ELSE ContractSteps(p)

(* DatabasePlan.after: the model a phase of the plan leaves. *)
After(p, phase) ==
  IF phase = "expand" /\ ContractSteps(p) > 0 THEN p.from \cup p.to ELSE p.to

Runner == INSTANCE MigrationRunner WITH
  Runners <- Deploys, NoRunner <- Nobody, Empty <- {}, Drivers <- {"postgres"},
  Applied <- [d \in {"postgres"} |-> Plans],
  From <- [p \in Plans |-> p.from], To <- [p \in Plans |-> p.to],
  Expanded <- [p \in Plans |-> IF ContractSteps(p) > 0 THEN p.from \cup p.to
                                                       ELSE NoModel],
  Expands <- [p \in Plans |-> ExpandSteps(p)],
  Length <- [p \in Plans |-> ExpandSteps(p) + ContractSteps(p)],
  Sessions <- [p \in Plans |-> {}]

(* What a manifest records of the database: its model, NoModel before the    *)
(* first deploy, and the phase of a plan that did not finish, if any.        *)
NoPending == [phase |-> "none", plan |-> NoPlan]
Recorded == [model : Model \cup {NoModel},
             pending : {NoPending} \cup [phase : {"expand", "contract"}, plan : Plans]]
Nothing == [model |-> NoModel, pending |-> NoPending]

(* The deploy order: infrastructure, expand, the waves, the jobs, contract    *)
(* and exposure, as their places in it.                                       *)
Expand == 2
Wave(n) == 2 + n
Contract == 4 + Waves
LastStep == 5 + Waves

Call == [phase : {"expand", "contract"}, plan : Plans, runs : BOOLEAN]

Deployment ==
  [pc : {"new", "plan", "first", "steps", "calling", "write", "fail", "destroy",
         "forget", "release", "over", "dead"},
   version : Versions \cup {NoVersion}, at : 1..LastStep, man : Recorded,
   plan : Plans \cup {NoPlan}, todo : Seq(Call),
   result : {"none", "running", "ok", "err"}]

TypeOK ==
  /\ store \in Stores
  /\ lock \in Deploys \cup {Nobody}
  /\ manifest \in Recorded
  /\ serving \in [Servers -> Versions \cup {NoVersion}]
  /\ deploy \in [Deploys -> Deployment]
  /\ removing \in [Deploys \cup Persons -> Deploys \cup {Nobody}]
  /\ unlocks \in 0..MaxUnlocks
  /\ forced \in BOOLEAN /\ slipped \in BOOLEAN

Idle(pc) == [pc |-> pc, version |-> NoVersion, at |-> 1, man |-> Nothing,
             plan |-> NoPlan, todo |-> <<>>, result |-> "none"]

Init ==
  /\ Runner!Init
  /\ store \in Stores
  /\ lock = Nobody
  /\ manifest = Nothing
  /\ serving = [s \in Servers |-> NoVersion]
  /\ deploy = [d \in Deploys |-> Idle("new")]
  /\ removing = [c \in Deploys \cup Persons |-> Nobody]
  /\ unlocks = 0 /\ forced = FALSE /\ slipped = FALSE

Live(d) == deploy[d].pc \notin {"new", "over", "dead"}
Fault == faults < MaxFaults /\ faults' = faults + 1

Database == <<driver, row, log, schema, owner, leased, run, runs>>
Goes(d, pc) ==
  deploy' = [deploy EXCEPT ![d] = IF pc \in {"release", "over", "dead"} THEN Idle(pc)
                                  ELSE [@ EXCEPT !.pc = pc]]
GoesOnly(d, pc) ==
  /\ Goes(d, pc)
  /\ UNCHANGED <<Database, store, lock, manifest, serving, removing, unlocks,
                 forced>>

-----------------------------------------------------------------------------
(* The lock. *)

(* Mutant: the lock object is written whether or not there is one. *)
Overwrites(d) == lock' = d

(* Lock: the store creates the object for one writer only. *)
Creates(d) == lock = Nobody /\ lock' = d

TakeLock(d, v, pc) ==
  /\ deploy[d].pc = "new"
  /\ Creates(d)
  /\ deploy' = [deploy EXCEPT ![d].pc = pc, ![d].version = v]
  /\ UNCHANGED <<Database, faults, store, manifest, serving, removing, unlocks,
                 forced, slipped>>

(* Unlock: a read of the lock, which leaves one of another ID alone, and the  *)
(* delete.                                                                    *)
UnlockReads(c, id) ==
  /\ removing[c] = Nobody
  /\ lock = id
  /\ removing' = [removing EXCEPT ![c] = id]

(* Mutant: the delete of gcp names no generation. *)
DeletesAnyway(c) == lock' = Nobody

(* gcp deletes the generation it read, which is that lock's alone; on         *)
(* cloudflare the delete is a plain one.                                      *)
Deletes(c) ==
  lock' = IF store = "gcp" /\ lock # removing[c] THEN lock ELSE Nobody

UnlockDeletes(c) ==
  /\ removing[c] # Nobody
  /\ Deletes(c)
  /\ removing' = [removing EXCEPT ![c] = Nobody]

(* A deploy that returns releases its lock, unless it is no longer its own,   *)
(* or the store fails, which leaves it.                                       *)
ReleaseReads(d) ==
  /\ deploy[d].pc = "release"
  /\ UnlockReads(d, d)
  /\ UNCHANGED <<Database, faults, store, lock, manifest, serving, deploy, unlocks,
                 forced, slipped>>

Releases(d) ==
  /\ deploy[d].pc = "release"
  /\ UnlockDeletes(d)
  /\ Goes(d, "over")
  /\ UNCHANGED <<Database, faults, store, manifest, serving, unlocks, forced, slipped>>

ReleaseLeaves(d) ==
  /\ deploy[d].pc = "release"
  /\ \/ lock # d /\ removing[d] = Nobody /\ UNCHANGED faults
     \/ Fault
  /\ removing' = [removing EXCEPT ![d] = Nobody]
  /\ Goes(d, "over")
  /\ UNCHANGED <<Database, store, lock, manifest, serving, unlocks, forced, slipped>>

(* `stack unlock`: a person is shown the lock and says to remove it, which is *)
(* by force when the deploy that holds it, or its migration, still runs.  To  *)
(* bound the model, two deploys that overlap meet no fault.                   *)
PersonConfirms(p) ==
  /\ unlocks < MaxUnlocks /\ unlocks' = unlocks + 1
  /\ \E d \in Deploys :
       /\ UnlockReads(p, d)
       /\ IF Live(d) \/ run[d].pc # "idle"
          THEN forced' = TRUE /\ faults = 0 /\ faults' = MaxFaults
          ELSE UNCHANGED <<forced, faults>>
  /\ UNCHANGED <<Database, store, lock, manifest, serving, deploy, slipped>>

PersonUnlocks(p) ==
  /\ UnlockDeletes(p)
  /\ UNCHANGED <<Database, faults, store, manifest, serving, deploy, unlocks, forced,
                 slipped>>

-----------------------------------------------------------------------------
(* A deploy up to its first step. *)

(* Mutant: a plan starts from the model recorded, a phase pending or not. *)
PlansFromRecorded(man) == IF man.model = NoModel THEN {} ELSE man.model

(* planMigrations: the model a plan starts from is the one the pending phase  *)
(* ends at, since the deploy finishes that first.                             *)
PlansFrom(man) ==
  CASE man.pending # NoPending -> After(man.pending.plan, man.pending.phase)
    [] man.pending = NoPending /\ man.model = NoModel -> {}
    [] OTHER -> man.model

(* The deploy reads the manifest, plans from it, and starts its own from it.  *)
Prepare(d) ==
  /\ deploy[d].pc = "plan"
  /\ deploy' = [deploy EXCEPT
       ![d].pc = "first", ![d].man = manifest,
       ![d].plan = [from |-> PlansFrom(manifest), to |-> Uses[deploy[d].version]]]
  /\ UNCHANGED <<Database, faults, store, lock, manifest, serving, removing, unlocks,
                 forced, slipped>>

(* A hazard not allowed, a plan other than the one expected, a failed build,  *)
(* or a first manifest the store does not take: nothing has changed.          *)
Refused(d) ==
  /\ deploy[d].pc \in {"plan", "first"}
  /\ GoesOnly(d, "release")
  /\ UNCHANGED <<faults, slipped>>

WriteFirst(d) ==
  /\ deploy[d].pc = "first"
  /\ manifest' = deploy[d].man
  /\ Goes(d, "steps")
  /\ UNCHANGED <<Database, faults, store, lock, serving, removing, unlocks, forced,
                 slipped>>

-----------------------------------------------------------------------------
(* The steps.  One that ends well is followed by the manifest's write.        *)

AtStep(d) == deploy[d].pc = "steps"

(* Infrastructure, the jobs and exposure. *)
OtherStep(d) ==
  /\ AtStep(d)
  /\ deploy[d].at \in {1, 3 + Waves, LastStep}
  /\ \/ GoesOnly(d, "write") /\ UNCHANGED faults
     \/ GoesOnly(d, "fail") /\ Fault
  /\ UNCHANGED slipped

(* A wave returns once its servers run the deploy's version; one that fails   *)
(* may have rolled out any of them.                                           *)
Rollout(d) ==
  /\ AtStep(d)
  /\ \E n \in 1..Waves :
       /\ deploy[d].at = Wave(n)
       /\ \E rolled \in SUBSET {s \in Servers : WaveOf[s] = n} :
            /\ serving' = [s \in Servers |-> IF s \in rolled THEN deploy[d].version
                                             ELSE serving[s]]
            /\ \/ /\ \A s \in Servers : WaveOf[s] = n => s \in rolled
                  /\ Goes(d, "write") /\ UNCHANGED faults
               \/ Goes(d, "fail") /\ Fault
  /\ UNCHANGED <<Database, store, lock, manifest, removing, unlocks, forced, slipped>>

(* Mutant: the contract's steps run with the expand's, before the rollout. *)
CallsAtOnce(d, changed) ==
  LET man == deploy[d].man
      plan == deploy[d].plan
      Pending == IF man.pending = NoPending THEN <<>>
                 ELSE << [phase |-> man.pending.phase, plan |-> man.pending.plan,
                          runs |-> TRUE] >>
  IN IF deploy[d].at = Contract THEN <<>>
     ELSE Pending \o << [phase |-> "expand", plan |-> plan,
                         runs |-> changed \/ ExpandSteps(plan) > 0] >>
            \o IF ContractSteps(plan) > 0
               THEN << [phase |-> "contract", plan |-> plan, runs |-> TRUE] >>
               ELSE <<>>

(* finishPending and migrate: the runs of phases a migrate step makes.  The   *)
(* expand step finishes a pending phase first, and runs a plan with no expand *)
(* steps only when the servers that connect have changed; otherwise it        *)
(* records what the phase would leave.                                        *)
Calls(d, changed) ==
  LET man == deploy[d].man
      plan == deploy[d].plan
      Pending == IF man.pending = NoPending THEN <<>>
                 ELSE << [phase |-> man.pending.phase, plan |-> man.pending.plan,
                          runs |-> TRUE] >>
  IN IF deploy[d].at = Expand
     THEN Append(Pending, [phase |-> "expand", plan |-> plan,
                           runs |-> changed \/ ExpandSteps(plan) > 0])
     ELSE IF ContractSteps(plan) > 0
          THEN << [phase |-> "contract", plan |-> plan, runs |-> TRUE] >>
          ELSE <<>>

Migrate(d) ==
  /\ AtStep(d) /\ deploy[d].at \in {Expand, Contract}
  /\ \E changed \in BOOLEAN :
       deploy' = [deploy EXCEPT ![d].pc = "calling", ![d].todo = Calls(d, changed)]
  /\ UNCHANGED <<Database, faults, store, lock, manifest, serving, removing, unlocks,
                 forced, slipped>>

Calling(d) == deploy[d].pc = "calling" /\ deploy[d].todo # <<>>

(* Mutant: the model recorded after a phase is the plan's last. *)
RecordsTo(d, call) ==
  [model |-> call.plan.to, pending |-> NoPending]

Records(d, call) ==
  [model |-> After(call.plan, call.phase), pending |-> NoPending]

(* Nothing to run: the database holds what the phase would leave. *)
Skip(d) ==
  /\ Calling(d)
  /\ LET call == Head(deploy[d].todo) IN
       /\ ~ call.runs
       /\ deploy' = [deploy EXCEPT ![d].todo = Tail(@), ![d].man = Records(d, call)]
  /\ UNCHANGED <<Database, faults, store, lock, manifest, serving, removing, unlocks,
                 forced, slipped>>

(* The target's runner is given a plan only when its phase has steps: it runs *)
(* `apply` with that phase; else it sees to privileges alone, or to nothing.  *)
CallRunner(d) ==
  /\ Calling(d) /\ deploy[d].result = "none"
  /\ LET call == Head(deploy[d].todo) IN
       /\ call.runs
       /\ IF StepsOf(call.plan, call.phase) > 0
          THEN /\ Runner!Begin(d, call.plan, call.phase)
               /\ UNCHANGED driver
               /\ deploy' = [deploy EXCEPT ![d].result = "running"]
          ELSE /\ \E how \in {"ok", "err"} :
                    deploy' = [deploy EXCEPT ![d].result = how]
               /\ UNCHANGED <<Database, faults>>
  /\ UNCHANGED <<store, lock, manifest, serving, removing, unlocks, forced, slipped>>

(* How a run of the runner ends: Apply returns an error when decide refuses   *)
(* the plan, or when another plan took its place.                             *)
Errs(d) ==
  LET p == run[d].plan IN
  CASE run[d].pc = "decide" -> Runner!Decision(Runner!Tables, p) # "applied"
    [] run[d].pc \in {"steps", "end"} ->
         row.plan # p /\ ~ (row.plan = NoPlan /\ row.model = p.to)
    [] OTHER -> TRUE

Ends(d, bad) ==
  deploy' = IF run'[d].pc = "unlock" /\ run[d].pc # "unlock"
                 /\ deploy[d].result = "running"
            THEN [deploy EXCEPT ![d].result = IF bad THEN "err" ELSE "ok"]
            ELSE deploy

(* A deploy waits for the phase, or the manifest has it as pending. *)
Awaited(p, phase) ==
  \/ manifest.pending = [phase |-> phase, plan |-> p]
  \/ \E d \in Deploys :
       \/ Calling(d) /\ Head(deploy[d].todo).plan = p /\ Head(deploy[d].todo).phase = phase
       \/ Live(d) /\ deploy[d].man.pending = [phase |-> phase, plan |-> p]

(* A run that was lost sight of strays when it waited for the lock until the  *)
(* deploys after its own had finished its phase and come back to the model it *)
(* starts from, and then starts its plan anew, or contracts too early.        *)
Strays(d) ==
  /\ run[d].pc = "decide" /\ run'[d].pc = "steps"
  /\ ~ Awaited(run[d].plan, run[d].phase)
  /\ row'.plan # row.plan \/ run[d].phase = "contract"

RunnerMoves(d) ==
  /\ run[d].pc # "idle"
  /\ UNCHANGED driver
  /\ \/ (Runner!Progress(d) \/ Runner!Lock(d)) /\ Ends(d, Errs(d))
     \/ Runner!Fails(d) /\ Ends(d, TRUE)
  /\ slipped' = (slipped \/ Strays(d))
  /\ UNCHANGED <<store, lock, manifest, serving, removing, unlocks, forced>>

(* The call fails and its run goes on, as a job the deploy lost sight of. *)
CallLost(d) ==
  /\ Calling(d) /\ deploy[d].result = "running"
  /\ Fault
  /\ deploy' = [deploy EXCEPT ![d].result = "err"]
  /\ UNCHANGED <<Database, store, lock, manifest, serving, removing, unlocks, forced,
                 slipped>>

(* The phase is pending, on the schema the database held before. *)
RecordsPending(d, call) ==
  [model |-> deploy[d].man.model,
   pending |-> [phase |-> call.phase, plan |-> call.plan]]

Returned(d) ==
  /\ Calling(d) /\ deploy[d].result \in {"ok", "err"}
  /\ LET call == Head(deploy[d].todo) IN
       IF deploy[d].result = "ok"
       THEN deploy' = [deploy EXCEPT ![d].result = "none", ![d].todo = Tail(@),
                                     ![d].man = Records(d, call)]
       ELSE deploy' = [deploy EXCEPT ![d].result = "none", ![d].todo = <<>>,
                                     ![d].man = RecordsPending(d, call),
                                     ![d].pc = "fail"]
  /\ UNCHANGED <<Database, faults, store, lock, manifest, serving, removing, unlocks,
                 forced, slipped>>

Migrated(d) ==
  /\ deploy[d].pc = "calling" /\ deploy[d].todo = <<>>
  /\ GoesOnly(d, "write")
  /\ UNCHANGED <<faults, slipped>>

(* Mutant: the order's last step is taken for one before it. *)
WriteGoesOn(d) ==
  /\ deploy[d].pc = "write"
  /\ manifest' = deploy[d].man
  /\ deploy' = [deploy EXCEPT ![d].at = @ + 1, ![d].pc = "steps"]
  /\ UNCHANGED <<Database, faults, store, lock, serving, removing, unlocks, forced,
                 slipped>>

(* The manifest records the step; after the last, the deploy is done. *)
Write(d) ==
  /\ deploy[d].pc = "write"
  /\ manifest' = deploy[d].man
  /\ IF deploy[d].at = LastStep THEN Goes(d, "release")
     ELSE deploy' = [deploy EXCEPT ![d].at = @ + 1, ![d].pc = "steps"]
  /\ UNCHANGED <<Database, faults, store, lock, serving, removing, unlocks, forced,
                 slipped>>

WriteFailure(d) ==
  /\ deploy[d].pc = "fail"
  /\ manifest' = deploy[d].man
  /\ Goes(d, "release")
  /\ UNCHANGED <<Database, faults, store, lock, serving, removing, unlocks, forced,
                 slipped>>

WriteFails(d) ==
  /\ deploy[d].pc \in {"write", "fail"}
  /\ Fault
  /\ slipped' = TRUE
  /\ GoesOnly(d, "release")

-----------------------------------------------------------------------------
(* Destroy: the provisioner removes what the run has, its database with it,   *)
(* and then the manifest goes.  One that fails may have removed any of it.    *)
Emptied ==
  /\ row' = [model |-> {}, plan |-> NoPlan, phase |-> "none"]
  /\ log' = [p \in Plans |-> Runner!Unlogged(p)]
  /\ schema' = <<"at", {}>>
  /\ owner' = Nobody
  /\ run' = [d \in Deploys |-> Runner!Resting]
  /\ UNCHANGED <<driver, leased, runs>>

Destroys(d) ==
  /\ deploy[d].pc = "destroy"
  /\ \E gone \in SUBSET Servers :
       /\ serving' = [s \in Servers |-> IF s \in gone THEN NoVersion ELSE serving[s]]
       /\ \/ /\ gone = Servers /\ Emptied
             /\ Goes(d, "forget")
             /\ UNCHANGED <<faults, slipped>>
          \/ /\ Fault
             /\ \/ UNCHANGED Database /\ UNCHANGED slipped
                \/ Emptied /\ slipped' = TRUE
             /\ Goes(d, "release")
  /\ UNCHANGED <<store, lock, manifest, removing, unlocks, forced>>

DeleteManifest(d) ==
  /\ deploy[d].pc = "forget"
  /\ \/ manifest' = Nothing /\ UNCHANGED <<faults, slipped>>
     \/ Fault /\ slipped' = TRUE /\ UNCHANGED manifest
  /\ Goes(d, "release")
  /\ UNCHANGED <<Database, store, lock, serving, removing, unlocks, forced>>

(* The process dies.  The runner dies with it, or goes on where it runs as a  *)
(* job of its own.                                                            *)
Dies(d) ==
  /\ Live(d)
  /\ Goes(d, "dead")
  /\ \/ Fault /\ UNCHANGED Database
     \/ UNCHANGED driver /\ Runner!Crash(d)
  /\ slipped' = (slipped \/ deploy[d].pc \in {"calling", "write", "fail", "forget"})
  /\ removing' = [removing EXCEPT ![d] = Nobody]
  /\ UNCHANGED <<store, lock, manifest, serving, unlocks, forced>>

-----------------------------------------------------------------------------
Moves(d) ==
  \/ ReleaseReads(d) \/ Releases(d) \/ ReleaseLeaves(d)
  \/ Prepare(d) \/ Refused(d) \/ WriteFirst(d)
  \/ OtherStep(d) \/ Rollout(d) \/ Migrate(d)
  \/ Skip(d) \/ CallRunner(d) \/ CallLost(d) \/ Returned(d) \/ Migrated(d)
  \/ Write(d) \/ WriteFailure(d) \/ WriteFails(d)
  \/ Destroys(d) \/ DeleteManifest(d)

Next ==
  \/ \E d \in Deploys :
       \/ \E v \in Versions : TakeLock(d, v, "plan")
       \/ TakeLock(d, NoVersion, "destroy")
       \/ Moves(d) \/ RunnerMoves(d) \/ Dies(d)
  \/ \E p \in Persons : PersonConfirms(p) \/ PersonUnlocks(p)

Spec == Init /\ [][Next]_vars

-----------------------------------------------------------------------------
(* Two deploys or destroys of the run never run at once, when no person       *)
(* removed the lock of one that still ran.                                    *)
OneDeployAtATime ==
  ~ forced => \A d, e \in Deploys : Live(d) /\ Live(e) => d = e

(* On gcp, a lock goes by its own deploy's release or by a person who named   *)
(* it: a deploy whose lock was removed leaves the next one's in place.        *)
OnlyTheNamedGoes ==
  [][\A d \in Deploys :
       store = "gcp" /\ lock = d /\ lock' # d =>
         \E c \in Deploys \cup Persons : removing[c] = d /\ removing'[c] = Nobody]_vars

(* What the schema has for sure: every column of the model it is at, or, in   *)
(* the middle of a phase, of the model the phase keeps.                       *)
Certain ==
  CASE schema[1] = "at" -> schema[2]
    [] schema[1] = "in" -> IF schema[3] <= ExpandSteps(schema[2])
                           THEN schema[2].from ELSE schema[2].to
    [] OTHER -> {}

(* Every server finds the columns its version uses: expand steps leave the    *)
(* servers of the previous version working, and a contract step waits until   *)
(* none runs, through deploys that fail at any step, roll back, and are        *)
(* retried.                                                                    *)
ServersServed ==
  ~ forced /\ ~ slipped =>
    \A s \in Servers : serving[s] # NoVersion => Uses[serving[s]] \subseteq Certain

(* While no deploy runs, the manifest says where the database is: at the      *)
(* model it records, or within the phase it records as pending.               *)
ManifestHolds ==
  ~ forced /\ ~ slipped /\ (\A d \in Deploys : ~ Live(d)) =>
    LET p == manifest.pending.plan IN
    CASE manifest.pending # NoPending /\ manifest.pending.phase = "expand" ->
           \E n \in 0..ExpandSteps(p) : schema = Runner!At(p, n)
      [] manifest.pending # NoPending /\ manifest.pending.phase = "contract" ->
           \E n \in ExpandSteps(p)..ExpandSteps(p) + ContractSteps(p) :
             schema = Runner!At(p, n)
      [] manifest.pending = NoPending /\ manifest.model = NoModel ->
           schema = <<"at", {}>>
      [] OTHER -> schema = <<"at", manifest.model>>

(* The runner turns a deploy's call down: decide refuses its plan, or the     *)
(* plan's contract phase, which leaves the deploy with an error.              *)
TurnsDown(d) ==
  LET p == run[d].plan
      decision == Runner!Decision(Runner!Tables, p) IN
  /\ deploy[d].result = "running" /\ run[d].pc = "decide"
  /\ \/ decision = "refuse"
     \/ /\ run[d].phase = "contract" /\ decision # "applied"
        /\ ~ Runner!ContractAllowed(Runner!Tables, p)

(* The runner takes the plan a deploy gives it: one after a deploy that failed *)
(* supersedes what is pending, or finishes it, and goes on.                    *)
RunnerTakesPlans == ~ forced /\ ~ slipped => \A d \in Deploys : ~ TurnsDown(d)

(* What it turns down is the contract of a plan without an expand phase, and  *)
(* that always: whatever fails, dies, is retried, rolled back or left behind, *)
(* every other phase a deploy calls is one the database is ready for.         *)
RefusesTheSkipped ==
  ~ forced /\ ~ slipped =>
    \A d \in Deploys :
      deploy[d].result = "running" /\ run[d].pc = "decide" =>
        (TurnsDown(d) <=> run[d].phase = "contract" /\ ExpandSteps(run[d].plan) = 0)
=============================================================================
