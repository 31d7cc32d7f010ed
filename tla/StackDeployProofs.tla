------------------------- MODULE StackDeployProofs -------------------------
(***************************************************************************)
(* What StackDeploy keeps for any number of deploys, persons, versions,       *)
(* columns, servers and waves: its types, the lock that keeps deploys apart,  *)
(* that the manifest says where the database is, that no server misses a      *)
(* column, and which plans the runner takes; the invariant of                 *)
(* MigrationRunnerProofs with it.                                             *)
(***************************************************************************)
EXTENDS StackDeploy, FiniteSetTheorems, TLAPS

(* What a deploy's types rest on: one that plans has a version, and one past  *)
(* its plan has a plan.                                                       *)
Planned ==
  \A d \in Deploys :
    /\ deploy[d].pc = "plan" => deploy[d].version \in Versions
    /\ deploy[d].pc \in {"first", "steps", "calling", "write"} => deploy[d].plan \in Plans

Typed == TypeOK /\ Planned

(* A plan's models, and the one between its phases, are sets of columns. *)
LEMMA AfterType ==
  ASSUME NEW p \in Plans, NEW phase
  PROVE After(p, phase) \in Model
<1>1. p.from \in Model /\ p.to \in {Uses[v] : v \in Versions}
  BY DEF Plans
<1>2. p.to \in Model
  BY <1>1, DeployAssumption DEF Model
<1> QED
  BY <1>1, <1>2 DEF After, Model

LEMMA StepPlaces ==
  /\ Waves \in Nat
  /\ LastStep \in Nat /\ 1 \in 1..LastStep
BY DeployAssumption DEF LastStep

LEMMA IdleType == ASSUME NEW pc \in {"new", "release", "over", "dead"}
                  PROVE Idle(pc) \in Deployment
BY StepPlaces DEF Idle, Deployment, Nothing, Recorded

(* Where a deploy goes leaves the other deploys, and its own types, alone. *)
LEMMA GoesType ==
  ASSUME Typed, NEW d \in Deploys,
         NEW pc \in {"steps", "write", "fail", "forget", "release", "over", "dead"},
         Goes(d, pc),
         pc \in {"steps", "write"} => deploy[d].plan \in Plans
  PROVE  deploy' \in [Deploys -> Deployment] /\ Planned'
<1> USE DEF Typed, TypeOK
<1>1. CASE pc \in {"release", "over", "dead"}
  <2>1. deploy' = [deploy EXCEPT ![d] = Idle(pc)]
    BY <1>1 DEF Goes
  <2>2. Idle(pc).pc = pc
    BY DEF Idle
  <2> QED
    BY <1>1, <2>1, <2>2, IdleType DEF Planned
<1>2. CASE pc \notin {"release", "over", "dead"}
  <2>1. deploy' = [deploy EXCEPT ![d] = [@ EXCEPT !.pc = pc]]
    BY <1>2 DEF Goes
  <2>2. [deploy[d] EXCEPT !.pc = pc] \in Deployment
    BY DEF Deployment
  <2>3. deploy' \in [Deploys -> Deployment]
    BY <2>1, <2>2
  <2>4. /\ deploy'[d].pc = pc /\ deploy'[d].plan = deploy[d].plan
        /\ \A e \in Deploys \ {d} : deploy'[e] = deploy[e]
    BY <2>1 DEF Deployment
  <2> QED
    BY <1>2, <2>3, <2>4 DEF Planned
<1> QED
  BY <1>1, <1>2

LEMMA TypeInit == Init => Typed
<1> SUFFICES ASSUME Init PROVE Typed
  OBVIOUS
<1>1. Idle("new") \in Deployment /\ Idle("new").pc = "new"
  BY IdleType DEF Idle
<1>2. Nothing \in Recorded
  BY DEF Nothing, Recorded
<1>3. deploy \in [Deploys -> Deployment] /\ \A d \in Deploys : deploy[d].pc = "new"
  BY <1>1 DEF Init
<1>4. unlocks \in 0..MaxUnlocks
  BY DeployAssumption DEF Init
<1>5. /\ serving \in [Servers -> Versions \cup {NoVersion}]
      /\ removing \in [Deploys \cup Persons -> Deploys \cup {Nobody}]
      /\ store \in Stores /\ lock = Nobody /\ manifest = Nothing
      /\ forced \in BOOLEAN /\ slipped \in BOOLEAN
  BY DEF Init
<1> QED
  BY <1>2, <1>3, <1>4, <1>5 DEF Typed, TypeOK, Planned

(* The steps of the lock. *)
LEMMA TypeLock ==
  ASSUME Typed, NEW d \in Deploys
  PROVE  /\ \A v \in Versions : TakeLock(d, v, "plan") => Typed'
         /\ TakeLock(d, NoVersion, "destroy") => Typed'
         /\ ReleaseReads(d) \/ Releases(d) \/ ReleaseLeaves(d) => Typed'
<1> USE DEF Typed
<1>1. ASSUME NEW v \in Versions \cup {NoVersion}, NEW pc \in {"plan", "destroy"},
             TakeLock(d, v, pc), pc = "plan" => v \in Versions
      PROVE  Typed'
  <2>1. deploy' = [deploy EXCEPT ![d] = [@ EXCEPT !.pc = pc, !.version = v]]
    BY <1>1 DEF TakeLock
  <2>2. [deploy[d] EXCEPT !.pc = pc, !.version = v] \in Deployment
    BY DEF TypeOK, Deployment
  <2>3. deploy' \in [Deploys -> Deployment]
    BY <2>1, <2>2 DEF TypeOK
  <2>4. /\ deploy'[d].pc = pc /\ deploy'[d].version = v
        /\ \A e \in Deploys \ {d} : deploy'[e] = deploy[e]
    BY <2>1 DEF TypeOK, Deployment
  <2>5. Planned'
    BY <1>1, <2>4 DEF Planned
  <2> QED
    BY <1>1, <2>3, <2>5 DEF TakeLock, Creates, TypeOK
<1>2. ASSUME ReleaseReads(d) PROVE Typed'
  BY <1>2 DEF ReleaseReads, UnlockReads, TypeOK, Planned
<1>3. ASSUME Releases(d) PROVE Typed'
  <2>1. deploy' \in [Deploys -> Deployment] /\ Planned'
    BY <1>3, GoesType DEF Releases
  <2> QED
    BY <1>3, <2>1 DEF Releases, UnlockDeletes, Deletes, TypeOK
<1>4. ASSUME ReleaseLeaves(d) PROVE Typed'
  <2>1. deploy' \in [Deploys -> Deployment] /\ Planned'
    BY <1>4, GoesType DEF ReleaseLeaves
  <2> QED
    BY <1>4, <2>1 DEF ReleaseLeaves, TypeOK
<1> QED
  BY <1>1, <1>2, <1>3, <1>4

LEMMA TypePerson ==
  ASSUME Typed, NEW p \in Persons
  PROVE  PersonConfirms(p) \/ PersonUnlocks(p) => Typed'
<1> USE DEF Typed
<1>1. ASSUME PersonConfirms(p) PROVE Typed'
  <2>1. unlocks' \in 0..MaxUnlocks
    BY <1>1, DeployAssumption DEF PersonConfirms, TypeOK
  <2>2. removing' \in [Deploys \cup Persons -> Deploys \cup {Nobody}]
    BY <1>1 DEF PersonConfirms, UnlockReads, TypeOK
  <2>3. forced' \in BOOLEAN
    BY <1>1 DEF PersonConfirms, TypeOK
  <2> QED
    BY <1>1, <2>1, <2>2, <2>3 DEF PersonConfirms, TypeOK, Planned
<1>2. ASSUME PersonUnlocks(p) PROVE Typed'
  BY <1>2 DEF PersonUnlocks, UnlockDeletes, Deletes, TypeOK, Planned
<1> QED
  BY <1>1, <1>2

(* The steps that only move a deploy on. *)
LEMMA TypeMove ==
  ASSUME Typed, NEW d \in Deploys
  PROVE  /\ Refused(d) \/ WriteFirst(d) \/ OtherStep(d) \/ Rollout(d) => Typed'
         /\ Migrated(d) \/ WriteFailure(d) \/ WriteFails(d) => Typed'
         /\ Destroys(d) \/ DeleteManifest(d) \/ Dies(d) => Typed'
<1>p. deploy[d].pc \in {"first", "steps", "calling", "write"} => deploy[d].plan \in Plans
  BY DEF Typed, Planned
<1>m. deploy[d].man \in Recorded
  BY DEF Typed, TypeOK, Deployment
<1>1. ASSUME Refused(d) \/ OtherStep(d) \/ Migrated(d) \/ WriteFails(d) PROVE Typed'
  <2>1. \E pc \in {"write", "fail", "release"} :
          GoesOnly(d, pc) /\ (pc = "write" => deploy[d].pc \in {"steps", "calling"})
    BY <1>1 DEF Refused, OtherStep, Migrated, WriteFails, AtStep
  <2>2. deploy' \in [Deploys -> Deployment] /\ Planned'
    <3>1. PICK pc \in {"write", "fail", "release"} :
            Goes(d, pc) /\ (pc = "write" => deploy[d].pc \in {"steps", "calling"})
      BY <2>1 DEF GoesOnly
    <3> QED
      BY <3>1, <1>p, GoesType
  <2>3. slipped' \in BOOLEAN
    BY <1>1 DEF Refused, OtherStep, Migrated, WriteFails, Typed, TypeOK
  <2> QED
    BY <2>1, <2>2, <2>3 DEF GoesOnly, Typed, TypeOK
<1>2. ASSUME WriteFirst(d) PROVE Typed'
  <2>1. deploy' \in [Deploys -> Deployment] /\ Planned'
    BY <1>2, <1>p, GoesType DEF WriteFirst
  <2> QED
    BY <1>2, <1>m, <2>1 DEF WriteFirst, Typed, TypeOK
<1>3. ASSUME Rollout(d) PROVE Typed'
  <2>1. \E pc \in {"write", "fail"} : Goes(d, pc)
    BY <1>3 DEF Rollout
  <2>2. deploy' \in [Deploys -> Deployment] /\ Planned'
    BY <1>3, <2>1, <1>p, GoesType DEF Rollout, AtStep
  <2>3. serving' \in [Servers -> Versions \cup {NoVersion}]
    BY <1>3 DEF Rollout, Typed, TypeOK, Deployment
  <2> QED
    BY <1>3, <2>2, <2>3 DEF Rollout, Typed, TypeOK
<1>4. ASSUME WriteFailure(d) PROVE Typed'
  <2>1. deploy' \in [Deploys -> Deployment] /\ Planned'
    BY <1>4, GoesType DEF WriteFailure
  <2> QED
    BY <1>4, <1>m, <2>1 DEF WriteFailure, Typed, TypeOK
<1>5. ASSUME Destroys(d) PROVE Typed'
  <2>1. \E pc \in {"forget", "release"} : Goes(d, pc)
    BY <1>5 DEF Destroys
  <2>2. deploy' \in [Deploys -> Deployment] /\ Planned'
    BY <2>1, GoesType
  <2>3. serving' \in [Servers -> Versions \cup {NoVersion}] /\ slipped' \in BOOLEAN
    BY <1>5 DEF Destroys, Typed, TypeOK
  <2> QED
    BY <1>5, <2>2, <2>3 DEF Destroys, Typed, TypeOK
<1>6. ASSUME DeleteManifest(d) PROVE Typed'
  <2>1. deploy' \in [Deploys -> Deployment] /\ Planned'
    BY <1>6, GoesType DEF DeleteManifest
  <2>2. Nothing \in Recorded
    BY DEF Nothing, Recorded
  <2> QED
    BY <1>6, <2>1, <2>2 DEF DeleteManifest, Typed, TypeOK
<1>7. ASSUME Dies(d) PROVE Typed'
  <2>1. deploy' \in [Deploys -> Deployment] /\ Planned'
    BY <1>7, GoesType DEF Dies
  <2>2. slipped' \in BOOLEAN
    BY <1>7 DEF Dies, Typed, TypeOK
  <2> QED
    BY <1>7, <2>1, <2>2 DEF Dies, Typed, TypeOK
<1> QED
  BY <1>1, <1>2, <1>3, <1>4, <1>5, <1>6, <1>7

(* What a step that changes one deploy's record must keep. *)
LEMMA TypeOfOne ==
  ASSUME Typed, NEW d \in Deploys, NEW new \in Deployment,
         deploy' = [deploy EXCEPT ![d] = new],
         new.pc = "plan" => new.version \in Versions,
         new.pc \in {"first", "steps", "calling", "write"} => new.plan \in Plans
  PROVE  deploy' \in [Deploys -> Deployment] /\ Planned'
<1>1. deploy' \in [Deploys -> Deployment]
  BY DEF Typed, TypeOK
<1>2. deploy'[d] = new /\ \A e \in Deploys \ {d} : deploy'[e] = deploy[e]
  BY DEF Typed, TypeOK
<1> QED
  BY <1>1, <1>2 DEF Typed, Planned

LEMMA PendingType ==
  ASSUME NEW man \in Recorded, man.pending # NoPending
  PROVE  man.pending.phase \in {"expand", "contract"} /\ man.pending.plan \in Plans
BY DEF Recorded, NoPending

LEMMA CallsType ==
  ASSUME Typed, NEW d \in Deploys, deploy[d].plan \in Plans, NEW changed \in BOOLEAN
  PROVE  Calls(d, changed) \in Seq(Call)
<1> DEFINE man == deploy[d].man
           plan == deploy[d].plan
           expand == [phase |-> "expand", plan |-> plan,
                      runs |-> changed \/ ExpandSteps(plan) > 0]
           contract == [phase |-> "contract", plan |-> plan, runs |-> TRUE]
           pending == [phase |-> man.pending.phase, plan |-> man.pending.plan,
                       runs |-> TRUE]
<1>1. man \in Recorded
  BY DEF Typed, TypeOK, Deployment
<1>2. expand \in Call /\ contract \in Call
  <2>1. (changed \/ ExpandSteps(plan) > 0) \in BOOLEAN
    OBVIOUS
  <2> QED
    BY <2>1 DEF Call
<1>3. man.pending # NoPending => pending \in Call
  BY <1>1, PendingType DEF Call
<1> HIDE DEF expand, contract, pending
<1>4. Calls(d, changed) \in
        {Append(IF man.pending = NoPending THEN <<>> ELSE <<pending>>, expand),
         <<contract>>, <<>>}
  BY DEF Calls, expand, contract, pending
<1>5. <<>> \in Seq(Call) /\ <<contract>> \in Seq(Call)
  BY <1>2
<1>6. ASSUME man.pending # NoPending PROVE <<pending>> \in Seq(Call)
  BY <1>3, <1>6
<1>7. (IF man.pending = NoPending THEN <<>> ELSE <<pending>>) \in Seq(Call)
  BY <1>5, <1>6
<1>8. ASSUME NEW todo \in Seq(Call) PROVE Append(todo, expand) \in Seq(Call)
  BY <1>2
<1> QED
  BY <1>4, <1>5, <1>7, <1>8

LEMMA RecordsType ==
  ASSUME Typed, NEW d \in Deploys, NEW call \in Call
  PROVE  Records(d, call) \in Recorded /\ RecordsPending(d, call) \in Recorded
<1>1. call.plan \in Plans /\ call.phase \in {"expand", "contract"}
  BY DEF Call
<1>2. After(call.plan, call.phase) \in Model
  BY <1>1, AfterType
<1>3. deploy[d].man.model \in Model \cup {NoModel}
  BY DEF Typed, TypeOK, Deployment, Recorded
<1> QED
  BY <1>1, <1>2, <1>3 DEF Records, RecordsPending, Recorded

(* The steps of a deploy that plans, migrates and writes. *)
LEMMA TypeMigrate ==
  ASSUME Typed, NEW d \in Deploys
  PROVE  /\ Prepare(d) \/ Migrate(d) \/ Skip(d) \/ Write(d) => Typed'
         /\ CallRunner(d) \/ CallLost(d) \/ Returned(d) \/ RunnerMoves(d) => Typed'
<1> DEFINE D == deploy[d]
<1>d. /\ D \in Deployment
      /\ D.pc = "plan" => D.version \in Versions
      /\ D.pc \in {"first", "steps", "calling", "write"} => D.plan \in Plans
  BY DEF Typed, TypeOK, Planned
<1>1. ASSUME Prepare(d) PROVE Typed'
  <2> DEFINE plan == [from |-> PlansFrom(manifest), to |-> Uses[D.version]]
             new == [D EXCEPT !.pc = "first", !.man = manifest, !.plan = plan]
  <2>1. PlansFrom(manifest) \in Model
    <3>1. manifest.model \in Model \cup {NoModel} /\ {} \in Model
      BY DEF Typed, TypeOK, Recorded, Model
    <3>2. manifest.pending # NoPending =>
            After(manifest.pending.plan, manifest.pending.phase) \in Model
      BY PendingType, AfterType DEF Typed, TypeOK
    <3> QED
      BY <3>1, <3>2 DEF PlansFrom
  <2>2. plan \in Plans
    BY <2>1, <1>1, <1>d DEF Prepare, Plans
  <2>3. deploy' = [deploy EXCEPT ![d] = new]
    BY <1>1 DEF Prepare
  <2>4. new \in Deployment /\ new.pc = "first" /\ new.plan = plan
    BY <1>d, <2>2 DEF Typed, TypeOK, Deployment
  <2>5. deploy' \in [Deploys -> Deployment] /\ Planned'
    BY <2>2, <2>3, <2>4, TypeOfOne
  <2> QED
    BY <1>1, <2>5 DEF Prepare, Typed, TypeOK
<1>2. ASSUME Migrate(d) PROVE Typed'
  <2>1. PICK changed \in BOOLEAN :
          deploy' = [deploy EXCEPT ![d].pc = "calling", ![d].todo = Calls(d, changed)]
    BY <1>2 DEF Migrate
  <2> DEFINE new == [D EXCEPT !.pc = "calling", !.todo = Calls(d, changed)]
  <2>2. Calls(d, changed) \in Seq(Call) /\ D.plan \in Plans
    BY <1>2, <1>d, CallsType DEF Migrate, AtStep
  <2>3. deploy' = [deploy EXCEPT ![d] = new]
    BY <2>1
  <2>4. new \in Deployment /\ new.pc = "calling" /\ new.plan = D.plan
    BY <1>d, <2>2 DEF Deployment
  <2>5. deploy' \in [Deploys -> Deployment] /\ Planned'
    BY <2>2, <2>3, <2>4, TypeOfOne
  <2> QED
    BY <1>2, <2>5 DEF Migrate, Typed, TypeOK
<1>t. ASSUME Calling(d) PROVE Head(D.todo) \in Call /\ Tail(D.todo) \in Seq(Call)
  BY <1>t, <1>d DEF Calling, Deployment
<1>3. ASSUME Skip(d) PROVE Typed'
  <2> DEFINE new == [D EXCEPT !.todo = Tail(@), !.man = Records(d, Head(D.todo))]
  <2>1. Records(d, Head(D.todo)) \in Recorded
    BY <1>3, <1>t, RecordsType DEF Skip
  <2>2. deploy' = [deploy EXCEPT ![d] = new]
    BY <1>3 DEF Skip
  <2>3. new \in Deployment /\ new.pc = D.pc /\ new.plan = D.plan /\ new.version = D.version
    BY <1>3, <1>d, <1>t, <2>1 DEF Skip, Deployment
  <2>4. deploy' \in [Deploys -> Deployment] /\ Planned'
    BY <1>d, <2>2, <2>3, TypeOfOne
  <2> QED
    BY <1>3, <2>4 DEF Skip, Typed, TypeOK
<1>4. ASSUME Write(d) PROVE Typed'
  <2>1. deploy' \in [Deploys -> Deployment] /\ Planned'
    <3>1. CASE D.at = LastStep
      BY <1>4, <3>1, GoesType DEF Write
    <3>2. CASE D.at # LastStep
      <4> DEFINE new == [D EXCEPT !.at = @ + 1, !.pc = "steps"]
      <4>1. D.at + 1 \in 1..LastStep
        BY <1>d, <3>2, StepPlaces DEF Deployment
      <4>2. deploy' = [deploy EXCEPT ![d] = new]
        BY <1>4, <3>2 DEF Write
      <4>3. new \in Deployment /\ new.pc = "steps" /\ new.plan = D.plan
        BY <1>d, <4>1 DEF Deployment
      <4> QED
        BY <1>4, <1>d, <4>2, <4>3, TypeOfOne DEF Write
    <3> QED
      BY <3>1, <3>2
  <2>2. D.man \in Recorded
    BY <1>d DEF Deployment
  <2> QED
    BY <1>4, <2>1, <2>2 DEF Write, Typed, TypeOK
<1>r. ASSUME NEW how \in {"none", "running", "ok", "err"},
             deploy' = [deploy EXCEPT ![d].result = how]
      PROVE  deploy' \in [Deploys -> Deployment] /\ Planned'
  <2> DEFINE new == [D EXCEPT !.result = how]
  <2>1. new \in Deployment /\ new.pc = D.pc /\ new.plan = D.plan /\ new.version = D.version
    BY <1>d DEF Deployment
  <2>2. deploy' = [deploy EXCEPT ![d] = new]
    BY <1>r
  <2> QED
    BY <1>d, <2>1, <2>2, TypeOfOne
<1>5. ASSUME CallRunner(d) PROVE Typed'
  <2>1. \E how \in {"running", "ok", "err"} : deploy' = [deploy EXCEPT ![d].result = how]
    BY <1>5 DEF CallRunner
  <2>2. deploy' \in [Deploys -> Deployment] /\ Planned'
    BY <2>1, <1>r
  <2> QED
    BY <1>5, <2>2 DEF CallRunner, Typed, TypeOK
<1>6. ASSUME CallLost(d) PROVE Typed'
  <2>1. deploy' \in [Deploys -> Deployment] /\ Planned'
    BY <1>6, <1>r DEF CallLost
  <2> QED
    BY <1>6, <2>1 DEF CallLost, Typed, TypeOK
<1>7. ASSUME Returned(d) PROVE Typed'
  <2> DEFINE call == Head(D.todo)
             ok == [D EXCEPT !.result = "none", !.todo = Tail(@), !.man = Records(d, call)]
             err == [D EXCEPT !.result = "none", !.todo = <<>>,
                              !.man = RecordsPending(d, call), !.pc = "fail"]
  <2>1. Records(d, call) \in Recorded /\ RecordsPending(d, call) \in Recorded
    BY <1>7, <1>t, RecordsType DEF Returned
  <2>2. deploy' = [deploy EXCEPT ![d] = ok] \/ deploy' = [deploy EXCEPT ![d] = err]
    BY <1>7 DEF Returned
  <2>3. ok \in Deployment /\ ok.pc = D.pc /\ ok.plan = D.plan /\ ok.version = D.version
    BY <1>7, <1>d, <1>t, <2>1 DEF Returned, Deployment
  <2>4. err \in Deployment /\ err.pc = "fail"
    <3>1. <<>> \in Seq(Call)
      OBVIOUS
    <3> QED
      BY <1>d, <2>1, <3>1 DEF Deployment
  <2> HIDE DEF ok, err
  <2>5. deploy' \in [Deploys -> Deployment] /\ Planned'
    <3>1. CASE deploy' = [deploy EXCEPT ![d] = ok]
      BY <1>d, <2>3, <3>1, TypeOfOne
    <3>2. CASE deploy' = [deploy EXCEPT ![d] = err]
      BY <2>4, <3>2, TypeOfOne
    <3> QED
      BY <2>2, <3>1, <3>2
  <2> QED
    BY <1>7, <2>5 DEF Returned, Typed, TypeOK
<1>8. ASSUME RunnerMoves(d) PROVE Typed'
  <2>1. \/ \E how \in {"ok", "err"} : deploy' = [deploy EXCEPT ![d].result = how]
        \/ deploy' = deploy
    BY <1>8 DEF RunnerMoves, Ends
  <2>2. deploy' \in [Deploys -> Deployment] /\ Planned'
    BY <2>1, <1>r DEF Typed, TypeOK, Planned
  <2> QED
    BY <1>8, <2>2 DEF RunnerMoves, Typed, TypeOK
<1> QED
  BY <1>1, <1>2, <1>3, <1>4, <1>5, <1>6, <1>7, <1>8

LEMMA TypeStep == Typed /\ [Next]_vars => Typed'
<1> SUFFICES ASSUME Typed, [Next]_vars PROVE Typed'
  OBVIOUS
<1>1. ASSUME NEW d \in Deploys, Moves(d) PROVE Typed'
  BY <1>1, TypeMove, TypeMigrate, TypeLock DEF Moves
<1>2. ASSUME NEW d \in Deploys, RunnerMoves(d) \/ Dies(d) PROVE Typed'
  BY <1>2, TypeMove, TypeMigrate
<1>3. ASSUME NEW d \in Deploys,
             (\E v \in Versions : TakeLock(d, v, "plan")) \/ TakeLock(d, NoVersion, "destroy")
      PROVE  Typed'
  BY <1>3, TypeLock
<1>4. ASSUME NEW p \in Persons, PersonConfirms(p) \/ PersonUnlocks(p) PROVE Typed'
  BY <1>4, TypePerson
<1>5. ASSUME UNCHANGED vars PROVE Typed'
  BY <1>5 DEF vars, Typed, TypeOK, Planned
<1> QED
  BY <1>1, <1>2, <1>3, <1>4, <1>5 DEF Next

(* Every variable keeps its type, and a plan is made of sets of columns. *)
THEOREM DeployTypeCorrect == Spec => []TypeOK
<1> QED
  BY TypeInit, TypeStep, PTL DEF Spec, Typed

-----------------------------------------------------------------------------
(* The lock.  But for force, a live deploy holds it, a deploy removes no lock  *)
(* but its own, and a person none of a deploy that may still run.  Cloudflare  *)
(* deletes whatever lock it finds, and so needs that no two persons unlock:    *)
(* then the lock the only one read is there until the delete.                 *)
Begun(d) == deploy[d].pc # "new"

OnePerson == \A p, q \in Persons : p = q
Apart == store = "gcp" \/ OnePerson

Held ==
  /\ \A d \in Deploys : lock = d => Begun(d)
  /\ \A d \in Deploys : removing[d] \in {d, Nobody}
  /\ \A p \in Persons, d \in Deploys :
       removing[p] = d => Begun(d) /\ (Live(d) => forced)
  /\ OnePerson /\ ~ forced =>
       \A p \in Persons : removing[p] \in Deploys => lock = removing[p]
  /\ Apart /\ ~ forced => \A d \in Deploys : Live(d) => lock = d

LEMMA HeldInit == Init => Held
BY DeployAssumption DEF Init, Held, Begun, Live, Idle

(* A step within a live deploy, or none: no deploy comes to life, and the lock *)
(* and those who would remove it stay, but for a deploy that forgets it would. *)
Inside ==
  /\ UNCHANGED <<store, lock, forced>>
  /\ \A d \in Deploys : (Begun(d)' <=> Begun(d)) /\ (Live(d)' => Live(d))
  /\ \A d \in Deploys : removing'[d] \in {removing[d], Nobody}
  /\ \A p \in Persons : removing'[p] = removing[p]

LEMMA HeldInside == Held /\ Inside => Held'
BY DEF Held, Inside, OnePerson, Apart

LEMMA GoesInside ==
  ASSUME Typed, NEW d \in Deploys, NEW pc, Goes(d, pc), Live(d), pc # "new"
  PROVE  \A e \in Deploys : (Begun(e)' <=> Begun(e)) /\ (Live(e)' => Live(e))
BY DEF Typed, TypeOK, Deployment, Goes, Live, Begun, Idle

LEMMA MovesInside ==
  ASSUME Typed, NEW d \in Deploys,
         \/ Prepare(d) \/ Refused(d) \/ WriteFirst(d) \/ OtherStep(d) \/ Rollout(d)
         \/ Migrate(d) \/ Skip(d) \/ CallRunner(d) \/ CallLost(d) \/ Returned(d)
         \/ Migrated(d) \/ Write(d) \/ WriteFailure(d) \/ WriteFails(d)
         \/ Destroys(d) \/ DeleteManifest(d) \/ RunnerMoves(d)
  PROVE  Inside
<1> DEFINE Stays == \A e \in Deploys : (Begun(e)' <=> Begun(e)) /\ (Live(e)' => Live(e))
<1>1. UNCHANGED <<store, lock, forced, removing>>
  BY DEF Prepare, Refused, WriteFirst, OtherStep, Rollout, Migrate, Skip, CallRunner,
         CallLost, Returned, Migrated, Write, WriteFailure, WriteFails, Destroys,
         DeleteManifest, RunnerMoves, GoesOnly
<1>2. ASSUME NEW pc, Goes(d, pc), Live(d), pc # "new" PROVE Stays
  BY <1>2, GoesInside
<1>3. ASSUME Refused(d) \/ WriteFirst(d) \/ OtherStep(d) \/ Rollout(d) \/ Migrated(d)
             \/ WriteFailure(d) \/ WriteFails(d) \/ Destroys(d) \/ DeleteManifest(d)
      PROVE  Stays
  <2>1. \E pc \in {"steps", "write", "fail", "forget", "release"} : Goes(d, pc)
    BY <1>3 DEF Refused, WriteFirst, OtherStep, Rollout, Migrated,
       WriteFailure, WriteFails, Destroys, DeleteManifest, GoesOnly
  <2>2. Live(d)
    BY <1>3 DEF Refused, WriteFirst, OtherStep, Rollout, Migrated,
       WriteFailure, WriteFails, Destroys, DeleteManifest, AtStep, Live
  <2> QED
    BY <1>2, <2>1, <2>2
<1>4. ASSUME Live(d),
             \A e \in Deploys \ {d} : deploy'[e] = deploy[e],
             deploy'[d].pc # "new"
      PROVE  Stays
  BY <1>4 DEF Live, Begun
<1>5. ASSUME Prepare(d) \/ Migrate(d) \/ Skip(d) \/ CallLost(d) \/ CallRunner(d) PROVE Stays
  <2>1. Live(d)
    BY <1>5 DEF Prepare, Migrate, Skip, CallLost, CallRunner, AtStep, Calling, Live
  <2>2. /\ \A e \in Deploys \ {d} : deploy'[e] = deploy[e]
        /\ deploy'[d].pc \in {"first", "calling", deploy[d].pc}
    BY <1>5 DEF Prepare, Migrate, Skip, CallLost, CallRunner, Typed, TypeOK, Deployment
  <2> QED
    BY <1>4, <2>1, <2>2 DEF Live
<1>6. ASSUME Returned(d) PROVE Stays
  <2>1. Live(d)
    BY <1>6 DEF Returned, Calling, Live
  <2>2. /\ \A e \in Deploys \ {d} : deploy'[e] = deploy[e]
        /\ deploy'[d].pc \in {"fail", deploy[d].pc}
    BY <1>6 DEF Returned, Typed, TypeOK, Deployment
  <2> QED
    BY <1>4, <2>1, <2>2 DEF Live
<1>7. ASSUME Write(d) PROVE Stays
  <2>1. Live(d)
    BY <1>7 DEF Write, Live
  <2>2. CASE Goes(d, "release")
    BY <1>2, <2>1, <2>2
  <2>3. CASE deploy' = [deploy EXCEPT ![d].at = @ + 1, ![d].pc = "steps"]
    <3>1. /\ \A e \in Deploys \ {d} : deploy'[e] = deploy[e]
          /\ deploy'[d].pc = "steps"
      BY <2>3 DEF Typed, TypeOK, Deployment
    <3> QED
      BY <1>4, <2>1, <3>1
  <2> QED
    BY <1>7, <2>2, <2>3 DEF Write
<1>8. ASSUME RunnerMoves(d) PROVE Stays
  <2>1. \A e \in Deploys : deploy'[e].pc = deploy[e].pc
    <3>1. \/ deploy' = deploy
          \/ \E how \in {"ok", "err"} : deploy' = [deploy EXCEPT ![d].result = how]
      BY <1>8 DEF RunnerMoves, Ends
    <3>2. CASE \E how \in {"ok", "err"} : deploy' = [deploy EXCEPT ![d].result = how]
      <4>1. PICK how : deploy' = [deploy EXCEPT ![d].result = how]
        BY <3>2
      <4>2. deploy[d] \in Deployment /\ deploy \in [Deploys -> Deployment]
        BY DEF Typed, TypeOK
      <4> QED
        BY <4>1, <4>2 DEF Deployment
    <3> QED
      BY <3>1, <3>2
  <2> QED
    BY <2>1 DEF Begun, Live
<1>9. Stays
  BY <1>3, <1>5, <1>6, <1>7, <1>8
<1> QED
  BY <1>1, <1>9 DEF Inside

LEMMA HeldStep == Typed /\ Held /\ [Next]_vars => Held'
<1> SUFFICES ASSUME Typed, Held, [Next]_vars PROVE Held'
  OBVIOUS
<1>1. ASSUME NEW d \in Deploys, NEW v, NEW pc \in {"plan", "destroy"}, TakeLock(d, v, pc)
      PROVE  Held'
  <2>1. lock = Nobody /\ lock' = d /\ UNCHANGED <<store, forced, removing>>
    BY <1>1 DEF TakeLock, Creates
  <2>2. /\ ~ Begun(d) /\ ~ Live(d) /\ Begun(d)'
        /\ \A e \in Deploys \ {d} : (Begun(e)' <=> Begun(e)) /\ (Live(e)' <=> Live(e))
    BY <1>1 DEF TakeLock, Typed, TypeOK, Deployment, Begun, Live
  <2> QED
    BY <2>1, <2>2, DeployAssumption DEF Held, OnePerson, Apart
<1>2. ASSUME NEW d \in Deploys, ReleaseReads(d) PROVE Held'
  <2>1. /\ UNCHANGED <<store, lock, forced, deploy>>
        /\ removing'[d] = d
        /\ \A c \in (Deploys \cup Persons) \ {d} : removing'[c] = removing[c]
    BY <1>2 DEF ReleaseReads, UnlockReads, Typed, TypeOK
  <2> QED
    BY <2>1, DeployAssumption DEF Held, Begun, Live, OnePerson, Apart
<1>3. ASSUME NEW d \in Deploys, Releases(d) PROVE Held'
  <2>1. /\ UNCHANGED <<store, forced>>
        /\ removing'[d] = Nobody
        /\ \A c \in (Deploys \cup Persons) \ {d} : removing'[c] = removing[c]
    BY <1>3 DEF Releases, UnlockDeletes, Typed, TypeOK
  <2>2. \A e \in Deploys : (Begun(e)' <=> Begun(e)) /\ (Live(e)' => Live(e) /\ e # d)
    BY <1>3 DEF Releases, Goes, Typed, TypeOK, Deployment, Idle, Begun, Live
  <2>3. lock' \in {lock, Nobody} /\ (store = "gcp" => lock' = lock \/ lock = d)
    BY <1>3 DEF Releases, UnlockDeletes, Deletes, Held
  <2>4. Live(d)
    BY <1>3 DEF Releases, Live
  <2>5. Apart /\ ~ forced => lock = d
    BY <2>4 DEF Held
  <2>6. OnePerson /\ ~ forced => \A p \in Persons : removing[p] \notin Deploys
    BY <2>4, <2>5 DEF Held, Apart
  <2>7. OnePerson /\ ~ forced' =>
          \A p \in Persons : removing'[p] \in Deploys => lock' = removing'[p]
    BY <2>1, <2>6, DeployAssumption
  <2>8. Apart' /\ ~ forced' => \A e \in Deploys : Live(e)' => lock' = e
    BY <2>1, <2>2, <2>5 DEF Held, Apart
  <2> QED
    BY <2>1, <2>2, <2>3, <2>7, <2>8, DeployAssumption DEF Held
<1>4. ASSUME NEW d \in Deploys, ReleaseLeaves(d) \/ Dies(d) PROVE Held'
  <2>1. /\ UNCHANGED <<store, lock, forced>>
        /\ removing'[d] = Nobody
        /\ \A c \in (Deploys \cup Persons) \ {d} : removing'[c] = removing[c]
    BY <1>4 DEF ReleaseLeaves, Dies, Typed, TypeOK
  <2>2. Live(d) /\ \E pc \in {"over", "dead"} : Goes(d, pc)
    BY <1>4 DEF ReleaseLeaves, Dies, Live
  <2>3. \A e \in Deploys : (Begun(e)' <=> Begun(e)) /\ (Live(e)' => Live(e))
    BY <2>2, GoesInside
  <2> QED
    BY <2>1, <2>3, DeployAssumption, HeldInside DEF Inside
<1>5. ASSUME NEW d \in Deploys, Moves(d) \/ RunnerMoves(d) PROVE Held'
  BY <1>2, <1>3, <1>4, <1>5, MovesInside, HeldInside DEF Moves
<1>6. ASSUME NEW p \in Persons, PersonConfirms(p) PROVE Held'
  <2>1. PICK d \in Deploys :
          /\ lock = d /\ removing' = [removing EXCEPT ![p] = d]
          /\ Live(d) => forced'
          /\ forced' = TRUE \/ forced' = forced
    BY <1>6 DEF PersonConfirms, UnlockReads
  <2>2. UNCHANGED <<store, lock, deploy>>
    BY <1>6 DEF PersonConfirms
  <2>3. /\ removing'[p] = d
        /\ \A c \in (Deploys \cup Persons) \ {p} : removing'[c] = removing[c]
    BY <2>1 DEF Typed, TypeOK
  <2>4. \A e \in Deploys : (Begun(e)' <=> Begun(e)) /\ (Live(e)' <=> Live(e))
    BY <2>2 DEF Begun, Live
  <2>5. Begun(d)
    BY <2>1 DEF Held
  <2>6. forced => forced'
    BY <2>1
  <2>7. \A q \in Persons, e \in Deploys :
          removing'[q] = e => Begun(e) /\ (Live(e) => forced')
    BY <2>1, <2>3, <2>5, <2>6 DEF Held
  <2>8. \A e \in Deploys : removing'[e] \in {e, Nobody}
    BY <2>3, DeployAssumption DEF Held
  <2>9. Apart' /\ ~ forced' => \A e \in Deploys : Live(e)' => lock' = e
    BY <2>2, <2>4, <2>6 DEF Held, Apart
  <2>10. \A e \in Deploys : lock' = e => Begun(e)'
    BY <2>2, <2>4 DEF Held
  <2>11. OnePerson => \A q \in Persons : removing'[q] \in Deploys => lock' = removing'[q]
    BY <2>1, <2>2, <2>3 DEF OnePerson
  <2> QED
    BY <2>4, <2>7, <2>8, <2>9, <2>10, <2>11 DEF Held
<1>7. ASSUME NEW p \in Persons, PersonUnlocks(p) PROVE Held'
  <2>1. /\ UNCHANGED <<store, forced, deploy>>
        /\ removing'[p] = Nobody /\ removing[p] \in Deploys
        /\ \A c \in (Deploys \cup Persons) \ {p} : removing'[c] = removing[c]
    BY <1>7 DEF PersonUnlocks, UnlockDeletes, Typed, TypeOK
  <2>2. lock' \in {lock, Nobody} /\ (store = "gcp" => lock' = lock \/ lock = removing[p])
    BY <1>7 DEF PersonUnlocks, UnlockDeletes, Deletes
  <2>3. OnePerson => \A q \in Persons : removing'[q] = Nobody
    BY <2>1 DEF OnePerson
  <2>4. ASSUME Apart, ~ forced, NEW e \in Deploys, Live(e) PROVE lock' = e
    <3>1. lock = e /\ removing[p] # e
      BY <2>1, <2>4 DEF Held
    <3>2. OnePerson => lock = removing[p]
      BY <2>1, <2>4 DEF Held
    <3> QED
      BY <2>2, <2>4, <3>1, <3>2 DEF Apart
  <2>5. \A e \in Deploys : (Begun(e)' <=> Begun(e)) /\ (Live(e)' <=> Live(e))
    BY <2>1 DEF Begun, Live
  <2>6. Apart' /\ ~ forced' => \A e \in Deploys : Live(e)' => lock' = e
    BY <2>1, <2>4, <2>5 DEF Apart
  <2> QED
    BY <2>1, <2>2, <2>3, <2>5, <2>6, DeployAssumption DEF Held
<1>8. ASSUME UNCHANGED vars PROVE Held'
  BY <1>8 DEF vars, Held, Begun, Live, Apart
<1> QED
  BY <1>1, <1>4, <1>5, <1>6, <1>7, <1>8 DEF Next

(* Two deploys or destroys of a run never run at once, unless a person removed *)
(* the lock of one that still ran: however many deploy, die, and are unlocked  *)
(* at any time, on gcp by however many persons, on cloudflare by one.          *)
THEOREM OneRuns == Spec => [](Apart => OneDeployAtATime)
<1>1. Held => (Apart => OneDeployAtATime)
  BY DEF Held, OneDeployAtATime
<1> QED
  BY <1>1, TypeInit, TypeStep, HeldInit, HeldStep, PTL DEF Spec

(* On gcp a lock goes by a caller that read that very lock, whatever deploys   *)
(* took and released between.                                                 *)
THEOREM LockGoesByName == Spec => OnlyTheNamedGoes
<1>1. Typed /\ [Next]_vars =>
        [\A d \in Deploys :
           store = "gcp" /\ lock = d /\ lock' # d =>
             \E c \in Deploys \cup Persons : removing[c] = d /\ removing'[c] = Nobody]_vars
  <2> SUFFICES ASSUME Typed, Next, NEW d \in Deploys,
                      store = "gcp", lock = d, lock' # d
               PROVE  \E c \in Deploys \cup Persons :
                        removing[c] = d /\ removing'[c] = Nobody
    OBVIOUS
  <2>1. ASSUME NEW c \in Deploys \cup Persons, UnlockDeletes(c)
        PROVE  removing[c] = d /\ removing'[c] = Nobody
    BY <2>1 DEF UnlockDeletes, Deletes, Typed, TypeOK
  <2>2. ASSUME NEW e \in Deploys, NEW v, NEW pc, TakeLock(e, v, pc) PROVE FALSE
    BY <2>2, DeployAssumption DEF TakeLock, Creates
  <2>3. ASSUME NEW e \in Deploys, Inside \/ ReleaseReads(e) \/ ReleaseLeaves(e) \/ Dies(e)
        PROVE  FALSE
    BY <2>3 DEF Inside, ReleaseReads, ReleaseLeaves, Dies
  <2>4. ASSUME NEW e \in Deploys, Releases(e) PROVE UnlockDeletes(e)
    BY <2>4 DEF Releases
  <2>5. ASSUME NEW p \in Persons, PersonConfirms(p) \/ PersonUnlocks(p)
        PROVE  UnlockDeletes(p)
    BY <2>5 DEF PersonConfirms, PersonUnlocks
  <2>6. ASSUME NEW e \in Deploys, Moves(e) \/ RunnerMoves(e) \/ Dies(e)
        PROVE  UnlockDeletes(e)
    BY <2>3, <2>4, <2>6, MovesInside DEF Moves
  <2> QED
    BY <2>1, <2>2, <2>5, <2>6 DEF Next
<1> QED
  BY <1>1, TypeInit, TypeStep, PTL DEF Spec, OnlyTheNamedGoes

-----------------------------------------------------------------------------
(* The runner's own invariant, over the plans deploys give it.                *)
R == INSTANCE MigrationRunnerProofs WITH
  Runners <- Deploys, NoRunner <- Nobody, Empty <- {}, Drivers <- {"postgres"},
  Applied <- [d \in {"postgres"} |-> Plans],
  From <- [p \in Plans |-> p.from], To <- [p \in Plans |-> p.to],
  Expanded <- [p \in Plans |-> IF ContractSteps(p) > 0 THEN p.from \cup p.to
                                                       ELSE NoModel],
  Expands <- [p \in Plans |-> ExpandSteps(p)],
  Length <- [p \in Plans |-> ExpandSteps(p) + ContractSteps(p)],
  Sessions <- [p \in Plans |-> {}]

(* A plan has a step for each column it adds and for each it drops.           *)
LEMMA PlanSteps ==
  ASSUME NEW p \in Plans
  PROVE  /\ p.from \in Model /\ p.to \in Model /\ p # NoPlan
         /\ ExpandSteps(p) \in Nat /\ ContractSteps(p) \in Nat
         /\ ExpandSteps(p) = 0 <=> p.to \subseteq p.from
         /\ ContractSteps(p) = 0 <=> p.from \subseteq p.to
         /\ After(p, "expand") = p.from \cup p.to /\ After(p, "contract") = p.to
<1>1. p.from \in Model /\ p.to \in {Uses[v] : v \in Versions}
  BY DEF Plans
<1>2. p.to \in Model
  BY <1>1, DeployAssumption DEF Model
<1>3. IsFiniteSet(p.to \ p.from) /\ IsFiniteSet(p.from \ p.to)
  BY <1>1, <1>2, DeployAssumption, FS_Subset DEF Model
<1>4. ExpandSteps(p) \in Nat /\ (ExpandSteps(p) = 0 <=> p.to \ p.from = {})
  BY <1>3, FS_CardinalityType, FS_EmptySet DEF ExpandSteps
<1>5. ContractSteps(p) \in Nat /\ (ContractSteps(p) = 0 <=> p.from \ p.to = {})
  BY <1>3, FS_CardinalityType, FS_EmptySet DEF ContractSteps
<1>6. p # NoPlan
  BY <1>1, <1>2, DeployAssumption DEF Plans, Model
<1>7. After(p, "expand") = p.from \cup p.to /\ After(p, "contract") = p.to
  BY <1>5 DEF After
<1> QED
  BY <1>1, <1>2, <1>4, <1>5, <1>6, <1>7

LEMMA RunnerAssumption == R!MigrationAssumption
<1>1. NoPlan \notin Plans
  BY PlanSteps
<1>2. NoModel \notin Model /\ {} \in Model
  BY DeployAssumption DEF Model
<1>3. ASSUME NEW p \in Plans
      PROVE  /\ NoModel \notin {p.from, p.to}
             /\ ExpandSteps(p) \in Nat /\ ExpandSteps(p) + ContractSteps(p) \in Nat
             /\ ExpandSteps(p) <= ExpandSteps(p) + ContractSteps(p)
             /\ ExpandSteps(p) + ContractSteps(p) = 0 => p.to = p.from
             /\ ExpandSteps(p) = 0 => (p.from \cup p.to) = p.from
  <2>1. \A e, c \in Nat : e + c \in Nat /\ e <= e + c /\ (e + c = 0 => e = 0 /\ c = 0)
    OBVIOUS
  <2>2. ExpandSteps(p) \in Nat /\ ContractSteps(p) \in Nat
    BY PlanSteps
  <2>3. /\ ExpandSteps(p) + ContractSteps(p) \in Nat
        /\ ExpandSteps(p) <= ExpandSteps(p) + ContractSteps(p)
        /\ ExpandSteps(p) + ContractSteps(p) = 0 => ExpandSteps(p) = 0 /\ ContractSteps(p) = 0
    BY <2>1, <2>2
  <2>4. ExpandSteps(p) = 0 => p.to \subseteq p.from
    BY PlanSteps
  <2>5. ContractSteps(p) = 0 => p.from \subseteq p.to
    BY PlanSteps
  <2>6. NoModel \notin {p.from, p.to}
    BY <1>2, PlanSteps
  <2> QED
    BY <2>2, <2>3, <2>4, <2>5, <2>6
<1>4. Nobody \notin Deploys /\ MaxRuns \in Nat /\ MaxFaults \in Nat
  BY DeployAssumption
<1> QED
  BY <1>1, <1>2, <1>3, <1>4 DEF R!MigrationAssumption

LEMMA RunnerOfInit == Init => R!RunnerInv
<1>1. Runner!Init => R!Init
  BY DEF Runner!Init, R!Init, Runner!Unlogged, R!Unlogged, Runner!Resting, R!Resting,
         Runner!Steps, R!Steps
<1> QED
  BY <1>1, RunnerAssumption, R!RunnerInit DEF Init

(* The runner's steps in a deploy are steps of the runner.                    *)
LEMMA RunnerSteps ==
  ASSUME NEW d \in Deploys, UNCHANGED driver,
         \/ \E p \in Plans, f \in {"expand", "contract", "all"} : Runner!Begin(d, p, f)
         \/ Runner!Lock(d) \/ Runner!Fails(d) \/ Runner!Crash(d)
         \/ run[d].pc # "idle" /\ Runner!Progress(d)
  PROVE  R!Next
<1>1. ASSUME NEW p \in Plans, NEW f \in {"expand", "contract", "all"}, Runner!Begin(d, p, f)
      PROVE  R!Begin(d, p, f)
  BY <1>1 DEF Runner!Begin, R!Begin, Runner!PhaseSteps, R!PhaseSteps, Runner!Steps, R!Steps,
              Runner!ExpandSteps, R!ExpandSteps
<1>2. Runner!Lock(d) => R!Lock(d)
  BY DEF Runner!Lock, R!Lock, Runner!Goes, R!Goes
<1>3. Runner!Fails(d) => R!Fails(d)
  BY DEF Runner!Fails, R!Fails, Runner!Fault, R!Fault, Runner!Goes, R!Goes
<1>4. Runner!Crash(d) => R!Crash(d)
  BY DEF Runner!Crash, R!Crash, Runner!Fault, R!Fault, Runner!Frees, R!Frees,
         Runner!Resting, R!Resting
<1>5. Runner!Progress(d) => R!Progress(d)
  BY DEF Runner!Progress, R!Progress, Runner!Read, R!Read, Runner!DecideReads, R!DecideReads,
         Runner!StartPlan, R!StartPlan, Runner!TransactionalReads, R!TransactionalReads,
         Runner!TransactionalStep, R!TransactionalStep, Runner!SessionStarts, R!SessionStarts,
         Runner!SessionStatement, R!SessionStatement, Runner!SessionEnds, R!SessionEnds,
         Runner!StepsOver, R!StepsOver, Runner!EndRun, R!EndRun, Runner!Unlock, R!Unlock,
         Runner!Tables, R!Tables, Runner!Goes, R!Goes, Runner!NoWrite, R!NoWrite,
         Runner!Views, R!Views, Runner!Decision, R!Decision, Runner!ContractStarted,
         R!ContractStarted, Runner!ContractAllowed, R!ContractAllowed, Runner!Finished,
         R!Finished, Runner!Steps, R!Steps, Runner!ExpandSteps, R!ExpandSteps,
         Runner!Unlogged, R!Unlogged, Runner!Fenced, R!Fenced, Runner!AtStep, R!AtStep,
         Runner!First, R!First, Runner!StepDone, R!StepDone, Runner!OutsideTx, R!OutsideTx,
         Runner!RunOn, R!RunOn, Runner!At, R!At, Runner!Broken, R!Broken, Runner!Half,
         R!Half, Runner!Recovered, R!Recovered, Runner!Advanced, R!Advanced,
         Runner!Advances, R!Advances, Runner!Frees, R!Frees, Runner!Resting, R!Resting
<1>6. CASE \E p \in Plans, f \in {"expand", "contract", "all"} : Runner!Begin(d, p, f)
  BY <1>1, <1>6 DEF R!Next
<1> QED
  BY <1>2, <1>3, <1>4, <1>5, <1>6 DEF R!Next

-----------------------------------------------------------------------------
(* What the runner's invariant says of the tables and of the runs.            *)

RowFacts ==
  /\ driver = "postgres"
  /\ row \in [model : Model, plan : Plans \cup {NoPlan}, phase : {"none", "expand", "expanded"}]
  /\ row.plan # NoPlan =>
       IF row.phase = "expanded"
       THEN /\ row.model = row.plan.from \cup row.plan.to /\ ContractSteps(row.plan) > 0
            /\ \A i \in Runner!ExpandSteps(row.plan) : log[row.plan][i] = "finished"
       ELSE row.model = row.plan.from
  /\ log = [p \in Plans |-> log[p]]
  /\ \A p \in Plans : log[p] \in [Runner!Steps(p) -> Runner!Marks]

RunFacts ==
  /\ run \in [Deploys -> [pc : R!Places, plan : Plans \cup {NoPlan}, phase : R!Phases,
                          left : SUBSET Nat, read : SUBSET R!TablesType]]
  /\ \A r \in Deploys :
       /\ run[r].pc # "idle" =>
            /\ run[r].plan \in Plans
            /\ run[r].left \subseteq Runner!PhaseSteps(run[r].plan, run[r].phase)
       /\ run[r].pc \notin {"idle", "lock"} => owner = r
       /\ run[r].pc \in {"steps", "end"} =>
            /\ \A i \in Runner!PhaseSteps(run[r].plan, run[r].phase) \ run[r].left :
                 log[run[r].plan][i] = "finished"
            /\ run[r].phase = "contract" =>
                 \A i \in Runner!ExpandSteps(run[r].plan) : log[run[r].plan][i] = "finished"
            /\ run[r].left # {} => row.plan = run[r].plan

LEMMA PlanOps ==
  ASSUME NEW p \in Plans
  PROVE  /\ R!Steps(p) = Runner!Steps(p) /\ R!ExpandSteps(p) = Runner!ExpandSteps(p)
         /\ \A f : R!PhaseSteps(p, f) = Runner!PhaseSteps(p, f)
         /\ Runner!Steps(p) = 1..ExpandSteps(p) + ContractSteps(p)
         /\ Runner!ExpandSteps(p) = 1..ExpandSteps(p)
         /\ Runner!ExpandSteps(p) \subseteq Runner!Steps(p)
<1>1. R!Steps(p) = Runner!Steps(p)
  BY DEF R!Steps, Runner!Steps
<1>2. R!ExpandSteps(p) = Runner!ExpandSteps(p)
  BY DEF R!ExpandSteps, Runner!ExpandSteps
<1>3. \A f : R!PhaseSteps(p, f) = Runner!PhaseSteps(p, f)
  BY <1>1, <1>2 DEF R!PhaseSteps, Runner!PhaseSteps
<1>4. Runner!Steps(p) = 1..ExpandSteps(p) + ContractSteps(p)
  BY DEF Runner!Steps
<1>5. Runner!ExpandSteps(p) = 1..ExpandSteps(p)
  BY DEF Runner!ExpandSteps
<1>6. \A e, c \in Nat : 1..e \subseteq 1..e + c
  OBVIOUS
<1>7. Runner!ExpandSteps(p) \subseteq Runner!Steps(p)
  BY <1>4, <1>5, <1>6, PlanSteps
<1> QED
  BY <1>1, <1>2, <1>3, <1>4, <1>5, <1>7

LEMMA ModelsAre == R!Models \subseteq Model
<1> SUFFICES ASSUME NEW m \in R!Models PROVE m \in Model
  OBVIOUS
<1>1. {} \in Model
  BY DEF Model
<1>2. ASSUME NEW p \in Plans,
             m \in {p.from, p.to, IF ContractSteps(p) > 0 THEN p.from \cup p.to ELSE NoModel},
             m # NoModel
      PROVE  m \in Model
  BY <1>2, PlanSteps DEF Model
<1>3. /\ m # NoModel
      /\ m = {} \/ \E p \in Plans :
           m \in {p.from, p.to, IF ContractSteps(p) > 0 THEN p.from \cup p.to ELSE NoModel}
  <2>1. /\ m # NoModel
        /\ m = {} \/ \E p \in Plans :
             m \in {[q \in Plans |-> q.from][p], [q \in Plans |-> q.to][p],
                   [q \in Plans |-> IF ContractSteps(q) > 0 THEN q.from \cup q.to
                                    ELSE NoModel][p]}
    BY RunnerAssumption, R!ModelIs
  <2> QED
    BY <2>1
<1> QED
  BY <1>1, <1>2, <1>3

LEMMA RowHolding == R!RunnerInv => RowFacts
<1> SUFFICES ASSUME R!RunnerInv PROVE RowFacts
  OBVIOUS
<1>1. driver = "postgres"
  BY DEF R!RunnerInv, R!Typed
<1>2. row \in [model : Model, plan : Plans \cup {NoPlan}, phase : {"none", "expand", "expanded"}]
  BY ModelsAre DEF R!RunnerInv, R!Typed, R!RowType
<1>3. /\ log = [p \in Plans |-> log[p]]
      /\ \A p \in Plans : log[p] \in [Runner!Steps(p) -> Runner!Marks]
  <2>1. log \in R!LogType
    BY DEF R!RunnerInv, R!Typed
  <2>2. log \in [Plans -> UNION {[R!Steps(p) -> R!Marks] : p \in Plans}]
    BY <2>1 DEF R!LogType
  <2>3. \A p \in Plans : log[p] \in [R!Steps(p) -> R!Marks]
    BY <2>1 DEF R!LogType
  <2>4. R!Marks = Runner!Marks
    BY DEF R!Marks, Runner!Marks
  <2> QED
    BY <2>2, <2>3, <2>4, PlanOps
<1>4. ASSUME row.plan # NoPlan
      PROVE  IF row.phase = "expanded"
             THEN /\ row.model = row.plan.from \cup row.plan.to /\ ContractSteps(row.plan) > 0
                  /\ \A i \in Runner!ExpandSteps(row.plan) : log[row.plan][i] = "finished"
             ELSE row.model = row.plan.from
  <2> DEFINE p == row.plan
  <2>1. p \in Plans /\ R!RowHolds
    BY <1>2, <1>4 DEF R!RunnerInv, R!TablesHold
  <2>2. CASE row.phase = "expanded"
    <3>1. /\ row.model = (IF ContractSteps(p) > 0 THEN p.from \cup p.to ELSE NoModel)
          /\ row.model # NoModel
          /\ \A i \in R!ExpandSteps(p) : log[p][i] = "finished"
      BY <1>4, <2>1, <2>2 DEF R!RowHolds
    <3> QED
      BY <2>1, <2>2, <3>1, PlanOps
  <2>3. CASE row.phase # "expanded"
    BY <1>4, <2>1, <2>3 DEF R!RowHolds
  <2> QED
    BY <2>2, <2>3
<1> QED
  BY <1>1, <1>2, <1>3, <1>4 DEF RowFacts

LEMMA RunHolding == R!RunnerInv => RunFacts
<1> SUFFICES ASSUME R!RunnerInv PROVE RunFacts
  OBVIOUS
<1>1. run \in [Deploys -> [pc : R!Places, plan : Plans \cup {NoPlan}, phase : R!Phases,
                          left : SUBSET Nat, read : SUBSET R!TablesType]]
  BY DEF R!RunnerInv, R!Typed, R!RunType
<1>2. driver = "postgres"
  BY DEF R!RunnerInv, R!Typed
<1> SUFFICES ASSUME NEW r \in Deploys
             PROVE
       /\ run[r].pc # "idle" =>
            /\ run[r].plan \in Plans
            /\ run[r].left \subseteq Runner!PhaseSteps(run[r].plan, run[r].phase)
       /\ run[r].pc \notin {"idle", "lock"} => owner = r
       /\ run[r].pc \in {"steps", "end"} =>
            /\ \A i \in Runner!PhaseSteps(run[r].plan, run[r].phase) \ run[r].left :
                 log[run[r].plan][i] = "finished"
            /\ run[r].phase = "contract" =>
                 \A i \in Runner!ExpandSteps(run[r].plan) : log[run[r].plan][i] = "finished"
            /\ run[r].left # {} => row.plan = run[r].plan
  BY <1>1 DEF RunFacts
<1>3. R!RunHolds(r)
  BY DEF R!RunnerInv
<1>4. run[r].pc # "idle" =>
            /\ run[r].plan \in Plans
            /\ run[r].left \subseteq R!PhaseSteps(run[r].plan, run[r].phase)
  BY <1>2, <1>3 DEF R!RunHolds
<1>5. run[r].pc \notin {"idle", "lock"} => owner = r
  BY <1>2, <1>3 DEF R!RunHolds
<1>6. run[r].pc \in {"steps", "end"} =>
            /\ \A i \in R!PhaseSteps(run[r].plan, run[r].phase) \ run[r].left :
                 log[run[r].plan][i] = "finished"
            /\ run[r].phase = "contract" =>
                 \A i \in R!ExpandSteps(run[r].plan) : log[run[r].plan][i] = "finished"
            /\ run[r].left # {} => row.plan = run[r].plan
  BY <1>2, <1>3, <1>5 DEF R!RunHolds, R!Busy, R!Writer, R!Done
<1> QED
  BY <1>4, <1>5, <1>6, PlanOps

-----------------------------------------------------------------------------
(* What a step of a run does to the tables: it reads them, starts its plan,   *)
(* finishes a step of it, or ends the phase.                                  *)

ContractBegun(p) ==
  \E i \in Runner!Steps(p) \ Runner!ExpandSteps(p) : log[p][i] # "none"

(* A run applies a phase that has steps, one by one in its transactions; only  *)
(* one of an expand phase puts its plan in progress.                          *)
Shapes ==
  /\ row.phase # "expand" /\ (row.plan = NoPlan => row.phase = "none")
  /\ row.plan # NoPlan => ExpandSteps(row.plan) > 0
  /\ \A p \in Plans : \A i \in Runner!Steps(p) : log[p][i] # "started"
  /\ \A r \in Deploys :
       /\ run[r].pc \notin {"session", "statements"}
       /\ run[r].pc = "end" => run[r].left = {}
       /\ run[r].pc # "idle" =>
            run[r].phase \in {"expand", "contract"} /\ StepsOf(run[r].plan, run[r].phase) > 0

Places == {"idle", "lock", "decide", "steps", "end", "unlock"}

Moved(d) ==
  /\ \A q \in Deploys : q # d => run'[q] = run[q]
  /\ run[d].pc \in Places \ {"idle"} /\ run'[d].pc \in Places
  /\ run'[d].pc # "idle" => run'[d].plan = run[d].plan /\ run'[d].phase = run[d].phase
  /\ run'[d].pc = "end" => run'[d].left = {}
  /\ run'[d].pc = "decide" => run[d].pc = "lock"
  /\ run'[d].pc = "idle" => run[d].pc = "unlock"
  /\ run'[d].pc # "lock"

Reads(d) ==
  /\ row' = row /\ log' = log
  /\ run'[d].pc \in {"steps", "end"} =>
       \/ run[d].pc \in {"steps", "end"}
       \/ run[d].pc = "decide" /\ row.plan = run[d].plan /\ run'[d].pc = "steps"

Starts(d) ==
  LET p == run[d].plan IN
  /\ run[d].pc = "decide" /\ run'[d].pc = "steps" /\ run[d].phase # "contract"
  /\ row.plan # p /\ row.model = p.from
  /\ row' = [row EXCEPT !.plan = p, !.phase = "none"]
  /\ log' = [log EXCEPT ![p] = Runner!Unlogged(p)]

Finishes(d) ==
  LET p == run[d].plan IN
  \E i \in run[d].left :
    /\ run[d].pc = "steps" /\ run'[d].pc = "steps"
    /\ row.plan = p /\ log[p][i] = "none"
    /\ log' = [log EXCEPT ![p][i] = "finished"]
    /\ row' = Runner!Advanced(row, p, Runner!Finished(Runner!Tables, p) \cup {i})

Closes(d) ==
  LET p == run[d].plan IN
  /\ run[d].pc = "end" /\ run'[d].pc = "unlock"
  /\ row.plan = p /\ log' = log
  /\ row' = Runner!Advanced(row, p, Runner!Finished(Runner!Tables, p))

LEMMA RunGoes ==
  ASSUME RunFacts, NEW d \in Deploys, NEW pc \in Places, Runner!Goes(d, pc)
  PROVE  /\ \A q \in Deploys : q # d => run'[q] = run[q]
         /\ run'[d].pc = pc /\ run'[d].plan = run[d].plan /\ run'[d].phase = run[d].phase
         /\ run'[d].left = run[d].left
BY DEF RunFacts, Runner!Goes

LEMMA RunTakes ==
  ASSUME RunFacts, NEW d \in Deploys, NEW i, Runner!StepDone(d, i)
  PROVE  /\ \A q \in Deploys : q # d => run'[q] = run[q]
         /\ run'[d].pc = "steps" /\ run'[d].plan = run[d].plan /\ run'[d].phase = run[d].phase
BY DEF RunFacts, Runner!StepDone

LEMMA RunRests ==
  ASSUME RunFacts, NEW d \in Deploys, run' = [run EXCEPT ![d] = Runner!Resting]
  PROVE  (\A q \in Deploys : q # d => run'[q] = run[q]) /\ run'[d].pc = "idle"
BY DEF RunFacts, Runner!Resting

LEMMA ViewsAre == ASSUME RowFacts, NEW r PROVE Runner!Views(r) = {Runner!Tables}
BY DEF RowFacts, Runner!Views

LEMMA FirstIn ==
  ASSUME RunFacts, NEW d \in Deploys, run[d].left # {}
  PROVE  Runner!First(run[d].left) \in run[d].left
<1>1. run[d].left \in SUBSET Nat
  BY DEF RunFacts
<1>2. R!First(run[d].left) \in run[d].left
  BY <1>1, RunnerAssumption, R!FirstOf
<1> QED
  BY <1>2 DEF Runner!First, R!First

LEMMA Decides ==
  ASSUME NEW p \in Plans
  PROVE  LET how == Runner!Decision(Runner!Tables, p) IN
         /\ how = "resume" <=> row.plan = p
         /\ how \in {"start", "supersede"} => row.plan # p /\ row.model = p.from
         /\ how = "applied" => row.plan = NoPlan /\ row.model = p.to /\ p.to # p.from
<1> DEFINE how == Runner!Decision(Runner!Tables, p)
           begun == Runner!ContractStarted(Runner!Tables)
<1>1. [q \in Plans |-> q.from][p] = p.from /\ [q \in Plans |-> q.to][p] = p.to
  OBVIOUS
<1>2. Runner!Tables.row = row
  BY DEF Runner!Tables
<1>3. how =
        CASE row.plan = p -> "resume"
          [] row.plan = NoPlan /\ row.model = p.to /\ p.to # p.from -> "applied"
          [] row.plan \notin {p, NoPlan} /\ (row.plan # NoPlan /\ row.phase = "expanded"
               /\ row.model = p.from) /\ ~ begun -> "supersede"
          [] row.plan = NoPlan /\ row.model = p.from -> "start"
          [] OTHER -> "refuse"
  BY <1>1, <1>2 DEF Runner!Decision
<1> HIDE DEF how, begun
<1>4. p # NoPlan
  BY PlanSteps
<1>5. /\ how = "resume" <=> row.plan = p
      /\ how \in {"start", "supersede"} => row.plan # p /\ row.model = p.from
      /\ how = "applied" => row.plan = NoPlan /\ row.model = p.to /\ p.to # p.from
  BY <1>3, <1>4
<1> QED
  BY <1>5 DEF how

LEMMA Effects ==
  ASSUME RowFacts, RunFacts, Shapes, NEW d \in Deploys, run[d].pc # "idle",
         Runner!Progress(d) \/ Runner!Lock(d) \/ Runner!Fails(d)
  PROVE  Moved(d) /\ (Reads(d) \/ Starts(d) \/ Finishes(d) \/ Closes(d))
<1> DEFINE p == run[d].plan
<1>t. Runner!Tables = [row |-> row, log |-> log]
  BY DEF Runner!Tables
<1>v. Runner!Views(d) = {Runner!Tables} /\ driver = "postgres"
  BY ViewsAre DEF RowFacts
<1>p. p \in Plans /\ run[d].pc \in Places \ {"idle"}
  BY DEF RunFacts, Shapes, R!Places, Places
<1>g. ASSUME NEW pc \in Places \ {"idle", "lock"}, Runner!Goes(d, pc),
             pc = "end" => run[d].left = {}, pc = "decide" => run[d].pc = "lock"
      PROVE  Moved(d) /\ run'[d].pc = pc
  BY <1>p, <1>g, RunGoes DEF Moved, Places
<1>1. CASE Runner!Lock(d)
  <2>1. Runner!Goes(d, "decide") /\ run[d].pc = "lock" /\ row' = row /\ log' = log
    BY <1>1 DEF Runner!Lock
  <2>2. Moved(d) /\ run'[d].pc = "decide"
    BY <2>1, <1>g DEF Places
  <2> QED
    BY <2>1, <2>2 DEF Reads
<1>2. CASE Runner!Fails(d)
  <2>1. Runner!Goes(d, "unlock") /\ row' = row /\ log' = log
    BY <1>2 DEF Runner!Fails
  <2>2. Moved(d) /\ run'[d].pc = "unlock"
    BY <2>1, <1>g DEF Places
  <2> QED
    BY <2>1, <2>2 DEF Reads
<1>3. CASE Runner!Unlock(d)
  <2>1. /\ run[d].pc = "unlock" /\ run' = [run EXCEPT ![d] = Runner!Resting]
        /\ row' = row /\ log' = log
    BY <1>3 DEF Runner!Unlock
  <2>2. Moved(d) /\ run'[d].pc = "idle"
    BY <2>1, <1>p, RunRests DEF Moved, Places
  <2> QED
    BY <2>1, <2>2 DEF Reads
<1>4. CASE Runner!StepsOver(d)
  <2>1. /\ run[d].pc = "steps" /\ run[d].left = {} /\ Runner!Goes(d, "end")
        /\ row' = row /\ log' = log
    BY <1>4 DEF Runner!StepsOver, Runner!NoWrite
  <2>2. Moved(d) /\ run'[d].pc = "end"
    BY <2>1, <1>g DEF Places
  <2> QED
    BY <2>1, <2>2 DEF Reads
<1>5. CASE Runner!DecideReads(d)
  <2>1. /\ run[d].pc = "decide" /\ row' = row /\ log' = log
        /\ \/ Runner!Goes(d, "unlock")
           \/ Runner!Goes(d, "steps") /\ Runner!Decision(Runner!Tables, p) = "resume"
    BY <1>5, <1>v DEF Runner!DecideReads, Runner!NoWrite
  <2>2. CASE Runner!Goes(d, "unlock")
    <3>1. Moved(d) /\ run'[d].pc = "unlock"
      BY <2>2, <1>g DEF Places
    <3> QED
      BY <2>1, <3>1 DEF Reads
  <2>3. CASE Runner!Goes(d, "steps") /\ Runner!Decision(Runner!Tables, p) = "resume"
    <3>1. Moved(d) /\ run'[d].pc = "steps"
      BY <2>3, <1>g DEF Places
    <3>2. row.plan = p
      BY <1>p, <2>3, Decides
    <3> QED
      BY <2>1, <3>1, <3>2 DEF Reads
  <2> QED
    BY <2>1, <2>2, <2>3
<1>6. CASE Runner!StartPlan(d)
  <2>1. /\ run[d].pc = "decide" /\ run[d].phase # "contract"
        /\ Runner!Decision(Runner!Tables, p) \in {"start", "supersede"}
        /\ row' = [row EXCEPT !.plan = p, !.phase = "none"]
        /\ log' = [log EXCEPT ![p] = Runner!Unlogged(p)]
        /\ Runner!Goes(d, "steps")
    BY <1>6, <1>v DEF Runner!StartPlan
  <2>2. row.plan # p /\ row.model = p.from
    BY <1>p, <2>1, Decides
  <2>3. Moved(d) /\ run'[d].pc = "steps"
    BY <2>1, <1>g DEF Places
  <2> QED
    BY <2>1, <2>2, <2>3 DEF Starts
<1>7. ASSUME NEW i \in Runner!Steps(p), Runner!TransactionalReads(d, i)
      PROVE  Moved(d) /\ Reads(d)
  <2>1. /\ run[d].pc = "steps" /\ row' = row /\ log' = log
        /\ Runner!Goes(d, "unlock") \/ Runner!StepDone(d, i)
    BY <1>7 DEF Runner!TransactionalReads, Runner!AtStep, Runner!NoWrite
  <2>2. CASE Runner!Goes(d, "unlock")
    <3>1. Moved(d) /\ run'[d].pc = "unlock"
      BY <2>2, <1>g DEF Places
    <3> QED
      BY <2>1, <3>1 DEF Reads
  <2>3. CASE Runner!StepDone(d, i)
    <3>1. Moved(d) /\ run'[d].pc = "steps"
      BY <1>p, <2>3, RunTakes DEF Moved, Places
    <3> QED
      BY <2>1, <3>1 DEF Reads
  <2> QED
    BY <2>1, <2>2, <2>3
<1>8. ASSUME NEW i \in Runner!Steps(p), Runner!TransactionalStep(d, i)
      PROVE  Moved(d) /\ Finishes(d)
  <2>1. /\ run[d].pc = "steps" /\ run[d].left # {} /\ i = Runner!First(run[d].left)
        /\ row.plan = p /\ log[p][i] = "none"
        /\ log' = [log EXCEPT ![p][i] = "finished"]
        /\ row' = Runner!Advanced(row, p, Runner!Finished(Runner!Tables, p) \cup {i})
        /\ Runner!StepDone(d, i)
    <3>1. Runner!Tables.row = row
      BY <1>t
    <3> QED
      BY <1>8, <1>v, <3>1 DEF Runner!TransactionalStep, Runner!AtStep
  <2>2. Moved(d) /\ run'[d].pc = "steps"
    BY <1>p, <2>1, RunTakes DEF Moved, Places
  <2>3. i \in run[d].left
    BY <2>1, FirstIn
  <2> QED
    BY <2>1, <2>2, <2>3 DEF Finishes
<1>9. ASSUME NEW i \in Runner!Steps(p), Runner!SessionStarts(d, i)
      PROVE  FALSE
  BY <1>9, <1>p DEF Runner!SessionStarts, Runner!OutsideTx
<1>10. CASE Runner!EndRun(d)
  <2>1. /\ run[d].pc = "end" /\ Runner!Goes(d, "unlock") /\ log' = log
        /\ \/ row' = row
           \/ row.plan = p /\ row' = Runner!Advanced(row, p, Runner!Finished(Runner!Tables, p))
    <3>1. Runner!Tables.row = row
      BY <1>t
    <3> QED
      BY <1>10, <1>v, <3>1 DEF Runner!EndRun
  <2>2. Moved(d) /\ run'[d].pc = "unlock"
    BY <2>1, <1>g DEF Places
  <2> QED
    BY <2>1, <2>2 DEF Reads, Closes
<1>11. ~ Runner!SessionStatement(d) /\ ~ Runner!SessionEnds(d)
  BY <1>p DEF Runner!SessionStatement, Runner!SessionEnds, Places
<1>12. ~ Runner!Read(d)
  BY <1>v DEF Runner!Read
<1> QED
  BY <1>1, <1>2, <1>3, <1>4, <1>5, <1>6, <1>7, <1>8, <1>9, <1>10, <1>11, <1>12
     DEF Runner!Progress

(* The row a write of the runner leaves.                                      *)
LEMMA AdvancedTo ==
  ASSUME RowFacts, Shapes, NEW p \in Plans, row.plan = p, NEW done,
         row' = Runner!Advanced(row, p, done)
  PROVE  \/ row' = row /\ (row.phase = "none" => ~ (Runner!ExpandSteps(p) \subseteq done))
         \/ /\ Runner!Steps(p) \subseteq done
            /\ row' = [model |-> p.to, plan |-> NoPlan, phase |-> "none"]
         \/ /\ row.phase = "none" /\ ContractSteps(p) > 0
            /\ row' = [model |-> p.from \cup p.to, plan |-> p, phase |-> "expanded"]
<1> DEFINE x == IF ContractSteps(p) > 0 THEN p.from \cup p.to ELSE NoModel
<1>1. [q \in Plans |-> IF ContractSteps(q) > 0 THEN q.from \cup q.to ELSE NoModel][p] = x
  OBVIOUS
<1>2. row = [model |-> row.model, plan |-> p, phase |-> row.phase]
  BY DEF RowFacts
<1>3. CASE ~ Runner!Advances(row, p, done)
  BY <1>3 DEF Runner!Advanced, Runner!Advances
<1>4. CASE Runner!Steps(p) \subseteq done
  BY <1>4 DEF Runner!Advanced, Runner!Advances
<1>5. CASE Runner!Advances(row, p, done) /\ ~ (Runner!Steps(p) \subseteq done)
  <2>1. row.phase = "none" /\ Runner!ExpandSteps(p) \subseteq done
    BY <1>5 DEF Runner!Advances
  <2>2. ContractSteps(p) > 0
    <3>1. ContractSteps(p) = 0 => Runner!Steps(p) = Runner!ExpandSteps(p)
      BY PlanOps, PlanSteps
    <3> QED
      BY <1>5, <2>1, <3>1, PlanSteps
  <2>3. x = p.from \cup p.to /\ x # NoModel
    <3>1. p.from \cup p.to \in SUBSET Columns
      BY PlanSteps DEF Model
    <3> QED
      BY <2>2, <3>1, DeployAssumption
  <2>4. row' = [row EXCEPT !.phase = "expanded", !.model = x]
    BY <1>1, <1>5, <2>3 DEF Runner!Advanced
  <2> HIDE DEF x
  <2>5. row' = [model |-> x, plan |-> p, phase |-> "expanded"]
    BY <1>2, <2>4
  <2> QED
    BY <2>1, <2>2, <2>3, <2>5
<1> QED
  BY <1>3, <1>4, <1>5

LEMMA LogTakes ==
  ASSUME RowFacts, NEW p \in Plans, NEW i \in Runner!Steps(p),
         log' = [log EXCEPT ![p][i] = "finished"]
  PROVE  /\ \A q \in Plans : q # p => log'[q] = log[q]
         /\ log'[p][i] = "finished"
         /\ \A j \in Runner!Steps(p) : j # i => log'[p][j] = log[p][j]
<1> DEFINE g == [log[p] EXCEPT ![i] = "finished"]
<1>1. log = [q \in Plans |-> log[q]] /\ log[p] \in [Runner!Steps(p) -> Runner!Marks]
  BY DEF RowFacts
<1>2. g[i] = "finished" /\ \A j \in Runner!Steps(p) : j # i => g[j] = log[p][j]
  BY <1>1
<1>3. log' = [log EXCEPT ![p] = g]
  OBVIOUS
<1> HIDE DEF g
<1>4. log'[p] = g /\ \A q \in Plans : q # p => log'[q] = log[q]
  BY <1>1, <1>3
<1> QED
  BY <1>2, <1>4

LEMMA LogClears ==
  ASSUME RowFacts, NEW p \in Plans, log' = [log EXCEPT ![p] = Runner!Unlogged(p)]
  PROVE  /\ \A q \in Plans : q # p => log'[q] = log[q]
         /\ \A j \in Runner!Steps(p) : log'[p][j] = "none"
<1>1. log = [q \in Plans |-> log[q]]
  BY DEF RowFacts
<1>2. \A j \in Runner!Steps(p) : Runner!Unlogged(p)[j] = "none"
  BY DEF Runner!Unlogged
<1>3. log'[p] = Runner!Unlogged(p) /\ \A q \in Plans : q # p => log'[q] = log[q]
  BY <1>1
<1> QED
  BY <1>2, <1>3

LEMMA BegunSame ==
  ASSUME NEW p \in Plans,
         \A i \in Runner!Steps(p) \ Runner!ExpandSteps(p) : log'[p][i] = log[p][i]
  PROVE  ContractBegun(p)' <=> ContractBegun(p)
BY DEF ContractBegun

LEMMA LeftIn ==
  ASSUME RunFacts, Shapes, NEW d \in Deploys, run[d].pc # "idle"
  PROVE  /\ run[d].plan \in Plans /\ run[d].phase \in {"expand", "contract"}
         /\ run[d].left \subseteq Runner!Steps(run[d].plan)
         /\ run[d].phase = "expand" => /\ run[d].left \subseteq Runner!ExpandSteps(run[d].plan)
                                       /\ ExpandSteps(run[d].plan) > 0
         /\ run[d].phase = "contract" =>
              /\ run[d].left \subseteq Runner!Steps(run[d].plan) \ Runner!ExpandSteps(run[d].plan)
              /\ ContractSteps(run[d].plan) > 0
<1> DEFINE p == run[d].plan
<1>1. p \in Plans /\ run[d].phase \in {"expand", "contract"}
        /\ StepsOf(p, run[d].phase) > 0
        /\ run[d].left \subseteq Runner!PhaseSteps(p, run[d].phase)
  BY DEF RunFacts, Shapes
<1>2. Runner!ExpandSteps(p) \subseteq Runner!Steps(p)
  BY <1>1, PlanOps
<1>3. CASE run[d].phase = "expand"
  BY <1>1, <1>2, <1>3 DEF StepsOf, Runner!PhaseSteps
<1>4. CASE run[d].phase = "contract"
  BY <1>1, <1>2, <1>4 DEF StepsOf, Runner!PhaseSteps
<1> QED
  BY <1>1, <1>3, <1>4

LEMMA ShapesMove ==
  ASSUME RowFacts, RunFacts, Shapes, NEW d \in Deploys, run[d].pc # "idle",
         Moved(d), Reads(d) \/ Starts(d) \/ Finishes(d) \/ Closes(d)
  PROVE  Shapes'
<1> DEFINE p == run[d].plan
<1>p. p \in Plans /\ run[d].left \subseteq Runner!Steps(p)
  BY LeftIn
<1>1. \A r \in Deploys :
       /\ run'[r].pc \notin {"session", "statements"}
       /\ run'[r].pc = "end" => run'[r].left = {}
       /\ run'[r].pc # "idle" =>
            run'[r].phase \in {"expand", "contract"} /\ StepsOf(run'[r].plan, run'[r].phase) > 0
  BY DEF Shapes, Moved, Places
<1>2. \A q \in Plans : \A i \in Runner!Steps(q) : log'[q][i] # "started"
  <2>1. CASE log' = log
    BY <2>1 DEF Shapes
  <2>2. CASE Starts(d)
    <3>1. log' = [log EXCEPT ![p] = Runner!Unlogged(p)]
      BY <2>2 DEF Starts
    <3>2. /\ \A q \in Plans : q # p => log'[q] = log[q]
          /\ \A j \in Runner!Steps(p) : log'[p][j] = "none"
      BY <1>p, <3>1, LogClears
    <3> QED
      BY <1>p, <3>2 DEF Shapes
  <2>3. CASE Finishes(d)
    <3>1. PICK i \in Runner!Steps(p) : log' = [log EXCEPT ![p][i] = "finished"]
      BY <1>p, <2>3 DEF Finishes
    <3> QED
      BY <1>p, <3>1, LogTakes DEF Shapes
  <2> QED
    BY <2>1, <2>2, <2>3 DEF Reads, Closes
<1>3. /\ row'.phase # "expand" /\ (row'.plan = NoPlan => row'.phase = "none")
      /\ row'.plan # NoPlan => row'.plan \in {row.plan, p}
      /\ row'.plan = p => row.plan = p \/ run[d].phase = "expand"
  <2>1. CASE row' = row
    BY <2>1 DEF Shapes
  <2>2. CASE Starts(d)
    BY <1>p, <2>2, PlanSteps, LeftIn DEF Starts, RowFacts
  <2>3. CASE Finishes(d) \/ Closes(d)
    <3>1. PICK done : row.plan = p /\ row' = Runner!Advanced(row, p, done)
      BY <2>3 DEF Finishes, Closes
    <3>2. \/ row' = row
          \/ row' = [model |-> p.to, plan |-> NoPlan, phase |-> "none"]
          \/ row' = [model |-> p.from \cup p.to, plan |-> p, phase |-> "expanded"]
      BY <1>p, <3>1, AdvancedTo
    <3> QED
      BY <1>p, <3>1, <3>2, PlanSteps DEF Shapes
  <2> QED
    BY <2>1, <2>2, <2>3 DEF Reads
<1>4. row'.plan # NoPlan => ExpandSteps(row'.plan) > 0
  <2>1. row.plan # NoPlan => ExpandSteps(row.plan) > 0
    BY DEF Shapes
  <2>2. row'.plan = p => ExpandSteps(p) > 0
    BY <1>3, <1>p, <2>1, LeftIn, PlanSteps
  <2> QED
    BY <1>3, <2>1, <2>2
<1>5. (row.plan # NoPlan => ExpandSteps(row.plan) > 0)'
  BY <1>4 DEF ExpandSteps
<1> QED
  BY <1>1, <1>2, <1>3, <1>5 DEF Shapes

-----------------------------------------------------------------------------
(* What a record of the database says of it.                                  *)

Kept == row.phase = "expanded" /\ ~ ContractBegun(row.plan)

(* The database is at model m, and stays there until a run is asked for.      *)
Settled(m) == row.model = m /\ (row.plan = NoPlan \/ Kept)

WithinExpand(p) ==
  \/ Settled(p.from)
  \/ row.plan = p /\ ExpandSteps(p) > 0 /\ ~ ContractBegun(p)
  \/ row.plan = NoPlan /\ row.model = p.to /\ ContractSteps(p) = 0

(* A plan without expand steps was never put in progress, and its contract     *)
(* phase finds the model it starts from; any other is in progress until its    *)
(* contract has finished.                                                     *)
WithinContract(p) ==
  \/ ExpandSteps(p) = 0 /\ Settled(p.from)
  \/ row.plan = p /\ row.phase = "expanded"
  \/ ExpandSteps(p) > 0 /\ row.plan = NoPlan /\ row.model = p.to

ModelOf(man) == IF man.model = NoModel THEN {} ELSE man.model
Pends(man, phase, p) == man.pending = [phase |-> phase, plan |-> p]

(* The database is at the model of the record, or within its pending phase.   *)
Status(man) ==
  /\ man.pending = NoPending => Settled(ModelOf(man))
  /\ \A p \in Plans : Pends(man, "expand", p) => WithinExpand(p)
  /\ \A p \in Plans : Pends(man, "contract", p) => ContractSteps(p) > 0 /\ WithinContract(p)

(* The servers use no column but what the database keeps in that phase.       *)
Floor(man) ==
  IF man.pending = NoPending THEN ModelOf(man)
  ELSE IF man.pending.phase = "expand" THEN man.pending.plan.from ELSE man.pending.plan.to
Served(man) == \A s \in Servers : serving[s] # NoVersion => Uses[serving[s]] \subseteq Floor(man)

(* A run that writes to the plan in progress runs the pending phase, or has    *)
(* nothing left to do.                                                        *)
RunsFit(man) ==
  \A r \in Deploys :
    run[r].pc \in {"steps", "end"} /\ row.plan = run[r].plan =>
      \/ Pends(man, run[r].phase, run[r].plan)
      \/ run[r].phase = "expand" /\ row.phase = "expanded"

Holds(man) == Status(man) /\ Served(man) /\ RunsFit(man)

LEMMA PendsOf ==
  ASSUME NEW man \in Recorded
  PROVE  \/ man.pending = NoPending
         \/ \E p \in Plans : Pends(man, "expand", p) \/ Pends(man, "contract", p)
BY DEF Recorded, Pends

LEMMA PendsOne ==
  ASSUME NEW man, NEW p, NEW phase, Pends(man, phase, p), phase \in {"expand", "contract"}
  PROVE  man.pending # NoPending /\ man.pending.phase = phase /\ man.pending.plan = p
BY DEF Pends, NoPending

(* Where the database is when a run writes to the plan in progress.           *)
LEMMA InPhase ==
  ASSUME RowFacts, RunFacts, Shapes, NEW d \in Deploys, run[d].pc \in {"steps", "end"},
         NEW p \in Plans, p = run[d].plan, row.plan = p, NEW man \in Recorded, Holds(man)
  PROVE  \/ Pends(man, "expand", p) /\ run[d].phase = "expand" /\ ~ ContractBegun(p)
         \/ Pends(man, "contract", p) /\ run[d].phase = "contract" /\ row.phase = "expanded"
         \/ /\ run[d].phase = "expand" /\ row.phase = "expanded"
            /\ Pends(man, "contract", p) \/ ~ ContractBegun(p)
<1>1. /\ run[d].phase \in {"expand", "contract"}
      /\ run[d].phase = "expand" => ExpandSteps(p) > 0
      /\ p # NoPlan
  BY LeftIn, PlanSteps
<1>2. \A m : Settled(m) => row.phase = "expanded" /\ ~ ContractBegun(p)
  BY <1>1 DEF Settled, Kept
<1>3. Pends(man, "expand", p) => ~ ContractBegun(p)
  BY <1>1, <1>2 DEF Holds, Status, WithinExpand
<1>4. Pends(man, "contract", p) => row.phase = "expanded"
  BY <1>1, <1>2 DEF Holds, Status, WithinContract
<1>5. \/ Pends(man, run[d].phase, p)
      \/ run[d].phase = "expand" /\ row.phase = "expanded"
  BY DEF Holds, RunsFit
<1>6. ASSUME ContractBegun(p) PROVE Pends(man, "expand", p) \/ Pends(man, "contract", p)
  <2>1. CASE man.pending = NoPending
    BY <1>2, <1>6, <2>1 DEF Holds, Status
  <2>2. ASSUME NEW q \in Plans, Pends(man, "expand", q) PROVE Pends(man, "expand", p)
    <3>1. WithinExpand(q)
      BY <2>2 DEF Holds, Status
    <3>2. q = p
      BY <1>1, <1>2, <1>6, <3>1 DEF WithinExpand
    <3> QED
      BY <2>2, <3>2
  <2>3. ASSUME NEW q \in Plans, Pends(man, "contract", q) PROVE Pends(man, "contract", p)
    <3>1. WithinContract(q)
      BY <2>3 DEF Holds, Status
    <3>2. q = p
      BY <1>1, <1>2, <1>6, <3>1 DEF WithinContract
    <3> QED
      BY <2>3, <3>2
  <2> QED
    BY <2>1, <2>2, <2>3, PendsOf
<1> QED
  BY <1>1, <1>3, <1>4, <1>5, <1>6

(* What a write of the runner does to the row, in each phase.                 *)
LEMMA InExpand ==
  ASSUME RowFacts, RunFacts, Shapes, NEW d \in Deploys, run[d].pc # "idle",
         NEW p \in Plans, p = run[d].plan, Finishes(d) \/ Closes(d),
         run[d].phase = "expand", ~ ContractBegun(p)
  PROVE  /\ ~ ContractBegun(p)'
         /\ \/ row' = row
            \/ /\ row' = [model |-> p.to, plan |-> NoPlan, phase |-> "none"]
               /\ ContractSteps(p) = 0
            \/ row' = [model |-> p.from \cup p.to, plan |-> p, phase |-> "expanded"]
<1>1. PICK done : /\ row' = Runner!Advanced(row, p, done)
                  /\ done \subseteq Runner!Finished(Runner!Tables, p) \cup Runner!ExpandSteps(p)
                  /\ row.plan = p
                  /\ \/ log' = log
                     \/ \E i \in Runner!ExpandSteps(p) : log' = [log EXCEPT ![p][i] = "finished"]
  <2>1. run[d].left \subseteq Runner!ExpandSteps(p)
    BY LeftIn
  <2> QED
    BY <2>1 DEF Finishes, Closes
<1>2. \A i \in Runner!Steps(p) \ Runner!ExpandSteps(p) : log'[p][i] = log[p][i]
  <2>1. ASSUME NEW i \in Runner!ExpandSteps(p), log' = [log EXCEPT ![p][i] = "finished"]
        PROVE  \A j \in Runner!Steps(p) \ Runner!ExpandSteps(p) : log'[p][j] = log[p][j]
    <3>1. i \in Runner!Steps(p)
      BY PlanOps
    <3>2. \A j \in Runner!Steps(p) : j # i => log'[p][j] = log[p][j]
      BY <2>1, <3>1, LogTakes
    <3> QED
      BY <3>2
  <2> QED
    BY <1>1, <2>1
<1>3. ~ ContractBegun(p)'
  BY <1>2, BegunSame
<1>4. Runner!Steps(p) \subseteq done => ContractSteps(p) = 0
  <2> SUFFICES ASSUME Runner!Steps(p) \subseteq done, ContractSteps(p) # 0 PROVE FALSE
    OBVIOUS
  <2> DEFINE j == ExpandSteps(p) + ContractSteps(p)
  <2>1. \A e, c \in Nat : c # 0 => e + c \in 1..e + c /\ e + c \notin 1..e
    OBVIOUS
  <2>2. j \in Runner!Steps(p) \ Runner!ExpandSteps(p)
    BY <2>1, PlanOps, PlanSteps
  <2>3. j \in Runner!Finished(Runner!Tables, p)
    BY <1>1, <2>2
  <2>4. log[p][j] = "finished"
    BY <2>3 DEF Runner!Finished, Runner!Tables
  <2> QED
    BY <2>2, <2>4 DEF ContractBegun
<1> QED
  BY <1>1, <1>3, <1>4, AdvancedTo

LEMMA InContract ==
  ASSUME RowFacts, RunFacts, Shapes, NEW d \in Deploys, run[d].pc # "idle",
         NEW p \in Plans, p = run[d].plan, Finishes(d) \/ Closes(d),
         row.phase = "expanded"
  PROVE  \/ row' = row
         \/ row' = [model |-> p.to, plan |-> NoPlan, phase |-> "none"]
<1>1. PICK done : row' = Runner!Advanced(row, p, done) /\ row.plan = p
  BY DEF Finishes, Closes
<1> QED
  BY <1>1, AdvancedTo

(* A run with nothing left to do writes nothing.                              *)
LEMMA PhaseOver ==
  ASSUME RowFacts, RunFacts, Shapes, NEW d \in Deploys, run[d].pc # "idle",
         NEW p \in Plans, p = run[d].plan, Finishes(d) \/ Closes(d),
         run[d].phase = "expand", row.phase = "expanded", ~ ContractBegun(p)
  PROVE  row' = row /\ log' = log
<1>1. ~ Finishes(d)
  <2> SUFFICES ASSUME Finishes(d) PROVE FALSE
    OBVIOUS
  <2>1. PICK i \in run[d].left : row.plan = p /\ log[p][i] = "none"
    BY DEF Finishes
  <2>2. i \in Runner!ExpandSteps(p)
    BY <2>1, LeftIn
  <2>3. log[p][i] = "finished"
    BY <2>1, <2>2, PlanSteps DEF RowFacts
  <2> QED
    BY <2>1, <2>3
<1>2. Closes(d) /\ row.plan = p /\ log' = log
  BY <1>1 DEF Closes
<1>3. \/ row' = row \/ ContractSteps(p) = 0
      \/ row' = [model |-> p.from \cup p.to, plan |-> p, phase |-> "expanded"]
  BY InExpand
<1>4. row' = row \/ row' = [model |-> p.to, plan |-> NoPlan, phase |-> "none"]
  BY InContract
<1>5. ContractSteps(p) > 0 /\ p # NoPlan
  BY <1>2, PlanSteps DEF RowFacts
<1>6. row' = row
  BY <1>3, <1>4, <1>5, PlanSteps
<1> QED
  BY <1>2, <1>6

-----------------------------------------------------------------------------
(* A record that holds goes on holding while runs move, when those that start *)
(* a plan, or resume to contract, are of its pending phase.                   *)
Awaits(man, d) ==
  \/ Starts(d)
  \/ run[d].pc = "decide" /\ run'[d].pc = "steps" /\ run[d].phase = "contract"
  => Pends(man, run[d].phase, run[d].plan)

Stays == row' = row /\ log' = log

Expanding(man, p) ==
  /\ Pends(man, "expand", p) /\ ExpandSteps(p) > 0 /\ ~ ContractBegun(p)'
  /\ \/ /\ row.plan # p /\ row.model = p.from
        /\ row' = [model |-> p.from, plan |-> p, phase |-> "none"]
     \/ /\ row.plan = p
        /\ \/ row' = row
           \/ /\ row' = [model |-> p.to, plan |-> NoPlan, phase |-> "none"]
              /\ ContractSteps(p) = 0
           \/ row' = [model |-> p.from \cup p.to, plan |-> p, phase |-> "expanded"]

Contracting(man, p) ==
  /\ Pends(man, "contract", p) /\ row.plan = p /\ row.phase = "expanded"
  /\ \/ row' = row
     \/ row' = [model |-> p.to, plan |-> NoPlan, phase |-> "none"]

LEMMA RowGoes ==
  ASSUME RowFacts, RunFacts, Shapes, NEW d \in Deploys, run[d].pc # "idle",
         NEW p \in Plans, p = run[d].plan,
         Moved(d), Reads(d) \/ Starts(d) \/ Finishes(d) \/ Closes(d),
         NEW man \in Recorded, Holds(man), Awaits(man, d)
  PROVE  Stays \/ Expanding(man, p) \/ Contracting(man, p)
<1>1. CASE Reads(d)
  BY <1>1 DEF Reads, Stays
<1>2. CASE Starts(d)
  <2>1. Pends(man, "expand", p) /\ ExpandSteps(p) > 0 /\ row.plan # p /\ row.model = p.from
          /\ row' = [row EXCEPT !.plan = p, !.phase = "none"]
          /\ log' = [log EXCEPT ![p] = Runner!Unlogged(p)]
    BY <1>2, LeftIn DEF Awaits, Starts
  <2>2. row' = [model |-> p.from, plan |-> p, phase |-> "none"]
    BY <2>1 DEF RowFacts
  <2>3. ~ ContractBegun(p)'
    <3>1. \A j \in Runner!Steps(p) : log'[p][j] = "none"
      BY <2>1, LogClears
    <3> QED
      BY <3>1 DEF ContractBegun
  <2> QED
    BY <2>1, <2>2, <2>3 DEF Expanding
<1>3. CASE Finishes(d) \/ Closes(d)
  <2>1. run[d].pc \in {"steps", "end"} /\ row.plan = p
    BY <1>3 DEF Finishes, Closes
  <2>2. CASE Pends(man, "expand", p) /\ run[d].phase = "expand" /\ ~ ContractBegun(p)
    BY <1>3, <2>1, <2>2, InExpand, LeftIn DEF Expanding
  <2>3. CASE Pends(man, "contract", p) /\ row.phase = "expanded"
    BY <1>3, <2>1, <2>3, InContract DEF Contracting
  <2>4. CASE run[d].phase = "expand" /\ row.phase = "expanded" /\ ~ ContractBegun(p)
    BY <1>3, <2>4, PhaseOver DEF Stays
  <2> QED
    BY <2>1, <2>2, <2>3, <2>4, InPhase
<1> QED
  BY <1>1, <1>2, <1>3

LEMMA StatusStays == ASSUME NEW man, Stays, Status(man) PROVE Status(man)'
<1>1. \A m : Settled(m)' <=> Settled(m)
  BY DEF Stays, Settled, Kept, ContractBegun
<1>2. \A p : ContractBegun(p)' <=> ContractBegun(p)
  BY DEF Stays, ContractBegun
<1>3. \A p : (WithinExpand(p)' <=> WithinExpand(p)) /\ (WithinContract(p)' <=> WithinContract(p))
  BY <1>1, <1>2 DEF WithinExpand, WithinContract, Stays
<1> QED
  BY <1>1, <1>3 DEF Status, Pends

LEMMA PlanStays ==
  ASSUME NEW p \in Plans
  PROVE  /\ ExpandSteps(p)' = ExpandSteps(p) /\ ContractSteps(p)' = ContractSteps(p)
         /\ \A phase : After(p, phase)' = After(p, phase)
BY DEF ExpandSteps, ContractSteps, After

LEMMA StatusMoves ==
  ASSUME Shapes, NEW p \in Plans, NEW man \in Recorded, Status(man),
         Stays \/ Expanding(man, p) \/ Contracting(man, p)
  PROVE  Status(man)'
<1>0. /\ p # NoPlan /\ After(p, "expand")' = p.from \cup p.to
      /\ ExpandSteps(p)' = ExpandSteps(p) /\ ContractSteps(p)' = ContractSteps(p)
  BY PlanSteps, PlanStays
<1>1. CASE Stays
  BY <1>1, StatusStays
<1>2. CASE Expanding(man, p)
  <2>1. Pends(man, "expand", p)
    BY <1>2 DEF Expanding
  <2>2. WithinExpand(p)
    BY <2>1 DEF Status
  <2>3. WithinExpand(p)'
    <3>1. ExpandSteps(p)' > 0 /\ ~ ContractBegun(p)'
      BY <1>0, <1>2 DEF Expanding
    <3>2. \/ row'.plan = p
          \/ row'.plan = NoPlan /\ row'.model = p.to /\ ContractSteps(p) = 0
      BY <1>2 DEF Expanding
    <3>3. CASE row'.plan = p
      BY <3>1, <3>3 DEF WithinExpand
    <3>4. CASE row'.plan = NoPlan /\ row'.model = p.to /\ ContractSteps(p) = 0
      BY <1>0, <3>4 DEF WithinExpand
    <3> QED
      BY <3>2, <3>3, <3>4
  <2> QED
    BY <2>1, <2>3, PendsOne DEF Status, Pends
<1>3. CASE Contracting(man, p)
  <2>1. Pends(man, "contract", p)
    BY <1>3 DEF Contracting
  <2>2. ContractSteps(p) > 0
    BY <2>1 DEF Status
  <2>3. ExpandSteps(p) > 0
    BY <1>0, <1>3 DEF Contracting, Shapes
  <2>4. WithinContract(p)'
    BY <1>0, <1>3, <2>3 DEF Contracting, WithinContract
  <2> QED
    BY <1>0, <2>1, <2>2, <2>4, PendsOne DEF Status, Pends
<1> QED
  BY <1>1, <1>2, <1>3

LEMMA RunsFitMove ==
  ASSUME RowFacts, RunFacts, Shapes, NEW d \in Deploys, run[d].pc # "idle",
         Moved(d), Reads(d) \/ Starts(d) \/ Finishes(d) \/ Closes(d),
         NEW man \in Recorded, Holds(man), Awaits(man, d)
  PROVE  RunsFit(man)'
<1> DEFINE p == run[d].plan
<1>1. p \in Plans /\ run[d].phase \in {"expand", "contract"} /\ p # NoPlan
  BY LeftIn, PlanSteps
<1> SUFFICES ASSUME NEW r \in Deploys, run'[r].pc \in {"steps", "end"},
                    row'.plan = run'[r].plan
             PROVE  \/ Pends(man, run'[r].phase, run'[r].plan)
                    \/ run'[r].phase = "expand" /\ row'.phase = "expanded"
  BY DEF RunsFit, Pends
<1>2. CASE r # d
  <2>1. run'[r] = run[r] /\ owner = r
    BY <1>2 DEF Moved, RunFacts
  <2>2. run[d].pc = "lock"
    BY <1>2, <2>1 DEF RunFacts
  <2>3. row' = row
    BY <2>2 DEF Reads, Starts, Finishes, Closes
  <2> QED
    BY <2>1, <2>3 DEF Holds, RunsFit
<1>3. CASE r = d
  <2>1. run'[d].plan = p /\ run'[d].phase = run[d].phase
    BY <1>3 DEF Moved
  <2>2. CASE Starts(d)
    BY <1>3, <2>1, <2>2 DEF Awaits
  <2>3. CASE Closes(d)
    BY <1>3, <2>3 DEF Closes
  <2>4. CASE Finishes(d)
    <3>1. run[d].pc \in {"steps", "end"} /\ row.plan = p
      BY <2>4 DEF Finishes
    <3>2. \/ Pends(man, run[d].phase, p)
          \/ run[d].phase = "expand" /\ row.phase = "expanded"
      BY <3>1 DEF Holds, RunsFit
    <3>3. ASSUME row.phase = "expanded" PROVE row' = row
      <4>1. row' = row \/ row'.plan = NoPlan
        BY <1>1, <2>4, <3>3, InContract
      <4> QED
        BY <1>1, <1>3, <2>1, <4>1
    <3> QED
      BY <1>3, <2>1, <3>2, <3>3
  <2>5. CASE Reads(d) /\ run[d].pc \in {"steps", "end"}
    BY <1>3, <2>1, <2>5 DEF Holds, RunsFit, Reads
  <2>6. CASE Reads(d) /\ run[d].pc = "decide" /\ row.plan = p /\ run'[d].pc = "steps"
    <3>1. run[d].phase = "contract" => Pends(man, run[d].phase, p)
      BY <2>6 DEF Awaits
    <3>2. ASSUME run[d].phase = "expand", ~ Pends(man, "expand", p)
          PROVE  row.phase = "expanded"
      <4>1. \A m : Settled(m) => row.phase = "expanded"
        BY <1>1, <2>6 DEF Settled, Kept
      <4>2. CASE man.pending = NoPending
        BY <4>1, <4>2 DEF Holds, Status
      <4>3. ASSUME NEW q \in Plans, Pends(man, "expand", q) PROVE row.phase = "expanded"
        <5>1. WithinExpand(q) /\ q # p
          BY <3>2, <4>3 DEF Holds, Status
        <5> QED
          BY <1>1, <2>6, <4>1, <5>1 DEF WithinExpand
      <4>4. ASSUME NEW q \in Plans, Pends(man, "contract", q) PROVE row.phase = "expanded"
        <5>1. WithinContract(q)
          BY <4>4 DEF Holds, Status
        <5> QED
          BY <1>1, <2>6, <4>1, <5>1 DEF WithinContract
      <4> QED
        BY <4>2, <4>3, <4>4, PendsOf
    <3>3. row' = row
      BY <2>6 DEF Reads
    <3> QED
      BY <1>1, <1>3, <2>1, <3>1, <3>2, <3>3
  <2> QED
    BY <1>3, <2>2, <2>3, <2>4, <2>5, <2>6 DEF Reads
<1> QED
  BY <1>2, <1>3

LEMMA ServedStays == ASSUME NEW man, serving' = serving, Served(man) PROVE Served(man)'
BY DEF Served, Floor, ModelOf

LEMMA HoldsMoves ==
  ASSUME RowFacts, RunFacts, Shapes, NEW d \in Deploys, run[d].pc # "idle",
         Moved(d), Reads(d) \/ Starts(d) \/ Finishes(d) \/ Closes(d), serving' = serving,
         NEW man \in Recorded, Holds(man), Awaits(man, d)
  PROVE  Holds(man)'
<1>1. run[d].plan \in Plans
  BY LeftIn
<1>2. PICK p \in Plans : p = run[d].plan
  BY <1>1
<1>3. Stays \/ Expanding(man, p) \/ Contracting(man, p)
  BY <1>2, RowGoes
<1>4. Status(man)'
  BY <1>3, StatusMoves DEF Holds
<1>5. Served(man)'
  BY ServedStays DEF Holds
<1>6. RunsFit(man)'
  BY RunsFitMove
<1> QED
  BY <1>4, <1>5, <1>6 DEF Holds

(* A phase that is over: no run can take it up again.                         *)
Over(phase, p) ==
  IF phase = "contract" THEN row.plan # p /\ ContractSteps(p) > 0
  ELSE \/ ExpandSteps(p) = 0
       \/ /\ p.from \subseteq row.model /\ p.from # row.model
          /\ row.plan = p => row.phase = "expanded"

LEMMA OverMoves ==
  ASSUME RowFacts, NEW p \in Plans, NEW man \in Recorded,
         Stays \/ Expanding(man, p),
         NEW q \in Plans, NEW phase \in {"expand", "contract"}, Over(phase, q),
         Pends(man, "expand", p) /\ phase = "contract" => p # q
  PROVE  Over(phase, q)'
<1>0. /\ ExpandSteps(q)' = ExpandSteps(q) /\ ContractSteps(q)' = ContractSteps(q)
      /\ q # NoPlan /\ p # NoPlan
  BY PlanSteps, PlanStays
<1>1. CASE Stays
  BY <1>0, <1>1 DEF Stays, Over
<1>2. CASE Expanding(man, p) /\ phase = "contract"
  BY <1>0, <1>2 DEF Expanding, Over
<1>3. CASE Expanding(man, p) /\ phase = "expand"
  <2>1. CASE ExpandSteps(q) = 0
    BY <1>0, <1>3, <2>1 DEF Over
  <2>2. CASE ExpandSteps(q) # 0
    <3>1. /\ q.from \subseteq row.model /\ q.from # row.model
          /\ row.plan = q => row.phase = "expanded"
      BY <1>3, <2>2 DEF Over
    <3>2. row.plan = p => row.model \in {p.from, p.from \cup p.to}
      BY <1>0 DEF RowFacts
    <3>3. row.model \subseteq row'.model
      <4>1. ContractSteps(p) = 0 => p.to = p.from \cup p.to
        BY PlanSteps
      <4> QED
        BY <1>3, <3>2, <4>1 DEF Expanding
    <3>4. row'.plan = q => row'.phase = "expanded"
      BY <1>0, <1>3, <3>1 DEF Expanding
    <3> QED
      BY <1>0, <1>3, <3>1, <3>3, <3>4 DEF Over
  <2> QED
    BY <2>1, <2>2
<1> QED
  BY <1>1, <1>2, <1>3

-----------------------------------------------------------------------------
(* Where a deploy is, in its own record and the manifest.                     *)

Reached(m) == [model |-> m, pending |-> NoPending]
Pending(m, phase, p) == [model |-> m, pending |-> [phase |-> phase, plan |-> p]]
CallOf(phase, p, b) == [phase |-> phase, plan |-> p, runs |-> b]

Underway == {"first", "steps", "calling", "write", "fail"}
Aside == {"plan", "destroy", "forget", "release"}

(* The record that says where the database is while the deploy of record D    *)
(* runs, m being the manifest: while it calls the runner, the phase called is *)
(* pending until the call has ended well.                                     *)
InForce(D, m) ==
  IF D.pc \in {"write", "fail"} \/ (D.pc = "calling" /\ D.todo = <<>>) THEN D.man
  ELSE IF D.pc = "calling" THEN
    IF D.result = "ok" THEN Reached(After(Head(D.todo).plan, Head(D.todo).phase))
    ELSE Pending(D.man.model, Head(D.todo).phase, Head(D.todo).plan)
  ELSE IF D.pc = "forget" THEN Nothing
  ELSE m

(* The calls of a migrate step that are left. *)
CallsPending(D, m) ==
  /\ D.at = Expand /\ D.man = m /\ m.pending # NoPending
  /\ \E b \in BOOLEAN :
       /\ b \/ ExpandSteps(D.plan) = 0
       /\ D.todo = << CallOf(m.pending.phase, m.pending.plan, TRUE),
                      CallOf("expand", D.plan, b) >>
CallsExpand(D) ==
  /\ D.at = Expand /\ D.man.pending = NoPending /\ ModelOf(D.man) = D.plan.from
  /\ \E b \in BOOLEAN :
       /\ b \/ (ExpandSteps(D.plan) = 0 /\ D.result = "none")
       /\ D.todo = << CallOf("expand", D.plan, b) >>
CallsContract(D, m) ==
  /\ D.at = Contract /\ D.man = m /\ ContractSteps(D.plan) > 0
  /\ D.todo = << CallOf("contract", D.plan, TRUE) >>
CallsOver(D) ==
  /\ D.todo = <<>> /\ D.result = "none"
  /\ \/ D.at = Expand /\ D.man = Reached(After(D.plan, "expand"))
     \/ D.at = Contract /\ D.man = Reached(D.plan.to)

Ended(D, m) ==
  \/ D.at = Expand /\ D.man = Reached(After(D.plan, "expand"))
  \/ D.at = Contract /\ D.man = Reached(D.plan.to)
  \/ /\ D.pc = "fail" /\ D.at = Expand /\ D.man.pending # NoPending
     /\ D.man.pending \in {m.pending, [phase |-> "expand", plan |-> D.plan]}
  \/ /\ D.pc = "fail" /\ D.at = Contract /\ ContractSteps(D.plan) > 0
     /\ Pends(D.man, "contract", D.plan)

Placed(D, m) ==
  /\ D.pc \in Underway \cup Aside
  /\ D.pc \in Aside => D.man = Nothing /\ D.at = 1
  /\ D.pc \in Underway =>
       /\ D.version \in Versions /\ D.plan \in Plans /\ D.plan.to = Uses[D.version]
       /\ D.at <= Expand => D.plan.from = PlansFrom(m)
       /\ D.at > Expand =>
            m = Reached(IF D.at <= Contract THEN After(D.plan, "expand") ELSE D.plan.to)
       /\ D.pc \in {"first", "steps"} \/ D.at \notin {Expand, Contract} => D.man = m
       /\ D.pc = "first" => D.at = 1
  /\ D.pc # "calling" => D.result = "none"
  /\ D.pc = "calling" =>
       CallsPending(D, m) \/ CallsExpand(D) \/ CallsContract(D, m) \/ CallsOver(D)
  /\ D.pc \in {"write", "fail"} /\ D.at \in {Expand, Contract} => Ended(D, m)

(* The waves that are over run the deploy's version. *)
Rolled(D) ==
  D.pc \in Underway =>
    \A s \in Servers :
      Wave(WaveOf[s]) < D.at \/ (Wave(WaveOf[s]) = D.at /\ D.pc = "write") =>
        serving[s] = D.version

(* A call that goes on has its run. *)
Owns(d, D) ==
  D.pc = "calling" /\ D.result = "running" =>
    /\ D.todo # <<>> /\ run[d].pc \in {"lock", "decide", "steps", "end"}
    /\ run[d].phase = Head(D.todo).phase /\ run[d].plan = Head(D.todo).plan

(* What the deploy, or the manifest, waits for is pending, or it is over.     *)
Waited(D, m, phase, q) ==
  \/ Pends(m, phase, q) \/ Pends(D.man, phase, q)
  \/ /\ D.pc = "calling" /\ D.todo # <<>>
     /\ Head(D.todo).phase = phase /\ Head(D.todo).plan = q

Stale(D, m) ==
  D.pc # "forget" =>
    \A q \in Plans, phase \in {"expand", "contract"} :
      Waited(D, m, phase, q) => Pends(InForce(D, m), phase, q) \/ Over(phase, q)

(* A plan that adds and drops is in progress from where its expand phase ended *)
(* until its contract is called.                                              *)
Opened(D, m) ==
  /\ D.pc \in Underway /\ ExpandSteps(D.plan) > 0 /\ ContractSteps(D.plan) > 0
  /\ InForce(D, m) = Reached(After(D.plan, "expand"))
  => row.plan = D.plan

Follows(d, D, m) ==
  /\ Placed(D, m) /\ Rolled(D) /\ Owns(d, D) /\ Stale(D, m) /\ Opened(D, m)
  /\ D.pc = "forget" => \A r \in Deploys : run[r].pc = "idle"
  /\ Holds(InForce(D, m))

Good == Apart /\ ~ forced /\ ~ slipped

Sound ==
  /\ Shapes
  /\ \A d \in Deploys : ~ Live(d) => deploy[d] = Idle(deploy[d].pc)
  /\ Good => /\ \A d \in Deploys : Live(d) => Follows(d, deploy[d], manifest)
             /\ (\A d \in Deploys : ~ Live(d)) => Holds(manifest)

Inv == Typed /\ Held /\ R!RunnerInv /\ Sound

LEMMA InvFacts == Inv => Typed /\ Held /\ RowFacts /\ RunFacts /\ Shapes /\ Sound
BY RowHolding, RunHolding DEF Inv, Sound

-----------------------------------------------------------------------------
(* Steps of one deploy.  Only one is live, so what follows a step is its own  *)
(* to show.                                                                   *)

LEMMA Alone ==
  ASSUME Held, Good, NEW d \in Deploys, Live(d), NEW e \in Deploys, Live(e)
  PROVE  e = d
BY DEF Held, Good, Apart

LEMMA SoundAfter ==
  ASSUME Inv, NEW d \in Deploys, Live(d),
         \A e \in Deploys : e # d => deploy'[e] = deploy[e],
         Live(d)' \/ deploy'[d] = Idle(deploy'[d].pc),
         Shapes', Good' => Good,
         Good /\ Good' /\ Live(d)' => Follows(d, deploy[d], manifest)',
         Good /\ Good' /\ ~ Live(d)' => Holds(manifest)'
  PROVE  Sound'
<1>1. \A e \in Deploys : e # d => (Live(e)' <=> Live(e))
  BY DEF Live
<1>2. Good => \A e \in Deploys : Live(e) => e = d
  BY Alone DEF Inv
<1>3. \A e \in Deploys : ~ Live(e)' => deploy'[e] = Idle(deploy'[e].pc)
  BY <1>1 DEF Inv, Sound
<1>4. Good' => \A e \in Deploys : Live(e)' => e = d
  BY <1>1, <1>2
<1>5. Good' => \A e \in Deploys : Live(e)' => Follows(e, deploy[e], manifest)'
  BY <1>4
<1>6. Good' => ((\A e \in Deploys : ~ Live(e)') => Holds(manifest)')
  OBVIOUS
<1> QED
  BY <1>3, <1>5, <1>6 DEF Sound

LEMMA FollowsNow ==
  ASSUME Inv, Good, NEW d \in Deploys, Live(d)
  PROVE  /\ Follows(d, deploy[d], manifest) /\ deploy[d] \in Deployment
         /\ manifest \in Recorded
BY DEF Inv, Sound, Typed, TypeOK

(* Steps that leave the database and the servers as they are.                 *)
LEMMA HoldsStays ==
  ASSUME NEW man, Stays, serving' = serving, Holds(man),
         \A r \in Deploys : run'[r].pc \in {"steps", "end"} => run'[r] = run[r]
  PROVE  Holds(man)'
<1>1. Status(man)' /\ Served(man)'
  BY StatusStays, ServedStays DEF Holds
<1>2. RunsFit(man)'
  BY DEF Holds, RunsFit, Stays, Pends
<1> QED
  BY <1>1, <1>2 DEF Holds

LEMMA OverStays == ASSUME row' = row, NEW phase, NEW q PROVE Over(phase, q)' <=> Over(phase, q)
BY DEF Over, ExpandSteps, ContractSteps

(* A phase that ends where it should is over.                                 *)
LEMMA Closed ==
  ASSUME RowFacts, NEW p \in Plans, NEW phase \in {"expand", "contract"}, NEW man \in Recorded,
         Holds(man), Pends(man, phase, p), Settled(After(p, phase))
  PROVE  /\ Over(phase, p)
         /\ Holds(Reached(After(p, phase)))
<1> DEFINE m == After(p, phase)
<1>1. /\ phase = "expand" => m = p.from \cup p.to
      /\ phase = "contract" => m = p.to
      /\ phase = "contract" => ContractSteps(p) > 0
      /\ m \in Model /\ p # NoPlan /\ p.from \in Model /\ p.to \in Model
      /\ ExpandSteps(p) = 0 <=> p.to \subseteq p.from
      /\ ContractSteps(p) > 0 => ~ (p.from \subseteq p.to)
  BY PlanSteps, AfterType DEF Holds, Status
<1>2. m # NoModel
  BY <1>1, DeployAssumption DEF Model
<1>3. row.model = m /\ (row.plan # NoPlan => row.phase = "expanded" /\ ~ ContractBegun(row.plan))
  BY DEF Settled, Kept
<1>4. phase = "contract" => row.plan # p
  <2> SUFFICES ASSUME phase = "contract", row.plan = p PROVE FALSE
    OBVIOUS
  <2>1. row.model = p.from \cup p.to
    BY <1>1, <1>3 DEF RowFacts
  <2> QED
    BY <1>1, <1>3, <2>1
<1>5. Over(phase, p)
  BY <1>1, <1>3, <1>4 DEF Over
<1> HIDE DEF m
<1>6. ModelOf(Reached(m)) = m /\ Reached(m).pending = NoPending
  BY <1>2 DEF ModelOf, Reached
<1>7. Status(Reached(m))
  <2>1. Settled(m)
    BY DEF m
  <2>2. \A q, f : f \in {"expand", "contract"} => ~ Pends(Reached(m), f, q)
    BY <1>6 DEF Pends, NoPending
  <2> QED
    BY <1>6, <2>1, <2>2 DEF Status
<1>8. Served(Reached(m))
  <2>1. Floor(man) \subseteq m
    <3>1. man.pending # NoPending /\ man.pending.phase = phase /\ man.pending.plan = p
      BY PendsOne
    <3> QED
      BY <1>1, <3>1 DEF Floor
  <2>2. Floor(Reached(m)) = m
    BY <1>6 DEF Floor
  <2> QED
    BY <2>1, <2>2 DEF Holds, Served
<1>9. RunsFit(Reached(m))
  <2> SUFFICES ASSUME NEW r \in Deploys, run[r].pc \in {"steps", "end"}, row.plan = run[r].plan,
                      ~ (run[r].phase = "expand" /\ row.phase = "expanded")
               PROVE  FALSE
    BY DEF RunsFit
  <2>1. Pends(man, run[r].phase, run[r].plan)
    BY DEF Holds, RunsFit
  <2>2. run[r].phase = phase /\ run[r].plan = p
    BY <2>1 DEF Pends
  <2> QED
    BY <1>1, <1>3, <1>4, <2>2
<1> QED
  BY <1>5, <1>7, <1>8, <1>9 DEF Holds, m

-----------------------------------------------------------------------------
(* The steps that leave the database, or empty it.                            *)

LEMMA GoodBack == [Next]_vars => (Good' => Good)
<1> SUFFICES ASSUME [Next]_vars PROVE Good' => Good
  OBVIOUS
<1> DEFINE Back == /\ store' = store
                   /\ forced' = TRUE \/ forced' = forced
                   /\ slipped => slipped'
<1>1. ASSUME NEW d \in Deploys, NEW v, NEW pc, TakeLock(d, v, pc) PROVE Back
  BY <1>1 DEF TakeLock
<1>2. ASSUME NEW d \in Deploys, ReleaseReads(d) \/ Releases(d) \/ ReleaseLeaves(d) PROVE Back
  BY <1>2 DEF ReleaseReads, Releases, ReleaseLeaves
<1>3. ASSUME NEW d \in Deploys,
             Prepare(d) \/ Refused(d) \/ WriteFirst(d) \/ OtherStep(d) \/ Rollout(d)
               \/ Migrate(d) \/ Skip(d) \/ CallRunner(d) \/ CallLost(d) \/ Returned(d)
      PROVE  Back
  BY <1>3 DEF Prepare, Refused, WriteFirst, OtherStep, Rollout, Migrate, Skip, CallRunner,
              CallLost, Returned, GoesOnly
<1>4. ASSUME NEW d \in Deploys,
             Migrated(d) \/ Write(d) \/ WriteFailure(d) \/ WriteFails(d) \/ Destroys(d)
               \/ DeleteManifest(d) \/ RunnerMoves(d) \/ Dies(d)
      PROVE  Back
  <2>1. Migrated(d) \/ Write(d) \/ WriteFailure(d) \/ WriteFails(d) => Back
    BY DEF Migrated, Write, WriteFailure, WriteFails, GoesOnly
  <2>2. Destroys(d) \/ DeleteManifest(d) => Back
    BY DEF Destroys, DeleteManifest
  <2>3. RunnerMoves(d) \/ Dies(d) => Back
    <3>1. RunnerMoves(d) \/ Dies(d) =>
            /\ store' = store /\ forced' = forced
            /\ \E b \in {Strays(d), deploy[d].pc \in {"calling", "write", "fail", "forget"}} :
                 slipped' = (slipped \/ b)
      BY DEF RunnerMoves, Dies
    <3> QED
      BY <3>1
  <2> QED
    BY <1>4, <2>1, <2>2, <2>3
<1>5. ASSUME NEW p \in Persons, PersonConfirms(p) \/ PersonUnlocks(p) PROVE Back
  BY <1>5 DEF PersonConfirms, PersonUnlocks
<1>6. CASE UNCHANGED vars
  BY <1>6 DEF vars, Good, Apart
<1>7. Back => (Good' => Good)
  BY DEF Good, Apart
<1> HIDE DEF Back
<1>8. Next => Back
  BY <1>1, <1>2, <1>3, <1>4, <1>5 DEF Next, Moves
<1> QED
  BY <1>6, <1>7, <1>8

LEMMA ShapesStay == ASSUME Shapes, row' = row, log' = log, run' = run PROVE Shapes'
BY DEF Shapes, StepsOf, ExpandSteps, ContractSteps, Runner!Steps

(* The database leaves nothing for the runs to hold on to.                    *)
LEMMA ShapesEmpty ==
  ASSUME row' = [model |-> {}, plan |-> NoPlan, phase |-> "none"],
         log' = [p \in Plans |-> Runner!Unlogged(p)],
         run' = [d \in Deploys |-> Runner!Resting]
  PROVE  Shapes'
<1>1. \A r \in Deploys : run'[r].pc = "idle"
  BY DEF Runner!Resting
<1>2. \A p \in Plans : \A i \in Runner!Steps(p) : log'[p][i] = "none"
  BY DEF Runner!Unlogged
<1> QED
  BY <1>1, <1>2 DEF Shapes

LEMMA HoldsNothing ==
  ASSUME row.model = {}, row.plan = NoPlan, \A s \in Servers : serving[s] = NoVersion,
         \A r \in Deploys : run[r].pc = "idle"
  PROVE  Holds(Nothing)
<1>1. Nothing.pending = NoPending /\ ModelOf(Nothing) = {}
  BY DEF Nothing, ModelOf
<1>2. Status(Nothing)
  BY <1>1 DEF Status, Settled, Pends, NoPending
<1> QED
  BY <1>2 DEF Holds, Served, RunsFit

LEMMA SoundInit == Init => Sound
<1> SUFFICES ASSUME Init PROVE Sound
  OBVIOUS
<1>1. /\ row = [model |-> {}, plan |-> NoPlan, phase |-> "none"]
      /\ log = [p \in Plans |-> Runner!Unlogged(p)]
      /\ run = [d \in Deploys |-> Runner!Resting]
  BY DEF Init, Runner!Init
<1>2. \A r \in Deploys : run[r].pc = "idle"
  BY <1>1 DEF Runner!Resting
<1>3. \A p \in Plans : \A i \in Runner!Steps(p) : log[p][i] = "none"
  BY <1>1 DEF Runner!Unlogged
<1>4. Shapes
  BY <1>1, <1>2, <1>3 DEF Shapes
<1>5. \A d \in Deploys : deploy[d] = Idle("new") /\ deploy[d].pc = "new"
  BY DEF Init, Idle
<1>6. Holds(manifest)
  <2>1. manifest = Nothing /\ \A s \in Servers : serving[s] = NoVersion
    BY DEF Init
  <2> QED
    BY <1>1, <1>2, <2>1, HoldsNothing
<1> QED
  BY <1>4, <1>5, <1>6 DEF Sound, Live

-----------------------------------------------------------------------------
(* The runner's invariant through every step.                                 *)

LEMMA RunnerQuiet ==
  ASSUME R!RunnerInv, UNCHANGED Database, faults' \in 0..MaxFaults
  PROVE  R!RunnerInv'
<1>1. UNCHANGED <<driver, row, log, schema, owner, leased, run, runs>>
  BY DEF Database
<1>2. R!Typed'
  BY <1>1 DEF R!RunnerInv, R!Typed
<1>3. R!TablesHold'
  <2>1. R!RowHolds'
    BY <1>1 DEF R!RunnerInv, R!TablesHold, R!RowHolds
  <2>2. R!InPlace'
    BY <1>1 DEF R!RunnerInv, R!TablesHold, R!InPlace, R!PlacedAt
  <2>3. R!LeftBehind'
    BY <1>1 DEF R!RunnerInv, R!Typed, R!LeftBehind
  <2> QED
    BY <2>1, <2>2, <2>3 DEF R!TablesHold
<1>4. ASSUME NEW q \in Deploys PROVE R!RunHolds(q)'
  BY <1>1 DEF R!RunnerInv, R!RunHolds, R!Busy, R!Writer, R!Done, R!Tables
<1> QED
  BY <1>2, <1>3, <1>4 DEF R!RunnerInv

(* A database that is removed, and its runs with it.                          *)
LEMMA RunnerEmptied ==
  ASSUME R!RunnerInv, Emptied, faults' \in 0..MaxFaults
  PROVE  R!RunnerInv'
<1>0. /\ row' = [model |-> {}, plan |-> NoPlan, phase |-> "none"]
      /\ log' = [p \in Plans |-> Runner!Unlogged(p)]
      /\ schema' = <<"at", {}>> /\ owner' = Nobody
      /\ run' = [d \in Deploys |-> Runner!Resting]
      /\ driver' = driver /\ leased' = leased /\ runs' = runs
      /\ driver = "postgres"
  BY DEF Emptied, R!RunnerInv, R!Typed
<1>1. \A p \in Plans : /\ Runner!Unlogged(p) \in [R!Steps(p) -> R!Marks]
                       /\ \A i \in R!Steps(p) : Runner!Unlogged(p)[i] = "none"
  BY DEF Runner!Unlogged, Runner!Steps, R!Steps, R!Marks
<1>2. log' \in R!LogType
  BY <1>0, <1>1 DEF R!LogType
<1>3. Runner!Resting \in R!RunType /\ Runner!Resting.pc = "idle"
  BY DEF Runner!Resting, R!RunType, R!Places, R!Phases
<1>4. row' \in R!RowType
  <2>1. {} # NoModel
    BY DeployAssumption
  <2> QED
    BY <1>0, <2>1 DEF R!RowType, R!Models
<1>5. R!Typed'
  BY <1>0, <1>2, <1>3, <1>4 DEF R!RunnerInv, R!Typed
<1>6. R!TablesHold'
  BY <1>0 DEF R!TablesHold, R!RowHolds, R!InPlace, R!LeftBehind
<1>7. ASSUME NEW q \in Deploys PROVE R!RunHolds(q)'
  <2>1. run'[q].pc = "idle" /\ owner' # q
    BY <1>0, <1>3, DeployAssumption
  <2> QED
    BY <1>0, <2>1 DEF R!RunHolds, R!Busy
<1> QED
  BY <1>5, <1>6, <1>7 DEF R!RunnerInv

LEMMA RunnerGoes ==
  ASSUME R!RunnerInv, NEW d \in Deploys, UNCHANGED driver,
         \/ \E p \in Plans, f \in {"expand", "contract", "all"} : Runner!Begin(d, p, f)
         \/ Runner!Lock(d) \/ Runner!Fails(d) \/ Runner!Crash(d)
         \/ run[d].pc # "idle" /\ Runner!Progress(d)
  PROVE  R!RunnerInv'
<1>1. R!NeverReturns
  BY DEF R!RunnerInv, R!Typed, R!NeverReturns
<1> QED
  BY <1>1, RunnerSteps, RunnerAssumption, R!RunnerStep

LEMMA RunnerAlong == Typed /\ R!RunnerInv /\ [Next]_vars => R!RunnerInv'
<1> SUFFICES ASSUME Typed, R!RunnerInv, [Next]_vars PROVE R!RunnerInv'
  OBVIOUS
<1>0. /\ faults \in 0..MaxFaults /\ MaxFaults \in Nat
      /\ Fault => faults' \in 0..MaxFaults
      /\ faults' \in {faults, MaxFaults} => faults' \in 0..MaxFaults
  BY DeployAssumption DEF R!RunnerInv, R!Typed, Fault
<1> DEFINE Still == UNCHANGED Database /\ (faults' \in {faults, MaxFaults} \/ Fault)
<1>1. Still => R!RunnerInv'
  BY <1>0, RunnerQuiet
<1>2. ASSUME NEW d \in Deploys, NEW v, NEW pc, TakeLock(d, v, pc) PROVE Still
  BY <1>2 DEF TakeLock
<1>3. ASSUME NEW d \in Deploys, ReleaseReads(d) \/ Releases(d) \/ ReleaseLeaves(d) PROVE Still
  BY <1>3 DEF ReleaseReads, Releases, ReleaseLeaves
<1>4. ASSUME NEW d \in Deploys,
             Prepare(d) \/ Refused(d) \/ WriteFirst(d) \/ OtherStep(d) \/ Rollout(d)
               \/ Migrate(d) \/ Skip(d) \/ CallLost(d) \/ Returned(d) \/ Migrated(d)
      PROVE  Still
  BY <1>4 DEF Prepare, Refused, WriteFirst, OtherStep, Rollout, Migrate, Skip, CallLost,
              Returned, Migrated, GoesOnly
<1>5. ASSUME NEW d \in Deploys,
             Write(d) \/ WriteFailure(d) \/ WriteFails(d) \/ DeleteManifest(d)
      PROVE  Still
  BY <1>5 DEF Write, WriteFailure, WriteFails, DeleteManifest, GoesOnly
<1>6. ASSUME NEW p \in Persons, PersonConfirms(p) \/ PersonUnlocks(p) PROVE Still
  BY <1>6 DEF PersonConfirms, PersonUnlocks
<1>7. ASSUME NEW d \in Deploys, CallRunner(d) PROVE R!RunnerInv'
  <2> DEFINE call == Head(deploy[d].todo)
  <2>1. call \in Call
    BY <1>7 DEF CallRunner, Calling, Typed, TypeOK, Deployment
  <2>2. CASE Runner!Begin(d, call.plan, call.phase) /\ UNCHANGED driver
    <3>1. call.plan \in Plans /\ call.phase \in {"expand", "contract", "all"}
      BY <2>1 DEF Call
    <3> HIDE DEF call
    <3> QED
      BY <2>2, <3>1, RunnerGoes
  <2>3. CASE UNCHANGED <<Database, faults>>
    BY <1>1, <2>3
  <2> QED
    BY <1>7, <2>2, <2>3 DEF CallRunner
<1>8. ASSUME NEW d \in Deploys, RunnerMoves(d) PROVE R!RunnerInv'
  BY <1>8, RunnerGoes DEF RunnerMoves
<1>9. ASSUME NEW d \in Deploys, Destroys(d) PROVE R!RunnerInv'
  <2>1. /\ Emptied \/ UNCHANGED Database
        /\ faults' = faults \/ Fault
    BY <1>9 DEF Destroys
  <2> QED
    BY <1>0, <2>1, RunnerQuiet, RunnerEmptied
<1>10. ASSUME NEW d \in Deploys, Dies(d) PROVE R!RunnerInv'
  <2>1. CASE Fault /\ UNCHANGED Database
    BY <1>1, <2>1
  <2>2. CASE UNCHANGED driver /\ Runner!Crash(d)
    BY <2>2, RunnerGoes
  <2> QED
    BY <1>10, <2>1, <2>2 DEF Dies
<1>11. CASE UNCHANGED vars
  BY <1>1, <1>11 DEF vars, runner, Database
<1> HIDE DEF Still
<1> QED
  BY <1>1, <1>2, <1>3, <1>4, <1>5, <1>6, <1>7, <1>8, <1>9, <1>10, <1>11 DEF Next, Moves

-----------------------------------------------------------------------------
(* Steps that leave the database and the servers as they are: what follows    *)
(* from where the deploy and the manifest are after them.                     *)

LEMMA GoesTo ==
  ASSUME Typed, NEW d \in Deploys, NEW pc, Goes(d, pc)
  PROVE  /\ \A e \in Deploys : e # d => deploy'[e] = deploy[e]
         /\ pc \in {"release", "over", "dead"} => deploy'[d] = Idle(pc)
         /\ pc \notin {"release", "over", "dead"} => deploy'[d] = [deploy[d] EXCEPT !.pc = pc]
<1>1. deploy \in [Deploys -> Deployment]
  BY DEF Typed, TypeOK
<1>2. CASE pc \in {"release", "over", "dead"}
  BY <1>1, <1>2 DEF Goes
<1>3. CASE pc \notin {"release", "over", "dead"}
  <2>1. deploy' = [deploy EXCEPT ![d] = [deploy[d] EXCEPT !.pc = pc]]
    BY <1>3 DEF Goes
  <2> QED
    BY <1>1, <1>3, <2>1
<1> QED
  BY <1>2, <1>3

LEMMA PcFields ==
  ASSUME NEW D \in Deployment, NEW pc, NEW E, E = [D EXCEPT !.pc = pc]
  PROVE  /\ E.pc = pc /\ E.version = D.version /\ E.at = D.at /\ E.man = D.man
         /\ E.plan = D.plan /\ E.todo = D.todo /\ E.result = D.result
BY DEF Deployment

LEMMA FollowsStays ==
  ASSUME Stays, serving' = serving, run' = run, NEW d \in Deploys, NEW E, NEW n,
         Follows(d, E, n)
  PROVE  Follows(d, E, n)'
<1>1. Rolled(E)' /\ Owns(d, E)' /\ Placed(E, n)' /\ Opened(E, n)'
  <2>1. Opened(E, n)'
    BY DEF Follows, Opened, InForce, Stays, ExpandSteps, ContractSteps, After, Pending, Reached
  <2> QED
    BY <2>1
       DEF Follows, Rolled, Owns, Placed, CallsPending, CallsExpand, CallsContract, CallsOver,
           Ended, PlansFrom, Pends
<1>2. \A phase, q : Over(phase, q)' <=> Over(phase, q)
  BY OverStays DEF Stays
<1>3. Stale(E, n)'
  BY <1>2 DEF Follows, Stale, Waited, InForce, Pends
<1>4. Holds(InForce(E, n))'
  <2>1. PICK man : man = InForce(E, n)
    OBVIOUS
  <2>2. Holds(man)'
    BY <2>1, HoldsStays DEF Follows
  <2> QED
    BY <2>1, <2>2 DEF InForce
<1> QED
  BY <1>1, <1>3, <1>4 DEF Follows

LEMMA QuietAfter ==
  ASSUME Inv, [Next]_vars, NEW d \in Deploys, Live(d),
         UNCHANGED Database, serving' = serving,
         \A e \in Deploys : e # d => deploy'[e] = deploy[e],
         Live(d)' \/ deploy'[d] = Idle(deploy'[d].pc),
         \A E, n : E = deploy'[d] /\ n = manifest' /\ Good /\ Good' =>
           IF Live(d)' THEN Follows(d, E, n) ELSE Holds(n)
  PROVE  Sound'
<1>1. Stays /\ run' = run
  BY DEF Database, Stays
<1>2. Shapes'
  BY <1>1, ShapesStay DEF Inv, Sound, Stays
<1>3. Good' => Good
  BY GoodBack
<1>4. PICK E, n : E = deploy'[d] /\ n = manifest'
  OBVIOUS
<1>5. ASSUME Good, Good', Live(d)' PROVE Follows(d, deploy[d], manifest)'
  <2>1. Follows(d, E, n)
    BY <1>4, <1>5
  <2>2. Follows(d, E, n)'
    BY <1>1, <2>1, FollowsStays
  <2> QED
    BY <1>4, <2>2
<1>6. ASSUME Good, Good', ~ Live(d)' PROVE Holds(manifest)'
  <2>1. Holds(n)
    BY <1>4, <1>6
  <2>2. Holds(n)'
    BY <1>1, <2>1, HoldsStays
  <2> QED
    BY <1>4, <2>2
<1> QED
  BY <1>2, <1>3, <1>5, <1>6, SoundAfter

(* While a phase is pending, or the record in force and the row stay, there is *)
(* nothing to show of a plan in progress.                                     *)
LEMMA OpenedStays ==
  ASSUME NEW D, NEW m, NEW E, NEW n,
         \/ InForce(E, n).pending # NoPending
         \/ /\ D.pc \in Underway /\ Opened(D, m) /\ E.plan = D.plan
            /\ InForce(E, n) = InForce(D, m)
  PROVE  Opened(E, n)
<1>1. \A x : Reached(x).pending = NoPending
  BY DEF Reached
<1> QED
  BY <1>1 DEF Opened

LEMMA OpenedNext ==
  ASSUME NEW D, NEW m, NEW E, NEW n, Stays, D.pc \in Underway, Opened(D, m), E.plan = D.plan,
         InForce(E, n) = InForce(D, m)
  PROVE  Opened(E, n)'
<1>1. Opened(E, n)
  BY OpenedStays
<1> QED
  BY <1>1 DEF Opened, InForce, Stays, ExpandSteps, ContractSteps, After, Pending, Reached

(* A deploy that has not begun to change anything, or no longer does.         *)
LEMMA AsideFollows ==
  ASSUME NEW d \in Deploys, NEW E, NEW n, E.pc \in {"plan", "destroy", "release"},
         E.man = Nothing, E.at = 1, E.result = "none", Holds(n)
  PROVE  Follows(d, E, n)
<1>1. InForce(E, n) = n
  BY DEF InForce
<1>2. Placed(E, n)
  BY DEF Placed, Aside, Underway
<1>3. Rolled(E) /\ Owns(d, E)
  BY DEF Rolled, Owns, Underway
<1>4. \A phase, q : phase \in {"expand", "contract"} => ~ Pends(E.man, phase, q)
  BY DEF Nothing, Pends, NoPending
<1>5. Stale(E, n) /\ Opened(E, n)
  BY <1>1, <1>4 DEF Stale, Waited, Opened, Underway
<1> QED
  BY <1>1, <1>2, <1>3, <1>5 DEF Follows

LEMMA IdleIs == ASSUME NEW pc PROVE /\ Idle(pc).pc = pc /\ Idle(pc).man = Nothing
                                    /\ Idle(pc).at = 1 /\ Idle(pc).result = "none"
                                    /\ Idle(pc).todo = <<>>
BY DEF Idle

LEMMA NothingLeft ==
  ASSUME NEW D, NEW m, Placed(D, m), D.pc = "calling"
  PROVE  D.todo = <<>> <=> CallsOver(D)
<1>1. \A a : <<a>> # <<>>
  OBVIOUS
<1>2. \A a, b : <<a, b>> # <<>>
  OBVIOUS
<1>3. CallsPending(D, m) \/ CallsExpand(D) \/ CallsContract(D, m) => D.todo # <<>>
  BY <1>1, <1>2 DEF CallsPending, CallsExpand, CallsContract
<1>4. CallsOver(D) => D.todo = <<>>
  BY DEF CallsOver
<1>5. CallsPending(D, m) \/ CallsExpand(D) \/ CallsContract(D, m) \/ CallsOver(D)
  BY DEF Placed
<1> QED
  BY <1>3, <1>4, <1>5

-----------------------------------------------------------------------------
(* The quiet steps. *)

LEMMA ToRelease ==
  ASSUME Inv, [Next]_vars, NEW d \in Deploys, Live(d), UNCHANGED Database, serving' = serving,
         Goes(d, "release"),
         Good /\ Good' => manifest' = InForce(deploy[d], manifest)
  PROVE  Sound'
<1>1. (\A e \in Deploys : e # d => deploy'[e] = deploy[e]) /\ deploy'[d] = Idle("release")
  BY GoesTo DEF Inv
<1>2. deploy'[d].pc = "release" /\ Live(d)'
  BY <1>1, IdleIs DEF Live
<1>3. ASSUME NEW E, NEW n, E = deploy'[d], n = manifest', Good, Good'
      PROVE  Follows(d, E, n)
  <2>1. Holds(InForce(deploy[d], manifest))
    BY <1>3, FollowsNow DEF Follows
  <2>2. Holds(n)
    BY <1>3, <2>1
  <2> QED
    BY <1>1, <1>3, <2>2, IdleIs, AsideFollows
<1> QED
  BY <1>1, <1>2, <1>3, QuietAfter

LEMMA ToRest ==
  ASSUME Inv, [Next]_vars, NEW d \in Deploys, Live(d), UNCHANGED Database, serving' = serving,
         NEW pc \in {"over", "dead"}, Goes(d, pc), manifest' = manifest,
         Good' => deploy[d].pc \notin {"calling", "write", "fail", "forget"}
  PROVE  Sound'
<1>1. (\A e \in Deploys : e # d => deploy'[e] = deploy[e]) /\ deploy'[d] = Idle(pc)
  BY GoesTo DEF Inv
<1>2. deploy'[d].pc = pc /\ ~ Live(d)'
  BY <1>1, IdleIs DEF Live
<1>3. ASSUME NEW E, NEW n, E = deploy'[d], n = manifest', Good, Good'
      PROVE  Holds(n)
  <2>1. InForce(deploy[d], manifest) = manifest
    BY <1>3 DEF InForce
  <2> QED
    BY <1>3, <2>1, FollowsNow DEF Follows
<1> QED
  BY <1>1, <1>2, <1>3, QuietAfter

LEMMA ReleaseSound ==
  ASSUME Inv, [Next]_vars, NEW d \in Deploys, ReleaseReads(d) \/ Releases(d) \/ ReleaseLeaves(d)
  PROVE  Sound'
<1>1. /\ Live(d) /\ UNCHANGED Database /\ serving' = serving /\ manifest' = manifest
      /\ deploy[d].pc = "release"
  BY DEF ReleaseReads, Releases, ReleaseLeaves, Live, Database
<1>2. CASE Releases(d) \/ ReleaseLeaves(d)
  BY <1>1, <1>2, ToRest DEF Releases, ReleaseLeaves
<1>3. CASE ReleaseReads(d)
  <2>1. deploy' = deploy
    BY <1>3 DEF ReleaseReads
  <2>2. Live(d)'
    BY <1>1, <2>1 DEF Live
  <2> QED
    BY <1>1, <2>1, <2>2, FollowsNow, QuietAfter
<1> QED
  BY <1>2, <1>3

LEMMA ReturnSound ==
  ASSUME Inv, [Next]_vars, NEW d \in Deploys,
         Refused(d) \/ WriteFailure(d) \/ WriteFails(d) \/ DeleteManifest(d)
           \/ (Write(d) /\ deploy[d].at = LastStep)
  PROVE  Sound'
<1>1. /\ Live(d) /\ UNCHANGED Database /\ serving' = serving /\ Goes(d, "release")
  BY DEF Refused, WriteFailure, WriteFails, DeleteManifest, Write, Live, GoesOnly, Database
<1>2. ASSUME Good, Good' PROVE manifest' = InForce(deploy[d], manifest)
  <2>1. CASE Refused(d)
    BY <2>1 DEF Refused, GoesOnly, InForce
  <2>2. CASE WriteFailure(d) \/ Write(d)
    <3>1. manifest' = deploy[d].man /\ deploy[d].pc \in {"write", "fail"}
      <4>1. WriteFailure(d) => manifest' = deploy[d].man /\ deploy[d].pc = "fail"
        BY DEF WriteFailure
      <4>2. Write(d) => manifest' = deploy[d].man /\ deploy[d].pc = "write"
        BY DEF Write
      <4> QED
        BY <2>2, <4>1, <4>2
    <3> QED
      BY <3>1 DEF InForce
  <2>3. CASE WriteFails(d)
    BY <1>2, <2>3 DEF WriteFails, Good, Apart
  <2>4. CASE DeleteManifest(d)
    BY <1>2, <2>4 DEF DeleteManifest, InForce, Good, Apart
  <2> QED
    BY <2>1, <2>2, <2>3, <2>4
<1> QED
  BY <1>1, <1>2, ToRelease

(* A plan that starts from where the expand phase of another ended.           *)
LEMMA PlansFromReached ==
  ASSUME NEW p \in Plans, NEW man, man = Reached(After(p, "expand"))
  PROVE  PlansFrom(man) = After(p, "expand")
<1>1. man.pending = NoPending /\ man.model = After(p, "expand")
  BY DEF Reached
<1>2. man.model # NoModel
  BY <1>1, AfterType, DeployAssumption DEF Model
<1> QED
  BY <1>1, <1>2 DEF PlansFrom

(* A deploy goes from one place to another, and nothing else is said.         *)
LEMMA PrepareSound ==
  ASSUME Inv, [Next]_vars, NEW d \in Deploys, Prepare(d)
  PROVE  Sound'
<1> DEFINE D == deploy[d]
           P == [from |-> PlansFrom(manifest), to |-> Uses[D.version]]
<1>1. /\ Live(d) /\ UNCHANGED Database /\ serving' = serving /\ manifest' = manifest
      /\ D.pc = "plan" /\ D.version \in Versions /\ D \in Deployment
      /\ deploy \in [Deploys -> Deployment]
  BY DEF Prepare, Live, Database, Inv, Typed, TypeOK, Planned
<1>2. P \in Plans
  <2>1. Typed'
    BY TypeStep DEF Inv
  <2>2. deploy'[d].plan = P /\ deploy'[d].pc = "first"
    BY <1>1 DEF Prepare, Deployment
  <2> QED
    BY <2>1, <2>2 DEF Typed, Planned
<1>3. deploy' = [deploy EXCEPT ![d] = [D EXCEPT !.pc = "first", !.man = manifest, !.plan = P]]
  BY DEF Prepare
<1> HIDE DEF P
<1>4. PICK E : E = [D EXCEPT !.pc = "first", !.man = manifest, !.plan = P]
  OBVIOUS
<1>5. /\ E.pc = "first" /\ E.man = manifest /\ E.plan = P /\ E.version = D.version
      /\ E.at = D.at /\ E.result = D.result
  BY <1>1, <1>4 DEF Deployment
<1>6. deploy'[d] = E /\ \A e \in Deploys : e # d => deploy'[e] = deploy[e]
  BY <1>1, <1>3, <1>4
<1>7. Live(d)'
  BY <1>5, <1>6 DEF Live
<1>8. ASSUME Good PROVE Follows(d, E, manifest)
  <2>1. D.at = 1 /\ D.result = "none" /\ Holds(manifest)
    BY <1>1, <1>8, FollowsNow DEF Follows, Placed, Aside, InForce
  <2>2. InForce(E, manifest) = manifest
    BY <1>5 DEF InForce
  <2>3. Placed(E, manifest)
    BY <1>1, <1>2, <1>5, <2>1, StepPlaces DEF Placed, Underway, Aside, P, Expand, Contract
  <2>4. Rolled(E)
    BY <1>5, <2>1, DeployAssumption DEF Rolled, Wave
  <2>5. Owns(d, E) /\ Stale(E, manifest)
    BY <1>5, <2>2 DEF Owns, Stale, Waited
  <2>6. Opened(E, manifest)
    <3> SUFFICES ASSUME manifest = Reached(After(P, "expand")), ExpandSteps(P) > 0 PROVE FALSE
      BY <1>5, <2>2 DEF Opened
    <3>1. P.from = PlansFrom(manifest)
      BY DEF P
    <3>2. P.from = P.from \cup P.to
      BY <1>2, <3>1, PlanSteps, PlansFromReached
    <3> QED
      BY <1>2, <3>2, PlanSteps
  <2> QED
    BY <1>5, <2>1, <2>2, <2>3, <2>4, <2>5, <2>6 DEF Follows
<1> QED
  BY <1>1, <1>6, <1>7, <1>8, QuietAfter

(* A step that ends leaves the deploy to write its manifest.                  *)
LEMMA OnSound ==
  ASSUME Inv, [Next]_vars, NEW d \in Deploys,
         WriteFirst(d) \/ OtherStep(d) \/ Migrated(d)
  PROVE  Sound'
<1> DEFINE D == deploy[d]
<1>1. /\ D.pc \in {"first", "steps", "calling"} /\ UNCHANGED Database /\ serving' = serving
      /\ \E pc \in {"steps", "write", "fail"} : Goes(d, pc)
  BY DEF WriteFirst, OtherStep, AtStep, Migrated, GoesOnly, Database
<1>2. PICK pc \in {"steps", "write", "fail"} : Goes(d, pc)
  BY <1>1
<1>3. D \in Deployment /\ Live(d)
  BY <1>1 DEF Inv, Typed, TypeOK, Live
<1>4. PICK E : E = [D EXCEPT !.pc = pc]
  OBVIOUS
<1>5. deploy'[d] = E /\ \A e \in Deploys : e # d => deploy'[e] = deploy[e]
  BY <1>2, <1>4, GoesTo DEF Inv
<1>6. /\ E.pc = pc /\ E.version = D.version /\ E.at = D.at /\ E.man = D.man
      /\ E.plan = D.plan /\ E.todo = D.todo /\ E.result = D.result
  BY <1>3, <1>4, PcFields
<1>7. Live(d)'
  BY <1>5, <1>6 DEF Live
<1>8. ASSUME Good PROVE Placed(D, manifest) /\ Follows(d, D, manifest)
  BY <1>3, <1>8, FollowsNow DEF Follows
<1>9. ASSUME Good,
             \/ D.pc = "first" /\ E.pc = "steps"
             \/ D.pc = "steps" /\ E.pc \in {"write", "fail"} /\ D.at \in {1, 3 + Waves, LastStep}
             \/ D.pc = "calling" /\ D.todo = <<>> /\ E.pc = "write"
      PROVE  Follows(d, E, manifest)
  <2> HIDE DEF D
  <2>0. Placed(D, manifest) /\ Follows(d, D, manifest)
    BY <1>8, <1>9
  <2>1. InForce(E, manifest) = InForce(D, manifest)
    <3>1. D.pc # "calling" => D.man = manifest
      BY <1>1, <2>0, <1>9, StepPlaces DEF Placed, Underway, Expand, Contract, LastStep
    <3> QED
      BY <1>6, <1>9, <3>1 DEF InForce
  <2>2. D.result = "none"
    <3>1. CASE D.pc = "calling"
      <4>1. CallsOver(D)
        BY <2>0, <1>9, <3>1, NothingLeft
      <4> QED
        BY <4>1 DEF CallsOver
    <3> QED
      BY <2>0, <3>1 DEF Placed
  <2>3. Placed(E, manifest)
    <3>1. D.pc \in Underway /\ E.pc \in Underway /\ E.pc \notin Aside \cup {"calling"}
      BY <1>1, <1>6 DEF Underway, Aside
    <3>2. D.pc = "first" => D.at = 1
      BY <2>0, <3>1 DEF Placed
    <3>3. D.pc # "calling" /\ E.pc \in {"write", "fail"} => D.at \notin {Expand, Contract}
      BY <1>9, StepPlaces DEF Expand, Contract, LastStep
    <3>4. D.pc = "calling" => Ended(E, manifest)
      <4>1. D.pc = "calling" => CallsOver(D)
        BY <2>0, <1>9, NothingLeft
      <4> QED
        BY <1>6, <4>1 DEF CallsOver, Ended
    <3>5. E.at \notin {Expand, Contract} => E.man = manifest
      BY <1>6, <2>0, <3>1, <3>2 DEF Placed
    <3>6. /\ D.version \in Versions /\ D.plan \in Plans /\ D.plan.to = Uses[D.version]
          /\ D.at <= Expand => D.plan.from = PlansFrom(manifest)
          /\ D.at > Expand => manifest = Reached(IF D.at <= Contract THEN After(D.plan, "expand")
                                                 ELSE D.plan.to)
      BY <2>0, <3>1 DEF Placed
    <3>7. E.pc \in {"first", "steps"} => E.man = manifest /\ E.pc # "first"
      BY <1>6, <2>0, <1>9, <3>1 DEF Placed
    <3> QED
      BY <1>6, <2>2, <3>1, <3>3, <3>4, <3>5, <3>6, <3>7 DEF Placed
  <2>4. Rolled(E)
    <3>1. E.pc = "write" => \A s \in Servers : Wave(WaveOf[s]) # E.at
      <4>1. \A s \in Servers : WaveOf[s] \in 1..Waves /\ Waves \in Nat
        BY DeployAssumption
      <4>2. E.pc = "write" => E.at \in {1, Expand, 3 + Waves, Contract, LastStep}
        <5>1. D.pc = "calling" => CallsOver(D)
          BY <2>0, <1>9, NothingLeft
        <5> QED
          BY <1>6, <1>9, <5>1 DEF CallsOver
      <4> QED
        BY <4>1, <4>2 DEF Wave, Expand, Contract, LastStep
    <3>2. D.pc \in Underway /\ Rolled(D)
      BY <1>1, <2>0 DEF Underway, Follows
    <3> QED
      BY <1>6, <3>1, <3>2 DEF Rolled
  <2>5. Owns(d, E)
    BY <1>6, <2>2 DEF Owns
  <2>6. Stale(E, manifest)
    <3>1. D.pc # "forget" /\ Stale(D, manifest)
      BY <1>1, <2>0 DEF Follows
    <3> QED
      BY <1>6, <2>1, <3>1, <1>9 DEF Stale, Waited
  <2>7. Opened(E, manifest)
    BY <1>1, <1>6, <2>0, <2>1, OpenedStays DEF Follows, Underway
  <2> QED
    BY <1>6, <2>0, <2>1, <2>3, <2>4, <2>5, <2>6, <2>7 DEF Follows
<1>10. ASSUME Good PROVE manifest' = manifest
  <2>1. ASSUME WriteFirst(d) PROVE D.man = manifest /\ manifest' = D.man
    BY <1>8, <1>10, <2>1 DEF WriteFirst, Placed, Underway
  <2> QED
    BY <2>1 DEF OtherStep, Migrated, GoesOnly
<1>11. \/ D.pc = "first" /\ E.pc = "steps"
       \/ D.pc = "steps" /\ E.pc \in {"write", "fail"} /\ D.at \in {1, 3 + Waves, LastStep}
       \/ D.pc = "calling" /\ D.todo = <<>> /\ E.pc = "write"
  <2>1. WriteFirst(d) => D.pc = "first" /\ Goes(d, "steps")
    BY DEF WriteFirst
  <2>2. OtherStep(d) => /\ D.pc = "steps" /\ D.at \in {1, 3 + Waves, LastStep}
                        /\ Goes(d, "write") \/ Goes(d, "fail")
    BY DEF OtherStep, AtStep, GoesOnly
  <2>3. Migrated(d) => D.pc = "calling" /\ D.todo = <<>> /\ Goes(d, "write")
    BY DEF Migrated, GoesOnly
  <2>4. ASSUME NEW q \in {"steps", "write", "fail"}, Goes(d, q) PROVE E.pc = q
    <3>1. deploy'[d] = [deploy[d] EXCEPT !.pc = q]
      BY <2>4, GoesTo DEF Inv
    <3> QED
      BY <1>3, <1>5, <3>1, PcFields
  <2> QED
    BY <2>1, <2>2, <2>3, <2>4
<1> QED
  BY <1>1, <1>3, <1>5, <1>7, <1>9, <1>10, <1>11, QuietAfter

(* A phase that opens.                                                        *)
LEMMA PendingIs ==
  ASSUME NEW x, NEW phase \in {"expand", "contract"}, NEW p, NEW man,
         man = Pending(x, phase, p)
  PROVE  man.pending # NoPending /\ man.pending.phase = phase /\ man.pending.plan = p
<1>1. man.pending = [phase |-> phase, plan |-> p]
  BY DEF Pending
<1> QED
  BY <1>1 DEF NoPending

LEMMA PendingPends ==
  ASSUME NEW x, NEW phase, NEW p, NEW man, man = Pending(x, phase, p)
  PROVE  \A f, q : Pends(man, f, q) <=> f = phase /\ q = p
BY DEF Pending, Pends

LEMMA ReachedIs ==
  ASSUME NEW m \in Model
  PROVE  /\ Reached(m).pending = NoPending /\ ModelOf(Reached(m)) = m
         /\ \A phase, q : phase \in {"expand", "contract"} => ~ Pends(Reached(m), phase, q)
<1>1. m # NoModel
  BY DeployAssumption DEF Model
<1>2. Reached(m).pending = NoPending /\ ModelOf(Reached(m)) = m
  BY <1>1 DEF Reached, ModelOf
<1> QED
  BY <1>2 DEF Pends, NoPending

LEMMA NonePends ==
  ASSUME NEW man, man.pending = NoPending, NEW phase \in {"expand", "contract"}, NEW q
  PROVE  ~ Pends(man, phase, q)
BY DEF Pends, NoPending

LEMMA OpensExpand ==
  ASSUME RunFacts, Shapes, NEW man, man.pending = NoPending, Holds(man),
         NEW p \in Plans, ModelOf(man) = p.from, NEW x
  PROVE  Holds(Pending(x, "expand", p))
<1>0. PICK new : new = Pending(x, "expand", p)
  OBVIOUS
<1>1. /\ new.pending # NoPending
      /\ new.pending.phase = "expand" /\ new.pending.plan = p
      /\ \A f, q : Pends(new, f, q) <=> f = "expand" /\ q = p
  BY <1>0, PendingIs, PendingPends
<1>2. Settled(p.from) /\ Floor(man) = p.from
  BY DEF Holds, Status, Floor
<1>3. Status(new)
  BY <1>1, <1>2 DEF Status, WithinExpand
<1>4. Served(new)
  BY <1>1, <1>2 DEF Holds, Served, Floor
<1>5. RunsFit(new)
  <2> SUFFICES ASSUME NEW r \in Deploys, run[r].pc \in {"steps", "end"}, row.plan = run[r].plan,
                      ~ (run[r].phase = "expand" /\ row.phase = "expanded")
               PROVE  FALSE
    BY DEF RunsFit
  <2>1. Pends(man, run[r].phase, run[r].plan)
    BY DEF Holds, RunsFit
  <2>2. run[r].phase \in {"expand", "contract"}
    BY LeftIn
  <2> QED
    BY <2>1, <2>2, NonePends
<1> QED
  BY <1>0, <1>3, <1>4, <1>5 DEF Holds

LEMMA OpensContract ==
  ASSUME RunFacts, Shapes, NEW p \in Plans, ContractSteps(p) > 0, Holds(Reached(After(p, "expand"))),
         ExpandSteps(p) > 0 => row.plan = p,
         \A s \in Servers : serving[s] # NoVersion => Uses[serving[s]] \subseteq p.to, NEW x
  PROVE  Holds(Pending(x, "contract", p))
<1> DEFINE man == Reached(After(p, "expand"))
<1>0. PICK new : new = Pending(x, "contract", p)
  OBVIOUS
<1>1. /\ new.pending # NoPending
      /\ new.pending.phase = "contract" /\ new.pending.plan = p
      /\ \A f, q : Pends(new, f, q) <=> f = "contract" /\ q = p
  BY <1>0, PendingIs, PendingPends
<1>2. man.pending = NoPending /\ ModelOf(man) = After(p, "expand")
  BY AfterType, ReachedIs
<1> HIDE DEF man
<1>3. Holds(man)
  BY DEF man
<1>4. Settled(After(p, "expand"))
  BY <1>2, <1>3 DEF Holds, Status
<1>5. Status(new)
  <2>1. ASSUME ExpandSteps(p) > 0 PROVE row.plan = p /\ row.phase = "expanded"
    BY <1>4, <2>1, PlanSteps DEF Settled, Kept
  <2>2. ASSUME ~ (ExpandSteps(p) > 0) PROVE ExpandSteps(p) = 0 /\ Settled(p.from)
    <3>1. ExpandSteps(p) = 0
      BY <2>2, PlanSteps
    <3>2. After(p, "expand") = p.from \cup p.to /\ p.to \subseteq p.from
      BY <3>1, PlanSteps
    <3>3. After(p, "expand") = p.from
      BY <3>2
    <3> QED
      BY <1>4, <3>1, <3>3 DEF Settled
  <2>3. WithinContract(p)
    BY <2>1, <2>2 DEF WithinContract
  <2> QED
    BY <1>1, <2>3 DEF Status
<1>6. Served(new)
  BY <1>1 DEF Served, Floor
<1>7. RunsFit(new)
  <2> SUFFICES ASSUME NEW r \in Deploys, run[r].pc \in {"steps", "end"}, row.plan = run[r].plan,
                      ~ (run[r].phase = "expand" /\ row.phase = "expanded")
               PROVE  Pends(new, run[r].phase, run[r].plan)
    BY DEF RunsFit
  <2>1. Pends(man, run[r].phase, run[r].plan)
    BY <1>3 DEF Holds, RunsFit
  <2>2. run[r].phase \in {"expand", "contract"}
    BY LeftIn
  <2> QED
    BY <1>2, <2>1, <2>2, NonePends
<1> QED
  BY <1>0, <1>5, <1>6, <1>7 DEF Holds

LEMMA PlansFromIs ==
  ASSUME NEW man \in Recorded
  PROVE  /\ man.pending = NoPending => PlansFrom(man) = ModelOf(man)
         /\ man.pending # NoPending =>
              /\ PlansFrom(man) = After(man.pending.plan, man.pending.phase)
              /\ man.pending.phase \in {"expand", "contract"} /\ man.pending.plan \in Plans
              /\ Pends(man, man.pending.phase, man.pending.plan)
              /\ man = Pending(man.model, man.pending.phase, man.pending.plan)
<1>1. man.pending = NoPending => PlansFrom(man) = ModelOf(man)
  BY DEF PlansFrom, ModelOf
<1>2. ASSUME man.pending # NoPending
      PROVE  /\ PlansFrom(man) = After(man.pending.plan, man.pending.phase)
             /\ man.pending.phase \in {"expand", "contract"} /\ man.pending.plan \in Plans
             /\ Pends(man, man.pending.phase, man.pending.plan)
             /\ man = Pending(man.model, man.pending.phase, man.pending.plan)
  <2>1. man.pending \in [phase : {"expand", "contract"}, plan : Plans]
    BY <1>2 DEF Recorded
  <2>2. PlansFrom(man) = After(man.pending.plan, man.pending.phase)
    BY <1>2 DEF PlansFrom
  <2>3. man.pending = [phase |-> man.pending.phase, plan |-> man.pending.plan]
    BY <2>1
  <2>4. man = [model |-> man.model, pending |-> man.pending]
    BY DEF Recorded
  <2>5. man = Pending(man.model, man.pending.phase, man.pending.plan)
    BY <2>3, <2>4 DEF Pending
  <2> QED
    BY <2>1, <2>2, <2>3, <2>5 DEF Pends
<1> QED
  BY <1>1, <1>2

LEMMA AppendTwo == ASSUME NEW x, NEW y PROVE Append(<<y>>, x) = <<y, x>>
<1> DEFINE s == Append(<<y>>, x)
           t == <<y, x>>
           S == {x, y}
<1>1. <<y>> \in Seq(S) /\ t \in Seq(S) /\ s \in Seq(S)
  OBVIOUS
<1>2. Len(s) = 2 /\ Len(t) = 2 /\ s[1] = y /\ s[2] = x /\ t[1] = y /\ t[2] = x
  OBVIOUS
<1> HIDE DEF s, t, S
<1>3. s = [i \in 1..2 |-> s[i]] /\ t = [i \in 1..2 |-> t[i]]
  BY <1>1, <1>2
<1>4. \A i \in 1..2 : s[i] = t[i]
  <2>1. \A i \in 1..2 : i = 1 \/ i = 2
    OBVIOUS
  <2> QED
    BY <1>2, <2>1
<1>5. s = t
  BY <1>3, <1>4
<1> QED
  BY <1>5 DEF s, t

(* The calls of a migrate step.                                               *)
LEMMA CallsAre ==
  ASSUME NEW d \in Deploys, NEW changed \in BOOLEAN, deploy[d].plan \in Plans,
         deploy[d].at \in {Expand, Contract}
  PROVE  LET D == deploy[d] IN
         /\ D.at = Expand =>
              \E b \in BOOLEAN :
                /\ b \/ ExpandSteps(D.plan) = 0
                /\ Calls(d, changed) =
                     IF D.man.pending = NoPending THEN << CallOf("expand", D.plan, b) >>
                     ELSE << CallOf(D.man.pending.phase, D.man.pending.plan, TRUE),
                             CallOf("expand", D.plan, b) >>
         /\ D.at = Contract =>
              Calls(d, changed) = IF ContractSteps(D.plan) > 0
                                  THEN << CallOf("contract", D.plan, TRUE) >> ELSE <<>>
<1> DEFINE D == deploy[d]
           b == changed \/ ExpandSteps(D.plan) > 0
<1>1. b \in BOOLEAN /\ (b \/ ExpandSteps(D.plan) = 0)
  BY PlanSteps
<1>2. Expand # Contract
  BY DeployAssumption DEF Expand, Contract
<1>3. ASSUME D.at = Expand
      PROVE  Calls(d, changed) =
                     IF D.man.pending = NoPending THEN << CallOf("expand", D.plan, b) >>
                     ELSE << CallOf(D.man.pending.phase, D.man.pending.plan, TRUE),
                             CallOf("expand", D.plan, b) >>
  <2>1. \A x : Append(<<>>, x) = <<x>>
    OBVIOUS
  <2> DEFINE x == CallOf("expand", D.plan, b)
             y == CallOf(D.man.pending.phase, D.man.pending.plan, TRUE)
  <2>2. Calls(d, changed) = Append(IF D.man.pending = NoPending THEN <<>> ELSE <<y>>, x)
    BY <1>3 DEF Calls, CallOf
  <2> HIDE DEF x, y
  <2>3. Calls(d, changed) = IF D.man.pending = NoPending THEN <<x>> ELSE <<y, x>>
    BY <2>1, <2>2, AppendTwo
  <2> QED
    BY <2>3 DEF x, y
<1>4. ASSUME D.at = Contract
      PROVE  Calls(d, changed) = IF ContractSteps(D.plan) > 0
                                 THEN << CallOf("contract", D.plan, TRUE) >> ELSE <<>>
  BY <1>2, <1>4 DEF Calls, CallOf
<1> HIDE DEF b
<1> QED
  BY <1>1, <1>3, <1>4

LEMMA MigrateSound ==
  ASSUME Inv, [Next]_vars, NEW d \in Deploys, Migrate(d)
  PROVE  Sound'
<1> DEFINE D == deploy[d]
<1>1. /\ D.pc = "steps" /\ D.at \in {Expand, Contract} /\ UNCHANGED Database
      /\ serving' = serving /\ manifest' = manifest
      /\ D \in Deployment /\ deploy \in [Deploys -> Deployment] /\ Live(d) /\ D.plan \in Plans
      /\ manifest \in Recorded
  BY DEF Migrate, AtStep, Database, Inv, Typed, TypeOK, Planned, Live
<1>2. PICK changed \in BOOLEAN :
        deploy' = [deploy EXCEPT ![d] = [D EXCEPT !.pc = "calling", !.todo = Calls(d, changed)]]
  <2>1. PICK changed \in BOOLEAN :
          deploy' = [deploy EXCEPT ![d].pc = "calling", ![d].todo = Calls(d, changed)]
    BY Zenon DEF Migrate
  <2>2. \A todo : [deploy EXCEPT ![d].pc = "calling", ![d].todo = todo]
                   = [deploy EXCEPT ![d] = [D EXCEPT !.pc = "calling", !.todo = todo]]
    BY <1>1
  <2> QED
    BY <2>1, <2>2, Zenon
<1>3. PICK E : E = [D EXCEPT !.pc = "calling", !.todo = Calls(d, changed)]
  OBVIOUS
<1>4. deploy'[d] = E /\ \A e \in Deploys : e # d => deploy'[e] = deploy[e]
  BY <1>1, <1>2, <1>3
<1>5. /\ E.pc = "calling" /\ E.version = D.version /\ E.at = D.at /\ E.man = D.man
      /\ E.plan = D.plan /\ E.todo = Calls(d, changed) /\ E.result = D.result
  BY <1>1, <1>3 DEF Deployment
<1>6. Live(d)'
  BY <1>4, <1>5 DEF Live
<1>7. ASSUME Good PROVE Follows(d, E, manifest)
  <2>1. Follows(d, D, manifest) /\ Placed(D, manifest)
    BY <1>1, <1>7, FollowsNow DEF Follows
  <2>2. /\ D.man = manifest /\ D.result = "none" /\ InForce(D, manifest) = manifest
        /\ D.version \in Versions /\ D.plan.to = Uses[D.version]
        /\ D.at <= Expand => D.plan.from = PlansFrom(manifest)
        /\ D.at > Expand => manifest = Reached(IF D.at <= Contract THEN After(D.plan, "expand")
                                               ELSE D.plan.to)
    BY <1>1, <2>1 DEF Placed, Underway, InForce
  <2>3. Holds(manifest) /\ Rolled(D)
    BY <2>1, <2>2 DEF Follows
  <2>p. /\ Contract > Expand /\ Contract <= Contract /\ Expand <= Expand
        /\ Contract # Expand
    BY DeployAssumption DEF Expand, Contract
  <2> HIDE DEF D
  <2>4. ASSUME D.at = Expand, manifest.pending # NoPending
        PROVE  CallsPending(E, manifest) /\ InForce(E, manifest) = manifest
    <3>1. PICK b \in BOOLEAN :
            /\ b \/ ExpandSteps(D.plan) = 0
            /\ E.todo = << CallOf(manifest.pending.phase, manifest.pending.plan, TRUE),
                           CallOf("expand", D.plan, b) >>
      BY <1>1, <1>5, <2>2, <2>4, CallsAre DEF D
    <3>2. CallsPending(E, manifest)
      BY <1>5, <2>2, <2>4, <3>1 DEF CallsPending
    <3>3. E.todo # <<>> /\ Head(E.todo) = CallOf(manifest.pending.phase, manifest.pending.plan, TRUE)
      BY <3>1
    <3>4. InForce(E, manifest) = Pending(manifest.model, manifest.pending.phase, manifest.pending.plan)
      BY <1>5, <2>2, <3>3 DEF InForce, CallOf
    <3> QED
      BY <1>1, <2>4, <3>2, <3>4, PlansFromIs
  <2>5. ASSUME D.at = Expand, manifest.pending = NoPending
        PROVE  CallsExpand(E) /\ InForce(E, manifest) = Pending(manifest.model, "expand", D.plan)
    <3>1. PICK b \in BOOLEAN :
            /\ b \/ ExpandSteps(D.plan) = 0
            /\ E.todo = << CallOf("expand", D.plan, b) >>
      BY <1>1, <1>5, <2>2, <2>5, CallsAre DEF D
    <3>2. D.plan.from = ModelOf(manifest)
      BY <1>1, <2>2, <2>5, PlansFromIs DEF Expand
    <3>3. CallsExpand(E)
      BY <1>5, <2>2, <2>5, <3>1, <3>2 DEF CallsExpand
    <3>4. E.todo # <<>> /\ Head(E.todo) = CallOf("expand", D.plan, b)
      BY <3>1
    <3> QED
      BY <1>5, <2>2, <3>3, <3>4 DEF InForce, CallOf
  <2>6. ASSUME D.at = Contract, ContractSteps(D.plan) > 0
        PROVE  CallsContract(E, manifest)
                 /\ InForce(E, manifest) = Pending(manifest.model, "contract", D.plan)
    <3>1. E.todo = << CallOf("contract", D.plan, TRUE) >>
      BY <1>1, <1>5, <2>6, CallsAre DEF D
    <3>2. E.todo # <<>> /\ Head(E.todo) = CallOf("contract", D.plan, TRUE)
      BY <3>1
    <3> QED
      BY <1>5, <2>2, <2>6, <3>1, <3>2 DEF InForce, CallOf, CallsContract
  <2>7. ASSUME D.at = Contract, ~ (ContractSteps(D.plan) > 0)
        PROVE  CallsOver(E) /\ InForce(E, manifest) = manifest
    <3>1. E.todo = <<>>
      BY <1>1, <1>5, <2>7, CallsAre DEF D
    <3>2. manifest = Reached(After(D.plan, "expand"))
      BY <2>2, <2>7, <2>p
    <3>3. After(D.plan, "expand") = D.plan.to
      BY <2>7 DEF After
    <3> QED
      BY <1>5, <2>2, <2>7, <3>1, <3>2, <3>3 DEF InForce, CallsOver
  <2>8. Holds(InForce(E, manifest))
    <3>1. CASE D.at = Expand /\ manifest.pending = NoPending
      <4>1. D.plan.from = ModelOf(manifest)
        BY <1>1, <2>2, <3>1, PlansFromIs DEF Expand
      <4> QED
        BY <1>1, <2>3, <2>5, <3>1, <4>1, OpensExpand, InvFacts DEF D
    <3>2. CASE D.at = Contract /\ ContractSteps(D.plan) > 0
      <4>1. manifest = Reached(After(D.plan, "expand"))
        BY <2>2, <3>2, <2>p
      <4>2. \A s \in Servers : serving[s] # NoVersion => Uses[serving[s]] \subseteq D.plan.to
        <5>1. \A s \in Servers : Wave(WaveOf[s]) < D.at
          BY <3>2, DeployAssumption DEF Wave, Contract
        <5> QED
          BY <1>1, <2>2, <2>3, <5>1 DEF Rolled, Underway, D
      <4>3. ExpandSteps(D.plan) > 0 => row.plan = D.plan
        BY <1>1, <2>1, <2>2, <3>2, <4>1 DEF Follows, Opened, Underway, D
      <4> QED
        BY <1>1, <2>3, <2>6, <3>2, <4>1, <4>2, <4>3, OpensContract, InvFacts DEF D
    <3> QED
      BY <1>1, <2>3, <2>4, <2>7, <3>1, <3>2 DEF D
  <2>9. Placed(E, manifest)
    <3>1. \/ CallsPending(E, manifest) \/ CallsExpand(E) \/ CallsContract(E, manifest)
          \/ CallsOver(E)
      BY <1>1, <2>4, <2>5, <2>6, <2>7 DEF D
    <3> QED
      BY <1>1, <1>5, <2>2, <3>1 DEF Placed, Underway, Aside, D
  <2>10. Rolled(E) /\ Owns(d, E)
    BY <1>1, <1>5, <2>2, <2>3 DEF Rolled, Owns, Underway, D
  <2>11. Stale(E, manifest)
    <3> SUFFICES ASSUME NEW q \in Plans, NEW phase \in {"expand", "contract"},
                        Waited(E, manifest, phase, q)
                 PROVE  Pends(InForce(E, manifest), phase, q)
      BY DEF Stale
    <3>1. CASE Pends(manifest, phase, q)
      <4>1. manifest.pending # NoPending
        BY <3>1, PendsOne
      <4>2. manifest # Reached(After(D.plan, "expand"))
        BY <4>1 DEF Reached
      <4>3. D.at = Expand
        BY <1>1, <2>2, <2>p, <4>2 DEF D
      <4> QED
        BY <2>4, <3>1, <4>1, <4>3
    <3>2. CASE E.todo # <<>> /\ Head(E.todo).phase = phase /\ Head(E.todo).plan = q
      <4>1. InForce(E, manifest) = Pending(E.man.model, phase, q)
        BY <1>5, <2>2, <3>2 DEF InForce
      <4> QED
        BY <4>1 DEF Pends, Pending
    <3> QED
      BY <1>5, <2>2, <3>1, <3>2 DEF Waited
  <2>12. Opened(E, manifest)
    <3>1. CASE InForce(E, manifest) = manifest
      BY <1>1, <1>5, <2>1, <2>2, <3>1, OpenedStays DEF Follows, Underway, D
    <3>2. ASSUME NEW x, NEW phase \in {"expand", "contract"}, NEW p,
                 InForce(E, manifest) = Pending(x, phase, p)
          PROVE  Opened(E, manifest)
      BY <3>2, PendingIs, OpenedStays
    <3> QED
      BY <1>1, <2>4, <2>5, <2>6, <2>7, <3>1, <3>2 DEF D
  <2> QED
    BY <1>5, <2>8, <2>9, <2>10, <2>11, <2>12 DEF Follows
<1> QED
  BY <1>1, <1>4, <1>6, <1>7, QuietAfter

-----------------------------------------------------------------------------
(* The calls of a migrate step, one after the other.                          *)

LEMMA CallIs ==
  ASSUME NEW D \in Deployment, NEW m \in Recorded, Placed(D, m), D.pc = "calling",
         D.todo # <<>>, NEW c, c = Head(D.todo)
  PROVE  /\ c \in Call
         /\ InForce(D, m) = IF D.result = "ok" THEN Reached(After(c.plan, c.phase))
                            ELSE Pending(D.man.model, c.phase, c.plan)
         /\ \/ /\ CallsPending(D, m) /\ c.phase = m.pending.phase /\ c.plan = m.pending.plan
               /\ c.runs
               /\ \E b \in BOOLEAN : /\ b \/ ExpandSteps(D.plan) = 0
                                     /\ Tail(D.todo) = << CallOf("expand", D.plan, b) >>
            \/ /\ CallsExpand(D) /\ c.phase = "expand" /\ c.plan = D.plan /\ Tail(D.todo) = <<>>
               /\ c.runs \/ (ExpandSteps(D.plan) = 0 /\ D.result = "none")
            \/ /\ CallsContract(D, m) /\ c.phase = "contract" /\ c.plan = D.plan
               /\ Tail(D.todo) = <<>> /\ c.runs
<1>1. D.todo \in Seq(Call)
  BY DEF Deployment
<1>2. c \in Call
  BY <1>1
<1>3. InForce(D, m) = IF D.result = "ok" THEN Reached(After(c.plan, c.phase))
                      ELSE Pending(D.man.model, c.phase, c.plan)
  BY DEF InForce
<1>4. \A x : Head(<<x>>) = x /\ Tail(<<x>>) = <<>>
  OBVIOUS
<1>5. \A x, y : Head(<<x, y>>) = x /\ Tail(<<x, y>>) = <<y>>
  OBVIOUS
<1>7. CASE CallsPending(D, m)
  <2>1. PICK b \in BOOLEAN :
       /\ b \/ ExpandSteps(D.plan) = 0
       /\ D.todo = << CallOf(m.pending.phase, m.pending.plan, TRUE),
                      CallOf("expand", D.plan, b) >>
    BY <1>7 DEF CallsPending
  <2>2. c = CallOf(m.pending.phase, m.pending.plan, TRUE)
          /\ Tail(D.todo) = << CallOf("expand", D.plan, b) >>
    BY <1>5, <2>1
  <2>3. c.phase = m.pending.phase /\ c.plan = m.pending.plan /\ c.runs = TRUE
    BY <2>2 DEF CallOf
  <2> QED
    BY <1>2, <1>3, <1>7, <2>1, <2>2, <2>3
<1>8. CASE CallsExpand(D)
  <2>1. PICK b \in BOOLEAN : /\ b \/ (ExpandSteps(D.plan) = 0 /\ D.result = "none")
                             /\ D.todo = << CallOf("expand", D.plan, b) >>
    BY <1>8 DEF CallsExpand
  <2>2. c = CallOf("expand", D.plan, b) /\ Tail(D.todo) = <<>>
    BY <1>4, <2>1
  <2>3. c.phase = "expand" /\ c.plan = D.plan /\ c.runs = b
    BY <2>2 DEF CallOf
  <2> QED
    BY <1>2, <1>3, <1>8, <2>1, <2>2, <2>3
<1>9. CASE CallsContract(D, m)
  <2>1. c = CallOf("contract", D.plan, TRUE) /\ Tail(D.todo) = <<>>
    BY <1>4, <1>9 DEF CallsContract
  <2>3. c.phase = "contract" /\ c.plan = D.plan /\ c.runs = TRUE
    BY <2>1 DEF CallOf
  <2> QED
    BY <1>2, <1>3, <1>9, <2>1, <2>3
<1> QED
  BY <1>7, <1>8, <1>9, NothingLeft DEF Placed, CallsOver

(* A call that is over: the next finds the database at the model it left.     *)
LEMMA AfterCall ==
  ASSUME RunFacts, Shapes, NEW d \in Deploys, NEW D \in Deployment, NEW m \in Recorded,
         Placed(D, m), Rolled(D), D.pc = "calling", D.todo # <<>>, NEW c, c = Head(D.todo),
         c.phase = "expand" /\ c.plan = D.plan /\ ExpandSteps(c.plan) > 0
           /\ ContractSteps(c.plan) > 0 => row.plan = c.plan,
         Holds(Reached(After(c.plan, c.phase))),
         \A q \in Plans, phase \in {"expand", "contract"} : Pends(m, phase, q) => Over(phase, q),
         NEW E, E.pc = "calling", E.version = D.version, E.at = D.at, E.plan = D.plan,
         E.result = "none", E.todo = Tail(D.todo), E.man = Reached(After(c.plan, c.phase))
  PROVE  Follows(d, E, m)
<1> DEFINE new == Reached(After(c.plan, c.phase))
<1>0. c.plan \in Plans /\ c.phase \in {"expand", "contract"} /\ After(c.plan, c.phase) \in Model
  BY CallIs, AfterType DEF Call
<1>1. /\ new.pending = NoPending /\ ModelOf(new) = After(c.plan, c.phase)
      /\ \A phase, q : phase \in {"expand", "contract"} => ~ Pends(new, phase, q)
  BY <1>0, ReachedIs
<1>2. E.man = new /\ Holds(new)
  OBVIOUS
<1> HIDE DEF new
<1>3. /\ D.version \in Versions /\ D.plan \in Plans /\ D.plan.to = Uses[D.version]
      /\ D.at <= Expand => D.plan.from = PlansFrom(m)
      /\ D.at > Expand =>
           m = Reached(IF D.at <= Contract THEN After(D.plan, "expand") ELSE D.plan.to)
  BY DEF Placed, Underway
<1>4. Expand <= Expand /\ Contract # Expand
  BY DeployAssumption DEF Expand, Contract
<1>5. Rolled(E)
  BY DEF Rolled, Underway
<1>6. Owns(d, E)
  BY DEF Owns
<1>p. ASSUME E.at \in {Expand, Contract}, CallsExpand(E) \/ CallsOver(E)
      PROVE  Placed(E, m)
  BY <1>3, <1>p DEF Placed, Underway, Aside
<1>o. ASSUME CallsOver(E) PROVE InForce(E, m) = E.man
  BY <1>o DEF CallsOver, InForce
<1>s. ASSUME CallsOver(E) PROVE Stale(E, m)
  <2>1. E.todo = <<>>
    BY <1>s DEF CallsOver
  <2> SUFFICES ASSUME NEW q \in Plans, NEW phase \in {"expand", "contract"},
                      Waited(E, m, phase, q)
               PROVE  Over(phase, q)
    BY DEF Stale
  <2>a. ~ Pends(E.man, phase, q)
    BY <1>1, <1>2
  <2>2. Pends(m, phase, q)
    BY <2>1, <2>a DEF Waited
  <2> QED
    BY <2>2
<1>7. CASE CallsPending(D, m) /\ c.phase = m.pending.phase /\ c.plan = m.pending.plan
           /\ \E b \in BOOLEAN : /\ b \/ ExpandSteps(D.plan) = 0
                                 /\ Tail(D.todo) = << CallOf("expand", D.plan, b) >>
  <2>1. PICK b \in BOOLEAN : /\ b \/ ExpandSteps(D.plan) = 0
                             /\ E.todo = << CallOf("expand", D.plan, b) >>
    BY <1>7
  <2>2. D.at = Expand /\ m.pending # NoPending
    BY <1>7 DEF CallsPending
  <2>3. ModelOf(E.man) = D.plan.from
    <3>1. PlansFrom(m) = After(c.plan, c.phase)
      BY <1>7, <2>2, PlansFromIs
    <3>2. D.plan.from = PlansFrom(m)
      BY <1>3, <1>4, <2>2
    <3> QED
      BY <1>1, <1>2, <3>1, <3>2
  <2>4. CallsExpand(E)
    BY <1>1, <1>2, <2>1, <2>2, <2>3 DEF CallsExpand
  <2>5. E.todo # <<>> /\ Head(E.todo) = CallOf("expand", D.plan, b)
    <3>1. \A y : <<y>> # <<>> /\ Head(<<y>>) = y
      OBVIOUS
    <3> QED
      BY <2>1, <3>1
  <2>6. PICK x, f : x = new.model /\ f = Pending(x, "expand", D.plan)
    OBVIOUS
  <2>7. InForce(E, m) = f
    BY <1>2, <2>5, <2>6 DEF InForce, CallOf
  <2>8. Holds(f)
    BY <1>1, <1>2, <1>3, <2>3, <2>6, OpensExpand
  <2>9. \A phase, q : Pends(f, phase, q) <=> phase = "expand" /\ q = D.plan
    BY <2>6, PendingPends
  <2>10. Stale(E, m)
    <3>1. Head(E.todo).phase = "expand" /\ Head(E.todo).plan = D.plan
      BY <2>5 DEF CallOf
    <3> QED
      BY <1>1, <1>2, <2>7, <2>9, <3>1 DEF Stale, Waited
  <2>11. Opened(E, m)
    BY <2>6, <2>7, PendingIs, OpenedStays
  <2> QED
    BY <1>5, <1>6, <1>p, <2>2, <2>4, <2>7, <2>8, <2>10, <2>11 DEF Follows
<1>8. CASE CallsExpand(D) /\ c.phase = "expand" /\ c.plan = D.plan /\ Tail(D.todo) = <<>>
  <2>1. CallsOver(E) /\ E.at = Expand
    BY <1>8 DEF CallsExpand, CallsOver
  <2>2. Opened(E, m)
    BY <1>8 DEF Opened
  <2> QED
    BY <1>2, <1>5, <1>6, <1>o, <1>p, <1>s, <2>1, <2>2 DEF Follows
<1>9. CASE CallsContract(D, m) /\ c.phase = "contract" /\ c.plan = D.plan /\ Tail(D.todo) = <<>>
  <2>1. After(D.plan, "contract") = D.plan.to
    BY <1>3, PlanSteps
  <2>2. CallsOver(E) /\ E.at = Contract
    BY <1>9, <2>1 DEF CallsContract, CallsOver
  <2>3. Opened(E, m)
    <3> SUFFICES ASSUME ContractSteps(D.plan) > 0,
                        InForce(E, m) = Reached(After(D.plan, "expand"))
                 PROVE  FALSE
      BY DEF Opened
    <3>1. Reached(D.plan.to) = Reached(After(D.plan, "expand"))
      BY <1>2, <1>9, <1>o, <2>1, <2>2 DEF new
    <3>2. D.plan.to = D.plan.from \cup D.plan.to
      BY <1>3, <3>1, PlanSteps DEF Reached
    <3> QED
      BY <1>3, <3>2, PlanSteps
  <2> QED
    BY <1>2, <1>5, <1>6, <1>o, <1>p, <1>s, <2>2, <2>3 DEF Follows
<1> QED
  BY <1>7, <1>8, <1>9, CallIs

(* A call that goes wrong, and its phase with it.                             *)
LEMMA FailedCall ==
  ASSUME NEW d \in Deploys, NEW D \in Deployment, NEW m \in Recorded,
         Follows(d, D, m), D.pc = "calling", D.todo # <<>>, NEW c, c = Head(D.todo),
         D.result # "ok",
         NEW E, E.pc = "fail", E.version = D.version, E.at = D.at, E.plan = D.plan,
         E.result = "none", E.man = Pending(D.man.model, c.phase, c.plan)
  PROVE  Follows(d, E, m)
<1>1. Placed(D, m) /\ Rolled(D) /\ Stale(D, m) /\ Holds(InForce(D, m))
  BY DEF Follows
<1>2. InForce(D, m) = E.man /\ InForce(E, m) = E.man
  <2>1. InForce(D, m) = Pending(D.man.model, c.phase, c.plan)
    BY <1>1, CallIs
  <2> QED
    BY <2>1 DEF InForce
<1>3. c.phase \in {"expand", "contract"} /\ c.plan \in Plans
  BY <1>1, CallIs DEF Call
<1>4. /\ E.man.pending # NoPending /\ E.man.pending.phase = c.phase
      /\ E.man.pending.plan = c.plan
      /\ \A f, q : Pends(E.man, f, q) <=> f = c.phase /\ q = c.plan
  <2>1. PICK x, phase, p, man : /\ x = D.man.model /\ phase = c.phase /\ p = c.plan
                                /\ man = Pending(x, phase, p)
    OBVIOUS
  <2>2. man = E.man
    BY <2>1
  <2>3. /\ man.pending # NoPending /\ man.pending.phase = phase /\ man.pending.plan = p
        /\ \A f, q : Pends(man, f, q) <=> f = phase /\ q = p
    BY <1>3, <2>1, PendingIs, PendingPends
  <2> QED
    BY <2>1, <2>2, <2>3
<1>5. E.man.pending = [phase |-> c.phase, plan |-> c.plan]
  BY DEF Pending
<1>6. Ended(E, m) /\ E.at \in {Expand, Contract}
  <2>1. CASE CallsPending(D, m) /\ c.phase = m.pending.phase /\ c.plan = m.pending.plan
    <3>1. D.at = Expand /\ m.pending # NoPending
      BY <2>1 DEF CallsPending
    <3>2. m.pending = [phase |-> c.phase, plan |-> c.plan]
      BY <2>1, <3>1, PlansFromIs DEF Pends
    <3>3. E.man.pending = m.pending
      BY <1>5, <3>2
    <3> QED
      BY <1>4, <3>1, <3>3 DEF Ended
  <2>2. CASE CallsExpand(D) /\ c.phase = "expand" /\ c.plan = D.plan
    <3>1. D.at = Expand
      BY <2>2 DEF CallsExpand
    <3>2. E.man.pending = [phase |-> "expand", plan |-> E.plan]
      BY <1>5, <2>2
    <3> QED
      BY <1>4, <3>1, <3>2 DEF Ended
  <2>3. CASE CallsContract(D, m) /\ c.phase = "contract" /\ c.plan = D.plan
    <3>1. D.at = Contract /\ ContractSteps(D.plan) > 0
      BY <2>3 DEF CallsContract
    <3>2. Pends(E.man, "contract", E.plan)
      BY <1>4, <2>3
    <3> QED
      BY <3>1, <3>2 DEF Ended
  <2> QED
    BY <1>1, <2>1, <2>2, <2>3, CallIs
<1>7. /\ D.version \in Versions /\ D.plan \in Plans /\ D.plan.to = Uses[D.version]
      /\ D.at <= Expand => D.plan.from = PlansFrom(m)
      /\ D.at > Expand =>
           m = Reached(IF D.at <= Contract THEN After(D.plan, "expand") ELSE D.plan.to)
  BY <1>1 DEF Placed, Underway
<1>8. Placed(E, m)
  BY <1>6, <1>7 DEF Placed, Underway, Aside
<1>9. Rolled(E) /\ Owns(d, E)
  BY <1>1 DEF Rolled, Owns, Underway
<1>10. Stale(E, m)
  <2> SUFFICES ASSUME NEW q \in Plans, NEW phase \in {"expand", "contract"},
                      Waited(E, m, phase, q), ~ Pends(E.man, phase, q)
               PROVE  Over(phase, q)
    BY <1>2 DEF Stale
  <2>1. Pends(m, phase, q)
    BY DEF Waited
  <2>2. Waited(D, m, phase, q)
    BY <2>1 DEF Waited
  <2> QED
    BY <1>1, <1>2, <2>2 DEF Stale
<1>11. Opened(E, m)
  BY <1>2, <1>4, OpenedStays
<1> QED
  BY <1>1, <1>2, <1>8, <1>9, <1>10, <1>11 DEF Follows

LEMMA ReturnedSound ==
  ASSUME Inv, [Next]_vars, NEW d \in Deploys, Returned(d)
  PROVE  Sound'
<1> DEFINE D == deploy[d]
           c == Head(D.todo)
           ok == [D EXCEPT !.result = "none", !.todo = Tail(@), !.man = Records(d, c)]
           err == [D EXCEPT !.result = "none", !.todo = <<>>,
                            !.man = RecordsPending(d, c), !.pc = "fail"]
<1>1. /\ D.pc = "calling" /\ D.todo # <<>> /\ D.result \in {"ok", "err"} /\ UNCHANGED Database
      /\ serving' = serving /\ manifest' = manifest
      /\ D \in Deployment /\ deploy \in [Deploys -> Deployment] /\ Live(d)
      /\ manifest \in Recorded
  BY DEF Returned, Calling, Database, Inv, Typed, TypeOK, Live
<1>2. /\ D.result = "ok" => deploy' = [deploy EXCEPT ![d] = ok]
      /\ D.result = "err" => deploy' = [deploy EXCEPT ![d] = err]
  BY DEF Returned
<1>3. PICK E : E = IF D.result = "ok" THEN ok ELSE err
  OBVIOUS
<1>4. deploy'[d] = E /\ \A e \in Deploys : e # d => deploy'[e] = deploy[e]
  <2> HIDE DEF ok, err
  <2> QED
    BY <1>1, <1>2, <1>3
<1>5. ASSUME D.result = "ok"
      PROVE  /\ E.pc = "calling" /\ E.version = D.version /\ E.at = D.at /\ E.plan = D.plan
             /\ E.result = "none" /\ E.todo = Tail(D.todo)
             /\ E.man = Reached(After(c.plan, c.phase))
  <2>1. E = ok
    BY <1>3, <1>5
  <2>2. Records(d, c) = Reached(After(c.plan, c.phase))
    BY DEF Records, Reached
  <2> QED
    BY <1>1, <2>1, <2>2 DEF Deployment
<1>6. ASSUME D.result = "err"
      PROVE  /\ E.pc = "fail" /\ E.version = D.version /\ E.at = D.at /\ E.plan = D.plan
             /\ E.result = "none" /\ E.man = Pending(D.man.model, c.phase, c.plan)
  <2>1. E = err
    BY <1>3, <1>6
  <2>2. RecordsPending(d, c) = Pending(D.man.model, c.phase, c.plan)
    BY DEF RecordsPending, Pending
  <2> QED
    BY <1>1, <2>1, <2>2 DEF Deployment
<1>7. Live(d)'
  BY <1>1, <1>4, <1>5, <1>6 DEF Live
<1> HIDE DEF ok, err, D
<1>8. ASSUME Good PROVE Follows(d, E, manifest)
  <2>1. Follows(d, D, manifest) /\ Placed(D, manifest) /\ Rolled(D) /\ Stale(D, manifest)
    BY <1>1, <1>8, FollowsNow DEF Follows, D
  <2>2. CASE D.result = "ok"
    <3>1. InForce(D, manifest) = Reached(After(c.plan, c.phase))
      BY <1>1, <2>1, <2>2, CallIs
    <3>2. Holds(Reached(After(c.plan, c.phase)))
      BY <2>1, <3>1 DEF Follows
    <3>3. c.plan \in Plans /\ c.phase \in {"expand", "contract"}
      BY <1>1, <2>1, CallIs DEF Call
    <3>4. After(c.plan, c.phase) \in Model
      BY <3>3, AfterType
    <3>5. \A q \in Plans, phase \in {"expand", "contract"} :
            Pends(manifest, phase, q) => Over(phase, q)
      <4> SUFFICES ASSUME NEW q \in Plans, NEW phase \in {"expand", "contract"},
                          Pends(manifest, phase, q)
                   PROVE  Over(phase, q)
        OBVIOUS
      <4>1. Waited(D, manifest, phase, q)
        BY DEF Waited
      <4>2. ~ Pends(InForce(D, manifest), phase, q)
        BY <3>1, <3>4, ReachedIs
      <4> QED
        BY <1>1, <2>1, <4>1, <4>2 DEF Stale
    <3>6. c.phase = "expand" /\ c.plan = D.plan /\ ExpandSteps(c.plan) > 0
            /\ ContractSteps(c.plan) > 0 => row.plan = c.plan
      BY <1>1, <2>1, <3>1 DEF Follows, Opened, Underway
    <3> QED
      BY <1>1, <1>5, <2>1, <2>2, <3>2, <3>5, <3>6, AfterCall, InvFacts
  <2>3. CASE D.result = "err"
    BY <1>1, <1>6, <2>1, <2>3, FailedCall
  <2> QED
    BY <1>1, <2>2, <2>3
<1> QED
  BY <1>1, <1>4, <1>7, <1>8, QuietAfter

LEMMA SkipSound ==
  ASSUME Inv, [Next]_vars, NEW d \in Deploys, Skip(d)
  PROVE  Sound'
<1> DEFINE D == deploy[d]
           c == Head(D.todo)
<1>1. /\ D.pc = "calling" /\ D.todo # <<>> /\ ~ c.runs /\ UNCHANGED Database
      /\ serving' = serving /\ manifest' = manifest
      /\ D \in Deployment /\ deploy \in [Deploys -> Deployment] /\ Live(d)
      /\ manifest \in Recorded
      /\ deploy' = [deploy EXCEPT ![d] = [D EXCEPT !.todo = Tail(D.todo), !.man = Records(d, c)]]
  BY DEF Skip, Calling, Database, Inv, Typed, TypeOK, Live
<1>2. PICK E : E = [D EXCEPT !.todo = Tail(D.todo), !.man = Records(d, c)]
  OBVIOUS
<1>3. deploy'[d] = E /\ \A e \in Deploys : e # d => deploy'[e] = deploy[e]
  BY <1>1, <1>2
<1>4. /\ E.pc = "calling" /\ E.version = D.version /\ E.at = D.at /\ E.plan = D.plan
      /\ E.result = D.result /\ E.todo = Tail(D.todo)
      /\ E.man = Reached(After(c.plan, c.phase))
  <2>1. Records(d, c) = Reached(After(c.plan, c.phase))
    BY DEF Records, Reached
  <2> QED
    BY <1>1, <1>2, <2>1 DEF Deployment
<1>5. Live(d)'
  BY <1>3, <1>4 DEF Live
<1> HIDE DEF D
<1>6. ASSUME Good PROVE Follows(d, E, manifest)
  <2>1. Follows(d, D, manifest) /\ Placed(D, manifest) /\ Rolled(D) /\ Stale(D, manifest)
    BY <1>1, <1>6, FollowsNow DEF Follows, D
  <2>2. /\ CallsExpand(D) /\ c.phase = "expand" /\ c.plan = D.plan
        /\ ExpandSteps(D.plan) = 0 /\ D.result = "none"
        /\ InForce(D, manifest) = Pending(D.man.model, c.phase, c.plan)
    BY <1>1, <2>1, CallIs
  <2>3. PICK x, man : x = D.man.model /\ man = Pending(x, "expand", D.plan)
    OBVIOUS
  <2>4. InForce(D, manifest) = man /\ Holds(man)
    BY <2>1, <2>2, <2>3 DEF Follows
  <2>5. \A f, q : Pends(man, f, q) <=> f = "expand" /\ q = D.plan
    BY <2>3, PendingPends
  <2>6. D.plan \in Plans
    BY <1>1, <2>1 DEF Placed, Underway
  <2>7. Over("expand", D.plan)
    BY <2>2 DEF Over
  <2>8. Settled(After(D.plan, "expand"))
    <3>1. After(D.plan, "expand") = D.plan.from
      BY <2>2, <2>6, PlanSteps
    <3>2. WithinExpand(D.plan)
      BY <2>4, <2>5, <2>6 DEF Holds, Status
    <3>3. row.plan = NoPlan /\ row.model = D.plan.to /\ ContractSteps(D.plan) = 0 =>
            Settled(D.plan.from)
      BY <2>2, <2>6, PlanSteps DEF Settled
    <3> QED
      BY <2>2, <2>6, <3>1, <3>2, <3>3, PlanSteps DEF WithinExpand
  <2>9. man \in Recorded
    BY <1>1, <2>3, <2>6 DEF Pending, Recorded, Deployment
  <2>10. Holds(Reached(After(c.plan, c.phase)))
    BY <2>2, <2>4, <2>5, <2>6, <2>8, <2>9, Closed, InvFacts
  <2>11. \A q \in Plans, phase \in {"expand", "contract"} :
            Pends(manifest, phase, q) => Over(phase, q)
    <3> SUFFICES ASSUME NEW q \in Plans, NEW phase \in {"expand", "contract"},
                        Pends(manifest, phase, q)
                 PROVE  Over(phase, q)
      OBVIOUS
    <3>1. Waited(D, manifest, phase, q)
      BY DEF Waited
    <3>2. Pends(man, phase, q) \/ Over(phase, q)
      BY <1>1, <2>1, <2>4, <3>1 DEF Stale
    <3> QED
      BY <2>5, <2>7, <3>2
  <2> QED
    BY <1>1, <1>4, <2>1, <2>2, <2>10, <2>11, AfterCall, InvFacts
<1> QED
  BY <1>1, <1>3, <1>5, <1>6, QuietAfter

-----------------------------------------------------------------------------
(* A call begins, or its result is known. *)

LEMMA ResultGoes ==
  ASSUME NEW d \in Deploys, NEW D \in Deployment, NEW m \in Recorded,
         Follows(d, D, m), D.pc = "calling", D.todo # <<>>, NEW c, c = Head(D.todo),
         D.result # "ok", c.runs,
         NEW E, E.pc = "calling", E.version = D.version, E.at = D.at, E.plan = D.plan,
         E.todo = D.todo, E.man = D.man
  PROVE  /\ Placed(E, m) /\ Rolled(E)
         /\ E.result # "ok" => InForce(E, m) = InForce(D, m)
         /\ E.result = "ok" => InForce(E, m) = Reached(After(c.plan, c.phase))
         /\ E.result # "ok" \/ Over(c.phase, c.plan) => Stale(E, m)
<1>1. Placed(D, m) /\ Rolled(D) /\ Stale(D, m)
  BY DEF Follows
<1>2. /\ D.version \in Versions /\ D.plan \in Plans /\ D.plan.to = Uses[D.version]
      /\ D.at <= Expand => D.plan.from = PlansFrom(m)
      /\ D.at > Expand =>
           m = Reached(IF D.at <= Contract THEN After(D.plan, "expand") ELSE D.plan.to)
      /\ D.at \notin {Expand, Contract} => D.man = m
  BY <1>1 DEF Placed, Underway
<1>3. ~ CallsOver(D)
  BY <1>1, NothingLeft
<1>4. CallsExpand(D) => CallsExpand(E)
  <2> SUFFICES ASSUME CallsExpand(D) PROVE CallsExpand(E)
    OBVIOUS
  <2>1. PICK b \in BOOLEAN : D.todo = << CallOf("expand", D.plan, b) >>
    BY DEF CallsExpand
  <2>2. c = CallOf("expand", D.plan, b)
    <3>1. \A y : Head(<<y>>) = y
      OBVIOUS
    <3> QED
      BY <2>1, <3>1
  <2>3. c.runs = b
    BY <2>2 DEF CallOf
  <2>4. b = TRUE
    BY <2>3
  <2> QED
    BY <2>1, <2>4 DEF CallsExpand
<1>5. CallsPending(D, m) => CallsPending(E, m)
  BY DEF CallsPending
<1>6. CallsContract(D, m) => CallsContract(E, m)
  BY DEF CallsContract
<1>7. Placed(E, m)
  <2>1. CallsPending(E, m) \/ CallsExpand(E) \/ CallsContract(E, m)
    BY <1>1, <1>3, <1>4, <1>5, <1>6 DEF Placed
  <2> QED
    BY <1>2, <2>1 DEF Placed, Underway, Aside
<1>8. Rolled(E)
  BY <1>1 DEF Rolled, Underway
<1>9. /\ E.result = "ok" => InForce(E, m) = Reached(After(c.plan, c.phase))
      /\ E.result # "ok" => InForce(E, m) = Pending(D.man.model, c.phase, c.plan)
  BY DEF InForce
<1>10. InForce(D, m) = Pending(D.man.model, c.phase, c.plan)
  BY DEF InForce
<1>11. \A phase, q : Waited(E, m, phase, q) <=> Waited(D, m, phase, q)
  BY DEF Waited
<1>12. ASSUME E.result # "ok" PROVE Stale(E, m)
  BY <1>1, <1>9, <1>10, <1>11, <1>12 DEF Stale
<1>13. ASSUME Over(c.phase, c.plan) PROVE Stale(E, m)
  <2> SUFFICES ASSUME NEW q \in Plans, NEW phase \in {"expand", "contract"},
                      Waited(E, m, phase, q)
               PROVE  Over(phase, q) \/ Pends(InForce(E, m), phase, q)
    BY DEF Stale
  <2>1. Pends(InForce(D, m), phase, q) \/ Over(phase, q)
    BY <1>1, <1>11 DEF Stale
  <2>2. ASSUME Pends(InForce(D, m), phase, q) PROVE phase = c.phase /\ q = c.plan
    <3>1. PICK x, f, p, man : x = D.man.model /\ f = c.phase /\ p = c.plan
                              /\ man = Pending(x, f, p)
      OBVIOUS
    <3>2. Pends(man, phase, q)
      BY <1>10, <2>2, <3>1
    <3> QED
      BY <3>1, <3>2, PendingPends
  <2> QED
    BY <1>13, <2>1, <2>2
<1> QED
  BY <1>7, <1>8, <1>9, <1>10, <1>12, <1>13

(* A call that has ended leaves the model between the phases of the deploy's   *)
(* plan only when it is of its expand phase.                                  *)
LEMMA ItsExpand ==
  ASSUME NEW D \in Deployment, NEW m \in Recorded, Placed(D, m), D.pc = "calling",
         D.todo # <<>>, NEW c, c = Head(D.todo),
         ExpandSteps(D.plan) > 0, ContractSteps(D.plan) > 0,
         After(c.plan, c.phase) = After(D.plan, "expand")
  PROVE  c.phase = "expand" /\ c.plan = D.plan
<1>1. /\ D.plan \in Plans
      /\ D.at <= Expand => D.plan.from = PlansFrom(m)
  BY DEF Placed, Underway
<1>2. After(D.plan, "expand") \notin {D.plan.from, D.plan.to}
  BY <1>1, PlanSteps
<1>3. ~ (c.phase = "contract" /\ c.plan = D.plan)
  BY <1>1, <1>2, PlanSteps
<1>4. ~ (CallsPending(D, m) /\ c.phase = m.pending.phase /\ c.plan = m.pending.plan)
  <2> SUFFICES ASSUME CallsPending(D, m) /\ c.phase = m.pending.phase /\ c.plan = m.pending.plan
               PROVE  FALSE
    OBVIOUS
  <2>1. m.pending # NoPending /\ D.at <= Expand
    BY DEF CallsPending, Expand
  <2>2. D.plan.from = After(c.plan, c.phase)
    BY <1>1, <2>1, PlansFromIs
  <2> QED
    BY <1>2, <2>2
<1> QED
  BY <1>3, <1>4, CallIs

LEMMA OpenedCalled ==
  ASSUME NEW D \in Deployment, NEW m \in Recorded, Placed(D, m), D.pc = "calling",
         D.todo # <<>>, NEW c, c = Head(D.todo), NEW E, E.plan = D.plan,
         InForce(E, m) = Reached(After(c.plan, c.phase)),
         c.phase = "expand" /\ ContractSteps(c.plan) > 0 =>
           ExpandSteps(c.plan) = 0 \/ row.plan = c.plan
  PROVE  Opened(E, m)
<1> SUFFICES ASSUME ExpandSteps(D.plan) > 0, ContractSteps(D.plan) > 0,
                    InForce(E, m) = Reached(After(D.plan, "expand"))
             PROVE  row.plan = D.plan
  BY DEF Opened
<1>1. D.plan \in Plans
  BY DEF Placed, Underway
<1>2. After(c.plan, c.phase) = After(D.plan, "expand")
  BY DEF Reached
<1>3. c.phase = "expand" /\ c.plan = D.plan
  BY <1>2, ItsExpand
<1> QED
  BY <1>1, <1>3, PlanSteps

(* A phase without steps is over once it begins.                              *)
LEMMA NoSteps ==
  ASSUME RowFacts, NEW m \in Recorded, NEW D \in Deployment, NEW c \in Call, Status(InForce(D, m)),
         InForce(D, m) = Pending(D.man.model, c.phase, c.plan), Holds(InForce(D, m)),
         ~ (StepsOf(c.plan, c.phase) > 0)
  PROVE  /\ Over(c.phase, c.plan) /\ Holds(Reached(After(c.plan, c.phase)))
         /\ ExpandSteps(c.plan) = 0
<1>1. PICK x, man : x = D.man.model /\ man = Pending(x, c.phase, c.plan)
  OBVIOUS
<1>2. InForce(D, m) = man /\ Holds(man)
  BY <1>1
<1>3. c.plan \in Plans /\ c.phase \in {"expand", "contract"} /\ x \in Model \cup {NoModel}
  BY <1>1 DEF Call, Deployment, Recorded
<1>4. \A f, q : Pends(man, f, q) <=> f = c.phase /\ q = c.plan
  BY <1>1, PendingPends
<1>5. man \in Recorded
  BY <1>1, <1>3 DEF Pending, Recorded
<1>6. c.phase = "expand" /\ ExpandSteps(c.plan) = 0
  <2>1. c.phase = "contract" => ContractSteps(c.plan) > 0
    BY <1>2, <1>3, <1>4 DEF Holds, Status
  <2> QED
    BY <1>3, <2>1, PlanSteps DEF StepsOf
<1>7. After(c.plan, "expand") = c.plan.from
  BY <1>3, <1>6, PlanSteps
<1>8. WithinExpand(c.plan)
  BY <1>2, <1>3, <1>4, <1>6 DEF Holds, Status
<1>9. Settled(After(c.plan, c.phase))
  <2>1. row.plan = NoPlan /\ row.model = c.plan.to /\ ContractSteps(c.plan) = 0 =>
          Settled(c.plan.from)
    BY <1>3, <1>6, PlanSteps DEF Settled
  <2> QED
    BY <1>3, <1>6, <1>7, <1>8, <2>1, PlanSteps DEF WithinExpand
<1> QED
  BY <1>2, <1>3, <1>4, <1>5, <1>6, <1>9, Closed

(* The result of a call, with nothing else.                                   *)
LEMMA ResultSound ==
  ASSUME Inv, [Next]_vars, NEW d \in Deploys, Calling(d), UNCHANGED Database,
         serving' = serving, manifest' = manifest, NEW how \in {"ok", "err"},
         deploy' = [deploy EXCEPT ![d].result = how],
         \/ deploy[d].result = "none" /\ Head(deploy[d].todo).runs
         \/ deploy[d].result = "running",
         how = "ok" => ~ (StepsOf(Head(deploy[d].todo).plan, Head(deploy[d].todo).phase) > 0)
  PROVE  Sound'
<1> DEFINE D == deploy[d]
           c == Head(D.todo)
<1>1. /\ D.pc = "calling" /\ D.todo # <<>>
      /\ D \in Deployment /\ deploy \in [Deploys -> Deployment] /\ Live(d)
      /\ manifest \in Recorded
      /\ deploy' = [deploy EXCEPT ![d] = [D EXCEPT !.result = how]]
  BY DEF Calling, Inv, Typed, TypeOK, Live
<1>2. PICK E : E = [D EXCEPT !.result = how]
  OBVIOUS
<1>3. deploy'[d] = E /\ \A e \in Deploys : e # d => deploy'[e] = deploy[e]
  BY <1>1, <1>2
<1>4. /\ E.pc = "calling" /\ E.version = D.version /\ E.at = D.at /\ E.plan = D.plan
      /\ E.result = how /\ E.todo = D.todo /\ E.man = D.man
  BY <1>1, <1>2 DEF Deployment
<1>5. Live(d)'
  BY <1>3, <1>4 DEF Live
<1>r. (D.result = "none" /\ c.runs) \/ D.result = "running"
  OBVIOUS
<1>h. how = "ok" => ~ (StepsOf(c.plan, c.phase) > 0)
  OBVIOUS
<1> HIDE DEF D, c
<1>6. ASSUME Good PROVE Follows(d, E, manifest)
  <2>1. Follows(d, D, manifest) /\ Placed(D, manifest) /\ Holds(InForce(D, manifest))
    BY <1>1, <1>6, FollowsNow DEF Follows, D
  <2>2. /\ c \in Call /\ c.runs /\ D.result # "ok"
        /\ InForce(D, manifest) = Pending(D.man.model, c.phase, c.plan)
    BY <1>1, <1>r, <2>1, CallIs DEF c
  <2>3. /\ Placed(E, manifest) /\ Rolled(E)
        /\ how # "ok" => InForce(E, manifest) = InForce(D, manifest)
        /\ how = "ok" => InForce(E, manifest) = Reached(After(c.plan, c.phase))
        /\ how # "ok" \/ Over(c.phase, c.plan) => Stale(E, manifest)
    BY <1>1, <1>4, <2>1, <2>2, ResultGoes DEF c
  <2>4. ASSUME how = "ok"
        PROVE  /\ Over(c.phase, c.plan) /\ Holds(Reached(After(c.plan, c.phase)))
               /\ ExpandSteps(c.plan) = 0
    BY <1>1, <1>h, <2>1, <2>2, <2>4, NoSteps, InvFacts DEF Holds
  <2>5. Owns(d, E)
    BY <1>4 DEF Owns
  <2>6. Opened(E, manifest)
    <3>1. CASE how = "ok"
      BY <1>1, <1>4, <2>1, <2>3, <2>4, <3>1, OpenedCalled DEF c
    <3>2. CASE how # "ok"
      BY <1>1, <1>4, <2>1, <2>3, <3>2, OpenedStays DEF Follows, Underway
    <3> QED
      BY <3>1, <3>2
  <2> QED
    BY <1>4, <2>1, <2>3, <2>4, <2>5, <2>6 DEF Follows
<1> QED
  BY <1>1, <1>3, <1>5, <1>6, QuietAfter

(* A call that gives its run to the runner.                                   *)
LEMMA ShapesBegin ==
  ASSUME Shapes, RunFacts, NEW d \in Deploys, NEW p \in Plans,
         NEW phase \in {"expand", "contract"}, Runner!Begin(d, p, phase),
         StepsOf(p, phase) > 0
  PROVE  /\ Shapes' /\ Stays
         /\ run'[d].pc = "lock" /\ run'[d].plan = p /\ run'[d].phase = phase
         /\ \A r \in Deploys : r # d => run'[r] = run[r]
<1>1. /\ row' = row /\ log' = log
      /\ run' = [run EXCEPT ![d] = [pc |-> "lock", plan |-> p, phase |-> phase,
                                    left |-> Runner!PhaseSteps(p, phase), read |-> {}]]
  BY DEF Runner!Begin
<1>2. /\ run'[d].pc = "lock" /\ run'[d].plan = p /\ run'[d].phase = phase
      /\ \A r \in Deploys : r # d => run'[r] = run[r]
  BY <1>1 DEF RunFacts
<1>3. \A r \in Deploys :
       /\ run'[r].pc \notin {"session", "statements"}
       /\ run'[r].pc = "end" => run'[r].left = {}
       /\ run'[r].pc # "idle" =>
            run'[r].phase \in {"expand", "contract"} /\ StepsOf(run'[r].plan, run'[r].phase) > 0
  BY <1>2 DEF Shapes
<1>4. Shapes'
  BY <1>1, <1>3 DEF Shapes, StepsOf, ExpandSteps, ContractSteps, Runner!Steps
<1> QED
  BY <1>1, <1>2, <1>4 DEF Stays

LEMMA BeginSound ==
  ASSUME Inv, [Next]_vars, NEW d \in Deploys, Calling(d), deploy[d].result = "none",
         Head(deploy[d].todo).runs,
         Runner!Begin(d, Head(deploy[d].todo).plan, Head(deploy[d].todo).phase),
         StepsOf(Head(deploy[d].todo).plan, Head(deploy[d].todo).phase) > 0,
         serving' = serving, manifest' = manifest,
         deploy' = [deploy EXCEPT ![d].result = "running"]
  PROVE  Sound'
<1> DEFINE D == deploy[d]
           c == Head(D.todo)
<1>1. /\ D.pc = "calling" /\ D.todo # <<>> /\ D.result = "none" /\ c.runs
      /\ D \in Deployment /\ deploy \in [Deploys -> Deployment] /\ Live(d)
      /\ manifest \in Recorded
      /\ deploy' = [deploy EXCEPT ![d] = [D EXCEPT !.result = "running"]]
  BY DEF Calling, Inv, Typed, TypeOK, Live
<1>2. PICK E : E = [D EXCEPT !.result = "running"]
  OBVIOUS
<1>3. deploy'[d] = E /\ \A e \in Deploys : e # d => deploy'[e] = deploy[e]
  BY <1>1, <1>2
<1>4. /\ E.pc = "calling" /\ E.version = D.version /\ E.at = D.at /\ E.plan = D.plan
      /\ E.result = "running" /\ E.todo = D.todo /\ E.man = D.man
  BY <1>1, <1>2 DEF Deployment
<1>5. Live(d)'
  BY <1>3, <1>4 DEF Live
<1>6. c \in Call
  BY <1>1 DEF Deployment
<1>7. /\ Shapes' /\ Stays
      /\ run'[d].pc = "lock" /\ run'[d].plan = c.plan /\ run'[d].phase = c.phase
      /\ \A r \in Deploys : r # d => run'[r] = run[r]
  <2>1. PICK p \in Plans, phase \in {"expand", "contract"} : p = c.plan /\ phase = c.phase
    BY <1>6 DEF Call
  <2> QED
    BY <2>1, ShapesBegin, InvFacts
<1> HIDE DEF D, c
<1>8. ASSUME Good PROVE Follows(d, E, manifest)'
  <2>1. Follows(d, D, manifest) /\ Holds(InForce(D, manifest))
    BY <1>1, <1>8, FollowsNow DEF Follows, D
  <2>2. /\ Placed(E, manifest) /\ Rolled(E) /\ Stale(E, manifest)
        /\ InForce(E, manifest) = InForce(D, manifest)
    BY <1>1, <1>4, <2>1, ResultGoes DEF c
  <2>3. PICK n : n = manifest
    OBVIOUS
  <2>4. Placed(E, n)' /\ Rolled(E)'
    BY <2>2, <2>3 DEF Rolled, Placed, CallsPending, CallsExpand, CallsContract, CallsOver,
         Ended, PlansFrom, Pends
  <2>5. \A phase, q : Over(phase, q)' <=> Over(phase, q)
    BY <1>7, OverStays DEF Stays
  <2>6. Stale(E, n)'
    BY <2>2, <2>3, <2>5 DEF Stale, Waited, InForce, Pends
  <2>7. Owns(d, E)'
    BY <1>4, <1>7, <1>1 DEF Owns, c
  <2>8. Holds(InForce(E, n))'
    <3>1. PICK man : man = InForce(E, n)
      OBVIOUS
    <3>2. \A r \in Deploys : run'[r].pc \in {"steps", "end"} => run'[r] = run[r]
      BY <1>7
    <3>3. Holds(man)'
      BY <1>7, <2>1, <2>2, <2>3, <3>1, <3>2, HoldsStays
    <3> QED
      BY <3>1, <3>3 DEF InForce
  <2>9. Opened(E, n)'
    BY <1>1, <1>4, <1>7, <2>1, <2>2, <2>3, OpenedNext DEF Follows, Underway
  <2>10. Follows(d, E, n)'
    BY <1>4, <2>4, <2>6, <2>7, <2>8, <2>9 DEF Follows
  <2> QED
    BY <2>3, <2>10
<1>9. Good' => Good
  BY GoodBack
<1>10. ASSUME Good PROVE Follows(d, deploy[d], manifest)'
  BY <1>3, <1>8, <1>10
<1> QED
  BY <1>1, <1>3, <1>5, <1>7, <1>9, <1>10, SoundAfter

LEMMA CallSound ==
  ASSUME Inv, [Next]_vars, NEW d \in Deploys, CallRunner(d) \/ CallLost(d)
  PROVE  Sound'
<1> DEFINE c == Head(deploy[d].todo)
<1>1. CASE CallLost(d)
  BY <1>1, ResultSound DEF CallLost, Database
<1>2. CASE CallRunner(d)
  <2>1. /\ Calling(d) /\ deploy[d].result = "none" /\ c.runs
        /\ serving' = serving /\ manifest' = manifest
    BY <1>2 DEF CallRunner
  <2>2. CASE /\ StepsOf(c.plan, c.phase) > 0 /\ Runner!Begin(d, c.plan, c.phase)
             /\ deploy' = [deploy EXCEPT ![d].result = "running"]
    BY <2>1, <2>2, BeginSound
  <2>3. ASSUME ~ (StepsOf(c.plan, c.phase) > 0), UNCHANGED Database,
               NEW how \in {"ok", "err"}, deploy' = [deploy EXCEPT ![d].result = how]
        PROVE  Sound'
    BY <2>1, <2>3, ResultSound
  <2> HIDE DEF c
  <2>4. \/ /\ StepsOf(c.plan, c.phase) > 0 /\ Runner!Begin(d, c.plan, c.phase)
           /\ deploy' = [deploy EXCEPT ![d].result = "running"]
        \/ /\ ~ (StepsOf(c.plan, c.phase) > 0) /\ UNCHANGED Database
           /\ \E how \in {"ok", "err"} : deploy' = [deploy EXCEPT ![d].result = how]
    BY <1>2 DEF CallRunner, c
  <2> QED
    BY <2>2, <2>3, <2>4
<1> QED
  BY <1>1, <1>2

-----------------------------------------------------------------------------
(* The manifest's write, and a wave of the rollout. *)

LEMMA WriteSound ==
  ASSUME Inv, [Next]_vars, NEW d \in Deploys, Write(d), deploy[d].at # LastStep
  PROVE  Sound'
<1> DEFINE D == deploy[d]
<1>1. /\ D.pc = "write" /\ UNCHANGED Database /\ serving' = serving /\ manifest' = D.man
      /\ D \in Deployment /\ deploy \in [Deploys -> Deployment] /\ Live(d)
      /\ manifest \in Recorded /\ D.at \in Nat
      /\ deploy' = [deploy EXCEPT ![d] = [D EXCEPT !.at = D.at + 1, !.pc = "steps"]]
  <2>1. /\ D.pc = "write" /\ UNCHANGED Database /\ serving' = serving /\ manifest' = D.man
        /\ D \in Deployment /\ deploy \in [Deploys -> Deployment] /\ Live(d)
        /\ manifest \in Recorded
        /\ deploy' = [deploy EXCEPT ![d] = [D EXCEPT !.at = D.at + 1, !.pc = "steps"]]
    BY DEF Write, Database, Inv, Typed, TypeOK, Live
  <2>2. D.at \in Nat
    BY <2>1, StepPlaces DEF Deployment
  <2> QED
    BY <2>1, <2>2
<1>2. PICK E : E = [D EXCEPT !.at = D.at + 1, !.pc = "steps"]
  OBVIOUS
<1>3. deploy'[d] = E /\ \A e \in Deploys : e # d => deploy'[e] = deploy[e]
  BY <1>1, <1>2
<1>4. /\ E.pc = "steps" /\ E.version = D.version /\ E.at = D.at + 1 /\ E.plan = D.plan
      /\ E.result = D.result /\ E.man = D.man
  BY <1>1, <1>2 DEF Deployment
<1>5. Live(d)'
  BY <1>3, <1>4 DEF Live
<1> HIDE DEF D
<1>6. ASSUME Good PROVE Follows(d, E, D.man)
  <2> DEFINE m == manifest
             P == D.plan
             a == D.at
  <2>1. Follows(d, D, m) /\ Placed(D, m) /\ Rolled(D) /\ Holds(InForce(D, m))
    BY <1>6, <1>1, FollowsNow DEF Follows, D
  <2>2. /\ D.version \in Versions /\ P \in Plans /\ P.to = Uses[D.version]
        /\ a <= Expand => P.from = PlansFrom(m)
        /\ a > Expand => m = Reached(IF a <= Contract THEN After(P, "expand") ELSE P.to)
        /\ a \notin {Expand, Contract} => D.man = m
        /\ D.result = "none"
    BY <1>1, <2>1 DEF Placed, Underway
  <2>3. a \in {Expand, Contract} => Ended(D, m)
    BY <1>1, <2>1 DEF Placed
  <2>4. InForce(D, m) = D.man /\ InForce(E, D.man) = D.man
    BY <1>1, <1>4 DEF InForce
  <2>5. /\ a = Expand => D.man = Reached(After(P, "expand"))
        /\ a = Contract => D.man = Reached(P.to)
    <3>1. Expand # Contract
      BY DeployAssumption DEF Expand, Contract
    <3> QED
      BY <1>1, <2>3, <3>1 DEF Ended
  <2> HIDE DEF m, P, a
  <2>6. /\ E.at <= Expand => a <= Expand /\ a \notin {Expand, Contract}
        /\ E.at > Expand => a = Expand \/ a = Contract \/ (a > Expand /\ a \notin {Expand, Contract})
        /\ a = Expand => E.at <= Contract
        /\ a = Contract => ~ (E.at <= Contract)
        /\ a \notin {Expand, Contract} => (E.at <= Contract <=> a <= Contract)
    <3>1. E.at = a + 1 /\ a \in Nat /\ Expand = 2 /\ Contract \in Nat /\ Contract > 3
      BY <1>1, <1>4, DeployAssumption DEF Expand, Contract, a
    <3>2. \A x, y, c \in Nat :
            y = x + 1 /\ c > 3 =>
              /\ y <= 2 => x <= 2 /\ x \notin {2, c}
              /\ y > 2 => x = 2 \/ x = c \/ (x > 2 /\ x \notin {2, c})
              /\ x = 2 => y <= c
              /\ x = c => ~ (y <= c)
              /\ x \notin {2, c} => (y <= c <=> x <= c)
      OBVIOUS
    <3>3. E.at \in Nat
      BY <3>1
    <3> QED
      BY <3>1, <3>2, <3>3
  <2>7. E.at <= Expand => P.from = PlansFrom(D.man)
    BY <2>2, <2>6
  <2>8. E.at > Expand => D.man = Reached(IF E.at <= Contract THEN After(P, "expand") ELSE P.to)
    BY <2>2, <2>5, <2>6
  <2>9. Placed(E, D.man)
    BY <1>4, <2>2, <2>7, <2>8 DEF Placed, Underway, Aside, P
  <2>10. Rolled(E)
    <3> SUFFICES ASSUME NEW s \in Servers, Wave(WaveOf[s]) < E.at
                 PROVE  serving[s] = E.version
      BY <1>4 DEF Rolled
    <3>1. Wave(WaveOf[s]) < D.at \/ Wave(WaveOf[s]) = D.at
      BY <1>1, <1>4, DeployAssumption DEF Wave
    <3> QED
      BY <1>1, <1>4, <2>1, <3>1 DEF Rolled, Underway
  <2>11. Owns(d, E)
    BY <1>4 DEF Owns
  <2>12. Stale(E, D.man)
    BY <1>4, <2>4 DEF Stale, Waited
  <2>13. Opened(E, D.man)
    BY <1>1, <1>4, <2>1, <2>4, OpenedStays DEF Follows, Underway, m
  <2> QED
    BY <1>4, <2>1, <2>4, <2>9, <2>10, <2>11, <2>12, <2>13 DEF Follows
<1> QED
  BY <1>1, <1>3, <1>5, <1>6, QuietAfter DEF D

LEMMA RolloutSound ==
  ASSUME Inv, [Next]_vars, NEW d \in Deploys, Rollout(d)
  PROVE  Sound'
<1> DEFINE D == deploy[d]
<1>1. /\ D.pc = "steps" /\ UNCHANGED Database /\ manifest' = manifest
      /\ D \in Deployment /\ deploy \in [Deploys -> Deployment] /\ Live(d)
      /\ manifest \in Recorded
  BY DEF Rollout, AtStep, Database, Inv, Typed, TypeOK, Live
<1>2. PICK n \in 1..Waves, rolled \in SUBSET Servers, pc \in {"write", "fail"} :
        /\ D.at = Wave(n)
        /\ serving' = [s \in Servers |-> IF s \in rolled THEN D.version ELSE serving[s]]
        /\ Goes(d, pc)
        /\ pc = "write" => \A s \in Servers : WaveOf[s] = n => s \in rolled
  <2>1. PICK n \in 1..Waves :
          /\ D.at = Wave(n)
          /\ \E rolled \in SUBSET {s \in Servers : WaveOf[s] = n} :
               /\ serving' = [s \in Servers |-> IF s \in rolled THEN D.version ELSE serving[s]]
               /\ \/ /\ \A s \in Servers : WaveOf[s] = n => s \in rolled
                     /\ Goes(d, "write")
                  \/ Goes(d, "fail")
    BY DEF Rollout
  <2> HIDE DEF D
  <2> QED
    BY <2>1
<1>3. PICK E : E = [D EXCEPT !.pc = pc]
  OBVIOUS
<1>4. deploy'[d] = E /\ \A e \in Deploys : e # d => deploy'[e] = deploy[e]
  BY <1>2, <1>3, GoesTo DEF Inv
<1>5. /\ E.pc = pc /\ E.version = D.version /\ E.at = D.at /\ E.man = D.man
      /\ E.plan = D.plan /\ E.todo = D.todo /\ E.result = D.result
  BY <1>1, <1>3, PcFields
<1>6. Live(d)'
  BY <1>4, <1>5 DEF Live
<1>7. Stays /\ run' = run
  BY <1>1 DEF Database, Stays
<1>8. Shapes'
  BY <1>7, ShapesStay DEF Inv, Sound, Stays
<1> HIDE DEF D
<1>9. ASSUME Good PROVE Follows(d, E, manifest)'
  <2> DEFINE P == D.plan
  <2>1. Follows(d, D, manifest) /\ Placed(D, manifest) /\ Rolled(D) /\ Holds(InForce(D, manifest))
    BY <1>9, <1>1, FollowsNow DEF Follows, D
  <2>2. /\ D.at > Expand /\ ~ (D.at <= Expand) /\ D.at <= Contract
        /\ D.at \notin {Expand, Contract}
    BY <1>2, DeployAssumption DEF Wave, Expand, Contract
  <2>3. /\ D.version \in Versions /\ P \in Plans /\ P.to = Uses[D.version]
        /\ manifest = Reached(After(P, "expand")) /\ D.man = manifest /\ D.result = "none"
    BY <1>1, <2>1, <2>2 DEF Placed, Underway
  <2>4. InForce(D, manifest) = manifest /\ InForce(E, manifest) = manifest
    BY <1>1, <1>2, <1>5, <2>3 DEF InForce
  <2>5. PICK m : m = manifest
    OBVIOUS
  <2>6. Placed(E, m)
    BY <1>2, <1>5, <2>2, <2>3, <2>5 DEF Placed, Underway, Aside
  <2>7. Stale(E, m)
    BY <1>2, <1>5, <2>3, <2>4, <2>5 DEF Stale, Waited
  <2>8. Owns(d, E)
    BY <1>2, <1>5 DEF Owns
  <2>9. Placed(E, m)' /\ Owns(d, E)'
    BY <1>7, <2>6, <2>8 DEF Owns, Placed, CallsPending, CallsExpand, CallsContract, CallsOver,
         Ended, PlansFrom, Pends
  <2>10. \A phase, q : Over(phase, q)' <=> Over(phase, q)
    BY <1>7, OverStays DEF Stays
  <2>11. Stale(E, m)'
    BY <2>7, <2>10 DEF Stale, Waited, InForce, Pends
  <2>12. Rolled(E)'
    <3> SUFFICES ASSUME NEW s \in Servers,
                        \/ Wave(WaveOf[s]) < E.at
                        \/ Wave(WaveOf[s]) = E.at /\ E.pc = "write"
                 PROVE  serving'[s] = E.version
      BY DEF Rolled
    <3>1. serving'[s] = IF s \in rolled THEN D.version ELSE serving[s]
      BY <1>2
    <3>2. CASE Wave(WaveOf[s]) < E.at
      <4>1. serving[s] = D.version
        BY <1>1, <1>5, <2>1, <3>2 DEF Rolled, Underway
      <4> QED
        BY <1>5, <3>1, <4>1
    <3>3. CASE Wave(WaveOf[s]) = E.at /\ E.pc = "write"
      <4>1. WaveOf[s] = n
        BY <1>2, <1>5, <3>3, DeployAssumption DEF Wave
      <4> QED
        BY <1>2, <1>5, <3>1, <3>3, <4>1
    <3> QED
      BY <3>2, <3>3
  <2>13. Holds(m)'
    <3>0. Holds(m)
      BY <2>1, <2>4, <2>5
    <3>1. Status(m)'
      BY <1>7, <3>0, StatusStays DEF Holds
    <3>2. RunsFit(m)'
      BY <1>7, <3>0 DEF Holds, RunsFit, Stays, Pends
    <3>3. Floor(m) = P.from \cup P.to
      <4>1. After(P, "expand") = P.from \cup P.to /\ After(P, "expand") \in Model
        BY <2>3, PlanSteps, AfterType
      <4> QED
        BY <2>3, <2>5, <4>1, ReachedIs DEF Floor
    <3>4. \A s \in Servers : serving'[s] # NoVersion => Uses[serving'[s]] \subseteq Floor(m)
      BY <1>2, <2>3, <3>0, <3>3 DEF Holds, Served
    <3>5. Served(m)'
      BY <3>4 DEF Served, Floor, ModelOf
    <3> QED
      BY <3>1, <3>2, <3>5 DEF Holds
  <2>14. Holds(InForce(E, m))'
    <3>1. InForce(E, m)' = m
      BY <2>4, <2>5 DEF InForce
    <3> QED
      BY <2>13, <3>1
  <2>15. Opened(E, m)'
    BY <1>1, <1>5, <1>7, <2>1, <2>4, <2>5, OpenedNext DEF Follows, Underway
  <2>16. Follows(d, E, m)'
    BY <1>2, <1>5, <2>9, <2>11, <2>12, <2>14, <2>15 DEF Follows
  <2>17. m = manifest'
    BY <1>1, <2>5
  <2> QED
    BY <2>16, <2>17
<1>10. Good' => Good
  BY GoodBack
<1>11. ASSUME Good PROVE Follows(d, deploy[d], manifest)'
  BY <1>4, <1>9, <1>11
<1> QED
  BY <1>1, <1>4, <1>6, <1>8, <1>10, <1>11, SoundAfter

-----------------------------------------------------------------------------
(* Deploys that begin, die or destroy, and the steps of persons. *)

LEMMA EmptyHolds ==
  (/\ row.model = {} /\ row.plan = NoPlan /\ \A s \in Servers : serving[s] = NoVersion
   /\ \A r \in Deploys : run[r].pc = "idle")
  => Holds(Nothing)
BY HoldsNothing

AsideIs ==
  \A d \in Deploys : \A E, n :
    (/\ E.pc \in {"plan", "destroy", "release"} /\ E.man = Nothing /\ E.at = 1
     /\ E.result = "none" /\ Holds(n))
    => Follows(d, E, n)

LEMMA AsideAll == AsideIs
BY AsideFollows DEF AsideIs

LEMMA AsideNext ==
  ASSUME NEW d \in Deploys, NEW E, NEW n, E.pc \in {"plan", "destroy", "release"},
         E.man = Nothing, E.at = 1, E.result = "none", Holds(n)'
  PROVE  Follows(d, E, n)'
<1>1. AsideIs'
  BY AsideAll, PTL
<1>2. Nothing' = Nothing
  BY DEF Nothing, NoPending
<1> QED
  BY <1>1, <1>2 DEF AsideIs

(* Servers that are removed need nothing of the database.                     *)
LEMMA HoldsLess ==
  ASSUME NEW man, Stays, Holds(man), run' = run,
         \A s \in Servers : serving'[s] # NoVersion => serving'[s] = serving[s]
  PROVE  Holds(man)'
<1>1. Status(man)'
  BY StatusStays DEF Holds
<1>2. Served(man)'
  BY DEF Holds, Served, Floor, ModelOf
<1>3. RunsFit(man)'
  BY DEF Holds, RunsFit, Stays, Pends
<1> QED
  BY <1>1, <1>2, <1>3 DEF Holds

LEMMA DestroySound ==
  ASSUME Inv, [Next]_vars, NEW d \in Deploys, Destroys(d)
  PROVE  Sound'
<1> DEFINE D == deploy[d]
<1>1. /\ D.pc = "destroy" /\ manifest' = manifest /\ D \in Deployment /\ Live(d)
      /\ manifest \in Recorded
  BY DEF Destroys, Inv, Typed, TypeOK, Live
<1>2. PICK gone \in SUBSET Servers :
       /\ serving' = [s \in Servers |-> IF s \in gone THEN NoVersion ELSE serving[s]]
       /\ \/ /\ gone = Servers /\ Emptied
             /\ Goes(d, "forget")
          \/ /\ \/ UNCHANGED Database
                \/ Emptied /\ slipped' = TRUE
             /\ Goes(d, "release")
  BY DEF Destroys
<1>3. Good' => Good
  BY GoodBack
<1>4. \A pc \in {"forget", "release"} : Goes(d, pc) =>
        /\ \A e \in Deploys : e # d => deploy'[e] = deploy[e]
        /\ deploy'[d] = IF pc = "release" THEN Idle("release") ELSE [D EXCEPT !.pc = "forget"]
  <2>1. ASSUME Goes(d, "forget")
        PROVE  /\ \A e \in Deploys : e # d => deploy'[e] = deploy[e]
               /\ deploy'[d] = [D EXCEPT !.pc = "forget"]
    BY <2>1, GoesTo DEF Inv
  <2>2. ASSUME Goes(d, "release")
        PROVE  /\ \A e \in Deploys : e # d => deploy'[e] = deploy[e]
               /\ deploy'[d] = Idle("release")
    BY <2>2, GoesTo DEF Inv
  <2> QED
    BY <2>1, <2>2
<1>e. ASSUME Emptied
      PROVE  Shapes' /\ row'.model = {} /\ row'.plan = NoPlan
             /\ \A r \in Deploys : run'[r].pc = "idle"
  <2>1. /\ row' = [model |-> {}, plan |-> NoPlan, phase |-> "none"]
        /\ log' = [p \in Plans |-> Runner!Unlogged(p)]
        /\ run' = [r \in Deploys |-> Runner!Resting]
    BY <1>e DEF Emptied
  <2> QED
    BY <2>1, ShapesEmpty DEF Runner!Resting
<1>5. CASE gone = Servers /\ Emptied /\ Goes(d, "forget")
  <2>1. PICK E : E = [D EXCEPT !.pc = "forget"]
    OBVIOUS
  <2>2. deploy'[d] = E /\ \A e \in Deploys : e # d => deploy'[e] = deploy[e]
    BY <1>4, <1>5, <2>1
  <2>3. E.pc = "forget" /\ E.at = D.at /\ E.man = D.man /\ E.result = D.result
    BY <1>1, <2>1, PcFields
  <2>4. Live(d)'
    BY <2>2, <2>3 DEF Live
  <2>5. ASSUME Good PROVE Follows(d, deploy[d], manifest)'
    <3>1. D.man = Nothing /\ D.at = 1 /\ D.result = "none"
      BY <1>1, <2>5, FollowsNow DEF Follows, Placed, Aside
    <3>2. PICK m : m = manifest
      OBVIOUS
    <3>3. Placed(E, m)'
      BY <2>3, <3>1 DEF Placed, Aside, Underway, Nothing, NoPending
    <3>4. Rolled(E)' /\ Owns(d, E)' /\ Stale(E, m)' /\ Opened(E, m)'
      BY <2>3 DEF Rolled, Owns, Stale, Opened, Underway
    <3>5. Holds(Nothing)'
      <4>1. (/\ row.model = {} /\ row.plan = NoPlan /\ \A s \in Servers : serving[s] = NoVersion
             /\ \A r \in Deploys : run[r].pc = "idle")'
            => Holds(Nothing)'
        BY EmptyHolds, PTL
      <4>2. \A s \in Servers : serving'[s] = NoVersion
        BY <1>2, <1>5
      <4> QED
        BY <1>e, <1>5, <4>1, <4>2
    <3>6. InForce(E, m) = Nothing
      BY <2>3 DEF InForce
    <3>7. Holds(InForce(E, m))'
      <4>1. InForce(E, m)' = Nothing'
        BY <2>3 DEF InForce
      <4> QED
        BY <3>5, <4>1
    <3>8. Follows(d, E, m)'
      BY <1>e, <1>5, <2>3, <3>3, <3>4, <3>7 DEF Follows
    <3> QED
      BY <1>1, <2>2, <3>2, <3>8
  <2> QED
    BY <1>1, <1>3, <1>e, <1>5, <2>2, <2>4, <2>5, SoundAfter
<1>6. ASSUME Goes(d, "release"), UNCHANGED Database \/ (Emptied /\ slipped' = TRUE)
      PROVE  Sound'
  <2>1. deploy'[d] = Idle("release") /\ \A e \in Deploys : e # d => deploy'[e] = deploy[e]
    BY <1>4, <1>6
  <2>2. deploy'[d].pc = "release" /\ Live(d)'
    BY <2>1, IdleIs DEF Live
  <2>3. Shapes'
    <3>1. CASE UNCHANGED Database
      BY <3>1, ShapesStay DEF Database, Inv, Sound
    <3> QED
      BY <1>e, <1>6, <3>1
  <2>4. ASSUME Good, Good' PROVE Follows(d, deploy[d], manifest)'
    <3>1. UNCHANGED Database
      BY <1>6, <2>4 DEF Good, Apart
    <3>2. PICK m : m = manifest
      OBVIOUS
    <3>3. Holds(m)
      BY <1>1, <2>4, <3>2, FollowsNow DEF Follows, InForce
    <3>4. Stays /\ run' = run
      BY <3>1 DEF Database, Stays
    <3>5. Holds(m)'
      BY <1>2, <3>3, <3>4, HoldsLess
    <3>6. Follows(d, Idle("release"), m)'
      <4>1. PICK E : E = Idle("release")
        OBVIOUS
      <4>2. Follows(d, E, m)'
        BY <3>5, <4>1, IdleIs, AsideNext
      <4>3. E = Idle("release")'
        BY <4>1 DEF Idle, Nothing, NoPending
      <4> QED
        BY <4>2, <4>3
    <3>7. deploy'[d] = Idle("release")'
      BY <2>1 DEF Idle, Nothing, NoPending
    <3> QED
      BY <1>1, <3>2, <3>6, <3>7
  <2> QED
    BY <1>1, <1>3, <2>1, <2>2, <2>3, <2>4, SoundAfter
<1> QED
  BY <1>2, <1>5, <1>6

LEMMA DiesSound ==
  ASSUME Inv, [Next]_vars, NEW d \in Deploys, Dies(d)
  PROVE  Sound'
<1>1. /\ Live(d) /\ Goes(d, "dead") /\ serving' = serving /\ manifest' = manifest
      /\ slipped' = (slipped \/ deploy[d].pc \in {"calling", "write", "fail", "forget"})
  BY DEF Dies
<1>2. ASSUME Good' PROVE deploy[d].pc \notin {"calling", "write", "fail", "forget"}
  BY <1>1, <1>2 DEF Good, Apart
<1>3. CASE UNCHANGED Database
  BY <1>1, <1>2, <1>3, ToRest
<1>4. CASE Runner!Crash(d)
  <2>1. (\A e \in Deploys : e # d => deploy'[e] = deploy[e]) /\ deploy'[d] = Idle("dead")
    BY <1>1, GoesTo DEF Inv
  <2>2. deploy'[d].pc = "dead" /\ ~ Live(d)'
    BY <2>1, IdleIs DEF Live
  <2>3. row' = row /\ log' = log /\ run' = [run EXCEPT ![d] = Runner!Resting]
    BY <1>4 DEF Runner!Crash
  <2>4. (\A q \in Deploys : q # d => run'[q] = run[q]) /\ run'[d].pc = "idle"
    BY <2>3, RunRests, InvFacts
  <2>5. Shapes'
    <3>1. \A r \in Deploys :
         /\ run'[r].pc \notin {"session", "statements"}
         /\ run'[r].pc = "end" => run'[r].left = {}
         /\ run'[r].pc # "idle" =>
              run'[r].phase \in {"expand", "contract"} /\ StepsOf(run'[r].plan, run'[r].phase) > 0
      BY <2>4 DEF Inv, Sound, Shapes
    <3> QED
      BY <2>3, <3>1 DEF Inv, Sound, Shapes, StepsOf, ExpandSteps, ContractSteps, Runner!Steps
  <2>6. ASSUME Good, Good' PROVE Holds(manifest)'
    <3>1. PICK m : m = manifest
      OBVIOUS
    <3>2. Holds(m)
      BY <1>1, <1>2, <2>6, <3>1, FollowsNow DEF Follows, InForce
    <3>3. Holds(m)'
      BY <1>1, <2>3, <2>4, <3>2, HoldsStays DEF Stays
    <3> QED
      BY <1>1, <3>1, <3>3
  <2>7. Good' => Good
    BY GoodBack
  <2> QED
    BY <1>1, <2>1, <2>2, <2>5, <2>6, <2>7, SoundAfter
<1> QED
  BY <1>3, <1>4 DEF Dies

LEMMA TakeLockSound ==
  ASSUME Inv, [Next]_vars, NEW d \in Deploys, NEW v, NEW pc \in {"plan", "destroy"},
         TakeLock(d, v, pc)
  PROVE  Sound'
<1>1. /\ deploy[d].pc = "new" /\ lock = Nobody /\ UNCHANGED Database
      /\ serving' = serving /\ manifest' = manifest
      /\ deploy \in [Deploys -> Deployment] /\ ~ Live(d)
      /\ deploy' = [deploy EXCEPT ![d] = [deploy[d] EXCEPT !.pc = pc, !.version = v]]
  BY DEF TakeLock, Creates, Inv, Typed, TypeOK, Live, Database
<1>2. PICK E : E = [deploy[d] EXCEPT !.pc = pc, !.version = v]
  OBVIOUS
<1>3. deploy'[d] = E /\ \A e \in Deploys : e # d => deploy'[e] = deploy[e]
  BY <1>1, <1>2
<1>4. deploy[d] = Idle("new")
  BY <1>1 DEF Inv, Sound
<1>5. E.pc = pc /\ E.man = Nothing /\ E.at = 1 /\ E.result = "none"
  BY <1>2, <1>4 DEF Idle
<1>6. /\ Live(d)'
      /\ \A e \in Deploys : e # d => (Live(e)' <=> Live(e))
  BY <1>3, <1>5 DEF Live
<1>7. Good' => Good
  BY GoodBack
<1>8. Good => \A e \in Deploys : ~ Live(e)
  BY <1>1, DeployAssumption DEF Good, Inv, Held, Live
<1>9. ASSUME Good PROVE Follows(d, deploy[d], manifest)'
  <2>1. PICK m : m = manifest
    OBVIOUS
  <2>2. Holds(m)
    BY <1>8, <1>9, <2>1 DEF Inv, Sound
  <2>3. Holds(m)'
    BY <1>1, <2>2, HoldsStays DEF Database, Stays
  <2>4. Follows(d, E, m)'
    BY <1>5, <2>3, AsideNext
  <2> QED
    BY <1>1, <1>3, <2>1, <2>4
<1>10. Shapes'
  BY <1>1, ShapesStay DEF Database, Inv, Sound
<1>11. \A e \in Deploys : ~ Live(e)' => deploy'[e] = Idle(deploy'[e].pc)
  BY <1>3, <1>6 DEF Inv, Sound
<1>12. Good' => \A e \in Deploys : Live(e)' => Follows(e, deploy[e], manifest)'
  BY <1>6, <1>7, <1>8, <1>9
<1> QED
  BY <1>6, <1>10, <1>11, <1>12 DEF Sound

LEMMA StillSound ==
  ASSUME Inv, [Next]_vars, UNCHANGED Database, serving' = serving, manifest' = manifest,
         deploy' = deploy
  PROVE  Sound'
<1>1. Stays /\ run' = run
  BY DEF Database, Stays
<1>2. Shapes'
  BY <1>1, ShapesStay DEF Inv, Sound, Stays
<1>3. Good' => Good
  BY GoodBack
<1>4. \A e \in Deploys : Live(e)' <=> Live(e)
  BY DEF Live
<1>5. ASSUME Good, NEW e \in Deploys, Live(e) PROVE Follows(e, deploy[e], manifest)'
  <2>1. PICK E, m : E = deploy[e] /\ m = manifest
    OBVIOUS
  <2>2. Follows(e, E, m)
    BY <1>5, <2>1 DEF Inv, Sound
  <2>3. Follows(e, E, m)'
    BY <1>1, <2>2, FollowsStays
  <2> QED
    BY <2>1, <2>3
<1>6. ASSUME Good, \A e \in Deploys : ~ Live(e) PROVE Holds(manifest)'
  <2>1. PICK m : m = manifest
    OBVIOUS
  <2>2. Holds(m)
    BY <1>6, <2>1 DEF Inv, Sound
  <2>3. Holds(m)'
    BY <1>1, <2>2, HoldsStays
  <2> QED
    BY <2>1, <2>3
<1>7. \A e \in Deploys : ~ Live(e)' => deploy'[e] = Idle(deploy'[e].pc)
  BY <1>4 DEF Inv, Sound
<1> QED
  BY <1>2, <1>3, <1>4, <1>5, <1>6, <1>7 DEF Sound

-----------------------------------------------------------------------------
(* The runs of the runner, whatever deploys they are of. *)

LEMMA PlacedStays ==
  ASSUME NEW E, NEW n
  PROVE  /\ Placed(E, n)' <=> Placed(E, n)
         /\ InForce(E, n)' = InForce(E, n)
         /\ \A phase, q : Waited(E, n, phase, q)' <=> Waited(E, n, phase, q)
<1>1. Placed(E, n)' <=> Placed(E, n)
  BY DEF Placed, CallsPending, CallsExpand, CallsContract, CallsOver, Ended, PlansFrom, Pends
<1>2. InForce(E, n)' = InForce(E, n)
  BY DEF InForce
<1>3. \A phase, q : Waited(E, n, phase, q)' <=> Waited(E, n, phase, q)
  BY DEF Waited, Pends
<1> QED
  BY <1>1, <1>2, <1>3

(* What else is waited for than the record in force has is over, or the plan  *)
(* it has starts from where that ends.                                        *)
LEMMA InForceFits ==
  ASSUME NEW D \in Deployment, NEW m \in Recorded, Placed(D, m), D.pc # "forget",
         NEW q \in Plans, NEW phase \in {"expand", "contract"},
         Waited(D, m, phase, q), NEW man, man = InForce(D, m), ~ Pends(man, phase, q)
  PROVE  \/ man.pending = NoPending
         \/ /\ Pends(man, "expand", D.plan) /\ D.plan \in Plans
            /\ D.plan.from = After(q, phase)
<1>r. \A x : Reached(x).pending = NoPending
  BY DEF Reached
<1>n. \A x : x.pending = NoPending => ~ Pends(x, phase, q)
  BY NonePends
<1>w. \/ Pends(m, phase, q) \/ Pends(D.man, phase, q)
      \/ D.pc = "calling" /\ D.todo # <<>> /\ Head(D.todo).phase = phase /\ Head(D.todo).plan = q
  BY DEF Waited
<1>e. Contract > Expand /\ Contract # Expand /\ Expand <= Expand
  BY DeployAssumption DEF Expand, Contract
<1>c. D.pc \in Underway =>
        /\ D.plan \in Plans
        /\ D.at <= Expand => D.plan.from = PlansFrom(m)
        /\ D.at > Expand => m.pending = NoPending
        /\ D.pc \in {"first", "steps"} \/ D.at \notin {Expand, Contract} => D.man = m
  BY <1>r DEF Placed
<1>p. Pends(m, phase, q) => m.pending # NoPending /\ PlansFrom(m) = After(q, phase)
  <2> SUFFICES ASSUME Pends(m, phase, q)
               PROVE  m.pending # NoPending /\ PlansFrom(m) = After(q, phase)
    OBVIOUS
  <2>1. m.pending # NoPending /\ m.pending.phase = phase /\ m.pending.plan = q
    BY PendsOne
  <2> QED
    BY <2>1, PlansFromIs
<1>1. CASE D.pc \in Aside
  <2>1. D.man = Nothing /\ D.pc # "calling" /\ man = m
    BY <1>1 DEF Placed, Aside, InForce
  <2>2. Nothing.pending = NoPending
    BY DEF Nothing
  <2> QED
    BY <1>n, <1>w, <2>1, <2>2
<1>2. CASE D.pc \in {"first", "steps"}
  <2>1. D.man = m /\ man = m
    BY <1>2, <1>c DEF InForce, Underway
  <2> QED
    BY <1>2, <1>w, <2>1
<1>3. CASE D.pc \in {"write", "fail"}
  <2>1. man = D.man /\ D.pc # "calling"
    BY <1>3 DEF InForce
  <2>2. Pends(m, phase, q) /\ D.man # m
    BY <1>w, <2>1
  <2>3. D.at = Expand
    BY <1>3, <1>c, <1>e, <1>p, <2>2 DEF Underway
  <2>4. Ended(D, m)
    BY <1>3, <2>3 DEF Placed
  <2>5. CASE D.man = Reached(After(D.plan, "expand")) \/ D.man = Reached(D.plan.to)
    BY <1>r, <2>1, <2>5
  <2>6. CASE D.man.pending \in {m.pending, [phase |-> "expand", plan |-> D.plan]}
    <3>1. D.man.pending # m.pending
      BY <2>1, <2>2 DEF Pends
    <3>2. Pends(man, "expand", D.plan)
      BY <2>1, <2>6, <3>1 DEF Pends
    <3>3. D.plan \in Plans /\ D.plan.from = PlansFrom(m)
      BY <1>3, <1>c, <1>e, <2>3 DEF Underway
    <3>4. PlansFrom(m) = After(q, phase)
      BY <1>p, <2>2
    <3> QED
      BY <3>2, <3>3, <3>4
  <2>7. D.at # Contract
    BY <1>e, <2>3
  <2>8. \/ D.man = Reached(After(D.plan, "expand")) \/ D.man = Reached(D.plan.to)
        \/ D.man.pending \in {m.pending, [phase |-> "expand", plan |-> D.plan]}
    BY <2>4, <2>7 DEF Ended
  <2> QED
    BY <2>5, <2>6, <2>8
<1>4. CASE D.pc = "calling" /\ D.todo = <<>>
  <2>1. CallsOver(D)
    BY <1>4, NothingLeft
  <2>2. man = D.man
    BY <1>4 DEF InForce
  <2> QED
    BY <1>r, <2>1, <2>2 DEF CallsOver
<1>5. CASE D.pc = "calling" /\ D.todo # <<>>
  <2> DEFINE c == Head(D.todo)
  <2>1. CASE D.result = "ok"
    <3>1. man = Reached(After(c.plan, c.phase))
      BY <1>5, <2>1, CallIs
    <3> QED
      BY <1>r, <3>1
  <2>2. CASE D.result # "ok"
    <3>1. PICK x, f, p : x = D.man.model /\ f = c.phase /\ p = c.plan
      OBVIOUS
    <3>2. man = Pending(x, f, p)
      BY <1>5, <2>2, <3>1, CallIs
    <3>3. \A g, t : Pends(man, g, t) <=> g = f /\ t = p
      BY <3>2, PendingPends
    <3>4. ~ (f = phase /\ p = q)
      BY <3>3
    <3>5. CASE CallsPending(D, m) /\ c.phase = m.pending.phase /\ c.plan = m.pending.plan
      <4>1. D.man = m
        BY <3>5 DEF CallsPending
      <4>2. Pends(m, phase, q) => m.pending.phase = phase /\ m.pending.plan = q
        BY PendsOne
      <4> QED
        BY <1>w, <3>1, <3>4, <3>5, <4>1, <4>2
    <3>6. CASE CallsExpand(D) /\ c.phase = "expand" /\ c.plan = D.plan
      <4>1. D.man.pending = NoPending /\ D.at = Expand
        BY <3>6 DEF CallsExpand
      <4>2. Pends(m, phase, q)
        BY <1>n, <1>w, <3>1, <3>4, <4>1
      <4>3. Pends(man, "expand", D.plan)
        BY <3>1, <3>3, <3>6
      <4> QED
        BY <1>5, <1>c, <1>e, <1>p, <4>1, <4>2, <4>3 DEF Underway
    <3>7. CASE CallsContract(D, m) /\ c.phase = "contract" /\ c.plan = D.plan
      <4>1. D.man = m /\ m.pending = NoPending
        BY <1>5, <1>c, <1>e, <3>7 DEF CallsContract, Underway
      <4> QED
        BY <1>n, <1>w, <3>1, <3>4, <4>1
    <3> QED
      BY <1>5, <3>5, <3>6, <3>7, CallIs
  <2> QED
    BY <2>1, <2>2
<1> QED
  BY <1>1, <1>2, <1>3, <1>4, <1>5 DEF Placed, Underway

(* A run that starts its plan, or contracts, is of the phase in force.        *)
LEMMA AwaitsInForce ==
  ASSUME RowFacts, RunFacts, Shapes, NEW r \in Deploys, run[r].pc # "idle", Moved(r),
         Reads(r) \/ Starts(r) \/ Finishes(r) \/ Closes(r), ~ Strays(r),
         NEW man,
         Awaited(run[r].plan, run[r].phase) =>
           \/ Pends(man, run[r].phase, run[r].plan)
           \/ Over(run[r].phase, run[r].plan)
  PROVE  Awaits(man, r)
<1> DEFINE p == run[r].plan
<1>1. /\ p \in Plans /\ run[r].phase \in {"expand", "contract"}
      /\ run[r].phase = "expand" => ExpandSteps(p) # 0
  BY LeftIn, PlanSteps
<1>2. CASE Starts(r)
  <2>1. /\ run[r].pc = "decide" /\ run'[r].pc = "steps" /\ run[r].phase # "contract"
        /\ row.plan # p /\ row.model = p.from /\ row' = [row EXCEPT !.plan = p, !.phase = "none"]
    BY <1>2 DEF Starts
  <2>2. row'.plan # row.plan
    BY <2>1 DEF RowFacts
  <2>3. Awaited(p, run[r].phase)
    BY <2>1, <2>2 DEF Strays
  <2>4. ~ Over(run[r].phase, p)
    BY <1>1, <2>1 DEF Over
  <2> QED
    BY <2>3, <2>4 DEF Awaits
<1>3. CASE run[r].pc = "decide" /\ run'[r].pc = "steps" /\ run[r].phase = "contract"
  <2>1. row.plan = p
    BY <1>3 DEF Reads, Starts, Finishes, Closes
  <2>2. Awaited(p, run[r].phase)
    BY <1>3 DEF Strays
  <2>3. ~ Over(run[r].phase, p)
    BY <1>3, <2>1 DEF Over
  <2> QED
    BY <2>2, <2>3 DEF Awaits
<1> QED
  BY <1>2, <1>3 DEF Awaits

LEMMA StaleMoves ==
  ASSUME RowFacts, RunFacts, Shapes, NEW r \in Deploys, run[r].pc # "idle", Moved(r),
         Reads(r) \/ Starts(r) \/ Finishes(r) \/ Closes(r),
         NEW D \in Deployment, NEW m \in Recorded, Placed(D, m), D.pc # "forget",
         NEW man \in Recorded, man = InForce(D, m), Holds(man), Awaits(man, r), Stale(D, m),
         NEW q \in Plans, NEW phase \in {"expand", "contract"}, Waited(D, m, phase, q)
  PROVE  Pends(man, phase, q) \/ Over(phase, q)'
<1> SUFFICES ASSUME ~ Pends(man, phase, q) PROVE Over(phase, q)'
  OBVIOUS
<1>1. Over(phase, q)
  BY DEF Stale
<1>2. PICK p \in Plans : p = run[r].plan
  BY LeftIn
<1>3. Stays \/ Expanding(man, p) \/ Contracting(man, p)
  BY <1>2, RowGoes
<1>4. \/ man.pending = NoPending
      \/ /\ Pends(man, "expand", D.plan) /\ D.plan \in Plans /\ D.plan.from = After(q, phase)
  BY InForceFits
<1>5. ~ Contracting(man, p)
  <2>1. ~ Pends(man, "contract", p)
    <3>1. \A f, t : Pends(man, f, t) /\ f \in {"expand", "contract"} =>
            man.pending # NoPending /\ man.pending.phase = f
      BY PendsOne
    <3> QED
      BY <1>4, <3>1
  <2> QED
    BY <2>1 DEF Contracting
<1>6. ASSUME Pends(man, "expand", p), phase = "contract", p = q PROVE FALSE
  <2>1. man.pending # NoPending /\ man.pending.plan = p
    BY <1>6, PendsOne
  <2>2. D.plan = p
    BY <1>4, <2>1, PendsOne
  <2>3. p.from = p.to
    BY <1>4, <1>6, <2>1, <2>2, PlanSteps
  <2>4. ContractSteps(p) = 0
    BY <2>3, PlanSteps
  <2> QED
    BY <1>1, <1>6, <2>4 DEF Over
<1> QED
  BY <1>1, <1>3, <1>5, <1>6, OverMoves

-----------------------------------------------------------------------------
(* A run that ends well leaves the database where its phase ends.             *)

LEMMA AdvancedAll ==
  ASSUME NEW p \in Plans, NEW done, Runner!Steps(p) \subseteq done
  PROVE  Runner!Advanced(row, p, done) = [model |-> p.to, plan |-> NoPlan, phase |-> "none"]
<1>1. [q \in Plans |-> q.to][p] = p.to
  OBVIOUS
<1> QED
  BY <1>1 DEF Runner!Advanced, Runner!Advances

(* How a run ends, but for one that fails.                                    *)
LEMMA EndsAt ==
  ASSUME RowFacts, RunFacts, Shapes, NEW r \in Deploys, Runner!Progress(r),
         run'[r].pc = "unlock", run[r].pc # "unlock", NEW p \in Plans, p = run[r].plan
  PROVE  /\ log' = log
         /\ \/ run[r].pc = "decide" /\ row' = row
            \/ run[r].pc = "steps" /\ row.plan # p /\ run[r].left # {}
            \/ /\ run[r].pc = "end"
               /\ row.plan = p =>
                    Closes(r) /\ row' = Runner!Advanced(row, p, Runner!Finished(Runner!Tables, p))
               /\ row.plan # p => row' = row
<1>t. Runner!Tables = [row |-> row, log |-> log] /\ Runner!Tables.row = row
  BY DEF Runner!Tables
<1>v. Runner!Views(r) = {Runner!Tables} /\ driver = "postgres"
  BY ViewsAre DEF RowFacts
<1>g. ASSUME NEW pc \in Places, Runner!Goes(r, pc) PROVE pc = "unlock"
  BY <1>g, RunGoes
<1>1. ~ Runner!Read(r)
  BY <1>v DEF Runner!Read
<1>2. CASE Runner!DecideReads(r)
  BY <1>2 DEF Runner!DecideReads, Runner!NoWrite
<1>3. ~ Runner!StartPlan(r)
  BY <1>g DEF Runner!StartPlan, Places
<1>4. ASSUME NEW i \in Runner!Steps(p), Runner!TransactionalReads(r, i)
      PROVE  /\ log' = log /\ run[r].pc = "steps" /\ row.plan # p /\ run[r].left # {}
  <2>1. ~ Runner!StepDone(r, i)
    BY RunTakes
  <2> QED
    BY <1>4, <1>v, <1>t, <2>1 DEF Runner!TransactionalReads, Runner!AtStep, Runner!NoWrite
<1>5. ASSUME NEW i \in Runner!Steps(p) PROVE ~ Runner!TransactionalStep(r, i)
  BY RunTakes DEF Runner!TransactionalStep
<1>6. ASSUME NEW i \in Runner!Steps(p) PROVE ~ Runner!SessionStarts(r, i)
  BY <1>v DEF Runner!SessionStarts, Runner!OutsideTx
<1>7. ~ Runner!SessionStatement(r) /\ ~ Runner!SessionEnds(r)
  <2>1. run[r].pc \in R!Places
    BY DEF RunFacts
  <2> QED
    BY <2>1 DEF Runner!SessionStatement, Runner!SessionEnds, Shapes, R!Places
<1>8. ~ Runner!StepsOver(r)
  BY <1>g DEF Runner!StepsOver, Places
<1>9. CASE Runner!EndRun(r)
  <2> DEFINE done == Runner!Finished(Runner!Tables, p)
  <2>1. /\ run[r].pc = "end" /\ log' = log
        /\ IF row.plan = p /\ Runner!Advances(row, p, done)
           THEN row' = Runner!Advanced(row, p, done) ELSE row' = row
    BY <1>9, <1>v, <1>t DEF Runner!EndRun
  <2>2. ASSUME ~ Runner!Advances(row, p, done) PROVE Runner!Advanced(row, p, done) = row
    BY <2>2 DEF Runner!Advanced, Runner!Advances
  <2> HIDE DEF done
  <2>3. row.plan = p => row' = Runner!Advanced(row, p, done)
    BY <2>1, <2>2
  <2>4. row.plan # p => row' = row
    BY <2>1
  <2>5. row.plan = p => Closes(r)
    BY <2>1, <2>3 DEF Closes, done
  <2> QED
    BY <2>1, <2>3, <2>4, <2>5 DEF done
<1>10. ~ Runner!Unlock(r)
  BY RunRests DEF Runner!Unlock
<1>11. \/ Runner!Read(r) \/ Runner!DecideReads(r) \/ Runner!StartPlan(r)
       \/ \E i \in Runner!Steps(p) :
            \/ Runner!TransactionalReads(r, i) \/ Runner!TransactionalStep(r, i)
            \/ Runner!SessionStarts(r, i)
       \/ Runner!SessionStatement(r) \/ Runner!SessionEnds(r) \/ Runner!StepsOver(r)
       \/ Runner!EndRun(r) \/ Runner!Unlock(r)
  BY DEF Runner!Progress
<1>12. CASE \E i \in Runner!Steps(p) :
            \/ Runner!TransactionalReads(r, i) \/ Runner!TransactionalStep(r, i)
            \/ Runner!SessionStarts(r, i)
  BY <1>4, <1>5, <1>6, <1>12
<1> QED
  BY <1>1, <1>2, <1>3, <1>7, <1>8, <1>9, <1>10, <1>11, <1>12

LEMMA EndsWell ==
  ASSUME RowFacts, RunFacts, Shapes, NEW r \in Deploys, Runner!Progress(r), ~ Errs(r),
         run'[r].pc = "unlock", run[r].pc \in {"decide", "steps", "end"},
         NEW p \in Plans, p = run[r].plan, NEW man, Status(man), Pends(man, run[r].phase, p)
  PROVE  /\ Settled(After(p, run[r].phase))'
         /\ run[r].phase = "expand" /\ ContractSteps(p) > 0 => row'.plan = p
<1> DEFINE phase == run[r].phase
           m == After(p, phase)
<1>1. /\ phase \in {"expand", "contract"} /\ p # NoPlan
      /\ phase = "expand" => /\ m = p.from \cup p.to /\ ExpandSteps(p) # 0
                             /\ WithinExpand(p) /\ ~ (p.to \subseteq p.from)
      /\ phase = "contract" => m = p.to
      /\ m' = m
  <2>1. /\ phase \in {"expand", "contract"} /\ p # NoPlan
        /\ phase = "expand" => ExpandSteps(p) > 0
        /\ After(p, "expand") = p.from \cup p.to /\ After(p, "contract") = p.to
        /\ ExpandSteps(p) = 0 <=> p.to \subseteq p.from
        /\ ExpandSteps(p) \in Nat
    BY LeftIn, PlanSteps
  <2>2. phase = "expand" => WithinExpand(p)
    BY DEF Status
  <2>3. phase = "expand" => ExpandSteps(p) # 0
    BY <2>1
  <2>4. m' = After(p, phase)
    <3>1. run[r].phase \in {"expand", "contract"} /\ run'[r].phase = run[r].phase
      <4>1. run[r].pc # "idle"
        OBVIOUS
      <4>2. Moved(r)
        BY <4>1, Effects
      <4> QED
        BY <2>1, <4>2 DEF Moved
    <3>2. \A f : After(p, f)' = After(p, f)
      BY PlanStays
    <3> QED
      BY <3>1, <3>2
  <2> QED
    BY <2>1, <2>2, <2>3, <2>4
<1>2. p.from \in Model /\ p.to \in Model /\ After(p, "expand") = p.from \cup p.to
      /\ After(p, "contract") = p.to
      /\ ContractSteps(p) \in Nat /\ (ContractSteps(p) = 0 <=> p.from \subseteq p.to)
  BY PlanSteps
<1> DEFINE RunEnded == /\ Settled(After(p, run[r].phase))'
                       /\ run[r].phase = "expand" /\ ContractSteps(p) > 0 => row'.plan = p
<1> SUFFICES RunEnded
  OBVIOUS
<1>3. ASSUME row'.model = m, row'.plan = NoPlan, phase = "expand" => ContractSteps(p) = 0
      PROVE  RunEnded
  BY <1>1, <1>3 DEF Settled
<1>4. ASSUME row'.model = m, row'.phase = "expanded", ~ ContractBegun(p)', row'.plan = p
      PROVE  RunEnded
  BY <1>1, <1>4 DEF Settled, Kept
<1> HIDE DEF RunEnded
<1>5. ASSUME row' = row, row.plan = NoPlan, row.model = p.to
      PROVE  row.model = m /\ (phase = "expand" => ContractSteps(p) = 0)
  <2>1. CASE phase = "contract"
    BY <1>1, <1>5, <2>1
  <2>2. CASE phase = "expand"
    <3>1. WithinExpand(p) /\ row.plan = NoPlan /\ p # NoPlan /\ row.model # p.from
      BY <1>1, <1>5, <2>2
    <3>2. ContractSteps(p) = 0
      BY <3>1 DEF WithinExpand, Settled
    <3>3. p.from \cup p.to = p.to
      BY <1>2, <3>2
    <3> QED
      BY <1>1, <1>5, <2>2, <3>2, <3>3
  <2> QED
    BY <1>1, <2>1, <2>2
<1>6. CASE run[r].pc = "decide" /\ row' = row
  <2>1. Runner!Decision(Runner!Tables, p) = "applied"
    BY <1>6 DEF Errs
  <2>2. row.plan = NoPlan /\ row.model = p.to
    BY <2>1, Decides
  <2> QED
    BY <1>3, <1>5, <1>6, <2>2
<1>7. CASE run[r].pc = "steps" /\ row.plan # p /\ run[r].left # {}
  BY <1>7 DEF RunFacts
<1>8. CASE run[r].pc = "end" /\ row.plan # p /\ row' = row
  <2>1. row.plan = NoPlan /\ row.model = p.to
    BY <1>8 DEF Errs
  <2> QED
    BY <1>3, <1>5, <1>8, <2>1
<1>9. CASE /\ run[r].pc = "end" /\ row.plan = p /\ Closes(r)
           /\ row' = Runner!Advanced(row, p, Runner!Finished(Runner!Tables, p))
  <2> DEFINE done == Runner!Finished(Runner!Tables, p)
  <2>1. run[r].left = {} /\ \A i \in Runner!PhaseSteps(p, phase) : log[p][i] = "finished"
    BY <1>9 DEF RunFacts, Shapes
  <2>2. \A i \in Runner!PhaseSteps(p, phase) : i \in Runner!Steps(p) => i \in done
    BY <2>1 DEF Runner!Finished, Runner!Tables
  <2>3. phase = "contract" => \A i \in Runner!ExpandSteps(p) : log[p][i] = "finished"
    BY <1>9 DEF RunFacts
  <2>4. CASE phase = "contract"
    <3>1. Runner!PhaseSteps(p, phase) = Runner!Steps(p) \ Runner!ExpandSteps(p)
      BY <2>4 DEF Runner!PhaseSteps
    <3>2. \A i \in Runner!Steps(p) : log[p][i] = "finished"
      BY <2>1, <2>3, <2>4, <3>1
    <3>3. Runner!Steps(p) \subseteq done
      BY <3>2 DEF Runner!Finished, Runner!Tables
    <3>4. row' = [model |-> p.to, plan |-> NoPlan, phase |-> "none"]
      BY <1>9, <3>3, AdvancedAll
    <3> QED
      BY <1>1, <1>3, <2>4, <3>4
  <2>5. CASE phase = "expand"
    <3>1. WithinExpand(p) /\ row.plan = p /\ p # NoPlan
      BY <1>1, <1>9, <2>5
    <3>2. row.phase = "expanded" => row.model = p.from \cup p.to
      BY <3>1 DEF RowFacts
    <3>3. p.from \cup p.to # p.from
      BY <1>1, <2>5
    <3>4. ~ ContractBegun(p)
      BY <3>1, <3>2, <3>3 DEF WithinExpand, Settled, Kept
    <3>5. /\ ~ ContractBegun(p)'
          /\ \/ row' = row
             \/ /\ row' = [model |-> p.to, plan |-> NoPlan, phase |-> "none"]
                /\ ContractSteps(p) = 0
             \/ row' = [model |-> p.from \cup p.to, plan |-> p, phase |-> "expanded"]
      BY <1>9, <2>5, <3>4, InExpand
    <3>6. Runner!ExpandSteps(p) \subseteq done
      <4>1. Runner!PhaseSteps(p, phase) = Runner!ExpandSteps(p)
        BY <2>5 DEF Runner!PhaseSteps
      <4> QED
        BY <2>2, <4>1, PlanOps
    <3>7. row' = row => row.phase = "expanded"
      <4>1. \/ row' = row /\ (row.phase = "none" => ~ (Runner!ExpandSteps(p) \subseteq done))
            \/ /\ Runner!Steps(p) \subseteq done
               /\ row' = [model |-> p.to, plan |-> NoPlan, phase |-> "none"]
            \/ /\ row.phase = "none" /\ ContractSteps(p) > 0
               /\ row' = [model |-> p.from \cup p.to, plan |-> p, phase |-> "expanded"]
        BY <1>9, AdvancedTo
      <4>2. row.phase \in {"none", "expanded"}
        BY DEF RowFacts, Shapes
      <4> HIDE DEF done
      <4> QED
        BY <3>1, <3>6, <4>1, <4>2
    <3>8. CASE /\ row' = [model |-> p.to, plan |-> NoPlan, phase |-> "none"]
               /\ ContractSteps(p) = 0
      <4>1. p.from \cup p.to = p.to
        BY <1>2, <3>8
      <4> QED
        BY <1>1, <1>3, <2>5, <3>8, <4>1
    <3>9. CASE row' = [model |-> p.from \cup p.to, plan |-> p, phase |-> "expanded"]
      BY <1>1, <1>4, <2>5, <3>5, <3>9
    <3>10. CASE row' = row
      BY <1>1, <1>4, <2>5, <3>1, <3>2, <3>5, <3>7, <3>10
    <3> QED
      BY <3>5, <3>8, <3>9, <3>10
  <2> QED
    BY <1>1, <2>4, <2>5
<1>10. \/ run[r].pc = "decide" /\ row' = row
       \/ run[r].pc = "steps" /\ row.plan # p /\ run[r].left # {}
       \/ /\ run[r].pc = "end"
          /\ row.plan = p => /\ Closes(r)
                             /\ row' = Runner!Advanced(row, p, Runner!Finished(Runner!Tables, p))
          /\ row.plan # p => row' = row
  <2>1. run[r].pc # "unlock"
    OBVIOUS
  <2> QED
    BY <2>1, EndsAt
<1> QED
  BY <1>6, <1>7, <1>8, <1>9, <1>10

(* The record in force is one.                                                *)
LEMMA InForceType ==
  ASSUME NEW D \in Deployment, NEW m \in Recorded, Placed(D, m)
  PROVE  InForce(D, m) \in Recorded
<1>1. D.man \in Recorded /\ Nothing \in Recorded
  BY DEF Deployment, Nothing, Recorded
<1>2. ASSUME D.pc = "calling", D.todo # <<>> PROVE InForce(D, m) \in Recorded
  <2>1. PICK c : c = Head(D.todo)
    OBVIOUS
  <2>2. /\ c \in Call
        /\ InForce(D, m) = IF D.result = "ok" THEN Reached(After(c.plan, c.phase))
                           ELSE Pending(D.man.model, c.phase, c.plan)
    BY <1>2, <2>1, CallIs
  <2>3. c.plan \in Plans /\ c.phase \in {"expand", "contract"}
    BY <2>2 DEF Call
  <2>4. PICK n : n = After(c.plan, c.phase)
    OBVIOUS
  <2>5. n \in Model
    BY <2>3, <2>4, AfterType
  <2>6. Reached(n) \in Recorded
    BY <2>5 DEF Reached, Recorded
  <2>7. PICK x : x = D.man.model
    OBVIOUS
  <2>8. x \in Model \cup {NoModel}
    BY <1>1, <2>7 DEF Recorded
  <2>9. Pending(x, c.phase, c.plan) \in Recorded
    BY <2>3, <2>8 DEF Pending, Recorded
  <2> QED
    BY <2>2, <2>4, <2>6, <2>7, <2>9
<1> QED
  BY <1>1, <1>2 DEF InForce

(* What a deploy or the manifest awaits is what the deploy that is live waits  *)
(* for, or what the manifest has.                                             *)
LEMMA AwaitedIs ==
  ASSUME NEW p, NEW phase, Awaited(p, phase), \A e \in Deploys : deploy[e].pc = "calling" => Live(e)
  PROVE  \/ Pends(manifest, phase, p)
         \/ \E e \in Deploys : Live(e) /\ Waited(deploy[e], manifest, phase, p)
<1>1. CASE manifest.pending = [phase |-> phase, plan |-> p]
  BY <1>1 DEF Pends
<1>2. ASSUME NEW e \in Deploys, Calling(e), Head(deploy[e].todo).plan = p,
             Head(deploy[e].todo).phase = phase
      PROVE  Live(e) /\ Waited(deploy[e], manifest, phase, p)
  BY <1>2 DEF Calling, Waited
<1>3. ASSUME NEW e \in Deploys, Live(e), deploy[e].man.pending = [phase |-> phase, plan |-> p]
      PROVE  Waited(deploy[e], manifest, phase, p)
  BY <1>3 DEF Waited, Pends
<1> QED
  BY <1>1, <1>2, <1>3 DEF Awaited

(* What a step of a run does, and what it leaves of the deploys.              *)
RunStep(r) ==
  /\ run[r].pc # "idle" /\ Moved(r)
  /\ Reads(r) \/ Starts(r) \/ Finishes(r) \/ Closes(r)
  /\ serving' = serving /\ manifest' = manifest

LEMMA RunStepIs ==
  ASSUME Inv, NEW r \in Deploys, RunnerMoves(r)
  PROVE  /\ RunStep(r) /\ Shapes' /\ (Good' => ~ Strays(r))
         /\ \/ /\ deploy' = deploy
               /\ ~ (run'[r].pc = "unlock" /\ run[r].pc # "unlock" /\ deploy[r].result = "running")
            \/ /\ run'[r].pc = "unlock" /\ run[r].pc # "unlock" /\ deploy[r].result = "running"
               /\ \E how \in {"ok", "err"} :
                    /\ deploy' = [deploy EXCEPT ![r].result = how]
                    /\ how = "ok" => /\ Runner!Progress(r) /\ ~ Errs(r)
                                     /\ run[r].pc \in {"decide", "steps", "end"}
<1>1. RowFacts /\ RunFacts /\ Shapes
  BY InvFacts
<1>2. /\ run[r].pc # "idle" /\ serving' = serving /\ manifest' = manifest
      /\ Runner!Progress(r) \/ Runner!Lock(r) \/ Runner!Fails(r)
  BY DEF RunnerMoves
<1>3. Moved(r) /\ (Reads(r) \/ Starts(r) \/ Finishes(r) \/ Closes(r))
  BY <1>1, <1>2, Effects
<1>4. Shapes'
  BY <1>1, <1>2, <1>3, ShapesMove
<1>5. Good' => ~ Strays(r)
  BY DEF RunnerMoves, Good, Apart
<1>6. ~ Errs(r) => run[r].pc \in {"decide", "steps", "end"}
  BY DEF Errs
<1>7. Runner!Lock(r) => run[r].pc = "lock"
  BY DEF Runner!Lock
<1>8. \/ Ends(r, TRUE)
      \/ Ends(r, Errs(r)) /\ (Runner!Progress(r) \/ Runner!Lock(r))
  BY DEF RunnerMoves
<1>9. CASE ~ (run'[r].pc = "unlock" /\ run[r].pc # "unlock" /\ deploy[r].result = "running")
  BY <1>2, <1>3, <1>4, <1>5, <1>8, <1>9 DEF Ends, RunStep
<1>10. CASE run'[r].pc = "unlock" /\ run[r].pc # "unlock" /\ deploy[r].result = "running"
  <2>1. /\ Ends(r, TRUE) => deploy' = [deploy EXCEPT ![r].result = "err"]
        /\ Ends(r, Errs(r)) /\ Errs(r) => deploy' = [deploy EXCEPT ![r].result = "err"]
        /\ Ends(r, Errs(r)) /\ ~ Errs(r) => deploy' = [deploy EXCEPT ![r].result = "ok"]
    BY <1>10 DEF Ends
  <2>2. CASE Ends(r, TRUE) \/ Errs(r)
    <3>1. deploy' = [deploy EXCEPT ![r].result = "err"]
      BY <1>8, <2>1, <2>2
    <3> QED
      BY <1>2, <1>3, <1>4, <1>5, <1>10, <3>1 DEF RunStep
  <2>3. CASE ~ Ends(r, TRUE) /\ ~ Errs(r)
    <3>1. deploy' = [deploy EXCEPT ![r].result = "ok"]
      BY <1>8, <2>1, <2>3
    <3>2. Runner!Progress(r)
      BY <1>6, <1>7, <1>8, <2>3
    <3> QED
      BY <1>2, <1>3, <1>4, <1>5, <1>6, <1>10, <2>3, <3>1, <3>2 DEF RunStep
  <2> QED
    BY <2>2, <2>3
<1> QED
  BY <1>9, <1>10

(* While no deploy is live, the manifest holds on.                            *)
LEMMA RunHolds ==
  ASSUME Inv, Good, NEW r \in Deploys, RunStep(r), ~ Strays(r), \A d \in Deploys : ~ Live(d)
  PROVE  Holds(manifest)'
<1>1. RowFacts /\ RunFacts /\ Shapes /\ Holds(manifest) /\ manifest \in Recorded
  BY InvFacts DEF Inv, Sound, Typed, TypeOK
<1>2. PICK m \in Recorded : m = manifest
  BY <1>1
<1>3. Awaited(run[r].plan, run[r].phase) =>
        \/ Pends(m, run[r].phase, run[r].plan)
        \/ Over(run[r].phase, run[r].plan)
  BY <1>2, AwaitedIs DEF Live
<1>4. Awaits(m, r)
  BY <1>1, <1>3, AwaitsInForce DEF RunStep
<1>5. Holds(m)'
  BY <1>1, <1>2, <1>4, HoldsMoves DEF RunStep
<1> QED
  BY <1>2, <1>5 DEF RunStep

(* A plan in progress stays so while the run is not of a phase in force.      *)
LEMMA OpenedMoves ==
  ASSUME RowFacts, RunFacts, Shapes, NEW r \in Deploys, RunStep(r), NEW D, NEW m, Opened(D, m),
         NEW man \in Recorded, man = InForce(D, m), Holds(man), Awaits(man, r)
  PROVE  Opened(D, m)'
<1> SUFFICES ASSUME D.pc \in Underway, ExpandSteps(D.plan) > 0, ContractSteps(D.plan) > 0,
                    InForce(D, m) = Reached(After(D.plan, "expand"))
             PROVE  row'.plan = D.plan
  BY DEF Opened, Underway, InForce, Reached, Pending, After, ExpandSteps, ContractSteps, NoPending
<1>1. row.plan = D.plan
  BY DEF Opened
<1>2. PICK p \in Plans : p = run[r].plan
  BY LeftIn DEF RunStep
<1>3. Stays \/ Expanding(man, p) \/ Contracting(man, p)
  BY <1>2, RowGoes DEF RunStep
<1>4. man.pending = NoPending
  BY DEF Reached
<1>5. ~ Pends(man, "expand", p) /\ ~ Pends(man, "contract", p)
  BY <1>4, NonePends
<1> QED
  BY <1>1, <1>3, <1>5 DEF Stays, Expanding, Contracting

(* While a deploy is, its record in force holds on, and what it waits for is   *)
(* pending or over.                                                           *)
LEMMA RunFollows ==
  ASSUME Inv, Good, NEW r \in Deploys, RunStep(r), ~ Strays(r), NEW d \in Deploys, Live(d),
         NEW D \in Deployment, D = deploy[d], NEW m \in Recorded, m = manifest
  PROVE  /\ D.pc # "forget" /\ Placed(D, m)' /\ Rolled(D)' /\ Stale(D, m)'
         /\ Opened(D, m)' /\ Holds(InForce(D, m))'
         /\ Awaits(InForce(D, m), r)
<1>1. RowFacts /\ RunFacts /\ Shapes /\ Held
  BY InvFacts
<1>2. Follows(d, D, m)
  BY FollowsNow
<1>3. D.pc # "forget"
  BY <1>2 DEF Follows, RunStep
<1>4. Placed(D, m) /\ Rolled(D) /\ Stale(D, m) /\ Holds(InForce(D, m))
  BY <1>2 DEF Follows
<1>5. PICK man \in Recorded : man = InForce(D, m)
  BY <1>4, InForceType
<1>6. Awaited(run[r].plan, run[r].phase) =>
        \/ Pends(man, run[r].phase, run[r].plan)
        \/ Over(run[r].phase, run[r].plan)
  <2> SUFFICES ASSUME Awaited(run[r].plan, run[r].phase)
               PROVE  \/ Pends(man, run[r].phase, run[r].plan)
                      \/ Over(run[r].phase, run[r].plan)
    OBVIOUS
  <2>1. Waited(D, m, run[r].phase, run[r].plan)
    <3>1. \A e \in Deploys : deploy[e].pc = "calling" => Live(e)
      BY DEF Live
    <3>2. \A e \in Deploys : Live(e) => e = d
      BY <1>1, Alone
    <3>3. \/ Pends(m, run[r].phase, run[r].plan)
          \/ \E e \in Deploys : Live(e) /\ Waited(deploy[e], m, run[r].phase, run[r].plan)
      BY <3>1, AwaitedIs
    <3>4. CASE Pends(m, run[r].phase, run[r].plan)
      BY <3>4 DEF Waited
    <3> QED
      BY <3>2, <3>3, <3>4
  <2>2. run[r].plan \in Plans /\ run[r].phase \in {"expand", "contract"}
    BY <1>1, LeftIn DEF RunStep
  <2> QED
    BY <1>3, <1>4, <1>5, <2>1, <2>2 DEF Stale
<1>7. Awaits(man, r)
  BY <1>1, <1>6, AwaitsInForce DEF RunStep
<1>8. Holds(man)'
  BY <1>1, <1>4, <1>5, <1>7, HoldsMoves DEF RunStep
<1>9. InForce(D, m)' = man
  BY <1>5, PlacedStays
<1>10. Stale(D, m)'
  <2> SUFFICES ASSUME NEW q \in Plans, NEW phase \in {"expand", "contract"},
                      Waited(D, m, phase, q)
               PROVE  (Pends(InForce(D, m), phase, q) \/ Over(phase, q))'
    BY PlacedStays DEF Stale
  <2>1. Pends(man, phase, q) \/ Over(phase, q)'
    BY <1>1, <1>3, <1>4, <1>5, <1>7, StaleMoves DEF RunStep
  <2>2. Pends(man, phase, q) => Pends(InForce(D, m), phase, q)'
    BY <1>9 DEF Pends
  <2> QED
    BY <2>1, <2>2
<1>11. Rolled(D)'
  BY <1>4 DEF Rolled, RunStep
<1>12. Placed(D, m)'
  BY <1>4, PlacedStays
<1>13. Holds(InForce(D, m))'
  BY <1>8, <1>9
<1>14. Opened(D, m)'
  BY <1>1, <1>2, <1>4, <1>5, <1>7, OpenedMoves DEF Follows
<1> QED
  BY <1>3, <1>5, <1>7, <1>10, <1>11, <1>12, <1>13, <1>14

(* A run of which no deploy awaits the end now.                               *)
LEMMA RunSame ==
  ASSUME Inv, [Next]_vars, NEW r \in Deploys, RunStep(r), Shapes', Good' => ~ Strays(r),
         deploy' = deploy,
         ~ (run'[r].pc = "unlock" /\ run[r].pc # "unlock" /\ deploy[r].result = "running")
  PROVE  Sound'
<1>1. \A d \in Deploys : Live(d)' <=> Live(d)
  BY DEF Live
<1>2. \A d \in Deploys : ~ Live(d)' => deploy'[d] = Idle(deploy'[d].pc)
  BY <1>1 DEF Inv, Sound
<1>3. ASSUME Good' PROVE Good /\ ~ Strays(r)
  BY <1>3, GoodBack
<1>4. ASSUME Good', \A d \in Deploys : ~ Live(d) PROVE Holds(manifest)'
  BY <1>3, <1>4, RunHolds
<1>5. ASSUME Good', NEW d \in Deploys, Live(d) PROVE Follows(d, deploy[d], manifest)'
  <2>1. Good /\ ~ Strays(r)
    BY <1>3, <1>5
  <2>2. deploy[d] \in Deployment /\ manifest \in Recorded
    BY DEF Inv, Typed, TypeOK
  <2>3. PICK D \in Deployment : D = deploy[d]
    BY <2>2
  <2>4. PICK m \in Recorded : m = manifest
    BY <2>2
  <2>5. /\ D.pc # "forget" /\ Placed(D, m)' /\ Rolled(D)' /\ Stale(D, m)'
        /\ Opened(D, m)' /\ Holds(InForce(D, m))'
    BY <1>5, <2>1, <2>3, <2>4, RunFollows
  <2>6. Owns(d, D)
    BY <1>5, <2>1, <2>3, FollowsNow DEF Follows
  <2>7. Owns(d, D)'
    <3> SUFFICES ASSUME D.pc = "calling", D.result = "running"
                 PROVE  /\ D.todo # <<>> /\ run'[d].pc \in {"lock", "decide", "steps", "end"}
                        /\ run'[d].phase = Head(D.todo).phase
                        /\ run'[d].plan = Head(D.todo).plan
      BY DEF Owns
    <3>1. /\ D.todo # <<>> /\ run[d].pc \in {"lock", "decide", "steps", "end"}
          /\ run[d].phase = Head(D.todo).phase /\ run[d].plan = Head(D.todo).plan
      BY <2>6 DEF Owns
    <3>2. CASE d # r
      BY <3>1, <3>2 DEF RunStep, Moved
    <3>3. CASE d = r
      BY <2>3, <3>1, <3>3 DEF RunStep, Moved, Places
    <3> QED
      BY <3>2, <3>3
  <2>8. Follows(d, D, m)'
    BY <2>5, <2>7 DEF Follows
  <2> QED
    BY <2>3, <2>4, <2>8 DEF RunStep
<1> QED
  BY <1>1, <1>2, <1>4, <1>5 DEF Sound

(* A phase that ends where it should, after the step that ends it.            *)
ClosedIs ==
  RowFacts =>
    \A p \in Plans, phase \in {"expand", "contract"}, man \in Recorded :
      Holds(man) /\ Pends(man, phase, p) /\ Settled(After(p, phase)) =>
        Over(phase, p) /\ Holds(Reached(After(p, phase)))

LEMMA ClosedAll == ClosedIs
BY Closed DEF ClosedIs

LEMMA ClosedNext ==
  ASSUME Inv, [Next]_vars, NEW p \in Plans, NEW phase \in {"expand", "contract"},
         NEW man \in Recorded, Holds(man)', Pends(man, phase, p), Settled(After(p, phase))'
  PROVE  Over(phase, p)' /\ Holds(Reached(After(p, phase)))'
<1>1. ClosedIs'
  BY ClosedAll, PTL
<1>2. R!RunnerInv'
  BY RunnerAlong DEF Inv
<1>3. R!RunnerInv' => RowFacts'
  BY RowHolding, PTL
<1>4. Plans' = Plans /\ Recorded' = Recorded
  BY DEF Plans, Recorded, NoPending
<1>5. Pends(man, phase, p)'
  BY DEF Pends
<1> QED
  BY <1>1, <1>2, <1>3, <1>4, <1>5 DEF ClosedIs

(* The end of a deploy's own run.                                             *)
LEMMA RunEnds ==
  ASSUME Inv, [Next]_vars, NEW r \in Deploys, RunStep(r), Shapes', Good' => ~ Strays(r),
         run'[r].pc = "unlock", run[r].pc # "unlock", deploy[r].result = "running",
         NEW how \in {"ok", "err"}, deploy' = [deploy EXCEPT ![r].result = how],
         how = "ok" => /\ Runner!Progress(r) /\ ~ Errs(r)
                       /\ run[r].pc \in {"decide", "steps", "end"}
  PROVE  Sound'
<1>0. Live(r)
  <2> SUFFICES ASSUME ~ Live(r) PROVE FALSE
    OBVIOUS
  <2>1. deploy[r] = Idle(deploy[r].pc)
    BY DEF Inv, Sound
  <2>2. deploy[r].result = "none"
    BY <2>1, IdleIs
  <2> QED
    BY <2>2
<1>p. PICK D \in Deployment : D = deploy[r]
  BY DEF Inv, Typed, TypeOK
<1>q. PICK c : c = Head(D.todo)
  OBVIOUS
<1>1. /\ deploy \in [Deploys -> Deployment] /\ manifest \in Recorded
      /\ deploy' = [deploy EXCEPT ![r] = [D EXCEPT !.result = how]]
  BY <1>p DEF Inv, Typed, TypeOK
<1>2. PICK E : E = [D EXCEPT !.result = how]
  OBVIOUS
<1>3. deploy'[r] = E /\ \A e \in Deploys : e # r => deploy'[e] = deploy[e]
  BY <1>1, <1>2
<1>4. /\ E.pc = D.pc /\ E.version = D.version /\ E.at = D.at /\ E.plan = D.plan
      /\ E.result = how /\ E.todo = D.todo /\ E.man = D.man
  BY <1>2 DEF Deployment
<1>5. Live(r)'
  BY <1>0, <1>p, <1>3, <1>4 DEF Live
<1>r. D.result = "running"
  BY <1>p
<1>6. ASSUME Good, Good' PROVE Follows(r, E, manifest)'
  <2>1. PICK m \in Recorded : m = manifest
    BY <1>1
  <2>2. ~ Strays(r) /\ RowFacts /\ RunFacts /\ Shapes
    BY <1>6, InvFacts
  <2>3. /\ D.pc # "forget" /\ Placed(D, m)' /\ Rolled(D)' /\ Stale(D, m)'
        /\ Opened(D, m)' /\ Holds(InForce(D, m))' /\ Awaits(InForce(D, m), r)
    BY <1>0, <1>p, <1>6, <2>1, <2>2, RunFollows
  <2>4. Follows(r, D, m)
    BY <1>0, <1>p, <1>6, <2>1, FollowsNow
  <2>5. /\ D.pc = "calling" /\ D.todo # <<>>
        /\ run[r].phase = c.phase /\ run[r].plan = c.plan
    BY <1>q, <1>r, <2>4 DEF Follows, Placed, Owns
  <2>6. /\ c \in Call /\ InForce(D, m) = Pending(D.man.model, c.phase, c.plan)
        /\ c.runs
    BY <1>q, <1>r, <2>4, <2>5, CallIs DEF Follows
  <2>7. /\ Placed(E, m) /\ Rolled(E)
        /\ how # "ok" => InForce(E, m) = InForce(D, m)
        /\ how = "ok" => InForce(E, m) = Reached(After(c.plan, c.phase))
    BY <1>q, <1>4, <1>r, <2>4, <2>5, <2>6, ResultGoes
  <2>8. Placed(E, m)' /\ Rolled(E)'
    BY <2>7, PlacedStays DEF Rolled, RunStep
  <2>9. Owns(r, E)'
    BY <1>4 DEF Owns
  <2>10. \A phase, q : Waited(E, m, phase, q) <=> Waited(D, m, phase, q)
    BY <1>4 DEF Waited
  <2>11. CASE how = "err"
    <3>1. InForce(E, m) = InForce(D, m)
      BY <2>7, <2>11
    <3>2. InForce(E, m)' = InForce(D, m)'
      BY <3>1, PlacedStays
    <3>3. Holds(InForce(E, m))'
      BY <2>3, <3>2
    <3>4. Stale(E, m)'
      BY <1>4, <2>3, <2>10, <3>2, PlacedStays DEF Stale
    <3>5. Opened(E, m)'
      BY <1>4, <2>3, <3>2 DEF Opened, Underway, After, ExpandSteps, ContractSteps, Reached,
           NoPending
    <3> QED
      BY <1>4, <2>1, <2>3, <2>8, <2>9, <3>3, <3>4, <3>5 DEF Follows, RunStep
  <2>12. CASE how = "ok"
    <3>1. PICK x, f, p, man : x = D.man.model /\ f = c.phase /\ p = c.plan
                              /\ man = Pending(x, f, p)
      OBVIOUS
    <3>2. /\ p \in Plans /\ f \in {"expand", "contract"} /\ x \in Model \cup {NoModel}
      BY <2>6, <3>1 DEF Call, Deployment, Recorded
    <3>3. man \in Recorded
      BY <3>1, <3>2 DEF Pending, Recorded
    <3>4. \A g, q : Pends(man, g, q) <=> g = f /\ q = p
      BY <3>1, PendingPends
    <3>5. InForce(D, m) = man /\ InForce(D, m)' = man
      BY <2>6, <3>1, PlacedStays
    <3>6. Holds(man) /\ Holds(man)'
      BY <2>3, <2>4, <3>5 DEF Follows
    <3>7. run[r].phase = f /\ run[r].plan = p
      BY <2>5, <3>1
    <3>8. /\ Settled(After(p, f))'
          /\ f = "expand" /\ ContractSteps(p) > 0 => row'.plan = p
      <4>1. Runner!Progress(r) /\ ~ Errs(r) /\ run[r].pc \in {"decide", "steps", "end"}
        BY <2>12
      <4>2. Status(man) /\ Pends(man, run[r].phase, p)
        BY <3>4, <3>6, <3>7 DEF Holds
      <4>3. /\ Settled(After(p, run[r].phase))'
            /\ run[r].phase = "expand" /\ ContractSteps(p) > 0 => row'.plan = p
        BY <2>2, <3>2, <3>7, <4>1, <4>2, EndsWell
      <4>4. run'[r].phase = run[r].phase
        BY DEF RunStep, Moved
      <4>5. After(p, run[r].phase)' = After(p, f)'
        BY <3>7, <4>4 DEF After
      <4> QED
        BY <3>7, <4>3, <4>5 DEF Settled
    <3>9. Over(f, p)' /\ Holds(Reached(After(p, f)))'
      BY <3>2, <3>3, <3>4, <3>6, <3>8, ClosedNext
    <3>10. InForce(E, m)' = Reached(After(p, f))'
      <4>1. InForce(E, m) = Reached(After(p, f))
        BY <2>7, <2>12, <3>1
      <4>2. Reached(After(p, f))' = Reached(After(p, f))
        BY <3>2, PlanStays DEF Reached, NoPending
      <4> QED
        BY <4>1, <4>2, PlacedStays
    <3>11. Holds(InForce(E, m))'
      BY <3>9, <3>10
    <3>12. Stale(E, m)'
      <4> SUFFICES ASSUME NEW q \in Plans, NEW phase \in {"expand", "contract"},
                          Waited(E, m, phase, q)
                   PROVE  Over(phase, q)'
        BY PlacedStays DEF Stale
      <4>1. Pends(InForce(D, m), phase, q)' \/ Over(phase, q)'
        BY <2>3, <2>10, PlacedStays DEF Stale
      <4>2. Pends(InForce(D, m), phase, q)' => phase = f /\ q = p
        <5>1. Pends(InForce(D, m), phase, q)' => Pends(man, phase, q)
          BY <3>5 DEF Pends
        <5> QED
          BY <3>4, <5>1
      <4> QED
        BY <3>9, <4>1, <4>2
    <3>13. Opened(E, m)'
      <4> SUFFICES ASSUME ExpandSteps(D.plan) > 0, ContractSteps(D.plan) > 0,
                          InForce(E, m)' = Reached(After(D.plan, "expand"))'
                   PROVE  row'.plan = D.plan
        BY <1>4 DEF Opened, Underway, After, ExpandSteps, ContractSteps
      <4>1. Reached(After(p, f))' = Reached(After(D.plan, "expand"))'
        BY <3>10
      <4>2. After(c.plan, c.phase) = After(D.plan, "expand")
        BY <3>1, <4>1 DEF Reached, After
      <4>3. c.phase = "expand" /\ c.plan = D.plan
        BY <1>q, <2>4, <2>5, <4>2, ItsExpand DEF Follows
      <4> QED
        BY <3>1, <3>8, <4>3
    <3> QED
      BY <1>4, <2>1, <2>3, <2>8, <2>9, <3>11, <3>12, <3>13 DEF Follows, RunStep
  <2> QED
    BY <2>11, <2>12
<1>7. Good /\ Good' /\ Live(r)' => Follows(r, deploy[r], manifest)'
  BY <1>3, <1>6
<1> QED
  BY <1>0, <1>3, <1>5, <1>7, GoodBack, SoundAfter

LEMMA RunSound ==
  ASSUME Inv, [Next]_vars, NEW r \in Deploys, RunnerMoves(r)
  PROVE  Sound'
BY RunStepIs, RunSame, RunEnds

-----------------------------------------------------------------------------
(* The invariant is inductive. *)

LEMMA SoundStep == Inv /\ [Next]_vars => Sound'
<1> SUFFICES ASSUME Inv, [Next]_vars PROVE Sound'
  OBVIOUS
<1>1. ASSUME NEW d \in Deploys, Moves(d) PROVE Sound'
  <2>1. CASE ReleaseReads(d) \/ Releases(d) \/ ReleaseLeaves(d)
    BY <2>1, ReleaseSound
  <2>2. CASE Refused(d) \/ WriteFailure(d) \/ WriteFails(d) \/ DeleteManifest(d)
    BY <2>2, ReturnSound
  <2>3. CASE Write(d)
    <3>1. CASE deploy[d].at = LastStep
      BY <2>3, <3>1, ReturnSound
    <3>2. CASE deploy[d].at # LastStep
      BY <2>3, <3>2, WriteSound
    <3> QED
      BY <3>1, <3>2
  <2>4. CASE Prepare(d) \/ Migrate(d) \/ Skip(d) \/ Returned(d)
    BY <2>4, PrepareSound, MigrateSound, SkipSound, ReturnedSound
  <2>5. CASE WriteFirst(d) \/ OtherStep(d) \/ Migrated(d)
    BY <2>5, OnSound
  <2>6. CASE Rollout(d) \/ CallRunner(d) \/ CallLost(d) \/ Destroys(d)
    BY <2>6, RolloutSound, CallSound, DestroySound
  <2> QED
    BY <1>1, <2>1, <2>2, <2>3, <2>4, <2>5, <2>6 DEF Moves
<1>2. ASSUME NEW d \in Deploys, NEW v, NEW pc \in {"plan", "destroy"}, TakeLock(d, v, pc)
      PROVE  Sound'
  BY <1>2, TakeLockSound
<1>3. ASSUME NEW d \in Deploys, RunnerMoves(d) \/ Dies(d) PROVE Sound'
  BY <1>3, RunSound, DiesSound
<1>4. ASSUME NEW p \in Persons, PersonConfirms(p) \/ PersonUnlocks(p) PROVE Sound'
  <2>1. UNCHANGED Database /\ serving' = serving /\ manifest' = manifest /\ deploy' = deploy
    BY <1>4 DEF PersonConfirms, PersonUnlocks, Database
  <2> QED
    BY <2>1, StillSound
<1>5. ASSUME UNCHANGED vars PROVE Sound'
  <2>1. UNCHANGED Database /\ serving' = serving /\ manifest' = manifest /\ deploy' = deploy
    BY <1>5 DEF vars, runner, Database
  <2> QED
    BY <2>1, StillSound
<1> QED
  BY <1>1, <1>2, <1>3, <1>4, <1>5 DEF Next

LEMMA InvHolds == Spec => []Inv
<1>1. Init => Inv
  BY TypeInit, HeldInit, RunnerOfInit, SoundInit DEF Inv
<1>2. Inv /\ [Next]_vars => Inv'
  BY TypeStep, HeldStep, RunnerAlong, SoundStep DEF Inv
<1> QED
  BY <1>1, <1>2, PTL DEF Spec

-----------------------------------------------------------------------------
(* Where the schema is. *)

LEMMA AtPlaces ==
  ASSUME NEW p \in Plans
  PROVE  /\ Runner!At(p, 0) = <<"at", p.from>>
         /\ Runner!At(p, ExpandSteps(p)) = <<"at", p.from \cup p.to>>
         /\ Runner!At(p, ExpandSteps(p) + ContractSteps(p)) = <<"at", p.to>>
<1> DEFINE E == ExpandSteps(p)
           C == ContractSteps(p)
<1>1. /\ p.from \in Model /\ p.to \in Model /\ E \in Nat /\ C \in Nat
      /\ E = 0 <=> p.to \subseteq p.from
      /\ C = 0 <=> p.from \subseteq p.to
  BY PlanSteps
<1>2. p.from \cup p.to \in Model /\ p.from \cup p.to # NoModel
  BY <1>1, DeployAssumption DEF Model
<1> HIDE DEF E, C
<1>3. \A n : Runner!At(p, n) =
        CASE n = 0 -> <<"at", p.from>>
          [] n # 0 /\ n = E + C -> <<"at", p.to>>
          [] /\ n \notin {0, E + C} /\ n = E
             /\ (IF C > 0 THEN p.from \cup p.to ELSE NoModel) # NoModel
               -> <<"at", IF C > 0 THEN p.from \cup p.to ELSE NoModel>>
          [] OTHER -> <<"in", p, n>>
  BY DEF Runner!At, E, C
<1>4. Runner!At(p, 0) = <<"at", p.from>>
  BY <1>3
<1>5. Runner!At(p, E) = <<"at", p.from \cup p.to>>
  <2>1. CASE E = 0
    <3>1. p.from \cup p.to = p.from
      BY <1>1, <2>1
    <3> QED
      BY <1>4, <2>1, <3>1
  <2>2. CASE E # 0 /\ C = 0
    <3>1. p.from \cup p.to = p.to
      BY <1>1, <2>2
    <3>2. E + C = E
      BY <1>1, <2>2
    <3> QED
      BY <1>3, <2>2, <3>1, <3>2
  <2>3. CASE E # 0 /\ C # 0
    <3>1. E + C # E /\ C > 0
      BY <1>1, <2>3
    <3> QED
      BY <1>2, <1>3, <2>3, <3>1
  <2> QED
    BY <2>1, <2>2, <2>3
<1>6. Runner!At(p, E + C) = <<"at", p.to>>
  <2>1. CASE E + C = 0
    <3>1. E = 0 /\ C = 0
      BY <1>1, <2>1
    <3>2. p.from = p.to
      BY <1>1, <3>1
    <3> QED
      BY <1>4, <2>1, <3>2
  <2>2. CASE E + C # 0
    BY <1>3, <2>2
  <2> QED
    BY <2>1, <2>2
<1> QED
  BY <1>4, <1>5, <1>6 DEF E, C

LEMMA AtBetween ==
  ASSUME NEW p \in Plans, NEW n,
         n \notin {0, ExpandSteps(p), ExpandSteps(p) + ContractSteps(p)}
  PROVE  Runner!At(p, n) = <<"in", p, n>>
BY DEF Runner!At

(* What the schema surely has, where the steps of a plan have got to.         *)
LEMMA CertainAt ==
  ASSUME NEW p \in Plans, NEW n \in 0..ExpandSteps(p) + ContractSteps(p), schema = Runner!At(p, n)
  PROVE  /\ n <= ExpandSteps(p) => p.from \subseteq Certain
         /\ n >= ExpandSteps(p) => p.to \subseteq Certain
<1> DEFINE E == ExpandSteps(p)
           C == ContractSteps(p)
<1>1. /\ E \in Nat /\ C \in Nat
      /\ E = 0 <=> p.to \subseteq p.from
      /\ C = 0 <=> p.from \subseteq p.to
  BY PlanSteps
<1>2. ASSUME NEW m, schema = <<"at", m>> PROVE Certain = m
  BY <1>2 DEF Certain
<1>3. CASE n = 0
  <2>1. Certain = p.from
    BY <1>2, <1>3, AtPlaces
  <2>2. n >= E => E = 0
    BY <1>1, <1>3
  <2> QED
    BY <1>1, <2>1, <2>2
<1>4. CASE n = E
  <2>1. Certain = p.from \cup p.to
    BY <1>2, <1>4, AtPlaces
  <2> QED
    BY <2>1
<1>5. CASE n = E + C
  <2>1. Certain = p.to
    BY <1>2, <1>5, AtPlaces
  <2>2. n <= E => C = 0
    BY <1>1, <1>5
  <2> QED
    BY <1>1, <2>1, <2>2
<1>6. CASE n \notin {0, E, E + C}
  <2>1. schema = <<"in", p, n>>
    BY <1>6, AtBetween
  <2>2. Certain = IF n <= E THEN p.from ELSE p.to
    BY <2>1 DEF Certain
  <2>3. n >= E => ~ (n <= E)
    BY <1>1, <1>6
  <2> QED
    BY <2>2, <2>3
<1> QED
  BY <1>3, <1>4, <1>5, <1>6

LEMMA SettledAt ==
  ASSUME R!RunnerInv, NEW m, Settled(m)
  PROVE  schema = <<"at", m>>
<1>1. row.plan = NoPlan \/ (row.phase = "expanded" /\ ~ R!ContractStarted(R!Tables))
  <2>1. RowFacts
    BY RowHolding
  <2>2. row.plan \in Plans => (R!ContractStarted(R!Tables) => ContractBegun(row.plan))
    BY PlanOps DEF R!ContractStarted, R!Tables, ContractBegun
  <2> QED
    BY <2>1, <2>2 DEF Settled, Kept, RowFacts
<1>2. schema = <<"at", row.model>>
  BY <1>1, RunnerAssumption, R!Recorded DEF R!RecordedModelHeld
<1> QED
  BY <1>2 DEF Settled

(* How far the plan in progress has got.                                      *)
LEMMA PlaceIs ==
  ASSUME R!RunnerInv, Shapes, NEW p \in Plans, row.plan = p
  PROVE  \E n \in 0..ExpandSteps(p) + ContractSteps(p) :
           /\ schema = Runner!At(p, n)
           /\ ~ ContractBegun(p) => n <= ExpandSteps(p)
           /\ row.phase = "expanded" => n >= ExpandSteps(p)
<1>1. RowFacts /\ p # NoPlan /\ ExpandSteps(p) \in Nat /\ ContractSteps(p) \in Nat
  BY RowHolding, PlanSteps
<1>2. PICK n \in 0..ExpandSteps(p) + ContractSteps(p) : R!PlacedAt(p, n)
  BY <1>1 DEF R!RunnerInv, R!TablesHold, R!InPlace
<1>3. /\ Runner!Steps(p) = 1..ExpandSteps(p) + ContractSteps(p)
      /\ Runner!ExpandSteps(p) = 1..ExpandSteps(p)
      /\ R!Steps(p) = Runner!Steps(p)
  BY PlanOps
<1>4. \A i \in Runner!Steps(p) : /\ i <= n => log[p][i] = "finished"
                                 /\ i > n => log[p][i] # "finished"
  BY <1>2, <1>3 DEF R!PlacedAt
<1>5. schema = Runner!At(p, n)
  <2>1. ~ (n + 1 \in R!Steps(p) /\ log[p][n + 1] = "started")
    BY <1>3 DEF Shapes
  <2>2. R!At(p, n) = Runner!At(p, n)
    BY DEF R!At, Runner!At
  <2> QED
    BY <1>2, <2>1, <2>2 DEF R!PlacedAt
<1>6. ASSUME ~ (n <= ExpandSteps(p)) PROVE ContractBegun(p)
  <2>1. n \in Runner!Steps(p) /\ n \notin Runner!ExpandSteps(p) /\ n <= n
    BY <1>1, <1>2, <1>3, <1>6
  <2>2. log[p][n] = "finished"
    BY <1>4, <2>1
  <2> QED
    BY <2>1, <2>2 DEF ContractBegun
<1>7. ASSUME row.phase = "expanded" PROVE n >= ExpandSteps(p)
  <2> SUFFICES ASSUME ~ (n >= ExpandSteps(p)) PROVE FALSE
    OBVIOUS
  <2>1. n + 1 \in Runner!Steps(p) /\ n + 1 \in Runner!ExpandSteps(p) /\ n + 1 > n
    BY <1>1, <1>2, <1>3
  <2>2. log[p][n + 1] = "finished"
    BY <1>1, <1>7, <2>1 DEF RowFacts
  <2> QED
    BY <1>4, <2>1, <2>2
<1> QED
  BY <1>2, <1>5, <1>6, <1>7

(* A record that holds says where the schema is.                              *)
LEMMA WhereIs ==
  ASSUME R!RunnerInv, Shapes, NEW man, Status(man)
  PROVE  /\ man.pending = NoPending => schema = <<"at", ModelOf(man)>>
         /\ \A p \in Plans : Pends(man, "expand", p) =>
              \E n \in 0..ExpandSteps(p) : schema = Runner!At(p, n)
         /\ \A p \in Plans : Pends(man, "contract", p) =>
              \E n \in ExpandSteps(p)..ExpandSteps(p) + ContractSteps(p) : schema = Runner!At(p, n)
<1>1. man.pending = NoPending => schema = <<"at", ModelOf(man)>>
  BY SettledAt DEF Status
<1>2. ASSUME NEW p \in Plans
      PROVE  /\ ExpandSteps(p) \in Nat /\ ContractSteps(p) \in Nat
             /\ ContractSteps(p) = 0 => p.from \subseteq p.to
             /\ After(p, "expand") = p.from \cup p.to
  BY PlanSteps
<1>3. ASSUME NEW p \in Plans, Pends(man, "expand", p)
      PROVE  \E n \in 0..ExpandSteps(p) : schema = Runner!At(p, n)
  <2>1. WithinExpand(p)
    BY <1>3 DEF Status
  <2>2. CASE Settled(p.from)
    <3>1. schema = Runner!At(p, 0)
      BY <2>2, SettledAt, AtPlaces
    <3>2. 0 \in 0..ExpandSteps(p)
      BY <1>2
    <3> QED
      BY <3>1, <3>2
  <2>3. CASE row.plan = p /\ ~ ContractBegun(p)
    <3>1. PICK n \in 0..ExpandSteps(p) + ContractSteps(p) :
            schema = Runner!At(p, n) /\ n <= ExpandSteps(p)
      BY <2>3, PlaceIs
    <3>2. n \in 0..ExpandSteps(p)
      BY <1>2, <3>1
    <3> QED
      BY <3>1, <3>2
  <2>4. CASE row.plan = NoPlan /\ row.model = p.to /\ ContractSteps(p) = 0
    <3>0. p.from \cup p.to = p.to
      BY <1>2, <2>4
    <3>1. schema = Runner!At(p, ExpandSteps(p))
      BY <2>4, <3>0, SettledAt, AtPlaces DEF Settled
    <3>2. ExpandSteps(p) \in 0..ExpandSteps(p)
      BY <1>2
    <3> QED
      BY <3>1, <3>2
  <2> QED
    BY <2>1, <2>2, <2>3, <2>4 DEF WithinExpand
<1>4. ASSUME NEW p \in Plans, Pends(man, "contract", p)
      PROVE  \E n \in ExpandSteps(p)..ExpandSteps(p) + ContractSteps(p) : schema = Runner!At(p, n)
  <2>1. WithinContract(p)
    BY <1>4 DEF Status
  <2>2. CASE ExpandSteps(p) = 0 /\ Settled(p.from)
    <3>1. schema = Runner!At(p, 0)
      BY <2>2, SettledAt, AtPlaces
    <3>2. 0 \in ExpandSteps(p)..ExpandSteps(p) + ContractSteps(p)
      BY <1>2, <2>2
    <3> QED
      BY <3>1, <3>2
  <2>3. CASE row.plan = p /\ row.phase = "expanded"
    <3>1. PICK n \in 0..ExpandSteps(p) + ContractSteps(p) :
            schema = Runner!At(p, n) /\ n >= ExpandSteps(p)
      BY <2>3, PlaceIs
    <3>2. n \in ExpandSteps(p)..ExpandSteps(p) + ContractSteps(p)
      BY <1>2, <3>1
    <3> QED
      BY <3>1, <3>2
  <2>4. CASE row.plan = NoPlan /\ row.model = p.to
    <3>1. schema = Runner!At(p, ExpandSteps(p) + ContractSteps(p))
      BY <2>4, SettledAt, AtPlaces DEF Settled
    <3>2. ExpandSteps(p) + ContractSteps(p) \in ExpandSteps(p)..ExpandSteps(p) + ContractSteps(p)
      BY <1>2
    <3> QED
      BY <3>1, <3>2
  <2> QED
    BY <2>1, <2>2, <2>3, <2>4 DEF WithinContract
<1> QED
  BY <1>1, <1>3, <1>4

(* What the record in force has the servers use, the schema surely has.       *)
LEMMA FloorIn ==
  ASSUME R!RunnerInv, Shapes, NEW man \in Recorded, Status(man)
  PROVE  Floor(man) \subseteq Certain
<1>1. ASSUME NEW m, schema = <<"at", m>> PROVE Certain = m
  BY <1>1 DEF Certain
<1>2. CASE man.pending = NoPending
  BY <1>1, <1>2, WhereIs DEF Floor
<1>3. ASSUME NEW p \in Plans, Pends(man, "expand", p) PROVE Floor(man) \subseteq Certain
  <2>1. PICK n \in 0..ExpandSteps(p) : schema = Runner!At(p, n)
    BY <1>3, WhereIs
  <2>2. n \in 0..ExpandSteps(p) + ContractSteps(p) /\ n <= ExpandSteps(p)
    BY <2>1, PlanSteps
  <2>3. Floor(man) = p.from
    BY <1>3, PendsOne DEF Floor
  <2> QED
    BY <2>1, <2>2, <2>3, CertainAt
<1>4. ASSUME NEW p \in Plans, Pends(man, "contract", p) PROVE Floor(man) \subseteq Certain
  <2>1. PICK n \in ExpandSteps(p)..ExpandSteps(p) + ContractSteps(p) : schema = Runner!At(p, n)
    BY <1>4, WhereIs
  <2>2. n \in 0..ExpandSteps(p) + ContractSteps(p) /\ n >= ExpandSteps(p)
    BY <2>1, PlanSteps
  <2>3. Floor(man) = p.to
    <3>1. man.pending # NoPending /\ man.pending.phase = "contract" /\ man.pending.plan = p
      BY <1>4, PendsOne
    <3> QED
      BY <3>1 DEF Floor
  <2> QED
    BY <2>1, <2>2, <2>3, CertainAt
<1> QED
  BY <1>2, <1>3, <1>4, PendsOf

(* Through deploys that fail or die at any step, are retried, roll back or     *)
(* leave runs behind, every server finds the columns its version uses: no     *)
(* contract step runs before the last server that needs its column is gone.   *)
THEOREM ServersStayServed == Spec => [](Apart => ServersServed)
<1>1. Inv => (Apart => ServersServed)
  <2> SUFFICES ASSUME Inv, Good PROVE \A s \in Servers : serving[s] # NoVersion =>
                                        Uses[serving[s]] \subseteq Certain
    BY DEF ServersServed, Good, Apart
  <2>1. \E man \in Recorded : Holds(man)
    <3>1. CASE \A d \in Deploys : ~ Live(d)
      BY <3>1 DEF Inv, Sound, Typed, TypeOK
    <3>2. ASSUME NEW d \in Deploys, Live(d) PROVE \E man \in Recorded : Holds(man)
      <4>1. /\ Follows(d, deploy[d], manifest) /\ deploy[d] \in Deployment
            /\ manifest \in Recorded
        BY <3>2, FollowsNow
      <4>2. InForce(deploy[d], manifest) \in Recorded
        BY <4>1, InForceType DEF Follows
      <4> QED
        BY <4>1, <4>2 DEF Follows
    <3> QED
      BY <3>1, <3>2
  <2>2. PICK man \in Recorded : Holds(man)
    BY <2>1
  <2>3. Floor(man) \subseteq Certain
    BY <2>2, FloorIn DEF Holds, Inv, Sound
  <2> QED
    BY <2>2, <2>3 DEF Holds, Served
<1> QED
  BY <1>1, InvHolds, PTL

(* While no deploy runs, the next one plans from where the database is: the   *)
(* manifest has its model, or the phase it is within.                         *)
THEOREM ManifestIsRight == Spec => [](Apart => ManifestHolds)
<1>1. Inv => (Apart => ManifestHolds)
  <2> SUFFICES ASSUME Inv, Good, \A d \in Deploys : ~ Live(d)
               PROVE  LET p == manifest.pending.plan IN
                      CASE manifest.pending # NoPending /\ manifest.pending.phase = "expand" ->
                             \E n \in 0..ExpandSteps(p) : schema = Runner!At(p, n)
                        [] manifest.pending # NoPending /\ manifest.pending.phase = "contract" ->
                             \E n \in ExpandSteps(p)..ExpandSteps(p) + ContractSteps(p) :
                               schema = Runner!At(p, n)
                        [] manifest.pending = NoPending /\ manifest.model = NoModel ->
                             schema = <<"at", {}>>
                        [] OTHER -> schema = <<"at", manifest.model>>
    BY DEF ManifestHolds, Good, Apart
  <2>1. R!RunnerInv /\ Shapes /\ Status(manifest) /\ manifest \in Recorded
    BY DEF Inv, Sound, Typed, TypeOK, Holds
  <2>2. CASE manifest.pending = NoPending
    BY <2>1, <2>2, WhereIs DEF ModelOf
  <2>3. ASSUME NEW p \in Plans, Pends(manifest, "expand", p)
        PROVE  /\ manifest.pending # NoPending /\ manifest.pending.phase = "expand"
               /\ manifest.pending.plan = p
               /\ \E n \in 0..ExpandSteps(p) : schema = Runner!At(p, n)
    BY <2>1, <2>3, WhereIs, PendsOne
  <2>4. ASSUME NEW p \in Plans, Pends(manifest, "contract", p)
        PROVE  /\ manifest.pending # NoPending /\ manifest.pending.phase = "contract"
               /\ manifest.pending.plan = p
               /\ \E n \in ExpandSteps(p)..ExpandSteps(p) + ContractSteps(p) :
                    schema = Runner!At(p, n)
    BY <2>1, <2>4, WhereIs, PendsOne
  <2>5. CASE \E p \in Plans : Pends(manifest, "expand", p)
    BY <2>3, <2>5
  <2>6. CASE \E p \in Plans : Pends(manifest, "contract", p)
    BY <2>4, <2>6
  <2> QED
    BY <2>1, <2>2, <2>5, <2>6, PendsOf
<1> QED
  BY <1>1, InvHolds, PTL

-----------------------------------------------------------------------------
(* Which calls the runner takes. *)

LEMMA DecisionIs ==
  ASSUME RowFacts, NEW p \in Plans
  PROVE  Runner!Decision(Runner!Tables, p) =
           CASE row.plan = p -> "resume"
             [] row.plan = NoPlan /\ row.model = p.to /\ p.to # p.from -> "applied"
             [] /\ row.plan \notin {p, NoPlan} /\ row.phase = "expanded"
                /\ row.model = p.from /\ ~ ContractBegun(row.plan) -> "supersede"
             [] row.plan = NoPlan /\ row.model = p.from -> "start"
             [] OTHER -> "refuse"
<1> DEFINE how == Runner!Decision(Runner!Tables, p)
           begun == Runner!ContractStarted(Runner!Tables)
<1>1. [q \in Plans |-> q.from][p] = p.from /\ [q \in Plans |-> q.to][p] = p.to
  OBVIOUS
<1>2. Runner!Tables.row = row /\ Runner!Tables.log = log
  BY DEF Runner!Tables
<1>3. how =
        CASE row.plan = p -> "resume"
          [] row.plan = NoPlan /\ row.model = p.to /\ p.to # p.from -> "applied"
          [] row.plan \notin {p, NoPlan} /\ (row.plan # NoPlan /\ row.phase = "expanded"
               /\ row.model = p.from) /\ ~ begun -> "supersede"
          [] row.plan = NoPlan /\ row.model = p.from -> "start"
          [] OTHER -> "refuse"
  BY <1>1, <1>2 DEF Runner!Decision
<1>4. begun <=> ContractBegun(row.plan)
  BY <1>2 DEF Runner!ContractStarted, ContractBegun
<1> HIDE DEF how, begun
<1>5. how =
        CASE row.plan = p -> "resume"
          [] row.plan = NoPlan /\ row.model = p.to /\ p.to # p.from -> "applied"
          [] /\ row.plan \notin {p, NoPlan} /\ row.phase = "expanded"
             /\ row.model = p.from /\ ~ ContractBegun(row.plan) -> "supersede"
          [] row.plan = NoPlan /\ row.model = p.from -> "start"
          [] OTHER -> "refuse"
  BY <1>3, <1>4
<1> QED
  BY <1>5 DEF how

(* An expand phase in force is resumed, started, in place of a pending        *)
(* contract or not, or over.                                                  *)
LEMMA TakesExpand ==
  ASSUME RowFacts, NEW p \in Plans, WithinExpand(p), ExpandSteps(p) > 0
  PROVE  Runner!Decision(Runner!Tables, p) # "refuse"
<1>1. p.to # p.from
  BY PlanSteps
<1>2. CASE Settled(p.from)
  <2>1. CASE row.plan = NoPlan
    BY <1>2, <2>1, DecisionIs DEF Settled
  <2>2. CASE row.plan \notin {p, NoPlan}
    BY <1>2, <2>2, DecisionIs DEF Settled, Kept
  <2>3. CASE row.plan = p
    BY <2>3, DecisionIs
  <2> QED
    BY <2>1, <2>2, <2>3
<1>3. CASE row.plan = p
  BY <1>3, DecisionIs
<1>4. CASE row.plan = NoPlan /\ row.model = p.to
  BY <1>1, <1>4, DecisionIs
<1> QED
  BY <1>2, <1>3, <1>4 DEF WithinExpand

(* A contract phase in force finds its plan expanded, or is over, unless the  *)
(* plan has no expand phase: then it finds another plan, or none, in progress. *)
LEMMA TakesContract ==
  ASSUME RowFacts, Shapes, NEW p \in Plans, WithinContract(p), ContractSteps(p) > 0
  PROVE  LET how == Runner!Decision(Runner!Tables, p) IN
         /\ ExpandSteps(p) > 0 =>
              /\ how # "refuse"
              /\ how = "applied" \/ Runner!ContractAllowed(Runner!Tables, p)
         /\ ExpandSteps(p) = 0 =>
              how # "applied" /\ ~ Runner!ContractAllowed(Runner!Tables, p)
<1> DEFINE how == Runner!Decision(Runner!Tables, p)
           allowed == Runner!ContractAllowed(Runner!Tables, p)
<1>1. p # NoPlan /\ p.to # p.from
  BY PlanSteps
<1>2. allowed <=> /\ how = "resume"
                  /\ Runner!ExpandSteps(p) \subseteq Runner!Finished(Runner!Tables, p)
  BY DEF Runner!ContractAllowed
<1>3. ASSUME ExpandSteps(p) > 0 PROVE how # "refuse" /\ (how = "applied" \/ allowed)
  <2>1. CASE row.plan = p /\ row.phase = "expanded"
    <3>1. \A i \in Runner!ExpandSteps(p) : log[p][i] = "finished" /\ i \in Runner!Steps(p)
      BY <1>1, <2>1, PlanOps DEF RowFacts
    <3>2. Runner!ExpandSteps(p) \subseteq Runner!Finished(Runner!Tables, p)
      BY <3>1 DEF Runner!Finished, Runner!Tables
    <3>3. how = "resume"
      BY <2>1, Decides
    <3> QED
      BY <1>2, <3>2, <3>3
  <2>2. CASE row.plan = NoPlan /\ row.model = p.to
    <3>1. how = "applied"
      BY <1>1, <2>2, DecisionIs
    <3> QED
      BY <3>1
  <2> QED
    BY <1>3, <2>1, <2>2 DEF WithinContract
<1>4. ASSUME ExpandSteps(p) = 0 PROVE how # "applied" /\ ~ allowed
  <2>1. row.plan # p
    BY <1>1, <1>4 DEF Shapes
  <2>2. row.model = p.from
    BY <1>4, <2>1 DEF WithinContract, Settled
  <2>3. how # "resume" /\ how # "applied"
    BY <1>1, <2>1, <2>2, DecisionIs
  <2> QED
    BY <1>2, <2>3
<1> QED
  BY <1>3, <1>4

(* The one call the runner turns down is that of a contract phase whose plan  *)
(* has no expand phase, which no run before it put in progress; and of those  *)
(* it takes none.  Every other plan a deploy makes or finishes, after any      *)
(* sequence of failures, deaths, retries and rollbacks, finds the database    *)
(* where it starts from, in progress, or done.                                *)
THEOREM RefusesOnlyTheSkipped == Spec => [](Apart => RefusesTheSkipped)
<1>1. Inv => (Apart => RefusesTheSkipped)
  <2> SUFFICES ASSUME Inv, Good, NEW d \in Deploys,
                      deploy[d].result = "running", run[d].pc = "decide"
               PROVE  TurnsDown(d) <=> run[d].phase = "contract" /\ ExpandSteps(run[d].plan) = 0
    BY DEF RefusesTheSkipped, Good
  <2> DEFINE p == run[d].plan
             how == Runner!Decision(Runner!Tables, p)
             allowed == Runner!ContractAllowed(Runner!Tables, p)
  <2>1. RowFacts /\ RunFacts /\ Shapes
    BY InvFacts
  <2>2. Live(d)
    <3> SUFFICES ASSUME ~ Live(d) PROVE FALSE
      OBVIOUS
    <3>1. deploy[d] = Idle(deploy[d].pc)
      BY DEF Inv, Sound
    <3>2. deploy[d].result = "none"
      BY <3>1, IdleIs
    <3> QED
      BY <3>2
  <2>3. PICK D \in Deployment : D = deploy[d]
    BY <2>2, FollowsNow
  <2>4. PICK m \in Recorded : m = manifest
    BY <2>2, FollowsNow
  <2>5. PICK c : c = Head(D.todo)
    OBVIOUS
  <2>6. Follows(d, D, m) /\ D.result = "running"
    BY <2>2, <2>3, <2>4, FollowsNow
  <2>7. D.pc = "calling" /\ D.todo # <<>> /\ run[d].phase = c.phase /\ p = c.plan
    BY <2>5, <2>6 DEF Follows, Placed, Owns
  <2>8. c \in Call /\ InForce(D, m) = Pending(D.man.model, c.phase, c.plan)
    BY <2>5, <2>6, <2>7, CallIs DEF Follows
  <2>9. Status(InForce(D, m)) /\ Pends(InForce(D, m), c.phase, c.plan)
    BY <2>6, <2>8, PendingPends DEF Follows, Holds
  <2>10. p \in Plans /\ c.phase \in {"expand", "contract"} /\ ExpandSteps(p) \in Nat
    BY <2>7, <2>8, PlanSteps DEF Call
  <2>11. TurnsDown(d) <=> \/ how = "refuse"
                          \/ c.phase = "contract" /\ how # "applied" /\ ~ allowed
    BY <2>7 DEF TurnsDown
  <2>12. CASE c.phase = "expand"
    <3>0. run[d].pc # "idle"
      OBVIOUS
    <3>1. WithinExpand(p)
      BY <2>7, <2>9, <2>10, <2>12 DEF Status
    <3>2. ExpandSteps(p) > 0
      BY <2>1, <2>7, <2>12, <3>0, LeftIn
    <3>3. how # "refuse"
      BY <2>1, <2>10, <3>1, <3>2, TakesExpand
    <3> QED
      BY <2>7, <2>11, <2>12, <3>3
  <2>13. CASE c.phase = "contract"
    <3>1. WithinContract(p) /\ ContractSteps(p) > 0
      BY <2>7, <2>9, <2>10, <2>13 DEF Status
    <3>2. /\ ExpandSteps(p) > 0 => how # "refuse" /\ (how = "applied" \/ allowed)
          /\ ExpandSteps(p) = 0 => how # "applied" /\ ~ allowed
      BY <2>1, <2>10, <3>1, TakesContract
    <3>3. ExpandSteps(p) > 0 \/ ExpandSteps(p) = 0
      BY <2>10
    <3> HIDE DEF how, allowed, p
    <3> QED
      BY <2>7, <2>10, <2>11, <2>13, <3>2, <3>3 DEF p
  <2> QED
    BY <2>10, <2>12, <2>13
<1> QED
  BY <1>1, InvHolds, PTL

=============================================================================
