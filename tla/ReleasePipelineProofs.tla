------------------------- MODULE ReleasePipelineProofs -------------------------
(***************************************************************************)
(* Proofs about ReleasePipeline, for any runs, images, contracts, counts   *)
(* and changes by hand.                                                    *)
(*                                                                         *)
(* The argument: one run is at work at a time (OneAtATime), and from its   *)
(* second snapshot on nobody but ECS and the run itself changes the        *)
(* service.  So what it has inspected (Inspected) is what serves while it  *)
(* migrates (Undisturbed), and after its update the service has the run's  *)
(* revision or the one of its baseline (UnderWay), in one of a few ways    *)
(* (OnItsWay, Restoring).  A revision that is mentioned anywhere is one    *)
(* whose run has been inspected and has migrated (Released).               *)
(***************************************************************************)
EXTENDS ReleasePipelineProperties, TLAPS

\* Steps before a run has touched the service, and after.
Early == {"queued", "verify migration", "check migration", "run migration",
          "wait migration", "confirm migration", "verify rollout",
          "check rollout", "update"}
Late == {"wait stable", "describe", "readiness", "rollback", "wait restored"}

Released(t) ==
    /\ baseline[t] # NoBaseline
    /\ step[t] \notin Early
    /\ request[t].operation = "deploy" => migration[t] = "succeeded"

-----------------------------------------------------------------------------
(* One run.                                                                *)

Requested(r) == step[r] # "queued" => request[r] \in Requests

Waiting(r) == migration[r] = "running" => step[r] \in {"wait migration", "done"}

Migrated(r) ==
    /\ step[r] \in {"verify rollout", "check rollout", "update"} \cup Late
    /\ request[r].operation = "deploy"
    => migration[r] = "succeeded"

Based(r) ==
    step[r] \in {"check migration", "run migration", "wait migration",
                 "confirm migration", "check rollout", "update"} \cup Late
        => baseline[r] # NoBaseline

Inspected(r) ==
    baseline[r] # NoBaseline =>
        /\ step[r] # "queued"
        /\ baseline[r].task # r
        /\ baseline[r].task \in Runs => Released(baseline[r].task)
        /\ ValidContract(request[r].image)
        /\ baseline[r].count > 0 => ValidContract(ImageOf(baseline[r].task))

\* Between the second snapshot and the update.
Undisturbed(r) ==
    step[r] \in {"run migration", "wait migration", "confirm migration",
                 "update"} =>
        /\ service.task = baseline[r].task
        /\ service.desired = baseline[r].count
        /\ service.running <= service.desired
        /\ service.older = {}
        /\ service.rollout = "COMPLETED"

UnderWay(r) ==
    step[r] \in Late =>
        /\ service.task \in {r, baseline[r].task}
        /\ service.completed \in {r, baseline[r].task}

\* ECS has gone back, is at it, or has completed the rollout.
OnItsWay(r) ==
    step[r] \in {"wait stable", "describe", "readiness"} =>
        \/ /\ service.task = baseline[r].task
           /\ service.completed = baseline[r].task
           /\ step[r] = "readiness" => baseline[r].count = 0
        \/ /\ service.task = r
           /\ service.completed = baseline[r].task
           /\ service.rollout = "IN_PROGRESS"
           /\ service.desired = request[r].count
           /\ baseline[r].count > 0 =>
                  service.older # {} /\ step[r] = "wait stable"
        \/ /\ service.task = r
           /\ service.completed = r
           /\ service.rollout = "COMPLETED"
           /\ service.desired = request[r].count

Restoring(r) ==
    step[r] = "wait restored" =>
        /\ service.desired = baseline[r].count
        /\ service.task = r => service.completed = r

RunInv(r) ==
    /\ Requested(r)
    /\ Waiting(r)
    /\ Migrated(r)
    /\ Based(r)
    /\ Inspected(r)
    /\ Undisturbed(r)
    /\ UnderWay(r)
    /\ OnItsWay(r)
    /\ Restoring(r)

-----------------------------------------------------------------------------
(* All of them, and the service.                                           *)

OneAtATime == \A r, q \in Active : r = q

InService ==
    \A t \in Runs :
        t \in service.older \cup {service.task, service.completed}
            => Released(t)

LastCompleted == service.rollout = "COMPLETED" => service.completed = service.task

\* What ECS would go back to from a run's revision.
Fallback ==
    service.task \in Runs /\ service.rollout = "IN_PROGRESS" =>
        service.completed \in Runs \cup {baseline[service.task].task}

PipelineInv ==
    /\ TypeOK
    /\ OneAtATime
    /\ InService
    /\ LastCompleted
    /\ Fallback
    /\ \A r \in Runs : RunInv(r)

-----------------------------------------------------------------------------
(* Lemmas about steps.                                                     *)

LEMMA StepTo ==
    ASSUME TypeOK, NEW r \in Runs, NEW s \in Steps,
           step' = [step EXCEPT ![r] = s]
    PROVE  /\ step' \in [Runs -> Steps]
           /\ step'[r] = s
           /\ \A q \in Runs : q # r => step'[q] = step[q]
BY DEF TypeOK

\* A run at work is the only one, and stays so until it is done.
LEMMA OnlyOne ==
    ASSUME OneAtATime, NEW r \in Runs, r \in Active
    PROVE  \A q \in Runs : q # r => step[q] \in {"queued", "done"}
BY DEF OneAtATime, Active

LEMMA OnlyOneStays ==
    ASSUME OneAtATime, NEW r \in Runs, r \in Active,
           \A q \in Runs : q # r => step'[q] = step[q]
    PROVE  OneAtATime'
BY OnlyOne DEF OneAtATime, Active

\* What a run does to its own records leaves the others and the service as
\* they are, if it keeps those of a released one.
LEMMA OthersKeep ==
    ASSUME PipelineInv, NEW r \in Runs,
           service' = service,
           \A q \in Runs : q # r =>
               /\ step'[q] = step[q]
               /\ request'[q] = request[q]
               /\ baseline'[q] = baseline[q]
               /\ migration'[q] = migration[q],
           Released(r) =>
               Released(r)' /\ request'[r] = request[r]
                            /\ baseline'[r] = baseline[r]
    PROVE  /\ \A q \in Runs : q # r => RunInv(q)'
           /\ InService'
           /\ LastCompleted'
           /\ Fallback'
<1>1. \A t \in Runs : Released(t) => /\ Released(t)'
                                     /\ request'[t] = request[t]
                                     /\ baseline'[t] = baseline[t]
  BY DEF Released
<1>2. InService'
  BY <1>1 DEF PipelineInv, InService
<1>3. LastCompleted'
  BY DEF PipelineInv, LastCompleted
<1>4. Fallback'
  BY <1>1 DEF PipelineInv, InService, Fallback
<1>5. ASSUME NEW q \in Runs, q # r PROVE RunInv(q)'
  <2>1. RunInv(q)
    BY DEF PipelineInv
  <2>2. /\ step'[q] = step[q]
        /\ request'[q] = request[q]
        /\ baseline'[q] = baseline[q]
        /\ migration'[q] = migration[q]
    BY <1>5
  <2>3. Requested(q)' /\ Waiting(q)' /\ Migrated(q)' /\ Based(q)'
    BY <2>1, <2>2 DEF RunInv, Requested, Waiting, Migrated, Based
  <2>4. Inspected(q)'
    <3>1. baseline[q] # NoBaseline /\ baseline[q].task \in Runs =>
              /\ Released(baseline[q].task)'
              /\ request'[baseline[q].task] = request[baseline[q].task]
      BY <1>1, <2>1, <2>2 DEF RunInv, Inspected
    <3>2. baseline[q] # NoBaseline =>
              ImageOf(baseline[q].task)' = ImageOf(baseline[q].task)
      BY <2>2, <3>1 DEF ImageOf
    <3>3. QED
      BY <2>1, <2>2, <3>1, <3>2 DEF RunInv, Inspected, ValidContract
  <2>5. Undisturbed(q)' /\ UnderWay(q)' /\ OnItsWay(q)' /\ Restoring(q)'
    BY <2>1, <2>2 DEF RunInv, Undisturbed, UnderWay, OnItsWay, Restoring
  <2>6. QED
    BY <2>3, <2>4, <2>5 DEF RunInv
<1>6. QED
  BY <1>2, <1>3, <1>4, <1>5

-----------------------------------------------------------------------------
(* Steps of a run that leave the service alone.                            *)

\* A run goes from one of its steps to another, or ends: nothing but its step
\* and its report changes.
LEMMA MoveKeeps ==
    ASSUME PipelineInv, NEW r \in Runs, NEW s \in Steps,
           r \in Active, s # "queued",
           step[r] \notin Early => s \notin Early,
           step' = [step EXCEPT ![r] = s],
           UNCHANGED <<request, baseline, migration, service>>,
           Waiting(r)', Migrated(r)', Based(r)', Undisturbed(r)', UnderWay(r)',
           OnItsWay(r)', Restoring(r)', TypeOK'
    PROVE  PipelineInv'
<1>1. /\ step'[r] = s
      /\ \A q \in Runs : q # r => step'[q] = step[q]
  BY StepTo DEF PipelineInv
<1>2. Released(r) => Released(r)'
  BY <1>1 DEF Released
<1>3. /\ \A q \in Runs : q # r => RunInv(q)'
      /\ InService' /\ LastCompleted' /\ Fallback'
  BY <1>1, <1>2, OthersKeep
<1>4. OneAtATime'
  BY <1>1, OnlyOneStays DEF PipelineInv
<1>5. RunInv(r)
  BY DEF PipelineInv
<1>6. Requested(r)'
  BY <1>1, <1>5 DEF RunInv, Requested, Active
<1>7. Inspected(r)'
  <2>1. baseline[r] # NoBaseline /\ baseline[r].task \in Runs =>
            /\ baseline[r].task # r
            /\ Released(baseline[r].task)
    BY <1>5 DEF RunInv, Inspected
  <2>2. baseline[r] # NoBaseline /\ baseline[r].task \in Runs =>
            Released(baseline[r].task)'
    BY <1>1, <2>1 DEF Released
  <2>3. baseline[r] # NoBaseline =>
            ImageOf(baseline[r].task)' = ImageOf(baseline[r].task)
    BY DEF ImageOf
  <2>4. QED
    BY <1>1, <1>5, <2>2, <2>3 DEF RunInv, Inspected, ValidContract
<1>8. RunInv(r)'
  BY <1>6, <1>7 DEF RunInv
<1>9. QED
  BY <1>3, <1>4, <1>8 DEF PipelineInv

LEMMA BlockKeeps ==
    ASSUME PipelineInv, NEW r \in Runs, r \in Active, NEW result \in Outcomes,
           End(r, result), UNCHANGED <<baseline, migration, service>>
    PROVE  PipelineInv'
<1>1. /\ step' = [step EXCEPT ![r] = "done"]
      /\ UNCHANGED <<request, otherChanges>>
      /\ outcome' = [outcome EXCEPT ![r] = result]
  BY DEF End
<1>2. step'[r] = "done" /\ step' \in [Runs -> Steps]
  BY <1>1, StepTo DEF PipelineInv, Steps
<1>3. TypeOK'
  BY <1>1, <1>2 DEF PipelineInv, TypeOK
<1>4. /\ Waiting(r)' /\ Migrated(r)' /\ Based(r)' /\ Undisturbed(r)'
      /\ UnderWay(r)' /\ OnItsWay(r)' /\ Restoring(r)'
  BY <1>2 DEF Waiting, Migrated, Based, Undisturbed, UnderWay, OnItsWay,
              Restoring, Late
<1>5. QED
  BY <1>1, <1>3, <1>4, MoveKeeps DEF Steps, Early

LEMMA GotoTypes ==
    ASSUME PipelineInv, NEW r \in Runs, NEW s \in Steps, Goto(r, s),
           UNCHANGED <<baseline, migration, service>>
    PROVE  /\ TypeOK'
           /\ step' = [step EXCEPT ![r] = s]
           /\ step'[r] = s
           /\ UNCHANGED <<request, baseline, migration, service>>
<1>1. step' = [step EXCEPT ![r] = s] /\ UNCHANGED <<request, outcome, otherChanges>>
  BY DEF Goto
<1>2. step' \in [Runs -> Steps] /\ step'[r] = s
  BY <1>1, StepTo DEF PipelineInv
<1>3. QED
  BY <1>1, <1>2 DEF PipelineInv, TypeOK

\* The second snapshot finds the service as the first one did.
LEMMA SecondSnapshot ==
    ASSUME TypeOK, NEW r \in Runs, BaselineUnchanged(r)
    PROVE  /\ service.task = baseline[r].task
           /\ service.desired = baseline[r].count
           /\ service.running <= service.desired
           /\ service.older = {}
           /\ service.rollout = "COMPLETED"
<1>1. Snapshot = baseline[r]
  BY DEF BaselineUnchanged
<1>2. Snapshot.task = service.task /\ Snapshot.count = service.desired
  BY DEF Snapshot
<1>3. /\ service.older = {}
      /\ service.rollout = "COMPLETED"
      /\ service.running = service.desired
  BY DEF BaselineUnchanged, Settled
<1>4. service.running <= service.desired
  BY <1>3 DEF TypeOK, Services
<1>5. QED
  BY <1>1, <1>2, <1>3, <1>4

LEMMA CheckForMigrationKeeps ==
    ASSUME PipelineInv, NEW r \in Runs, CheckForMigration(r) PROVE PipelineInv'
<1>1. step[r] = "check migration" /\ r \in Active
  BY DEF CheckForMigration, Check, Active
<1>2. CASE Block(r)
  BY <1>1, <1>2, BlockKeeps DEF Block, Outcomes
<1>3. CASE /\ BaselineUnchanged(r)
           /\ Goto(r, "run migration")
           /\ UNCHANGED <<baseline, migration, service>>
  <2>1. "run migration" \in Steps
    BY DEF Steps
  <2>2. /\ TypeOK' /\ step' = [step EXCEPT ![r] = "run migration"]
        /\ step'[r] = "run migration"
        /\ UNCHANGED <<request, baseline, migration, service>>
    BY <1>3, <2>1, GotoTypes
  <2>3. RunInv(r)
    BY DEF PipelineInv
  <2>4. Undisturbed(r)'
    BY <1>3, <2>2, SecondSnapshot DEF PipelineInv, Undisturbed
  <2>5. Waiting(r)' /\ Based(r)'
    BY <1>1, <2>2, <2>3 DEF RunInv, Waiting, Based
  <2>6. /\ Migrated(r)' /\ UnderWay(r)' /\ OnItsWay(r)' /\ Restoring(r)'
    BY <2>2 DEF Migrated, UnderWay, OnItsWay, Restoring, Late
  <2>7. QED
    BY <1>1, <2>1, <2>2, <2>4, <2>5, <2>6, MoveKeeps DEF Early
<1>4. QED
  BY <1>2, <1>3 DEF CheckForMigration, Check

LEMMA CheckForRolloutKeeps ==
    ASSUME PipelineInv, NEW r \in Runs, CheckForRollout(r) PROVE PipelineInv'
<1>1. step[r] = "check rollout" /\ r \in Active
  BY DEF CheckForRollout, Check, Active
<1>2. CASE Block(r)
  BY <1>1, <1>2, BlockKeeps DEF Block, Outcomes
<1>3. CASE /\ BaselineUnchanged(r)
           /\ Goto(r, "update")
           /\ UNCHANGED <<baseline, migration, service>>
  <2>1. "update" \in Steps
    BY DEF Steps
  <2>2. /\ TypeOK' /\ step' = [step EXCEPT ![r] = "update"]
        /\ step'[r] = "update"
        /\ UNCHANGED <<request, baseline, migration, service>>
    BY <1>3, <2>1, GotoTypes
  <2>3. RunInv(r)
    BY DEF PipelineInv
  <2>4. Undisturbed(r)'
    BY <1>3, <2>2, SecondSnapshot DEF PipelineInv, Undisturbed
  <2>5. Waiting(r)' /\ Based(r)' /\ Migrated(r)'
    BY <1>1, <2>2, <2>3 DEF RunInv, Waiting, Based, Migrated
  <2>6. UnderWay(r)' /\ OnItsWay(r)' /\ Restoring(r)'
    BY <2>2 DEF UnderWay, OnItsWay, Restoring, Late
  <2>7. QED
    BY <1>1, <2>1, <2>2, <2>4, <2>5, <2>6, MoveKeeps DEF Early
<1>4. QED
  BY <1>2, <1>3 DEF CheckForRollout, Check

LEMMA ConfirmMigrationKeeps ==
    ASSUME PipelineInv, NEW r \in Runs, ConfirmMigration(r) PROVE PipelineInv'
<1>1. step[r] = "confirm migration" /\ r \in Active
  BY DEF ConfirmMigration, Active
<1>2. CASE Block(r)
  BY <1>1, <1>2, BlockKeeps DEF Block, Outcomes
<1>3. CASE /\ migration[r] = "succeeded"
           /\ Goto(r, "verify rollout")
           /\ UNCHANGED <<baseline, migration, service>>
  <2>1. "verify rollout" \in Steps
    BY DEF Steps
  <2>2. /\ TypeOK' /\ step' = [step EXCEPT ![r] = "verify rollout"]
        /\ step'[r] = "verify rollout"
        /\ UNCHANGED <<request, baseline, migration, service>>
    BY <1>3, <2>1, GotoTypes
  <2>3. Waiting(r)' /\ Migrated(r)'
    BY <1>3, <2>2 DEF Waiting, Migrated
  <2>4. /\ Based(r)' /\ Undisturbed(r)' /\ UnderWay(r)' /\ OnItsWay(r)'
        /\ Restoring(r)'
    BY <2>2 DEF Based, Undisturbed, UnderWay, OnItsWay, Restoring, Late
  <2>5. QED
    BY <1>1, <2>1, <2>2, <2>3, <2>4, MoveKeeps DEF Early
<1>4. QED
  BY <1>2, <1>3 DEF ConfirmMigration

-----------------------------------------------------------------------------
(* Steps of a run that write its records.                                  *)

LEMMA InitPipelineInv == Init => PipelineInv
<1>1. SUFFICES ASSUME Init PROVE PipelineInv
  OBVIOUS
<1>2. PICK f \in FirstServices :
          service = [task |-> f.task, deployment |-> 0,
                     desired |-> f.count, running |-> f.count,
                     older |-> {}, rollout |-> "COMPLETED",
                     completed |-> f.task]
  BY <1>1 DEF Init
<1>3. f.task \in OtherTasks /\ f.count \in 0..MaxCount
  <2>1. f \in [task : OtherTasks, count : 0..MaxCount]
    BY <1>2, PipelineAssumption
  <2>2. QED
    BY <2>1
<1>4. service \in Services
  BY <1>2, <1>3 DEF Services, Tasks
<1>5. TypeOK
  BY <1>1, <1>4, PipelineAssumption
     DEF Init, TypeOK, Steps, Migrations, Outcomes
<1>6. \A r \in Runs : step[r] = "queued" /\ baseline[r] = NoBaseline
                      /\ migration[r] = "none"
  BY <1>1 DEF Init
<1>7. OneAtATime
  BY <1>6 DEF OneAtATime, Active
<1>8. service.task \notin Runs /\ service.completed \notin Runs
      /\ service.older = {} /\ service.completed = service.task
  BY <1>2, <1>3, PipelineAssumption
<1>9. InService /\ LastCompleted /\ Fallback
  BY <1>8 DEF InService, LastCompleted, Fallback
<1>10. ASSUME NEW r \in Runs PROVE RunInv(r)
  BY <1>6 DEF RunInv, Requested, Waiting, Migrated, Based, Inspected,
              Undisturbed, UnderWay, OnItsWay, Restoring, Late
<1>11. QED
  BY <1>5, <1>7, <1>9, <1>10 DEF PipelineInv

LEMMA DispatchKeeps ==
    ASSUME PipelineInv, NEW r \in Runs, Dispatch(r) PROVE PipelineInv'
<1>1. PICK q \in Requests : Start(r, q)
  BY DEF Dispatch
<1>2. /\ step[r] = "queued" /\ Active = {}
      /\ request' = [request EXCEPT ![r] = q]
      /\ UNCHANGED <<baseline, migration, outcome, service, otherChanges>>
  BY <1>1 DEF Start
<1>3. PICK s \in {"verify migration", "verify rollout"} :
          /\ step' = [step EXCEPT ![r] = s]
          /\ q.operation = "deploy" => s = "verify migration"
  BY <1>1 DEF Start
<1>4. s \in Steps
  BY DEF Steps
<1>5. /\ step' \in [Runs -> Steps]
      /\ step'[r] = s
      /\ \A p \in Runs : p # r => step'[p] = step[p]
  BY <1>3, <1>4, StepTo DEF PipelineInv
<1>6. /\ request' \in [Runs -> Requests \cup {NoRequest}]
      /\ request'[r] = q
      /\ \A p \in Runs : p # r => request'[p] = request[p]
  BY <1>2 DEF PipelineInv, TypeOK
<1>7. TypeOK'
  BY <1>2, <1>5, <1>6 DEF PipelineInv, TypeOK
<1>8. ~Released(r)
  BY <1>2 DEF Released, Early
<1>9. /\ \A p \in Runs : p # r => RunInv(p)'
      /\ InService' /\ LastCompleted' /\ Fallback'
  BY <1>2, <1>5, <1>6, <1>8, OthersKeep
<1>10. OneAtATime'
  BY <1>2, <1>5 DEF OneAtATime, Active
<1>11. RunInv(r)
  BY DEF PipelineInv
<1>12. Requested(r)' /\ Waiting(r)' /\ Migrated(r)' /\ Based(r)' /\ Inspected(r)'
  BY <1>2, <1>3, <1>5, <1>6, <1>11
     DEF RunInv, Requested, Waiting, Migrated, Based, Inspected, Late
<1>13. Undisturbed(r)' /\ UnderWay(r)' /\ OnItsWay(r)' /\ Restoring(r)'
  BY <1>5 DEF Undisturbed, UnderWay, OnItsWay, Restoring, Late
<1>14. RunInv(r)'
  BY <1>12, <1>13 DEF RunInv
<1>15. QED
  BY <1>7, <1>9, <1>10, <1>14 DEF PipelineInv

LEMMA SnapshotTypes ==
    ASSUME TypeOK
    PROVE  /\ Snapshot \in Baselines
           /\ Snapshot # NoBaseline
           /\ Snapshot.task = service.task
           /\ Snapshot.count = service.desired
<1>1. Snapshot \in Baselines
  BY DEF Snapshot, TypeOK, Services, Baselines
<1>2. QED
  BY <1>1, PipelineAssumption DEF Snapshot

\* The gate: what serves now is of another run, and honours the contract.
LEMMA VerifyKeeps ==
    ASSUME PipelineInv, NEW r \in Runs,
           NEW s \in {"verify migration", "verify rollout"},
           NEW t \in {"check migration", "check rollout"},
           s = "verify rollout" <=> t = "check rollout",
           Verify(r, s, t)
    PROVE  PipelineInv'
<1>1. step[r] = s /\ r \in Active
  BY DEF Verify, Active
<1>2. CASE Block(r)
  BY <1>1, <1>2, BlockKeeps DEF Block, Outcomes
<1>3. CASE /\ Verified(r)
           /\ baseline' = [baseline EXCEPT ![r] = Snapshot]
           /\ Goto(r, t)
           /\ UNCHANGED <<migration, service>>
  <2>1. t \in Steps
    BY DEF Steps
  <2>2. /\ step' = [step EXCEPT ![r] = t]
        /\ UNCHANGED <<request, outcome, otherChanges, migration, service>>
    BY <1>3 DEF Goto
  <2>3. /\ step' \in [Runs -> Steps]
        /\ step'[r] = t
        /\ \A p \in Runs : p # r => step'[p] = step[p]
    BY <2>1, <2>2, StepTo DEF PipelineInv
  <2>4. /\ baseline' \in [Runs -> Baselines \cup {NoBaseline}]
        /\ baseline'[r] = Snapshot
        /\ \A p \in Runs : p # r => baseline'[p] = baseline[p]
    BY <1>3, SnapshotTypes DEF PipelineInv, TypeOK
  <2>5. TypeOK'
    BY <2>2, <2>3, <2>4 DEF PipelineInv, TypeOK
  <2>6. ~Released(r)
    BY <1>1 DEF Released, Early
  <2>7. /\ \A p \in Runs : p # r => RunInv(p)'
        /\ InService' /\ LastCompleted' /\ Fallback'
    BY <2>2, <2>3, <2>4, <2>6, OthersKeep
  <2>8. OneAtATime'
    BY <1>1, <2>3, OnlyOneStays DEF PipelineInv
  <2>9. RunInv(r)
    BY DEF PipelineInv
  <2>10. Inspected(r)'
    <3>1. /\ baseline'[r].task = service.task
          /\ baseline'[r].count = service.desired
      BY <2>4, SnapshotTypes DEF PipelineInv
    <3>2. service.task \in Runs => Released(service.task)
      BY DEF PipelineInv, InService
    <3>3. service.task # r
      BY <2>6, <3>2
    <3>4. service.task \in Runs => Released(service.task)'
      BY <2>2, <2>3, <2>4, <3>2, <3>3 DEF Released
    <3>5. /\ ValidContract(request[r].image)
          /\ service.desired > 0 => ValidContract(ImageOf(service.task))
      BY <1>3 DEF Verified, Live
    <3>6. ImageOf(baseline[r].task)' = ImageOf(service.task)
      BY <2>2, <2>4, <3>1 DEF ImageOf
    <3>7. QED
      BY <2>2, <2>3, <3>1, <3>3, <3>4, <3>5, <3>6 DEF Inspected, ValidContract
  <2>11. Requested(r)' /\ Waiting(r)' /\ Migrated(r)'
    BY <1>1, <2>2, <2>3, <2>9 DEF RunInv, Requested, Waiting, Migrated, Late
  <2>12. Based(r)'
    BY <2>4, SnapshotTypes DEF PipelineInv, Based
  <2>13. Undisturbed(r)' /\ UnderWay(r)' /\ OnItsWay(r)' /\ Restoring(r)'
    BY <2>3 DEF Undisturbed, UnderWay, OnItsWay, Restoring, Late
  <2>14. QED
    BY <2>5, <2>7, <2>8, <2>10, <2>11, <2>12, <2>13 DEF PipelineInv, RunInv
<1>4. QED
  BY <1>2, <1>3 DEF Verify

\* A migration task starts, stops or exits, at the step that may be next.
LEMMA MigrationMoves ==
    ASSUME PipelineInv, NEW r \in Runs, NEW m \in Migrations, NEW s \in Steps,
           NEW result \in Outcomes,
           step[r] = "done" => migration[r] # "succeeded",
           step[r] \in {"run migration", "wait migration", "done"},
           \/ s = "wait migration" /\ step[r] # "done"
           \/ s = "done",
           migration' = [migration EXCEPT ![r] = m],
           step' = [step EXCEPT ![r] = s],
           outcome' = [outcome EXCEPT ![r] = result],
           UNCHANGED <<request, baseline, service, otherChanges>>
    PROVE  PipelineInv'
<1>1. /\ step' \in [Runs -> Steps]
      /\ step'[r] = s
      /\ \A p \in Runs : p # r => step'[p] = step[p]
  BY StepTo DEF PipelineInv
<1>2. /\ migration' \in [Runs -> Migrations]
      /\ migration'[r] = m
      /\ \A p \in Runs : p # r => migration'[p] = migration[p]
  BY DEF PipelineInv, TypeOK
<1>3. TypeOK'
  BY <1>1, <1>2 DEF PipelineInv, TypeOK
<1>4. RunInv(r)
  BY DEF PipelineInv
<1>5. Released(r) => Released(r)'
  BY <1>1 DEF Released, Early
<1>6. /\ \A p \in Runs : p # r => RunInv(p)'
      /\ InService' /\ LastCompleted' /\ Fallback'
  BY <1>1, <1>2, <1>5, OthersKeep
<1>7. OneAtATime'
  <2>1. CASE step[r] = "done"
    BY <1>1, <2>1 DEF PipelineInv, OneAtATime, Active
  <2>2. CASE step[r] # "done"
    <3>1. r \in Active
      BY <2>2 DEF Active
    <3>2. QED
      BY <1>1, <3>1, OnlyOneStays DEF PipelineInv
  <2>3. QED
    BY <2>1, <2>2
<1>8. Requested(r)' /\ Waiting(r)' /\ Migrated(r)' /\ Based(r)'
  BY <1>1, <1>2, <1>4
     DEF RunInv, Requested, Waiting, Migrated, Based, Late
<1>9. Inspected(r)'
  <2>1. baseline[r] # NoBaseline /\ baseline[r].task \in Runs =>
            /\ baseline[r].task # r
            /\ Released(baseline[r].task)'
    BY <1>1, <1>2, <1>4 DEF RunInv, Inspected, Released
  <2>2. baseline[r] # NoBaseline =>
            ImageOf(baseline[r].task)' = ImageOf(baseline[r].task)
    BY DEF ImageOf
  <2>3. QED
    BY <1>1, <1>4, <2>1, <2>2 DEF RunInv, Inspected, ValidContract
<1>10. Undisturbed(r)' /\ UnderWay(r)' /\ OnItsWay(r)' /\ Restoring(r)'
  BY <1>1, <1>4 DEF RunInv, Undisturbed, UnderWay, OnItsWay, Restoring, Late
<1>11. QED
  BY <1>3, <1>6, <1>7, <1>8, <1>9, <1>10 DEF PipelineInv, RunInv

LEMMA RunMigrationKeeps ==
    ASSUME PipelineInv, NEW r \in Runs, RunMigration(r) PROVE PipelineInv'
<1>1. step[r] = "run migration" /\ r \in Active
  BY DEF RunMigration, Active
<1>2. CASE Block(r)
  BY <1>1, <1>2, BlockKeeps DEF Block, Outcomes
<1>3. CASE /\ migration' = [migration EXCEPT ![r] = "running"]
           /\ Goto(r, "wait migration") \/ End(r, "blocked")
           /\ UNCHANGED <<baseline, service>>
  <2>1. PICK s \in {"wait migration", "done"}, result \in Outcomes :
            /\ step' = [step EXCEPT ![r] = s]
            /\ outcome' = [outcome EXCEPT ![r] = result]
            /\ UNCHANGED <<request, otherChanges>>
    <3>1. outcome = [outcome EXCEPT ![r] = outcome[r]] /\ outcome[r] \in Outcomes
      BY DEF PipelineInv, TypeOK
    <3>2. QED
      BY <1>3, <3>1 DEF Goto, End, Outcomes
  <2>2. s \in Steps /\ "running" \in Migrations
    BY DEF Steps, Migrations
  <2>3. QED
    BY <1>1, <1>3, <2>1, <2>2, MigrationMoves
<1>4. QED
  BY <1>2, <1>3 DEF RunMigration

LEMMA WaitMigrationKeeps ==
    ASSUME PipelineInv, NEW r \in Runs, WaitMigration(r) PROVE PipelineInv'
<1>1. step[r] = "wait migration" /\ r \in Active
  BY DEF WaitMigration, Active
<1>2. CASE Block(r)
  BY <1>1, <1>2, BlockKeeps DEF Block, Outcomes
<1>3. CASE /\ migration[r] = "running"
           /\ migration' = [migration EXCEPT ![r] = "failed"]
           /\ End(r, "blocked")
           /\ UNCHANGED <<baseline, service>>
  <2>1. /\ "done" \in Steps /\ "failed" \in Migrations /\ "blocked" \in Outcomes
        /\ migration[r] # "succeeded"
    BY <1>3 DEF Steps, Migrations, Outcomes
  <2>2. QED
    BY <1>1, <1>3, <2>1, MigrationMoves DEF End
<1>4. CASE /\ migration[r] # "running"
           /\ Goto(r, "confirm migration")
           /\ UNCHANGED <<baseline, migration, service>>
  <2>1. "confirm migration" \in Steps
    BY DEF Steps
  <2>2. /\ TypeOK' /\ step' = [step EXCEPT ![r] = "confirm migration"]
        /\ step'[r] = "confirm migration"
        /\ UNCHANGED <<request, baseline, migration, service>>
    BY <1>4, <2>1, GotoTypes
  <2>3. RunInv(r)
    BY DEF PipelineInv
  <2>4. Waiting(r)' /\ Based(r)' /\ Undisturbed(r)'
    BY <1>1, <1>4, <2>2, <2>3 DEF RunInv, Waiting, Based, Undisturbed
  <2>5. Migrated(r)' /\ UnderWay(r)' /\ OnItsWay(r)' /\ Restoring(r)'
    BY <2>2 DEF Migrated, UnderWay, OnItsWay, Restoring, Late
  <2>6. QED
    BY <1>1, <2>1, <2>2, <2>4, <2>5, MoveKeeps DEF Early
<1>5. QED
  BY <1>2, <1>3, <1>4 DEF WaitMigration

LEMMA MigrationExitsKeeps ==
    ASSUME PipelineInv, NEW r \in Runs, MigrationExits(r) PROVE PipelineInv'
<1>1. PICK m \in {"succeeded", "failed"} :
          migration' = [migration EXCEPT ![r] = m]
  BY DEF MigrationExits
<1>2. /\ migration[r] = "running"
      /\ UNCHANGED <<step, request, baseline, outcome, service, otherChanges>>
  BY DEF MigrationExits
<1>3. step[r] \in {"wait migration", "done"}
  BY <1>2 DEF PipelineInv, RunInv, Waiting
<1>4. /\ step' = [step EXCEPT ![r] = step[r]] /\ step[r] \in Steps
      /\ outcome' = [outcome EXCEPT ![r] = outcome[r]] /\ outcome[r] \in Outcomes
      /\ m \in Migrations
  BY <1>2 DEF PipelineInv, TypeOK, Migrations
<1>5. QED
  BY <1>1, <1>2, <1>3, <1>4, MigrationMoves

-----------------------------------------------------------------------------
(* Steps of a run after its update that only look at the service.          *)

LEMMA WaitStableKeeps ==
    ASSUME PipelineInv, NEW r \in Runs, WaitStable(r) PROVE PipelineInv'
<1>1. PICK s \in {"describe", "rollback"} :
          /\ s = "describe" => Stable
          /\ Goto(r, s)
  BY DEF WaitStable
<1>2. /\ step[r] = "wait stable" /\ r \in Active
      /\ s \in Steps
      /\ UNCHANGED <<baseline, migration, service>>
  BY DEF WaitStable, Active, Steps
<1>3. /\ TypeOK' /\ step' = [step EXCEPT ![r] = s] /\ step'[r] = s
      /\ UNCHANGED <<request, baseline, migration, service>>
  BY <1>1, <1>2, GotoTypes
<1>4. RunInv(r)
  BY DEF PipelineInv
<1>5. Waiting(r)' /\ Migrated(r)' /\ Based(r)' /\ UnderWay(r)'
  BY <1>2, <1>3, <1>4
     DEF RunInv, Waiting, Migrated, Based, UnderWay, Late
<1>6. Undisturbed(r)' /\ Restoring(r)'
  BY <1>3 DEF Undisturbed, Restoring
<1>7. OnItsWay(r)'
  BY <1>1, <1>2, <1>3, <1>4 DEF RunInv, OnItsWay, Stable
<1>8. QED
  BY <1>2, <1>3, <1>5, <1>6, <1>7, MoveKeeps DEF Early

LEMMA DescribeKeeps ==
    ASSUME PipelineInv, NEW r \in Runs, Describe(r) PROVE PipelineInv'
<1>1. PICK s \in {"readiness", "rollback"} :
          /\ s = "readiness" => service.task = r
          /\ Goto(r, s)
  BY DEF Describe
<1>2. /\ step[r] = "describe" /\ r \in Active
      /\ s \in Steps
      /\ UNCHANGED <<baseline, migration, service>>
  BY DEF Describe, Active, Steps
<1>3. /\ TypeOK' /\ step' = [step EXCEPT ![r] = s] /\ step'[r] = s
      /\ UNCHANGED <<request, baseline, migration, service>>
  BY <1>1, <1>2, GotoTypes
<1>4. RunInv(r)
  BY DEF PipelineInv
<1>5. Waiting(r)' /\ Migrated(r)' /\ Based(r)' /\ UnderWay(r)'
  BY <1>2, <1>3, <1>4
     DEF RunInv, Waiting, Migrated, Based, UnderWay, Late
<1>6. Undisturbed(r)' /\ Restoring(r)'
  BY <1>3 DEF Undisturbed, Restoring
<1>7. baseline[r].task # r
  BY <1>2, <1>4 DEF RunInv, Based, Inspected, Late
<1>8. OnItsWay(r)'
  BY <1>1, <1>2, <1>3, <1>4, <1>7 DEF RunInv, OnItsWay
<1>9. QED
  BY <1>2, <1>3, <1>5, <1>6, <1>8, MoveKeeps DEF Early

LEMMA ReadinessKeeps ==
    ASSUME PipelineInv, NEW r \in Runs, Readiness(r) PROVE PipelineInv'
<1>1. /\ step[r] = "readiness" /\ r \in Active
      /\ UNCHANGED <<baseline, migration, service>>
  BY DEF Readiness, Active
<1>2. CASE End(r, "healthy")
  BY <1>1, <1>2, BlockKeeps DEF Outcomes
<1>3. CASE Goto(r, "rollback")
  <2>1. "rollback" \in Steps
    BY DEF Steps
  <2>2. /\ TypeOK' /\ step' = [step EXCEPT ![r] = "rollback"]
        /\ step'[r] = "rollback"
        /\ UNCHANGED <<request, baseline, migration, service>>
    BY <1>1, <1>3, <2>1, GotoTypes
  <2>3. RunInv(r)
    BY DEF PipelineInv
  <2>4. Waiting(r)' /\ Migrated(r)' /\ Based(r)' /\ UnderWay(r)'
    BY <1>1, <2>2, <2>3 DEF RunInv, Waiting, Migrated, Based, UnderWay, Late
  <2>5. Undisturbed(r)' /\ OnItsWay(r)' /\ Restoring(r)'
    BY <2>2 DEF Undisturbed, OnItsWay, Restoring
  <2>6. QED
    BY <1>1, <2>1, <2>2, <2>4, <2>5, MoveKeeps DEF Early
<1>4. QED
  BY <1>2, <1>3 DEF Readiness

LEMMA WaitRestoredKeeps ==
    ASSUME PipelineInv, NEW r \in Runs, WaitRestored(r) PROVE PipelineInv'
<1>1. /\ r \in Active
      /\ UNCHANGED <<baseline, migration, service>>
      /\ End(r, "restored") \/ End(r, "unrestored")
  BY DEF WaitRestored, Active
<1>2. QED
  BY <1>1, BlockKeeps DEF Outcomes

LEMMA CancelKeeps ==
    ASSUME PipelineInv, NEW r \in Runs, Cancel(r) PROVE PipelineInv'
BY BlockKeeps DEF Cancel, Outcomes

-----------------------------------------------------------------------------
(* Changes of the service.                                                 *)

\* update-service, by whoever calls it.
LEMMA UpdatedService ==
    ASSUME TypeOK, NEW task \in Tasks, NEW count \in 0..MaxCount,
           service' = Updated(task, count)
    PROVE  /\ service' \in Services
           /\ service'.task = task
           /\ service'.desired = count
           /\ service'.completed = service.completed
           /\ task = service.task =>
                  /\ service'.older = service.older
                  /\ service'.rollout = service.rollout
           /\ task # service.task =>
                  /\ service'.older \subseteq service.older \cup {service.task}
                  /\ service.desired > 0 => service'.older # {}
                  /\ service'.rollout = "IN_PROGRESS"
<1>1. service \in Services
  BY DEF TypeOK
<1>2. CASE task = service.task
  BY <1>1, <1>2 DEF Updated, Services
<1>3. CASE task # service.task
  <2> DEFINE older == IF service.desired = 0 /\ service.running = 0
                      THEN service.older
                      ELSE service.older \cup {service.task}
  <2>1. 0 \in 0..MaxCount
    BY PipelineAssumption
  <2>2. older \in SUBSET Tasks
    BY <1>1 DEF Services
  <2>3. /\ older \subseteq service.older \cup {service.task}
        /\ service.desired > 0 => older # {}
    BY <1>1 DEF Services
  <2>4. service' = [service EXCEPT !.task = task,
                                   !.deployment = @ + 1,
                                   !.desired = count,
                                   !.running = 0,
                                   !.older = older,
                                   !.rollout = "IN_PROGRESS"]
    BY <1>3 DEF Updated
  <2> HIDE DEF older
  <2>5. service' \in Services
    <3>1. service.deployment + 1 \in Nat /\ service.completed \in Tasks
      BY <1>1 DEF Services
    <3>2. service' = [task |-> task, deployment |-> service.deployment + 1,
                      desired |-> count, running |-> 0, older |-> older,
                      rollout |-> "IN_PROGRESS",
                      completed |-> service.completed]
      BY <1>1, <2>4 DEF Services
    <3>3. QED
      BY <2>1, <2>2, <3>1, <3>2 DEF Services
  <2>6. /\ service'.task = task
        /\ service'.desired = count
        /\ service'.older = older
        /\ service'.rollout = "IN_PROGRESS"
        /\ service'.completed = service.completed
    BY <1>1, <2>4 DEF Services
  <2>7. QED
    BY <1>3, <2>3, <2>5, <2>6
<1>4. QED
  BY <1>2, <1>3

\* The service changes: by the run at work, in its update or after, or under
\* the hands of nobody's run.
LEMMA ServiceKeeps ==
    ASSUME PipelineInv, TypeOK',
           UNCHANGED <<request, baseline, migration>>,
           \A q \in Runs :
               \/ step'[q] = step[q]
               \/ /\ step[q] \in Late \cup {"update"}
                  /\ step'[q] \in Late \cup {"done"},
           \A t \in Runs :
               t \in service'.older \cup {service'.task, service'.completed} =>
                   \/ t \in service.older \cup {service.task, service.completed}
                   \/ Released(t)',
           LastCompleted', Fallback',
           \A q \in Runs : /\ Undisturbed(q)' /\ UnderWay(q)'
                           /\ OnItsWay(q)' /\ Restoring(q)'
    PROVE  PipelineInv'
<1>1. \A t \in Runs : Released(t) => Released(t)'
  BY DEF Released, Early, Late
<1>2. InService'
  BY <1>1 DEF PipelineInv, InService
<1>3. OneAtATime'
  <2>1. \A q \in Runs : q \in Active' => q \in Active
    BY DEF Active, Late
  <2>2. QED
    BY <2>1 DEF PipelineInv, OneAtATime, Active
<1>4. ASSUME NEW r \in Runs PROVE RunInv(r)'
  <2>1. RunInv(r)
    BY DEF PipelineInv
  <2>2. Requested(r)' /\ Waiting(r)' /\ Migrated(r)' /\ Based(r)'
    BY <2>1 DEF RunInv, Requested, Waiting, Migrated, Based, Late
  <2>3. baseline[r] # NoBaseline /\ baseline[r].task \in Runs =>
            Released(baseline[r].task)'
    BY <1>1, <2>1 DEF RunInv, Inspected
  <2>4. baseline[r] # NoBaseline =>
            ImageOf(baseline[r].task)' = ImageOf(baseline[r].task)
    BY DEF ImageOf
  <2>5. step'[r] = "queued" => step[r] = "queued"
    BY DEF Late
  <2>6. Inspected(r)'
    BY <2>1, <2>3, <2>4, <2>5 DEF RunInv, Inspected, ValidContract
  <2>7. QED
    BY <2>2, <2>6 DEF RunInv
<1>5. QED
  BY <1>2, <1>3, <1>4 DEF PipelineInv

LEMMA Counts == \A n \in 1..MaxCount : n \in 0..MaxCount
<1>1. MaxCount \in Nat
  BY PipelineAssumption
<1>2. QED
  BY <1>1

LEMMA UpdateServiceKeeps ==
    ASSUME PipelineInv, NEW r \in Runs, UpdateService(r) PROVE PipelineInv'
<1>1. PICK s \in {"wait stable", "rollback"} :
          /\ Goto(r, s)
          /\ \/ service' = Updated(r, request[r].count)
             \/ s = "rollback" /\ UNCHANGED service
  BY DEF UpdateService
<1>2. /\ step[r] = "update" /\ r \in Active
      /\ s \in Steps
      /\ UNCHANGED <<baseline, migration>>
  BY DEF UpdateService, Active, Steps
<1>3. /\ step' = [step EXCEPT ![r] = s]
      /\ UNCHANGED <<request, outcome, otherChanges>>
  BY <1>1 DEF Goto
<1>4. /\ step' \in [Runs -> Steps]
      /\ step'[r] = s
      /\ \A q \in Runs : q # r => step'[q] = step[q]
  BY <1>2, <1>3, StepTo DEF PipelineInv
<1>5. RunInv(r)
  BY DEF PipelineInv
<1>6. /\ service.task = baseline[r].task
      /\ service.desired = baseline[r].count
      /\ service.older = {}
      /\ service.rollout = "COMPLETED"
      /\ service.completed = baseline[r].task
      /\ baseline[r] # NoBaseline
      /\ baseline[r].task # r
  BY <1>2, <1>5 DEF PipelineInv, RunInv, Undisturbed, Based, Inspected,
                    LastCompleted
<1>7. CASE service' = Updated(r, request[r].count)
  <2>1. r \in Tasks /\ request[r].count \in 0..MaxCount
    <3>1. request[r] \in Requests
      BY <1>2, <1>5 DEF RunInv, Requested
    <3>2. request[r].count \in 1..MaxCount
      BY <3>1 DEF Requests
    <3>3. QED
      BY <3>2, Counts DEF Tasks
  <2>2. TypeOK
    BY DEF PipelineInv
  <2>3. /\ service' \in Services
        /\ service'.task = r
        /\ service'.desired = request[r].count
        /\ service'.completed = baseline[r].task
        /\ service'.older \subseteq service.older \cup {service.task}
        /\ service.desired > 0 => service'.older # {}
        /\ service'.rollout = "IN_PROGRESS"
    BY <1>6, <1>7, <2>1, <2>2, UpdatedService
  <2>4. TypeOK'
    BY <1>2, <1>3, <1>4, <2>2, <2>3 DEF TypeOK
  <2>5. Released(r)'
    BY <1>2, <1>3, <1>4, <1>5, <1>6
       DEF RunInv, Migrated, Released, Early
  <2>6. LastCompleted' /\ Fallback'
    BY <1>2, <2>3 DEF LastCompleted, Fallback
  <2>7. /\ Undisturbed(r)' /\ UnderWay(r)' /\ OnItsWay(r)' /\ Restoring(r)'
    BY <1>2, <1>3, <1>4, <1>6, <2>3
       DEF Undisturbed, UnderWay, OnItsWay, Restoring
  <2>8. ASSUME NEW q \in Runs, q # r
        PROVE  Undisturbed(q)' /\ UnderWay(q)' /\ OnItsWay(q)' /\ Restoring(q)'
    <3>1. step'[q] \in {"queued", "done"}
      BY <1>2, <1>4, <2>8, OnlyOne DEF PipelineInv
    <3>2. QED
      BY <3>1 DEF Undisturbed, UnderWay, OnItsWay, Restoring, Late
  <2>9. \A q \in Runs : \/ step'[q] = step[q]
                        \/ /\ step[q] \in Late \cup {"update"}
                           /\ step'[q] \in Late \cup {"done"}
    BY <1>2, <1>4 DEF Late
  <2>10. \A t \in Runs :
            t \in service'.older \cup {service'.task, service'.completed} =>
                \/ t \in service.older \cup {service.task, service.completed}
                \/ Released(t)'
    BY <1>6, <2>3, <2>5
  <2>11. QED
    BY <1>2, <1>3, <2>4, <2>6, <2>7, <2>8, <2>9, <2>10, ServiceKeeps
<1>8. CASE s = "rollback" /\ UNCHANGED service
  <2>1. /\ TypeOK'
        /\ UNCHANGED <<request, baseline, migration, service>>
    BY <1>1, <1>2, <1>8, GotoTypes
  <2>2. Waiting(r)' /\ Migrated(r)' /\ Based(r)' /\ UnderWay(r)'
    BY <1>2, <1>4, <1>5, <1>6, <2>1
       DEF RunInv, Waiting, Migrated, Based, UnderWay
  <2>3. Undisturbed(r)' /\ OnItsWay(r)' /\ Restoring(r)'
    BY <1>4, <1>8 DEF Undisturbed, OnItsWay, Restoring
  <2>4. QED
    BY <1>2, <1>3, <1>8, <2>1, <2>2, <2>3, MoveKeeps DEF Early
<1>9. QED
  BY <1>1, <1>7, <1>8

LEMMA RollbackKeeps ==
    ASSUME PipelineInv, NEW r \in Runs, Rollback(r) PROVE PipelineInv'
<1>1. /\ step[r] = "rollback" /\ r \in Active
      /\ UNCHANGED <<baseline, migration>>
  BY DEF Rollback, Active
<1>2. CASE End(r, "unrestored") /\ UNCHANGED service
  BY <1>1, <1>2, BlockKeeps DEF Outcomes
<1>3. CASE /\ service' = Updated(baseline[r].task, baseline[r].count)
           /\ Goto(r, "wait restored") \/ End(r, "unrestored")
  <2>1. PICK s \in {"wait restored", "done"}, result \in Outcomes :
            /\ step' = [step EXCEPT ![r] = s]
            /\ outcome' = [outcome EXCEPT ![r] = result]
            /\ UNCHANGED <<request, otherChanges>>
    <3>1. outcome = [outcome EXCEPT ![r] = outcome[r]] /\ outcome[r] \in Outcomes
      BY DEF PipelineInv, TypeOK
    <3>2. QED
      BY <1>3, <3>1 DEF Goto, End, Outcomes
  <2>2. s \in Steps
    BY DEF Steps
  <2>3. /\ step' \in [Runs -> Steps]
        /\ step'[r] = s
        /\ \A q \in Runs : q # r => step'[q] = step[q]
    BY <2>1, <2>2, StepTo DEF PipelineInv
  <2>4. RunInv(r)
    BY DEF PipelineInv
  <2>5. /\ service.task \in {r, baseline[r].task}
        /\ service.completed \in {r, baseline[r].task}
        /\ baseline[r] # NoBaseline
        /\ baseline[r].task # r
        /\ baseline[r].task \in Runs => Released(baseline[r].task)
    BY <1>1, <2>4 DEF RunInv, UnderWay, Based, Inspected, Late
  <2>6. TypeOK
    BY DEF PipelineInv
  <2>7. baseline[r].task \in Tasks /\ baseline[r].count \in 0..MaxCount
    BY <2>5, <2>6 DEF TypeOK, Baselines
  <2>8. /\ service' \in Services
        /\ service'.task = baseline[r].task
        /\ service'.desired = baseline[r].count
        /\ service'.completed = service.completed
        /\ service'.older \subseteq service.older \cup {service.task}
        /\ baseline[r].task = service.task => service'.rollout = service.rollout
        /\ baseline[r].task # service.task => service'.rollout = "IN_PROGRESS"
    BY <1>3, <2>6, <2>7, UpdatedService
  <2>9. TypeOK'
    BY <1>1, <2>1, <2>3, <2>6, <2>8 DEF TypeOK
  <2>10. LastCompleted'
    BY <2>8 DEF PipelineInv, LastCompleted
  <2>11. Fallback'
    <3>1. CASE baseline[r].task = service.task
      BY <1>1, <2>8, <3>1 DEF PipelineInv, Fallback
    <3>2. CASE baseline[r].task # service.task
      BY <1>1, <2>5, <2>8, <3>2 DEF Fallback
    <3>3. QED
      BY <3>1, <3>2
  <2>12. Undisturbed(r)' /\ UnderWay(r)' /\ OnItsWay(r)' /\ Restoring(r)'
    BY <1>1, <2>3, <2>5, <2>8
       DEF Undisturbed, UnderWay, OnItsWay, Restoring, Late
  <2>13. ASSUME NEW q \in Runs, q # r
         PROVE  Undisturbed(q)' /\ UnderWay(q)' /\ OnItsWay(q)' /\ Restoring(q)'
    <3>1. step'[q] \in {"queued", "done"}
      BY <1>1, <2>3, <2>13, OnlyOne DEF PipelineInv
    <3>2. QED
      BY <3>1 DEF Undisturbed, UnderWay, OnItsWay, Restoring, Late
  <2>14. \A q \in Runs : \/ step'[q] = step[q]
                         \/ /\ step[q] \in Late \cup {"update"}
                            /\ step'[q] \in Late \cup {"done"}
    BY <1>1, <2>3 DEF Late
  <2>15. \A t \in Runs : t = baseline[r].task => Released(t)'
    BY <1>1, <2>1, <2>3, <2>5 DEF Released
  <2>16. \A t \in Runs :
            t \in service'.older \cup {service'.task, service'.completed} =>
                \/ t \in service.older \cup {service.task, service.completed}
                \/ Released(t)'
    BY <2>8, <2>15
  <2>17. QED
    BY <1>1, <2>1, <2>9, <2>10, <2>11, <2>12, <2>13, <2>14, <2>16, ServiceKeeps
<1>4. QED
  BY <1>2, <1>3 DEF Rollback

\* What ECS does on its own.
LEMMA EcsKeeps ==
    ASSUME PipelineInv, NEW s \in Services, ServiceBecomes(s),
           s.older \cup {s.task, s.completed}
               \subseteq service.older \cup {service.task, service.completed},
           LastCompleted', Fallback',
           \A q \in Runs : /\ Undisturbed(q)' /\ UnderWay(q)'
                           /\ OnItsWay(q)' /\ Restoring(q)'
    PROVE  PipelineInv'
<1>1. /\ service' = s
      /\ UNCHANGED <<step, request, baseline, migration, outcome, otherChanges>>
  BY DEF ServiceBecomes
<1>2. TypeOK'
  BY <1>1 DEF PipelineInv, TypeOK
<1>3. QED
  BY <1>1, <1>2, ServiceKeeps

LEMMA TasksMove ==
    ASSUME PipelineInv, NEW n \in 0..MaxCount,
           n > service.running => n <= service.desired,
           ServiceBecomes([service EXCEPT !.running = n])
    PROVE  PipelineInv'
<1> DEFINE s == [service EXCEPT !.running = n]
<1>1. service \in Services
  BY DEF PipelineInv, TypeOK
<1>2. /\ s \in Services
      /\ s.task = service.task
      /\ s.desired = service.desired
      /\ s.running = n
      /\ s.older = service.older
      /\ s.rollout = service.rollout
      /\ s.completed = service.completed
  BY <1>1 DEF Services
<1> HIDE DEF s
<1>3. /\ service' = s
      /\ UNCHANGED <<step, request, baseline, migration, outcome, otherChanges>>
      /\ ServiceBecomes(s)
  BY DEF ServiceBecomes, s
<1>4. service.running <= service.desired => n <= service.desired
  BY <1>1 DEF Services
<1>5. LastCompleted' /\ Fallback'
  BY <1>2, <1>3 DEF PipelineInv, LastCompleted, Fallback
<1>6. ASSUME NEW q \in Runs
      PROVE  Undisturbed(q)' /\ UnderWay(q)' /\ OnItsWay(q)' /\ Restoring(q)'
  <2>1. RunInv(q)
    BY DEF PipelineInv
  <2>2. Undisturbed(q)'
    BY <1>2, <1>3, <1>4, <2>1 DEF RunInv, Undisturbed
  <2>3. UnderWay(q)' /\ OnItsWay(q)' /\ Restoring(q)'
    BY <1>2, <1>3, <2>1 DEF RunInv, UnderWay, OnItsWay, Restoring
  <2>4. QED
    BY <2>2, <2>3
<1>7. QED
  BY <1>2, <1>3, <1>5, <1>6, EcsKeeps

LEMMA RolloutCompletesKeeps ==
    ASSUME PipelineInv, RolloutCompletes PROVE PipelineInv'
<1> DEFINE s == [service EXCEPT !.older = {},
                                !.rollout = "COMPLETED",
                                !.completed = service.task]
<1>1. service \in Services
  BY DEF PipelineInv, TypeOK
<1>2. /\ s \in Services
      /\ s.task = service.task
      /\ s.desired = service.desired
      /\ s.older = {}
      /\ s.rollout = "COMPLETED"
      /\ s.completed = service.task
  BY <1>1 DEF Services
<1>3. service.rollout = "IN_PROGRESS" /\ ServiceBecomes(s)
  BY DEF RolloutCompletes
<1> HIDE DEF s
<1>4. /\ service' = s
      /\ UNCHANGED <<step, request, baseline, migration, outcome, otherChanges>>
  BY <1>3 DEF ServiceBecomes
<1>5. LastCompleted' /\ Fallback'
  BY <1>2, <1>4 DEF LastCompleted, Fallback
<1>6. ASSUME NEW q \in Runs
      PROVE  Undisturbed(q)' /\ UnderWay(q)' /\ OnItsWay(q)' /\ Restoring(q)'
  <2>1. RunInv(q)
    BY DEF PipelineInv
  <2>2. Undisturbed(q)' /\ UnderWay(q)' /\ Restoring(q)'
    BY <1>2, <1>3, <1>4, <2>1 DEF RunInv, Undisturbed, UnderWay, Restoring
  <2>3. OnItsWay(q)'
    BY <1>2, <1>3, <1>4, <2>1 DEF RunInv, OnItsWay
  <2>4. QED
    BY <2>2, <2>3
<1>7. QED
  BY <1>2, <1>3, <1>5, <1>6, EcsKeeps

\* The circuit breaker goes back to what the run has inspected.
LEMMA CircuitBreakerKeeps ==
    ASSUME PipelineInv, CircuitBreakerTrips PROVE PipelineInv'
<1>1. service \in Services /\ TypeOK
  BY DEF PipelineInv, TypeOK
<1>2. service.rollout = "IN_PROGRESS"
  BY DEF CircuitBreakerTrips
<1>3. PICK s \in Services :
          /\ ServiceBecomes(s)
          /\ s.desired = service.desired
          /\ s.completed = service.completed
          /\ s.task = service.completed
          /\ s.older \subseteq service.older \cup {service.task}
          /\ s.rollout # "COMPLETED"
  <2>1. CASE service.completed = service.task
    <3> DEFINE s == [service EXCEPT !.rollout = "FAILED"]
    <3>1. ServiceBecomes(s)
      BY <2>1 DEF CircuitBreakerTrips
    <3>2. /\ s \in Services
          /\ s.desired = service.desired
          /\ s.completed = service.completed
          /\ s.task = service.completed
          /\ s.older \subseteq service.older \cup {service.task}
          /\ s.rollout # "COMPLETED"
      BY <1>1, <2>1 DEF Services
    <3>3. QED
      BY <3>1, <3>2
  <2>2. CASE service.completed # service.task
    <3> DEFINE s == Updated(service.completed, service.desired)
    <3>1. ServiceBecomes(s) /\ service' = s
      BY <2>2 DEF CircuitBreakerTrips, ServiceBecomes
    <3>2. service.completed \in Tasks /\ service.desired \in 0..MaxCount
      BY <1>1 DEF Services
    <3> HIDE DEF s
    <3>3. /\ s \in Services
          /\ s.desired = service.desired
          /\ s.completed = service.completed
          /\ s.task = service.completed
          /\ s.older \subseteq service.older \cup {service.task}
          /\ s.rollout # "COMPLETED"
      BY <1>1, <2>2, <3>1, <3>2, UpdatedService DEF s
    <3>4. QED
      BY <3>1, <3>3
  <2>3. QED
    BY <2>1, <2>2
<1>4. /\ service' = s
      /\ UNCHANGED <<step, request, baseline, migration, outcome, otherChanges>>
  BY <1>3 DEF ServiceBecomes
<1>5. LastCompleted' /\ Fallback'
  BY <1>3, <1>4 DEF LastCompleted, Fallback
<1>6. ASSUME NEW q \in Runs
      PROVE  Undisturbed(q)' /\ UnderWay(q)' /\ OnItsWay(q)' /\ Restoring(q)'
  <2>1. RunInv(q)
    BY DEF PipelineInv
  <2>2. Undisturbed(q)' /\ UnderWay(q)' /\ Restoring(q)'
    BY <1>2, <1>3, <1>4, <2>1 DEF RunInv, Undisturbed, UnderWay, Restoring
  <2>3. step[q] = "readiness" =>
            baseline[q].count = 0 \/ baseline[q].count > 0
    <3>1. step[q] = "readiness" => baseline[q] \in Baselines
      BY <1>1, <2>1 DEF RunInv, Based, Late, TypeOK
    <3>2. QED
      BY <3>1 DEF Baselines
  <2>4. OnItsWay(q)'
    <3>1. OnItsWay(q)
      BY <2>1 DEF RunInv
    <3>2. step[q] \in {"wait stable", "describe", "readiness"} =>
              service.completed \in {q, baseline[q].task}
      BY <3>1 DEF OnItsWay
    <3>3. SUFFICES ASSUME step[q] \in {"wait stable", "describe", "readiness"}
                   PROVE  /\ service.completed = baseline[q].task
                          /\ step[q] = "readiness" => baseline[q].count = 0
      BY <1>3, <1>4, <3>2 DEF OnItsWay
    <3>4. \/ /\ service.completed = baseline[q].task
             /\ step[q] = "readiness" => baseline[q].count = 0
          \/ /\ service.completed = baseline[q].task
             /\ baseline[q].count > 0 => step[q] = "wait stable"
      BY <1>2, <3>1, <3>3 DEF OnItsWay
    <3>5. QED
      BY <2>3, <3>4
  <2>5. QED
    BY <2>2, <2>4
<1>7. QED
  BY <1>3, <1>5, <1>6, EcsKeeps

LEMMA ChangeByHandKeeps ==
    ASSUME PipelineInv, NEW task \in OtherTasks, NEW count \in 0..MaxCount,
           ChangeByHand(task, count)
    PROVE  PipelineInv'
<1>1. /\ service' = Updated(task, count)
      /\ otherChanges' = otherChanges + 1 /\ otherChanges < MaxOtherChanges
      /\ UNCHANGED <<step, request, baseline, migration, outcome>>
  BY DEF ChangeByHand
<1>2. TypeOK /\ task \in Tasks /\ task \notin Runs
  BY PipelineAssumption DEF PipelineInv, Tasks
<1>3. /\ service' \in Services
      /\ service'.task = task
      /\ service'.completed = service.completed
      /\ service'.older \subseteq service.older \cup {service.task}
      /\ task = service.task => service'.rollout = service.rollout
      /\ task # service.task => service'.rollout = "IN_PROGRESS"
  BY <1>1, <1>2, UpdatedService
<1>4. otherChanges' \in 0..MaxOtherChanges
  BY <1>1, <1>2, PipelineAssumption DEF TypeOK
<1>5. TypeOK'
  BY <1>1, <1>2, <1>3, <1>4 DEF TypeOK
<1>6. LastCompleted' /\ Fallback'
  BY <1>2, <1>3 DEF PipelineInv, LastCompleted, Fallback
<1>7. ASSUME NEW q \in Runs
      PROVE  Undisturbed(q)' /\ UnderWay(q)' /\ OnItsWay(q)' /\ Restoring(q)'
  <2>1. step'[q] \in {"queued", "verify migration", "check migration",
                      "verify rollout", "check rollout", "done"}
    BY <1>1 DEF ChangeByHand
  <2>2. QED
    BY <2>1 DEF Undisturbed, UnderWay, OnItsWay, Restoring, Late
<1>8. QED
  BY <1>1, <1>2, <1>3, <1>5, <1>6, <1>7, ServiceKeeps

-----------------------------------------------------------------------------
(* The invariant.                                                          *)

LEMMA ScriptStepKeeps ==
    ASSUME PipelineInv, NEW r \in Runs, ScriptStep(r) PROVE PipelineInv'
<1>1. CASE VerifyForMigration(r)
  BY <1>1, VerifyKeeps DEF VerifyForMigration
<1>2. CASE VerifyForRollout(r)
  BY <1>2, VerifyKeeps DEF VerifyForRollout
<1>3. QED
  BY <1>1, <1>2, CheckForMigrationKeeps, RunMigrationKeeps, WaitMigrationKeeps,
     ConfirmMigrationKeeps, CheckForRolloutKeeps, UpdateServiceKeeps,
     WaitStableKeeps, DescribeKeeps, ReadinessKeeps, RollbackKeeps,
     WaitRestoredKeeps DEF ScriptStep

LEMMA NextPipelineInv == PipelineInv /\ [Next]_vars => PipelineInv'
<1>1. SUFFICES ASSUME PipelineInv, [Next]_vars PROVE PipelineInv'
  OBVIOUS
<1>2. ASSUME NEW r \in Runs,
             Dispatch(r) \/ ScriptStep(r) \/ Cancel(r) \/ MigrationExits(r)
      PROVE  PipelineInv'
  BY <1>1, <1>2, DispatchKeeps, ScriptStepKeeps, CancelKeeps,
     MigrationExitsKeeps
<1>3. service.running \in 0..MaxCount /\ service.desired \in 0..MaxCount
  BY <1>1 DEF PipelineInv, TypeOK, Services
<1>4. MaxCount \in Nat
  BY PipelineAssumption
<1>5. CASE TaskStarts
  <2>1. /\ service.running + 1 \in 0..MaxCount
        /\ service.running + 1 <= service.desired
    BY <1>3, <1>4, <1>5 DEF TaskStarts
  <2>2. ServiceBecomes([service EXCEPT !.running = service.running + 1])
    BY <1>5 DEF TaskStarts
  <2>3. QED
    BY <1>1, <2>1, <2>2, TasksMove
<1>6. CASE TaskStops
  <2>1. /\ service.running - 1 \in 0..MaxCount
        /\ ~(service.running - 1 > service.running)
    BY <1>3, <1>4, <1>6 DEF TaskStops
  <2>2. ServiceBecomes([service EXCEPT !.running = service.running - 1])
    BY <1>6 DEF TaskStops
  <2>3. QED
    BY <1>1, <2>1, <2>2, TasksMove
<1>7. CASE UNCHANGED vars
  <2>1. UNCHANGED <<step, request, baseline, migration, outcome, service,
                    otherChanges>>
    BY <1>7 DEF vars
  <2>2. TypeOK'
    BY <1>1, <2>1 DEF PipelineInv, TypeOK
  <2>3. LastCompleted' /\ Fallback'
    BY <1>1, <2>1 DEF PipelineInv, LastCompleted, Fallback
  <2>4. ASSUME NEW q \in Runs
        PROVE  Undisturbed(q)' /\ UnderWay(q)' /\ OnItsWay(q)' /\ Restoring(q)'
    BY <1>1, <2>1
       DEF PipelineInv, RunInv, Undisturbed, UnderWay, OnItsWay, Restoring
  <2>5. QED
    BY <1>1, <2>1, <2>2, <2>3, <2>4, ServiceKeeps
<1>8. QED
  BY <1>1, <1>2, <1>5, <1>6, <1>7, RolloutCompletesKeeps, CircuitBreakerKeeps,
     ChangeByHandKeeps DEF Next

\* The inductive invariant of the releases, for any number of runs, task
\* definitions, images and changes by hand: one run at work at a time, what it
\* inspected still serving when it migrates and when it updates, and the
\* service on its way from there to the run's revision or back (deploy.yml:20-22,
\* migrate-ecs.sh:23-29, deploy-ecs.sh:30-75).
THEOREM PipelineInvariant == Spec => []PipelineInv
<1>1. Init => PipelineInv
  BY InitPipelineInv
<1>2. PipelineInv /\ [Next]_vars => PipelineInv'
  BY NextPipelineInv
<1>3. QED
  BY <1>1, <1>2, PTL DEF Spec

-----------------------------------------------------------------------------
(* What it implies.                                                        *)

LEMMA ValidHonours ==
    ASSUME NEW image, ValidContract(image) PROVE Honours(image)
BY DEF ValidContract, Honours

\* What another run or the gate has inspected honours the contract.
LEMMA InspectedHonours ==
    ASSUME PipelineInv, NEW r \in Runs, baseline[r] # NoBaseline
    PROVE  /\ Honours(ImageOf(r))
           /\ baseline[r].count > 0 => Honours(ImageOf(baseline[r].task))
<1>1. Inspected(r)
  BY DEF PipelineInv, RunInv
<1>2. ImageOf(r) = request[r].image
  BY DEF ImageOf
<1>3. QED
  BY <1>1, <1>2, ValidHonours DEF Inspected

\* The variables of the releases keep their types.
THEOREM PipelineTypes == Spec => []TypeOK
<1>1. PipelineInv => TypeOK
  BY DEF PipelineInv
<1>2. QED
  BY <1>1, PipelineInvariant, PTL

-----------------------------------------------------------------------------
(* A migration that outlives its run.  While it runs, whatever serves, or  *)
(* may come to serve (Exposed), has been inspected, or was at count zero   *)
(* when a run put its revision over it (Sparing).                         *)

Exposed ==
    service.older
        \cup (IF service.running > 0 \/ service.desired > 0
              THEN {service.task} ELSE {})
        \cup (IF service.desired > 0 /\ service.rollout = "IN_PROGRESS"
              THEN {service.completed} ELSE {})

Sparing(t) == Honours(ImageOf(t)) \/ \E r \in Runs : PutOverZero(r, t)

Spared ==
    (\E r \in Runs : migration[r] = "running") => \A t \in Exposed : Sparing(t)

\* A run past its inspections keeps its baseline and does not start anew.
LEMMA PastStays ==
    ASSUME TypeOK, Next, NEW r \in Runs, step[r] \in Late \cup {"done"}
    PROVE  step'[r] \in Late \cup {"done"} /\ baseline'[r] = baseline[r]
<1>1. /\ step \in [Runs -> Steps]
      /\ baseline \in [Runs -> Baselines \cup {NoBaseline}]
  BY DEF TypeOK
<1>2. ASSUME NEW q \in Runs, NEW s \in Steps, Goto(q, s),
             q = r => s \in Late
      PROVE  step'[r] \in Late \cup {"done"}
  BY <1>1, <1>2 DEF Goto
<1>3. ASSUME NEW q \in Runs, NEW result \in Outcomes, End(q, result)
      PROVE  step'[r] \in Late \cup {"done"}
  BY <1>1, <1>3 DEF End
<1>4. ASSUME NEW q \in Runs, Dispatch(q)
      PROVE  step'[r] = step[r] /\ baseline' = baseline
  BY <1>1, <1>4 DEF Dispatch, Start, Late
<1>5. ASSUME NEW q \in Runs, NEW s \in Early, NEW t \in Steps, Verify(q, s, t)
      PROVE  step'[r] \in Late \cup {"done"} /\ baseline'[r] = baseline[r]
  <2>1. q # r
    BY <1>5 DEF Verify, Early, Late
  <2>2. CASE Block(q)
    BY <1>3, <2>2 DEF Block, Outcomes
  <2>3. CASE baseline' = [baseline EXCEPT ![q] = Snapshot] /\ Goto(q, t)
    BY <1>1, <1>2, <2>1, <2>3
  <2>4. QED
    BY <1>5, <2>2, <2>3 DEF Verify
<1>6. ASSUME NEW q \in Runs, NEW s \in Early, NEW t \in Steps, Check(q, s, t)
      PROVE  step'[r] \in Late \cup {"done"} /\ baseline' = baseline
  <2>1. q # r
    BY <1>6 DEF Check, Early, Late
  <2>2. CASE Block(q)
    BY <1>3, <2>2 DEF Block, Outcomes
  <2>3. QED
    BY <1>2, <1>6, <2>1, <2>2 DEF Check
<1>7. ASSUME NEW q \in Runs,
             RunMigration(q) \/ WaitMigration(q) \/ ConfirmMigration(q)
      PROVE  step'[r] \in Late \cup {"done"} /\ baseline' = baseline
  <2>1. q # r
    BY <1>7 DEF RunMigration, WaitMigration, ConfirmMigration, Late
  <2>2. QED
    BY <1>2, <1>3, <1>7, <2>1
       DEF RunMigration, WaitMigration, ConfirmMigration, Block, Steps, Outcomes
<1>8. ASSUME NEW q \in Runs,
             \/ UpdateService(q) \/ WaitStable(q) \/ Describe(q)
             \/ Readiness(q) \/ Rollback(q) \/ WaitRestored(q) \/ Cancel(q)
      PROVE  step'[r] \in Late \cup {"done"} /\ baseline' = baseline
  BY <1>2, <1>3, <1>8
     DEF UpdateService, WaitStable, Describe, Readiness, Rollback,
         WaitRestored, Cancel, Late, Steps, Outcomes
<1>9. ASSUME NEW q \in Runs, ScriptStep(q)
      PROVE  step'[r] \in Late \cup {"done"} /\ baseline'[r] = baseline[r]
  BY <1>5, <1>6, <1>7, <1>8, <1>9
     DEF ScriptStep, VerifyForMigration, VerifyForRollout, CheckForMigration,
         CheckForRollout, Early, Steps
<1>10. CASE step' = step /\ baseline' = baseline
  BY <1>10
<1>11. QED
  BY <1>4, <1>8, <1>9, <1>10
     DEF Next, MigrationExits, TaskStarts, TaskStops, RolloutCompletes,
         CircuitBreakerTrips, ServiceBecomes, ChangeByHand

\* A dispatched run keeps its inputs.
LEMMA RequestStays ==
    ASSUME TypeOK, Next, NEW t \in Runs, step[t] # "queued"
    PROVE  request'[t] = request[t]
<1>1. CASE request' = request
  BY <1>1
<1>2. CASE \E q \in Runs : Dispatch(q)
  BY <1>2 DEF TypeOK, Dispatch, Start
<1>3. QED
  BY <1>1, <1>2
     DEF Next, ScriptStep, VerifyForMigration, CheckForMigration, RunMigration,
         WaitMigration, ConfirmMigration, VerifyForRollout, CheckForRollout,
         UpdateService, WaitStable, Describe, Readiness, Rollback, WaitRestored,
         Verify, Check, Cancel, Block, Goto, End, MigrationExits, TaskStarts,
         TaskStops, RolloutCompletes, CircuitBreakerTrips, ServiceBecomes,
         ChangeByHand

LEMMA SparingStays ==
    ASSUME TypeOK, Next, NEW t \in Tasks, t \in Runs => step[t] # "queued",
           Sparing(t)
    PROVE  Sparing(t)'
<1>1. CASE Honours(ImageOf(t))
  <2>1. ImageOf(t)' = ImageOf(t)
    BY RequestStays DEF ImageOf
  <2>2. QED
    BY <1>1, <2>1 DEF Sparing, Honours
<1>2. ASSUME NEW r \in Runs, PutOverZero(r, t) PROVE PutOverZero(r, t)'
  <2>1. step[r] \in Late \cup {"done"}
    BY <1>2 DEF PutOverZero, Late
  <2>2. step'[r] \in Late \cup {"done"} /\ baseline'[r] = baseline[r]
    BY <2>1, PastStays
  <2>3. QED
    BY <1>2, <2>2 DEF PutOverZero, Late
<1>3. QED
  BY <1>1, <1>2 DEF Sparing

\* An update exposes its task, and what ECS may go back to from it.
LEMMA UpdateExposes ==
    ASSUME TypeOK, NEW task \in Tasks, NEW count \in 0..MaxCount,
           service' = Updated(task, count), NEW t \in Exposed'
    PROVE  t \in Exposed \/ (count > 0 /\ t \in {task, service.completed})
<1>1. service \in Services
  BY DEF TypeOK
<1>2. CASE task = service.task
  <2>1. /\ service'.task = task
        /\ service'.desired = count
        /\ service'.running = service.running
        /\ service'.older = service.older
        /\ service'.completed = service.completed
    BY <1>1, <1>2 DEF Updated, Services
  <2>2. QED
    BY <1>2, <2>1 DEF Exposed
<1>3. CASE task # service.task
  <2> DEFINE older == IF service.desired = 0 /\ service.running = 0
                      THEN service.older
                      ELSE service.older \cup {service.task}
  <2>1. older \subseteq Exposed
    BY <1>1 DEF Services, Exposed
  <2>2. service' = [service EXCEPT !.task = task,
                                   !.deployment = @ + 1,
                                   !.desired = count,
                                   !.running = 0,
                                   !.older = older,
                                   !.rollout = "IN_PROGRESS"]
    BY <1>3 DEF Updated
  <2> HIDE DEF older
  <2>3. /\ service'.task = task
        /\ service'.desired = count
        /\ service'.running = 0
        /\ service'.older = older
        /\ service'.completed = service.completed
    BY <1>1, <2>2 DEF Services
  <2>4. QED
    BY <2>1, <2>3 DEF Exposed
<1>4. QED
  BY <1>2, <1>3

\* Where a migration starts, the run has inspected all that may serve.
LEMMA MigrationStartsSparing ==
    ASSUME PipelineInv, NEW r \in Runs
    PROVE  step[r] = "run migration" => \A t \in Exposed : Sparing(t)
<1>1. SUFFICES ASSUME step[r] = "run migration", NEW t \in Exposed
               PROVE  Sparing(t)
  OBVIOUS
<1>2. /\ service.task = baseline[r].task
      /\ service.desired = baseline[r].count
      /\ service.running <= service.desired
      /\ service.older = {}
      /\ service.rollout = "COMPLETED"
      /\ baseline[r] # NoBaseline
  BY <1>1 DEF PipelineInv, RunInv, Undisturbed, Based
<1>3. t = service.task /\ (service.running > 0 \/ service.desired > 0)
  BY <1>1, <1>2 DEF Exposed
<1>4. service.running \in 0..MaxCount /\ service.desired \in 0..MaxCount
  BY DEF PipelineInv, TypeOK, Services
<1>5. baseline[r].count > 0
  BY <1>2, <1>3, <1>4
<1>6. QED
  BY <1>2, <1>3, <1>5, InspectedHonours DEF Sparing

LEMMA NextSpared == PipelineInv /\ Spared /\ [Next]_vars => Spared'
<1>1. SUFFICES ASSUME PipelineInv, Spared, Next,
                      NEW r \in Runs, migration'[r] = "running",
                      NEW t \in Exposed'
               PROVE  Sparing(t)'
  <2>1. ASSUME Spared, UNCHANGED vars PROVE Spared'
    <3>1. UNCHANGED <<step, request, baseline, migration, service>>
      BY <2>1 DEF vars
    <3>2. Exposed' = Exposed
      BY <3>1 DEF Exposed
    <3>3. ASSUME NEW t, Sparing(t) PROVE Sparing(t)'
      BY <3>1, <3>3 DEF Sparing, Honours, ImageOf, PutOverZero
    <3>4. QED
      BY <2>1, <3>1, <3>2, <3>3 DEF Spared
  <2>2. QED
    BY <2>1 DEF Spared
<1>2. TypeOK /\ service \in Services
  BY <1>1 DEF PipelineInv, TypeOK
<1>3. ASSUME NEW u \in Exposed, Sparing(u) PROVE Sparing(u)'
  <2>1. u \in service.older \cup {service.task, service.completed}
    BY <1>3 DEF Exposed
  <2>2. u \in Tasks
    BY <1>2, <2>1 DEF Services
  <2>3. u \in Runs => step[u] # "queued"
    BY <1>1, <2>1 DEF PipelineInv, InService, Released, Early
  <2>4. QED
    BY <1>1, <1>2, <1>3, <2>2, <2>3, SparingStays
<1>4. CASE migration[r] # "running"
  <2>1. RunMigration(r)
    <3>1. migration \in [Runs -> Migrations]
      BY <1>2 DEF TypeOK
    <3>2. migration' # migration
      BY <1>1, <1>4
    <3>3. ~\E q \in Runs : MigrationExits(q)
      BY <1>1, <1>4, <3>1 DEF MigrationExits
    <3>4. ~\E q \in Runs : WaitMigration(q)
      BY <1>1, <1>4, <3>1, <3>2 DEF WaitMigration, Block
    <3>5. PICK q \in Runs : RunMigration(q)
      BY <1>1, <3>2, <3>3, <3>4
         DEF Next, ScriptStep, VerifyForMigration, CheckForMigration,
             ConfirmMigration, VerifyForRollout, CheckForRollout,
             UpdateService, WaitStable, Describe, Readiness, Rollback,
             WaitRestored, Verify, Check, Cancel, Block, Dispatch, Start,
             TaskStarts, TaskStops, RolloutCompletes, CircuitBreakerTrips,
             ServiceBecomes, ChangeByHand
    <3>6. migration' = [migration EXCEPT ![q] = "running"]
      BY <3>2, <3>5 DEF RunMigration, Block
    <3>7. QED
      BY <1>1, <1>4, <3>1, <3>5, <3>6
  <2>2. step[r] = "run migration" /\ service' = service
    BY <2>1 DEF RunMigration, Block
  <2>3. t \in Exposed
    BY <1>1, <2>2 DEF Exposed
  <2>4. QED
    BY <1>1, <1>3, <2>2, <2>3, MigrationStartsSparing
<1>5. CASE migration[r] = "running"
  <2>1. ASSUME t \in Exposed PROVE Sparing(t)'
    BY <1>1, <1>3, <1>5, <2>1 DEF Spared
  <2>2. CASE service' = service
    BY <1>1, <2>1, <2>2 DEF Exposed
  <2>3. ASSUME NEW q \in Runs, UpdateService(q), service' # service
        PROVE  Sparing(t)'
    <3>1. /\ step[q] = "update" /\ RunInv(q)
          /\ service' = Updated(q, request[q].count)
          /\ Goto(q, "wait stable") \/ Goto(q, "rollback")
          /\ baseline' = baseline
      BY <1>1, <2>3 DEF UpdateService, PipelineInv
    <3>2. request[q] \in Requests
      BY <3>1 DEF RunInv, Requested
    <3>3. q \in Tasks /\ request[q].count \in 0..MaxCount
      BY <3>2, Counts DEF Requests, Tasks
    <3>4. t \in Exposed \/ t \in {q, service.completed}
      BY <1>1, <1>2, <3>1, <3>3, UpdateExposes
    <3>5. /\ service.completed = baseline[q].task
          /\ baseline[q] # NoBaseline
      BY <1>1, <3>1
         DEF PipelineInv, LastCompleted, RunInv, Undisturbed, Based
    <3>6. CASE t = q
      <4>1. Sparing(t)
        BY <1>1, <3>5, <3>6, InspectedHonours DEF Sparing
      <4>2. QED
        BY <1>1, <1>2, <3>1, <3>3, <3>6, <4>1, SparingStays
    <3>7. CASE t = baseline[q].task /\ baseline[q].count > 0
      <4>1. Sparing(t) /\ t \in Tasks
        BY <1>1, <1>2, <3>5, <3>7, InspectedHonours DEF Sparing, Services
      <4>2. t \in Runs => step[t] # "queued"
        BY <1>1, <3>5, <3>7 DEF PipelineInv, InService, Released, Early
      <4>3. QED
        BY <1>1, <1>2, <4>1, <4>2, SparingStays
    <3>8. CASE t = baseline[q].task /\ baseline[q].count = 0
      <4>1. step'[q] \in {"wait stable", "rollback"}
        BY <1>2, <3>1 DEF TypeOK, Goto
      <4>2. PutOverZero(q, t)'
        BY <3>1, <3>5, <3>8, <4>1 DEF PutOverZero
      <4>3. QED
        BY <4>2 DEF Sparing
    <3>9. baseline[q].count > 0 \/ baseline[q].count = 0
      BY <1>2, <3>5 DEF TypeOK, Baselines
    <3>10. QED
      BY <2>1, <3>4, <3>5, <3>6, <3>7, <3>8, <3>9
  <2>4. ASSUME NEW q \in Runs, Rollback(q), service' # service
        PROVE  Sparing(t)'
    <3>1. /\ step[q] = "rollback" /\ RunInv(q)
          /\ service' = Updated(baseline[q].task, baseline[q].count)
      BY <1>1, <2>4 DEF Rollback, PipelineInv
    <3>2. /\ service.completed \in {q, baseline[q].task}
          /\ baseline[q] # NoBaseline
          /\ baseline[q].task \in Runs => Released(baseline[q].task)
      BY <3>1 DEF RunInv, UnderWay, Based, Inspected, Late
    <3>3. baseline[q].task \in Tasks /\ baseline[q].count \in 0..MaxCount
      BY <1>2, <3>2 DEF TypeOK, Baselines
    <3>4. \/ t \in Exposed
          \/ baseline[q].count > 0 /\ t \in {q, baseline[q].task}
      BY <1>1, <1>2, <3>1, <3>2, <3>3, UpdateExposes
    <3>5. CASE baseline[q].count > 0 /\ t \in {q, baseline[q].task}
      <4>1. Sparing(t) /\ t \in Tasks
        BY <1>1, <3>2, <3>3, <3>5, InspectedHonours DEF Sparing, Tasks
      <4>2. t \in Runs => step[t] # "queued"
        BY <3>1, <3>2, <3>5 DEF Released, Early
      <4>3. QED
        BY <1>1, <1>2, <4>1, <4>2, SparingStays
    <3>6. QED
      BY <2>1, <3>4, <3>5
  <2>5. CASE TaskStarts \/ TaskStops
    <3>1. PICK n \in Int :
              /\ service' = [service EXCEPT !.running = n]
              /\ service.running > 0 \/ service.desired > 0
      <4>1. service.running \in Int /\ service.desired \in Int
        BY <1>2 DEF Services
      <4>2. service.running \in Nat
        BY <1>2, PipelineAssumption DEF Services
      <4>3. CASE TaskStarts
        BY <4>1, <4>2, <4>3 DEF TaskStarts, ServiceBecomes
      <4>4. CASE TaskStops
        BY <4>1, <4>4 DEF TaskStops, ServiceBecomes
      <4>5. QED
        BY <2>5, <4>3, <4>4
    <3>2. /\ service'.task = service.task
          /\ service'.desired = service.desired
          /\ service'.older = service.older
          /\ service'.rollout = service.rollout
          /\ service'.completed = service.completed
      BY <1>2, <3>1 DEF Services
    <3>3. t \in Exposed
      BY <1>1, <3>1, <3>2 DEF Exposed
    <3>4. QED
      BY <2>1, <3>3
  <2>6. CASE RolloutCompletes
    <3>1. service' = [service EXCEPT !.older = {}, !.rollout = "COMPLETED",
                                     !.completed = service.task]
      BY <2>6 DEF RolloutCompletes, ServiceBecomes
    <3>2. /\ service'.task = service.task
          /\ service'.desired = service.desired
          /\ service'.running = service.running
          /\ service'.older = {}
          /\ service'.rollout = "COMPLETED"
      BY <1>2, <3>1 DEF Services
    <3>3. QED
      BY <1>1, <2>1, <3>2 DEF Exposed
  <2>7. CASE CircuitBreakerTrips
    <3>1. /\ service.rollout = "IN_PROGRESS"
          /\ service.desired > 0
          /\ service' = IF service.completed = service.task
                        THEN [service EXCEPT !.rollout = "FAILED"]
                        ELSE Updated(service.completed, service.desired)
      BY <2>7 DEF CircuitBreakerTrips, ServiceBecomes
    <3>2. CASE service' = [service EXCEPT !.rollout = "FAILED"]
      <4>1. /\ service'.task = service.task
            /\ service'.desired = service.desired
            /\ service'.running = service.running
            /\ service'.older = service.older
            /\ service'.rollout = "FAILED"
        BY <1>2, <3>2 DEF Services
      <4>2. QED
        BY <1>1, <2>1, <4>1 DEF Exposed
    <3>3. CASE service' = Updated(service.completed, service.desired)
      <4>1. service.completed \in Tasks /\ service.desired \in 0..MaxCount
        BY <1>2 DEF Services
      <4>2. t \in Exposed \/ t = service.completed
        BY <1>1, <1>2, <3>3, <4>1, UpdateExposes
      <4>3. service.completed \in Exposed
        BY <3>1 DEF Exposed
      <4>4. QED
        BY <2>1, <4>2, <4>3
    <3>4. QED
      BY <3>1, <3>2, <3>3
  <2>8. ~\E task \in OtherTasks, count \in 0..MaxCount :
            ChangeByHand(task, count)
    BY <1>5 DEF ChangeByHand
  <2>9. QED
    BY <1>1, <2>2, <2>3, <2>4, <2>5, <2>6, <2>7, <2>8
       DEF Next, ScriptStep, VerifyForMigration, CheckForMigration,
           RunMigration, WaitMigration, ConfirmMigration, VerifyForRollout,
           CheckForRollout, WaitStable, Describe, Readiness, WaitRestored,
           Verify, Check, Cancel, Block, Dispatch, Start, MigrationExits
<1>6. QED
  BY <1>4, <1>5

\* While a migration runs, its run at work or ended, whatever serves or may
\* come to serve honours the contract, or was at count zero when a run
\* put its revision over it (migrate-ecs.sh:39-43, deploy-ecs.sh:47-52).
THEOREM SparedInvariant == Spec => []Spared
<1>1. Init => Spared
  BY DEF Init, Spared
<1>2. PipelineInv /\ Spared /\ [Next]_vars => Spared'
  BY NextSpared
<1>3. QED
  BY <1>1, <1>2, PipelineInvariant, PTL DEF Spec

\* While a run is at work and its migration runs, every image that serves
\* honours the contract: the gate's inspection, minutes old, is still true of
\* the service (migrate-ecs.sh:10-13 and 23-29).  While the migration of a run
\* that has ended still runs, every image that serves honours it too, unless
\* it was at count zero, uninspected, when another run put its revision over
\* it (verify-deployment-image.py:59-60).
THEOREM MigrationsSpare == Spec => []MigrationsSpareServingTasks
<1>1. ASSUME PipelineInv, NEW r \in Active, migration[r] = "running",
             NEW task \in Serving
      PROVE  Honours(ImageOf(task))
  <2>1. r \in Runs /\ RunInv(r)
    BY <1>1 DEF PipelineInv, Active
  <2>2. step[r] = "wait migration"
    BY <1>1, <2>1 DEF RunInv, Waiting, Active
  <2>3. /\ service.task = baseline[r].task
        /\ service.desired = baseline[r].count
        /\ service.running <= service.desired
        /\ service.older = {}
        /\ baseline[r] # NoBaseline
    BY <2>1, <2>2 DEF RunInv, Undisturbed, Based
  <2>4. service.running > 0 /\ task = service.task
    BY <1>1, <2>3 DEF Serving
  <2>5. service.running \in 0..MaxCount /\ service.desired \in 0..MaxCount
    BY <1>1 DEF PipelineInv, TypeOK, Services
  <2>6. service.desired > 0
    BY <2>3, <2>4, <2>5
  <2>7. QED
    BY <1>1, <2>1, <2>3, <2>4, <2>6, InspectedHonours
<1>2. Serving \subseteq Exposed
  BY DEF Serving, Exposed
<1>3. PipelineInv /\ Spared => MigrationsSpareServingTasks
  BY <1>1, <1>2 DEF Spared, Sparing, MigrationsSpareServingTasks
<1>4. QED
  BY <1>3, PipelineInvariant, SparedInvariant, PTL

\* While a run's rollout over a live service is in progress, the revision the
\* circuit breaker would go back to honours the contract, whatever runs and
\* changes by hand came before (deploy-ecs.sh:13-17, service.tf's circuit
\* breaker).
THEOREM AutomaticRollbacks == Spec => []AutomaticRollbackIsVerified
<1>1. PipelineInv => AutomaticRollbackIsVerified
  <2>1. SUFFICES ASSUME PipelineInv, service.task \in Runs,
                        service.rollout = "IN_PROGRESS",
                        baseline[service.task].count > 0
                 PROVE  Honours(ImageOf(service.completed))
    BY DEF AutomaticRollbackIsVerified
  <2>2. baseline[service.task] # NoBaseline
    BY <2>1 DEF PipelineInv, InService, Released
  <2>3. CASE service.completed \in Runs
    <3>1. baseline[service.completed] # NoBaseline
      BY <2>1, <2>3 DEF PipelineInv, InService, Released
    <3>2. QED
      BY <2>1, <2>3, <3>1, InspectedHonours
  <2>4. CASE service.completed = baseline[service.task].task
    BY <2>1, <2>2, <2>4, InspectedHonours
  <2>5. QED
    BY <2>1, <2>3, <2>4 DEF PipelineInv, Fallback
<1>2. QED
  BY <1>1, PipelineInvariant, PTL

\* No revision of a deploying run is in service before that run's migration
\* has exited with zero (migrate-ecs.sh:39-52, deploy.yml:47-51).
THEOREM ServingFollows == Spec => []ServingFollowsMigration
<1>1. PipelineInv => ServingFollowsMigration
  BY DEF PipelineInv, InService, Released, ServingFollowsMigration, Serving
<1>2. QED
  BY <1>1, PipelineInvariant, PTL

\* Which calls a run can report success from.
LEMMA Reports ==
    ASSUME Next, TypeOK, NEW r \in Runs,
           NEW result \in {"healthy", "restored"}, Ends(r, result)
    PROVE  \/ result = "healthy" /\ step[r] = "readiness"
           \/ result = "restored" /\ step[r] = "wait restored"
<1>1. /\ outcome \in [Runs -> Outcomes]
      /\ outcome[r] = "none" /\ outcome'[r] = result
  BY DEF TypeOK, Ends
<1>2. outcome' # outcome
  BY <1>1
<1>3. ASSUME NEW q \in Runs, NEW failure \in {"blocked", "unrestored", "cancelled"},
             End(q, failure)
      PROVE  FALSE
  <2>1. outcome'[r] = outcome[r] \/ outcome'[r] = failure
    BY <1>1, <1>3 DEF End
  <2>2. QED
    BY <1>1, <2>1
<1>4. \A q \in Runs, s \in Steps : ~Goto(q, s)
  BY <1>2 DEF Goto
<1>5. PICK q \in Runs : ScriptStep(q) \/ Cancel(q)
  BY <1>2 DEF Next, Dispatch, Start, MigrationExits, TaskStarts, TaskStops,
              RolloutCompletes, CircuitBreakerTrips, ServiceBecomes,
              ChangeByHand
<1>6. ~Cancel(q)
  BY <1>3 DEF Cancel
<1>7. ~VerifyForMigration(q) /\ ~VerifyForRollout(q)
  BY <1>3, <1>4 DEF VerifyForMigration, VerifyForRollout, Verify, Block, Steps
<1>8. ~CheckForMigration(q) /\ ~CheckForRollout(q)
  BY <1>3, <1>4 DEF CheckForMigration, CheckForRollout, Check, Block, Steps
<1>9. ~RunMigration(q) /\ ~WaitMigration(q) /\ ~ConfirmMigration(q)
  BY <1>3, <1>4 DEF RunMigration, WaitMigration, ConfirmMigration, Block, Steps
<1>10. ~UpdateService(q) /\ ~WaitStable(q) /\ ~Describe(q) /\ ~Rollback(q)
  BY <1>3, <1>4 DEF UpdateService, WaitStable, Describe, Rollback, Steps
<1>11. CASE Readiness(q)
  <2>1. step[q] = "readiness" /\ End(q, "healthy")
    BY <1>4, <1>11 DEF Readiness, Steps
  <2>2. q = r /\ result = "healthy"
    BY <1>1, <2>1 DEF End
  <2>3. QED
    BY <2>1, <2>2
<1>12. CASE WaitRestored(q)
  <2>1. step[q] = "wait restored" /\ End(q, "restored")
    BY <1>3, <1>12 DEF WaitRestored
  <2>2. q = r /\ result = "restored"
    BY <1>1, <2>1 DEF End
  <2>3. QED
    BY <2>1, <2>2
<1>13. QED
  BY <1>5, <1>6, <1>7, <1>8, <1>9, <1>10, <1>11, <1>12 DEF ScriptStep

\* A run that reports healthy over a live service has completed, at its
\* revision and count; one that reports restored left the previous revision at
\* the previous count, unless ECS completed the rejected one
\* (deploy-ecs.sh:41-69).
THEOREM OutcomesAgree == Spec => OutcomesAgreeWithTheService
<1> DEFINE Agrees(r) ==
      /\ Ends(r, "healthy") /\ baseline[r].count > 0 =>
             /\ service.task = r
             /\ service.completed = r
             /\ service.desired = request[r].count
      /\ Ends(r, "restored") =>
             /\ service.desired = baseline[r].count
             /\ \/ service.task = baseline[r].task
                \/ service.task = r /\ service.completed = r
<1>1. PipelineInv /\ [Next]_vars => [\A r \in Runs : Agrees(r)]_vars
  <2>1. SUFFICES ASSUME PipelineInv, Next, NEW r \in Runs PROVE Agrees(r)
    OBVIOUS
  <2>2. RunInv(r) /\ TypeOK
    BY <2>1 DEF PipelineInv
  <2>3. ASSUME Ends(r, "healthy"), baseline[r].count > 0
        PROVE  /\ service.task = r
               /\ service.completed = r
               /\ service.desired = request[r].count
    <3>1. step[r] = "readiness"
      BY <2>1, <2>2, <2>3, Reports
    <3>2. QED
      BY <2>2, <2>3, <3>1 DEF RunInv, OnItsWay
  <2>4. ASSUME Ends(r, "restored")
        PROVE  /\ service.desired = baseline[r].count
               /\ \/ service.task = baseline[r].task
                  \/ service.task = r /\ service.completed = r
    <3>1. step[r] = "wait restored"
      BY <2>1, <2>2, <2>4, Reports
    <3>2. QED
      BY <2>2, <3>1 DEF RunInv, Restoring, UnderWay, Late
  <2>5. QED
    BY <2>3, <2>4
<1>2. QED
  BY <1>1, PipelineInvariant, PTL DEF Spec, OutcomesAgreeWithTheService

\* When a run takes back a rollout, the service has that run's revision or the
\* one it had found, never another run's (deploy.yml:20-22, deploy-ecs.sh:41-45).
THEOREM RollbacksKeep == Spec => RollbacksKeepToTheirOwn
<1> DEFINE Own(r) ==
      step[r] = "rollback" /\ step'[r] # "rollback" /\ service' # service
          => service.task \in {r, baseline[r].task}
<1>1. PipelineInv => \A r \in Runs : Own(r)
  BY DEF PipelineInv, RunInv, UnderWay, Late
<1>2. QED
  BY <1>1, PipelineInvariant, PTL DEF RollbacksKeepToTheirOwn
=============================================================================
