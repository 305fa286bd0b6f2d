---------------------------- MODULE ReleasePipeline ----------------------------
(***************************************************************************)
(* Releases of the service on ECS: the workflow deploy.yml, the scripts    *)
(* migrate-ecs.sh and deploy-ecs.sh with the gate                          *)
(* verify-deployment-image.py, and the parts of ECS they rely on.          *)
(*                                                                         *)
(* A run verifies one snapshot of the service and the images it names,     *)
(* which takes minutes, compares a second snapshot with the first, and     *)
(* only then starts a migration task or a rollout.  A rollout that cannot  *)
(* be confirmed is undone by a second update.  Any AWS call may fail, also *)
(* after taking effect; the workflow may be cancelled at any step; and ECS *)
(* may undo a rollout itself (the circuit breaker of service.tf).          *)
(*                                                                         *)
(* A step is a script's code up to the AWS call whose answer it uses.      *)
(* A run registers at most one task definition: it is known by the run.    *)
(***************************************************************************)
EXTENDS Integers, FiniteSets

CONSTANTS
    Runs,               \* runs of the workflow, and the tasks they register
    OtherTasks,         \* task definitions made by Terraform or by hand
    FirstServices,      \* tasks the service may be created with, and counts
    Images,
    Contract,           \* the release contract found in each image
    NoContract,         \* ... that embeds none, or a malformed one
    OtherImage,         \* the image each of OtherTasks names
    Capabilities,
    RequiredCapabilities,
    MaxCount,           \* bound on desired counts (4 in the scripts)
    MaxOtherChanges,    \* bound on changes of the service made by hand
    NoRequest, NoBaseline

Tasks == Runs \cup OtherTasks
Contracts == [service : {"inventory-cloud-service", "another"},
              capabilities : SUBSET Capabilities]
Requests == [operation : {"deploy", "rollback"}, image : Images,
             count : 1..MaxCount]
Baselines == [task : Tasks, count : 0..MaxCount, deployment : Nat]

ASSUME PipelineAssumption ==
    /\ Runs \cap OtherTasks = {}
    /\ FirstServices \subseteq [task : OtherTasks, count : 0..MaxCount]
    /\ MaxCount \in Nat \ {0}
    /\ MaxOtherChanges \in Nat
    /\ Contract \in [Images -> Contracts \cup {NoContract}]
    /\ NoContract \notin Contracts
    /\ OtherImage \in [OtherTasks -> Images]
    /\ RequiredCapabilities \subseteq Capabilities
    /\ NoRequest \notin Requests
    /\ NoBaseline \notin Baselines

VARIABLES
    step,           \* the next call of each run
    request,        \* the inputs it was dispatched with
    baseline,       \* compatibility.json of its current script
    migration,      \* its migration task
    outcome,        \* what it reported
    service,        \* the ECS service
    otherChanges    \* changes made by hand so far

vars ==
    <<step, request, baseline, migration, outcome, service, otherChanges>>

Steps == {"queued", "verify migration", "check migration", "run migration",
          "wait migration", "confirm migration", "verify rollout",
          "check rollout", "update", "wait stable", "describe", "readiness",
          "rollback", "wait restored", "done"}

Migrations == {"none", "running", "succeeded", "failed"}

\* "blocked" before the service was touched, "restored" or "unrestored" after.
Outcomes == {"none", "blocked", "healthy", "restored", "unrestored",
             "cancelled"}

Services ==
    [task : Tasks,              \* of the PRIMARY deployment
     deployment : Nat,          \* its id
     desired : 0..MaxCount,
     running : 0..MaxCount,     \* its running tasks
     older : SUBSET Tasks,      \* of the deployments the PRIMARY one replaces
     rollout : {"IN_PROGRESS", "COMPLETED", "FAILED"},
     completed : Tasks]         \* of the last deployment that completed

TypeOK ==
    /\ step \in [Runs -> Steps]
    /\ request \in [Runs -> Requests \cup {NoRequest}]
    /\ baseline \in [Runs -> Baselines \cup {NoBaseline}]
    /\ migration \in [Runs -> Migrations]
    /\ outcome \in [Runs -> Outcomes]
    /\ service \in Services
    /\ otherChanges \in 0..MaxOtherChanges

Init ==
    /\ step = [r \in Runs |-> "queued"]
    /\ request = [r \in Runs |-> NoRequest]
    /\ baseline = [r \in Runs |-> NoBaseline]
    /\ migration = [r \in Runs |-> "none"]
    /\ outcome = [r \in Runs |-> "none"]
    /\ \E f \in FirstServices :
           service = [task |-> f.task, deployment |-> 0,
                      desired |-> f.count, running |-> f.count,
                      older |-> {}, rollout |-> "COMPLETED",
                      completed |-> f.task]
    /\ otherChanges = 0

-----------------------------------------------------------------------------
(* What the gate decides.                                                  *)

ImageOf(task) ==
    IF task \in Runs THEN request[task].image ELSE OtherImage[task]

\* Mutant: the contract need only be there.
AnyContract(image) == Contract[image] # NoContract

\* validate_contract
ValidContract(image) ==
    /\ Contract[image] # NoContract
    /\ Contract[image].service = "inventory-cloud-service"
    /\ Contract[image].capabilities = RequiredCapabilities

\* Mutant: a rollout in progress is no obstacle.
Staffed == service.running = service.desired

Settled ==
    /\ service.older = {}
    /\ service.rollout = "COMPLETED"
    /\ service.running = service.desired

Live == service.desired > 0

Snapshot ==
    [task |-> service.task, count |-> service.desired,
     deployment |-> service.deployment]

\* Mutant: only the candidate is inspected.
CandidateVerified(r) == Settled /\ ValidContract(request[r].image)

\* verify_deployment
Verified(r) ==
    /\ Settled
    /\ ValidContract(request[r].image)
    /\ Live => ValidContract(ImageOf(service.task))

\* Mutant: the second snapshot is not compared.
StillSettled(r) == Settled

\* service-baseline.jq
BaselineUnchanged(r) == Settled /\ Snapshot = baseline[r]

-----------------------------------------------------------------------------
(* Steps of a run.                                                         *)

\* update-service: a deployment of its own for another task definition.
Updated(task, count) ==
    IF task = service.task
    THEN [service EXCEPT !.desired = count]
    ELSE [service EXCEPT
            !.task = task,
            !.deployment = @ + 1,
            !.desired = count,
            !.running = 0,
            !.older = IF service.desired = 0 /\ service.running = 0
                      THEN @ ELSE @ \cup {service.task},
            !.rollout = "IN_PROGRESS"]

Goto(r, next) ==
    /\ step' = [step EXCEPT ![r] = next]
    /\ UNCHANGED <<request, outcome, otherChanges>>

End(r, result) ==
    /\ step' = [step EXCEPT ![r] = "done"]
    /\ outcome' = [outcome EXCEPT ![r] = result]
    /\ UNCHANGED <<request, otherChanges>>

Block(r) == End(r, "blocked") /\ UNCHANGED <<baseline, migration, service>>

Active == {r \in Runs : step[r] \notin {"queued", "done"}}

\* Mutant: no concurrency group.
StartAtOnce(r, q) ==
    /\ step[r] = "queued"
    /\ request' = [request EXCEPT ![r] = q]
    /\ step' = [step EXCEPT ![r] = IF q.operation = "deploy"
                                   THEN "verify migration"
                                   ELSE "verify rollout"]
    /\ UNCHANGED <<baseline, migration, outcome, service, otherChanges>>

\* The concurrency group lets one run in at a time.
Start(r, q) ==
    /\ step[r] = "queued"
    /\ Active = {}
    /\ request' = [request EXCEPT ![r] = q]
    /\ step' = [step EXCEPT ![r] = IF q.operation = "deploy"
                                   THEN "verify migration"
                                   ELSE "verify rollout"]
    /\ UNCHANGED <<baseline, migration, outcome, service, otherChanges>>

\* Mutant: DESIRED_COUNT is not checked.
DispatchAnyCount(r) ==
    \E q \in Requests : Start(r, [q EXCEPT !.count = MaxCount + 1])

Dispatch(r) == \E q \in Requests : Start(r, q)

\* verify-deployment-image.py, run by each of the two scripts.
Verify(r, from, to) ==
    /\ step[r] = from
    /\ \/ Block(r)
       \/ /\ Verified(r)
          /\ baseline' = [baseline EXCEPT ![r] = Snapshot]
          /\ Goto(r, to)
          /\ UNCHANGED <<migration, service>>

\* The second snapshot, and the registration of the task definition.
Check(r, from, to) ==
    /\ step[r] = from
    /\ \/ Block(r)
       \/ /\ BaselineUnchanged(r)
          /\ Goto(r, to)
          /\ UNCHANGED <<baseline, migration, service>>

VerifyForMigration(r) == Verify(r, "verify migration", "check migration")
CheckForMigration(r) == Check(r, "check migration", "run migration")

\* Mutant: deploy-ecs.sh leaves the inspection to migrate-ecs.sh, which a
\* rollback does not run.
TrustEarlierInspection(r) ==
    /\ step[r] = "verify rollout"
    /\ baseline' = [baseline EXCEPT ![r] = Snapshot]
    /\ Goto(r, "check rollout")
    /\ UNCHANGED <<migration, service>>

VerifyForRollout(r) == Verify(r, "verify rollout", "check rollout")
CheckForRollout(r) == Check(r, "check rollout", "update")

\* run-task: its answer may be lost after the task was started.
RunMigration(r) ==
    /\ step[r] = "run migration"
    /\ \/ Block(r)
       \/ /\ migration' = [migration EXCEPT ![r] = "running"]
          /\ \/ Goto(r, "wait migration")
             \/ End(r, "blocked")
          /\ UNCHANGED <<baseline, service>>

\* Mutant: the waiter never gives up.
WaitForever(r) ==
    /\ step[r] = "wait migration"
    /\ migration[r] # "running"
    /\ Goto(r, "confirm migration")
    /\ UNCHANGED <<baseline, migration, service>>

\* tasks-stopped; when it gives up, stop-task may or may not work.
WaitMigration(r) ==
    /\ step[r] = "wait migration"
    /\ \/ /\ migration[r] # "running"
          /\ Goto(r, "confirm migration")
          /\ UNCHANGED <<baseline, migration, service>>
       \/ Block(r)
       \/ /\ migration[r] = "running"
          /\ migration' = [migration EXCEPT ![r] = "failed"]
          /\ End(r, "blocked")
          /\ UNCHANGED <<baseline, service>>

\* Mutant: stopped is good enough.
ConfirmStopped(r) ==
    /\ step[r] = "confirm migration"
    /\ Goto(r, "verify rollout")
    /\ UNCHANGED <<baseline, migration, service>>

\* describe-tasks: a confirmed exit code of zero.
ConfirmMigration(r) ==
    /\ step[r] = "confirm migration"
    /\ \/ Block(r)
       \/ /\ migration[r] = "succeeded"
          /\ Goto(r, "verify rollout")
          /\ UNCHANGED <<baseline, migration, service>>

\* update-service: a failed answer may follow an accepted update.
UpdateService(r) ==
    /\ step[r] = "update"
    /\ \/ /\ service' = Updated(r, request[r].count)
          /\ Goto(r, "wait stable") \/ Goto(r, "rollback")
       \/ Goto(r, "rollback") /\ UNCHANGED service
    /\ UNCHANGED <<baseline, migration>>

\* What services-stable waits for.
Stable == service.older = {} /\ service.running = service.desired

WaitStable(r) ==
    /\ step[r] = "wait stable"
    /\ \/ Stable /\ Goto(r, "describe")
       \/ Goto(r, "rollback")
    /\ UNCHANGED <<baseline, migration, service>>

\* Mutant: a stable service is taken for a promoted one.
DescribeAny(r) ==
    /\ step[r] = "describe"
    /\ Goto(r, "readiness") \/ Goto(r, "rollback")
    /\ UNCHANGED <<baseline, migration, service>>

\* The waiter can succeed after automatic rollback.
Describe(r) ==
    /\ step[r] = "describe"
    /\ \/ service.task = r /\ Goto(r, "readiness")
       \/ Goto(r, "rollback")
    /\ UNCHANGED <<baseline, migration, service>>

Serving ==
    service.older \cup (IF service.running > 0 THEN {service.task} ELSE {})

\* The readiness probe through the load balancer.
Readiness(r) ==
    /\ step[r] = "readiness"
    /\ \/ /\ Serving # {}
          /\ End(r, "healthy")
       \/ Goto(r, "rollback")
    /\ UNCHANGED <<baseline, migration, service>>

\* Mutant: the previous revision comes back at the new count.
RollbackTaskOnly(r) ==
    /\ step[r] = "rollback"
    /\ \/ /\ service' = Updated(baseline[r].task, request[r].count)
          /\ Goto(r, "wait restored") \/ End(r, "unrestored")
       \/ End(r, "unrestored") /\ UNCHANGED service
    /\ UNCHANGED <<baseline, migration>>

\* rollback(); the script ends when a call of it fails.
Rollback(r) ==
    /\ step[r] = "rollback"
    /\ \/ /\ service' = Updated(baseline[r].task, baseline[r].count)
          /\ Goto(r, "wait restored") \/ End(r, "unrestored")
       \/ End(r, "unrestored") /\ UNCHANGED service
    /\ UNCHANGED <<baseline, migration>>

WaitRestored(r) ==
    /\ step[r] = "wait restored"
    /\ \/ Stable /\ End(r, "restored")
       \/ End(r, "unrestored")
    /\ UNCHANGED <<baseline, migration, service>>

\* The job is cancelled, or reaches timeout-minutes.
Cancel(r) ==
    /\ r \in Active
    /\ End(r, "cancelled")
    /\ UNCHANGED <<baseline, migration, service>>

-----------------------------------------------------------------------------
(* ECS.                                                                    *)

ServiceBecomes(s) ==
    /\ service' = s
    /\ UNCHANGED <<step, request, baseline, migration, outcome, otherChanges>>

MigrationExits(r) ==
    /\ migration[r] = "running"
    /\ \E result \in {"succeeded", "failed"} :
          migration' = [migration EXCEPT ![r] = result]
    /\ UNCHANGED <<step, request, baseline, outcome, service, otherChanges>>

TaskStarts ==
    /\ service.rollout # "FAILED"
    /\ service.running < service.desired
    /\ ServiceBecomes([service EXCEPT !.running = @ + 1])

TaskStops ==
    /\ service.running > 0
    /\ ServiceBecomes([service EXCEPT !.running = @ - 1])

\* Enough tasks of the deployment are healthy: the older ones can go.
RolloutCompletes ==
    /\ service.rollout = "IN_PROGRESS"
    /\ service.running = service.desired
    /\ ServiceBecomes([service EXCEPT !.older = {},
                                      !.rollout = "COMPLETED",
                                      !.completed = service.task])

\* Too many tasks of the deployment failed: back to the last completed one.
CircuitBreakerTrips ==
    /\ service.rollout = "IN_PROGRESS"
    /\ service.desired > 0
    /\ ServiceBecomes(
          IF service.completed = service.task
          THEN [service EXCEPT !.rollout = "FAILED"]
          ELSE Updated(service.completed, service.desired))

\* A change by hand.  Operators are asked to leave the service alone while a
\* release is under way; what the scripts guard against is a change between
\* their two snapshots.
ChangeByHand(task, count) ==
    /\ otherChanges < MaxOtherChanges
    /\ \A r \in Runs : /\ step[r] \in {"queued", "verify migration",
                            "check migration", "verify rollout",
                            "check rollout", "done"}
                       /\ migration[r] # "running"
    /\ otherChanges' = otherChanges + 1
    /\ service' = Updated(task, count)
    /\ UNCHANGED <<step, request, baseline, migration, outcome>>

-----------------------------------------------------------------------------

ScriptStep(r) ==
    \/ VerifyForMigration(r)
    \/ CheckForMigration(r)
    \/ RunMigration(r)
    \/ WaitMigration(r)
    \/ ConfirmMigration(r)
    \/ VerifyForRollout(r)
    \/ CheckForRollout(r)
    \/ UpdateService(r)
    \/ WaitStable(r)
    \/ Describe(r)
    \/ Readiness(r)
    \/ Rollback(r)
    \/ WaitRestored(r)

Next ==
    \/ \E r \in Runs :
          Dispatch(r) \/ ScriptStep(r) \/ Cancel(r) \/ MigrationExits(r)
    \/ TaskStarts
    \/ TaskStops
    \/ RolloutCompletes
    \/ CircuitBreakerTrips
    \/ \E task \in OtherTasks, count \in 0..MaxCount : ChangeByHand(task, count)

Spec == Init /\ [][Next]_vars

\* A script goes on to its next call; nothing is assumed of ECS, of the
\* migration or of the operator.
Fairness == \A r \in Runs : WF_vars(ScriptStep(r))
FairSpec == Spec /\ Fairness
=============================================================================
