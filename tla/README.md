# Formal verification of inventory-cloud-service

TLA+ modules for the inventory service, its release pipeline and the tools that rehearse and
monitor it, the TLC runs that check them on small instances, and TLAPS proofs of what matters
most for every instance.

Contents: [inventory](#1-inventory-of-the-system) · [modules](#2-modules) ·
[runs](#3-runs-bounds-and-what-they-show) · [divergences](#4-where-documents-and-code-disagree) ·
[proofs](#5-proofs) · [not modelled](#6-what-is-not-modelled-and-why) · [plan](#7-plan)

## 1. Inventory of the system

The repository is a Spring Boot service (Java 21) that keeps a product catalogue and
customers' reservations in PostgreSQL, and the scripts and workflows that build, migrate,
release, monitor and rehearse it.

### The service (`src/main/java`, `src/main/resources`)

| Part | State | Operations |
| --- | --- | --- |
| `api/InventoryController`, `ApiExceptionHandler` | none | validate a call, run one service method, map the result or the exception to a status |
| `service/InventoryService` | one transaction per call | `createProduct`, `addStock`, `reserve`, `cancelReservation`; reads: `listProducts`, `getProduct`, `listReservations`, `getReservation` |
| `domain/Product`, `domain/Reservation` | entities in a persistence context | `addStock`, `reserveStock`, `cancel`, validation |
| `repository/*` | rows of `products` and `reservations`, their row locks | queries, `SELECT ... FOR UPDATE` |
| `repository/ReservationKeyLock` | PostgreSQL advisory locks | a transaction-scoped lock per customer and idempotency key, waited for at most three seconds |
| `service/InventoryMetrics` | counters of one process | increments registered in a transaction, run by `afterCompletion` |
| `db/migration/V1, V2` | tables, CHECK constraints, unique indexes | |
| `config/DatabaseMigrationConfiguration`, `db/provision/runtime-role.sql` | roles and grants | Flyway, then one provisioning transaction |
| `config/SecurityConfiguration`, `RequestLoggingFilter` | none | who the customer is; one log line |

Several instances share one database and nothing else: no caches, no messages. They meet in
the lock tables, in the unique indexes and in the rows.

Hard behaviour: two requests interleave at every SQL statement, under READ COMMITTED;
entities are read, changed in memory and written back as whole rows at the flush; waits end
by three different mechanisms (query timeout, driver socket timeout, pool timeout), one of
which leaves a backend waiting without a client; the outcome of a COMMIT may be unknown;
instances crash, and their counters with them.

What makes it correct: units are conserved; a reservation is cancelled once; a customer's
key is bound to one reservation for ever; an answer says what is stored, a refusal leaves
nothing behind; no two products share a SKU; requests never wait in a circle, and each one
ends; counters never claim more than was committed.

### The release pipeline (`.github/workflows/deploy.yml`, `scripts/*-ecs.sh`, `verify-deployment-image.py`, `release_contract.py`, `infra/aws/service.tf`)

| Part | State | Operations |
| --- | --- | --- |
| `deploy.yml` | a queue of one: the concurrency group | start, cancel or time out a run |
| `verify-deployment-image.py` | a report: task, counts, deployment id | snapshot of the service, release contracts of candidate and live image |
| `migrate-ecs.sh` | one migration task | verify, compare, run, wait, confirm |
| `deploy-ecs.sh` | the previous task and count | verify, compare, update, wait, describe, readiness, roll back |
| ECS service | deployments, desired and running count | start and stop tasks, complete or fail a deployment, circuit breaker |

Hard behaviour: minutes pass between the inspection and the update; every AWS call may fail
before or after it took effect; a job may end at any step; ECS changes the service by itself,
and an operator may; a migration may outlive its job.

What makes it correct: a migration or an automatic rollback never meets a serving or restored
image that was not inspected; no image serves before its migration; *healthy* means promoted;
a failed release is undone, revision and count; every release ends.

### Migrations and the runtime role (`config/DatabaseMigrationConfiguration`, `db/provision/runtime-role.sql`)

A migration job applies what Flyway finds missing, each migration in a transaction, and then
prepares the role the service logs in with, in one transaction: existence, password, rights.
Hard behaviour: the service is connected meanwhile; a job that was given up runs beside that
of the next release; PostgreSQL lets only one of two concurrent writers of a role commit.
Correct means: the service sees one job's role, whole; a job that succeeds leaves what it
brings; a role with elevated privileges is never used.

### Reading (`InventoryController.listProducts`, `listReservations`)

A page is two queries, rows and count, and rows are added between them and between two pages,
with creation times from clocks that need not agree. Correct means: whoever reads all pages
misses nothing that was there, and no admitted request fails for its offset.

### Drills (`scripts/*-drill.py`, `load-test.py`, `demo-local.py`)

Seven programs start disposable containers (class `Fixture` of `recovery-drill.py`), send
requests to the service in them, and clean up. State: the containers, networks, images and
files on the machine; what the fixture remembers of them; threads that send requests at once.
Hard behaviour: a Docker call fails or times out before or after it took effect, containers
die, names are taken, a step may fail anywhere; requests of several threads race. Correct
means: nothing is left over unreported, nothing of others is touched, every drill ends, and
a passed drill has shown what its report claims.

### Monitoring (`monitoring/`, `monitoring-drill.py`)

Prometheus probes the service, Alertmanager notifies `webhook-receiver.py`, whose handler
threads keep a bounded list under a lock. Hard behaviour: answers are late or lost and
notices repeated; deliveries race at the limit. Correct means: what was acknowledged is kept,
and a passed drill has been told of the outage and of its end.

### Gates (`release_contract.py`, `cloud-preflight.py`)

The first reads the contract out of a container that never runs, the second compares a file
of identifiers with an AWS account that others change. Hard behaviour: answers lost after the
effect, containers that appear late, a session that changes. Correct means: only compatible
images are allowed, nothing of ours is left silently, AWS is read only on request and only in
the expected account.

### The rest

Authentication and request logging, static pages, publication and CI workflows, Terraform:
section 6.

## 2. Modules

| Modules | Contents |
| --- | --- |
| `InventoryDomain` | entities, quantity rules and CHECK constraints; no state |
| `InventoryLedger` | abstract specification: what the service promises of its committed data, with no transactions, locks, processes or failures |
| `AtomicInventory` | abstract specification: what it promises its clients; extends the ledger with calls and responses |
| `AtomicCatalog` | the same for product creation |
| `InventoryService` | `addStock`, `reserve`, `cancelReservation` as transactions; extends `InventoryDomain`. Its properties have `Ledger == INSTANCE InventoryLedger WITH ReservationIds <- Requests` |
| `ProductCatalog` | `createProduct`, likewise |
| `ReleasePipeline` | runs of the deploy workflow against ECS |
| `RoleProvisioning` | migration jobs of several releases on one database |
| `PagedListing` | one listing, its client, and rows that are added |
| `DrillFixture`, `DrillScripts` | the containers of a drill under failing Docker calls; what each drill asks for, in order |
| `DrillRequests`, `DrillChecks` | the requests of each drill and what it requires of the answers; a service with at most one defect |
| `LoadTest`, `ReplicaBatch` | the workers of the load test, the threads of the replica drill, against a sound and a racing service |
| `Monitoring` | Prometheus, Alertmanager, the receiver's threads and the drill |
| `ContractExtraction` | the container release contracts are read through |
| `CloudPreflight` | the preflight, the account and the report on disk |

`XProperties` extends `X` with what it promises, `XProofs` extends that with `TLAPS`, and the
`MC` modules give the constants their values. `FiniteSums` has the lemmas about sums that the
proofs of `InventoryService` and `ProductCatalog` share. `Tools` puts the six small parts
(`LoadTest`, `ReplicaBatch`, `ContractExtraction`, `CloudPreflight`, `PagedListing`,
`RoleProvisioning`) into one specification: they share nothing, so a behaviour is one of them
at work, the others in an idle state in which none of their actions is enabled. `ToolsProofs`
proves their safety together, `MCTools` gives them constants. Their properties are
conjunctions of those of the parts; each conjunct is stated and explained in
the properties module it comes from.

Operators whose comment begins with *Mutant* are single plausible bugs of the operator that
follows them. They are not used by the specifications; each property is shown to fail when
one of them takes the operator's place, so that no property holds by accident.

### InventoryService

A request is one HTTP call and one transaction. `pc` names its next SQL statement; a step is
that statement and the Java code up to the next one.

| Action | Code |
| --- | --- |
| `Arrive`, `Receive` | controller and method heads: validation, 400 |
| `Begin`, `PoolTimeout` | `@Transactional` takes a Hikari connection, or gives up after five seconds |
| `AcquireKey`, `KeyTimeout` | `ReservationKeyLock.acquire`; query timeout, 409 *retry* |
| `LookupKey` | lookup by customer and key: replay, conflict, or go on |
| `LockReservation` | `findOwnedForUpdate` and the status it returned |
| `LockToRestock`, `LockToReserve`, `LockToCancel`, `LockMissing` | `findByIdForUpdate`, domain method, pending change (`work`), or 404/409 |
| `Commit`, `RejectFlush` | flush of the pending rows and COMMIT, or a violated constraint |
| `Acknowledge` | `afterCompletion(STATUS_COMMITTED)`: counters, response |
| `RowTimeout`, `AbandonedEnds` | `socketTimeout` under a row lock; the backend waits on, then finds its client gone |
| `LoseConnection` | a broken connection between statements or under the COMMIT, whose outcome is then unknown |
| `Crash` | the instance dies with its requests and its counters |

`stock`, `reservations` are the committed tables, `supplied` a history variable;
`keyOwner`, `productOwner`, `reservationOwner` are PostgreSQL's lock tables; `work` is the
persistence context, flushed as whole rows, which is how a lost update would happen.
A reservation's id is the request that made it. Waits for the pool and for locks are
guards; fairness is stated for `Progress(r)` only.

`Times` are readings of clocks that need not agree between instances: `LockToCancel` may
take a time before the reservation was created, and the CHECK constraint then rejects the flush.

PostgreSQL is external: FIFO order of waiters is not assumed (any waiter may be next), and a
transaction ended by a crash of its instance releases its locks when the backend is not
waiting. Serialization failures and deadlock victims do not occur in this model; `WaitsEnd`
shows that there is no deadlock for PostgreSQL to break.

The two abstract specifications are reached by different mappings. `InventoryLedger` sees the
tables only: a commit is one of its actions, everything else a stutter. `AtomicInventory` also
sees what each client asked for and was told, and one thing more, the set of requests that took
effect and are not yet answered; this is mapped to `Effective`, the requests between the
commit of a write and its acknowledgement.

| Step of the service | Step of `AtomicInventory` |
| --- | --- |
| `Receive` | `Ask`, with a 400 at once for a quantity out of range |
| `Begin`, `AcquireKey`, a lookup or a lock that lets the request go on, `AbandonedEnds` | none |
| `Commit` of a write | `TakeEffect`: the ledger's action with the arguments of the call |
| `Commit` of a replay | none |
| `Acknowledge` | `Succeed`: its own effect is there, or the one it repeats |
| refusals (`KeyTimeout`, `LookupKey`, `LockReservation`, `LockProduct`, `RejectFlush`) | `Refuse`, with a reason that holds in the state in which it is decided |
| `PoolTimeout`, `RowTimeout`, `LoseConnection`, `Crash` | `Fail` of one request or of several |

So a call is one instant for its client, however many statements it takes: this is
linearizability, with failed calls that may or may not have had their effect. That an effect
never comes after an error was told is owed to `Commit` being one step here: a COMMIT that
PostgreSQL completes after its client has given up would be an effect after the error, which
says nothing of the effect either way. `AtomicCatalog` is reached from `ProductCatalog` in the
same way, by the identity.

### ProductCatalog

`CheckExists` is the unlocked lookup, `Insert` is `saveAndFlush` against the unique index: it
waits while another transaction has inserted the same SKU (`Inserting`) and fails if that one
commits. `Normalize` maps what clients write to what is stored. `InsertTimeout`,
`AbandonedEnds`, `LoseConnection`, `Crash` are as above. The connection pool is left out:
`InventoryService` covers it.

The two are separate because they share no lock and no row: a product that is being created
has an id nobody knows. `InventoryService` therefore starts from any catalogue.

### ReleasePipeline

A run is one dispatch of `deploy.yml` and `step` the next AWS call of its scripts; a task
definition is known by the run that registered it. The ECS `service` has the PRIMARY
deployment (task, id, desired and running count), the tasks of the deployments it replaces
(`older`), the rollout state, and the task of the last completed deployment.

| Action | Code |
| --- | --- |
| `Dispatch`, `Start` | inputs, concurrency group, `operation: deploy` migrates first |
| `VerifyForMigration`, `VerifyForRollout` | `verify-deployment-image.py`: one settled deployment, contracts of candidate and live image, report |
| `CheckForMigration`, `CheckForRollout` | second snapshot against the report (`service-baseline.jq`), registration |
| `RunMigration`, `WaitMigration`, `ConfirmMigration` | `migrate-ecs.sh`, including an answer lost after the task started, and `stop-task \|\| true` |
| `UpdateService`, `WaitStable`, `Describe`, `Readiness` | `deploy-ecs.sh`; each failing check leads to `Rollback` |
| `Rollback`, `WaitRestored` | `rollback()` under `set -e` |
| `Cancel` | cancelled by hand or by `timeout-minutes` |
| `MigrationExits`, `TaskStarts`, `TaskStops`, `RolloutCompletes`, `CircuitBreakerTrips` | ECS |
| `ChangeByHand` | an operator's `update-service` |

What is assumed of ECS, which is not in the repository: an update that names another task
definition makes a new PRIMARY deployment, one that changes only the count does not; a
deployment completes when it has its desired number of running tasks; one in progress may at
any time fail, and the circuit breaker then returns to the last completed deployment at the
current desired count, if that is another one; `services-stable` waits for a single
deployment at its desired count.

`ChangeByHand` is admitted outside releases and up to the second snapshot of each script,
which is what the scripts defend against; not between that snapshot and the end of the
release, nor while a migration runs. `docs/operations.md:61` asks operators for exactly
this, because ECS has no compare-and-swap. Any task of `OtherTasks` may be put there, also
one with an old image: the scripts, not the operator, have to notice.

### RoleProvisioning

`Start` refuses a short password, `Migrate` is Flyway's next migration, `Look` the `IF NOT
EXISTS`, `Write` the rest of the DO block, `Revoke` and `Grant` the statements after it, and
`Commit` the end of the transaction, whose answer may be lost; `Fail` a failing statement or a
job that dies. `role` is what is committed, `draft[j]` what the transaction of a job has made
of it. PostgreSQL is external: a job that writes the role while another's transaction has
written it waits, and fails if that one commits (*tuple concurrently updated*). Rights are
two booleans: all the service needs, and what the script takes back, which is the role's
memberships, its own rights, and those of PUBLIC on the database, its tables and creation in
its schema (`runtime-role.sql:28-48`). What PUBLIC may do with sequences, functions and other
schemas stays as it is and is not modelled.

### PagedListing

`Ask` checks the parameters (`Admitted`), `ReadPage` and `CountRows` are the two queries, of
what is committed when each runs, `Receive` the client, who reads on while `hasNext` says so,
`Add` another request that adds a row, `Lose` a lost answer, after which the client asks
again. A page of -1 stands for those below zero, which the controller refuses too. A row is the time its instance took from its own clock and a random id: new rows sort
anywhere. Spring Data is external: `ReadPage` does not count when the page itself tells that
it is the last, and `Adjusted` is `PageImpl`, which counts what a page shows even if it was
added after the count.

### DrillFixture and DrillScripts

A step is a method of the fixture up to the Docker call with an effect. `Fault(n)` lets that
call fail before or after its effect; `Dies` ends a container; `JobEnds` ends a job, or never
does. `engine` is Docker, `tracked` the names the fixture remembers, and the cleanup of
`main()` visits them (`RemoveContainer`, `RemoveNetwork`, the rollback drill's images) and
keeps `cleanupErrors`. `Script`, `Try` and `Finally` of each drill are in `DrillScripts`; the
requests between two steps are one step, `use`.

### DrillRequests and DrillChecks

`DrillRequests` has those requests one by one, with the statuses and the agreements between
answers that the drill requires. `DrillChecks` runs each script against a service that is
sound or has one of the `Defects` a drill could meet (it loses a key over a restart, returns
stock twice, accepts an old password, ...). `Claimed` says of each drill which defects its
report rules out.

### LoadTest and ReplicaBatch

The Python threads statement by statement (`Take`, `Sample`, `Receive`, `GiveUp`; `Arrive` at
the barrier, `Send`, `Join`), and the service they judge, which decides and stores in one
step (what `InventoryLedger` grants), or, to see that the test would notice, reads the stock
first. A client that gives up does not stop its request.

### Monitoring

`Probe` and `Evaluate` are Prometheus with its readiness job and rule, `Send`, `Answered`,
`Unanswered` Alertmanager with one route and one receiver, `Acquire`, `CheckRoom`, `Keep` the
statements of `do_POST` under `event_lock`, `Abandon` a thread whose client has gone; the
drill waits in the `Order` of its observations. `TimeOut` ends a wait, `CallFails` any step of
the drill, `docker pause` and the `finally` block included, whether or not Docker did as told;
`report` is then *failed*, and an outage that was not ended is left to the cleanup of the
fixture. Alertmanager is external; what is used of it
is that it repeats a notice until it is answered, and sends no *resolved* for an alert whose
*firing* was never answered.

### ContractExtraction and CloudPreflight

`release_contract.py` pulls, inspects, creates, copies, validates, looks its container up by
name and removes it, `CreatedLate` being a creation whose call timed out, `Prune` its owner's
`docker container prune`. The preflight checks fields in order, then reads metadata in order
(`Read`) until one is not as required; `SwitchSession` and `ChangeResource` are others.

## 3. Runs, bounds and what they show

Deadlock checking is off: a terminated system, all requests answered, all releases done, the
drill over, is a legal end. Sizes are distinct states.

| Run | Instance | Question |
| --- | --- | --- |
| `service_safety` (535,000) | 3 requests, 2 instances with a pool of 2 each, 1 crash, 1 product (stock 2, cap 3), 2 customers, 1 key, 2 clock readings | do stock, keys, answers, locks and counters stay consistent, and is every call one step of `AtomicInventory`? |
| `service_ledger` (216,000) | 3 requests, 2 products, 2 keys whose lock ids collide, pool of 2, 1 crash | is every committed change one step of `InventoryLedger`, and does every request end? |
| `row_lock_timeout` | 3 requests, 1 instance, no crash | are timeouts of row locks retryable 409s? (violated) |
| `catalog` (330,000) | 3 creations, 2 instances, 1 crash, 2 SKUs, 4 spellings (one malformed), quantities 2 and 3 with cap 2 | uniqueness, truthful answers, counters, each creation one step of `AtomicCatalog`, an end for each |
| `release` (505,000) | 2 runs, count at most 1, a service live or created at count 0, three images (valid, older capabilities, no contract), 1 change by hand | are the gate, the rollback and the report right, and does every release end? |
| `release_restore` | live service, no change by hand | do failed checks restore the revision? (violated) |
| `release_first` | service at count 0, no change by hand | is an uninspected image ever relied on? (violated) |
| `drill_fixture` (114,000) | all seven drills in full, 2 faults anywhere, 3 names that somebody else may have taken, jobs that never end | is everything cleaned up or reported, and nothing else touched? |
| `drill_oidc_files` | the OIDC drill, 1 fault | do files outlive the containers that mount them? (violated) |
| `drill_checks` | all request scripts, a sound service and each single defect | does a passed drill rule out what it claims, and does a sound service pass? |
| `monitoring` (361,000) | 2 threads, limit of 4 events, 1 probe that fails by itself, 2 answers lost or late | is what was acknowledged kept, and does a passed drill know of its outage? |
| `tools` (497,000) | load test: 2 workers, 2 reservations of a stock of 1, 1 read; batches of 4 on a stock for 3; 1 or 2 images and 1 prune; 1 change and 1 failed read of AWS; 3 rows, pages of 1 or 2, integers up to 3, 1 lost answer; 2 jobs, 2 migrations, 2 failures | the six small parts, one at a time |

Why the bounds are enough to meet the cases of interest:

- *Three requests* are two contenders and one that changes what they contend for (a
  cancellation between a reservation and its retry; a creator, a waiter and an abandoned
  waiter). A ring of waits would need as many requests as lock kinds in it: key, reservation
  and product are three.
- *Stock 2, cap 3, quantities 1 and 2* reach an empty shelf, insufficient stock, the cap, and
  a cancellation that no longer fits under it.
- *Two instances, one crash*: the crashed instance, the one that goes on, and the same one
  restarted. *One lock id for all keys* is the worst hash collision.
- *Two releases*: the second starts from whatever the first left, or beside its migration.
- *Two faults in a drill*: the one that ends it, and one in its cleanup. More faults only
  repeat the second on other containers, of which each is visited by itself.
- *Four events at the receiver*: a firing and a resolved notice and a repetition of each. With
  fewer the receiver refuses for good what the drill waits for, which is its documented
  behaviour at the limit; the limit is reached in this run too.
- *Integers up to 3* make 2^31 - 1 so small that `page * size` exceeds it with a page size
  of 2; *three rows and pages of one or two* have full, last and empty pages.
- *Two migration jobs*, with one and two migrations to bring: one job's transaction meets at
  most one other that has written the role, as PostgreSQL lets no more than one do so; a
  third would wait likewise. The proof covers any number.

Symmetry is used for requests, instances and runs, which are interchangeable, and only in
runs without liveness. Every property is shown to fail when a single plausible bug, one of
the operators marked *Mutant*, replaces the operator it belongs to.

Properties, by what they protect:

| Property | Says |
| --- | --- |
| `ImplementsLedger` | committed tables change only by atomic ledger steps, whatever happens |
| `StockConservation` | shelf plus active reservations is what was ever supplied |
| `OneReservationPerKey` | a key is bound to one reservation, for ever |
| `RepliesAreTrue`, `OneAnswerPerKey` | what clients are told is and remains so |
| `AnswersAreAtomic`, `CreationsAreAtomic` | a call takes effect at one instant between request and response, or not at all, and is refused only for a reason that holds at such an instant |
| `WaitsEnd`, `EveryRequestEnds` | no ring of waits, and no wait without end |
| `CountersFollowLedger`, `CountersFollowCatalog` | counters never lead; they agree when nothing was lost |
| `SkusAreUnique`, `EveryCreationEnds` | no two products share a SKU; every creation ends |
| `MigrationsSpareServingTasks` | while a run waits for its migration, whatever serves honours the contract; a migration that outlives its run meets no other image but one that was at count zero, uninspected, when a run put its revision over it |
| `AutomaticRollbackIsVerified` | no uninspected image is returned to, over a live service |
| `ServingFollowsMigration` | no deployed image serves before its migration succeeded |
| `OutcomesAgreeWithTheService` | healthy means the run's own completed revision at its count; restored means the old count, and the old revision unless ECS itself reverted the restoration |
| `RollbacksKeepToTheirOwn`, `EveryReleaseEnds` | nobody takes back another's rollout; the concurrency group is never held for ever |
| `NothingIsLeftUnreported` | what a drill leaves behind, its report names, whatever failed when |
| `PreparedDatabasesAcceptTheirPassword` | the fixture's passwords are those in force, though jobs change them and outlive the wait for them |
| `ClientsKeepWhatTheyUse`, `OutagesEndBeforeCleanup` | the cleanup takes nothing from a process that uses it, and finds no database paused |
| `OthersAreLeftAlone`, `EveryDrillEnds` | containers under names somebody else has taken stay; every drill reports |
| `PassedMeansClaimed`, `SoundApplicationsPass` | a drill is neither blind nor too strict |
| `AcknowledgedIsKept` | what Alertmanager counts as said is kept, and the limit holds |
| `PassedMeansNotified`, `PassesInTime` | a passed drill got both notices, in order, of its own outage; it passes unless a wait times out or a call fails |
| `ReportsAreTrue` | what the load test, the batches, the gate and the preflight report is so |
| `PagesShowAll` | nobody who reads all pages misses a row; the offset check does not wrap |
| `LimitsAreKept` | AWS is read on request only, containers of others and unsafe roles are left alone |
| `TheRoleIsWhole` | the role changes at once, to that of one job; success means it is in place |
| `EveryPartEnds` | each of the six small parts ends |

Fairness. `InventoryService` and `ProductCatalog` assume weak fairness of `Progress(r)`: a
statement that can run is run, a free lock is granted to somebody who stays in line, a
returned connection is taken, an abandoned backend notices. No fairness is assumed of
clients, timeouts, lost connections or crashes. Weak fairness is enough because each request
is finite: contenders come to an end one by one. `ReleasePipeline` assumes it of
`ScriptStep(r)` only: a shell script goes on to its next command, and the AWS waiters give up
after a bounded number of polls. ECS, the migration and the operator need not do anything. The drills, gates and tools
are scripts: their next step is fair, because every call they make has a timeout in the code;
a job, a container or another user need not do anything. `Monitoring` adds what recurs in its
configuration: probes, evaluations, Alertmanager's retries and the handler threads;
`RoleProvisioning` and `PagedListing` that the database answers, or the connection breaks.

## 4. Where documents and code disagree

1. `row_lock_timeout`. `docs/idempotency.md:40`: "Lock waiting is bounded; timeouts return a
   retryable 409." That is so for the key lock. A wait for a row lock has no query or lock
   timeout; the driver's `socketTimeout` (`application.yaml:15`) breaks the connection, and
   the client gets a 500.
2. `release_restore`. `docs/operations.md:76`: "Failed checks restore both the previous
   revision and count". `rollback()` waits for stability only. If the rejected revision had
   completed its rollout, and the deployment that restores the previous one fails, the circuit
   breaker brings the rejected one back, the service is stable, and the script ends as if
   restored. `OutcomesAgreeWithTheService` states what does hold.
3. `release_first`. `docs/operations.md:61`: images from before the contract "cannot be
   selected or relied on for automatic rollback". At desired count zero the current image is
   not inspected, but its completed deployment is what the circuit breaker returns to while
   the first release is in progress. `AutomaticRollbackIsVerified` states what does hold, over
   a live service. The same path is the exception of `MigrationsSpareServingTasks`: the
   migration of a cancelled or timed-out run, which nobody stops, can meet such an image when
   ECS returns to it. `PutOverZero` says that it is the only one it can meet.

4. `drill_oidc_files`. `oidc-drill.py:342`: "Clean up containers before deleting their private
   bind-mounted files." That is what lines 343-345 do when all went well. If a step fails, the
   exception leaves the `with tempfile.TemporaryDirectory` first, and the containers are
   removed after their files. `ClientsKeepWhatTheyUse` states what does hold.

One observation is not a divergence from any document. If the answer of the rollback drill's
`docker build` is lost after the image was made, the image stays and the report does not name
it (`rollback-drill.py:129-132`, 314); `NothingIsLeftUnreported` excludes this case.

## 5. Proofs

`InventoryServiceProofs` proves, for every set of requests, instances, products, customers,
keys, every lock hash, pool size and workload:

| Theorem | Property |
| --- | --- |
| `TypeCorrect` | `TypeOK` |
| `KeysAreBoundOnce` | `OneReservationPerKey` |
| `KeyedInsertsNeverCollide` | `KeyedInsertNeverCollides`: the lock, not the index, keeps keys apart |
| `RepliesStayTrue`, `RetriesGetOneAnswer`, `RefusalsAreClean` | `RepliesAreTrue`, `OneAnswerPerKey`, `RefusalsLeaveNoTrace` |
| `NoDeadlock` | `WaitsEnd` |
| `ServiceImplementsLedger` | `ImplementsLedger` |
| `StockIsConserved` | `StockConservation` |
| `CountersStayTrue` | `CountersFollowLedger` |
| `CallsStayAtomic` | `AnswersAreAtomic` |

None of these is inductive: that a commit does not overwrite another's change follows from
what its transaction read some steps ago and from who could have written since. The inductive
invariant `IInv` (theorem `InductiveInvariant`) makes this explicit:

- `CallsInv`: a request's position agrees with its arguments;
- `LocksInv`: each lock is held by exactly the requests whose position says so;
- `WorkInv`: what a request read under its locks still holds at its commit (`Pending`), and
  what its acknowledgement will say is stored (`Done`);
- `StoredInv`: stored reservations belong to reserve calls that committed, one per key;
- `AnswersInv`: every answer describes what is stored.

There is one lemma per action (`CommitKeepsIInv`, ...); those that only end transactions
(rollback, crash, abandoned backends) share `EndsKeepIInv`. `NoDeadlock` then needs no
induction: locks are ordered key, reservation, product, and a request holding a product's
lock waits for nothing, so any set of waiting requests has one whose holder is outside.
For the refinement, `OnlyCommitWrites` shows that other actions leave the tables alone, and
`CommitDoesWhatWasAsked` turns `Pending` into the guard of the ledger's action, for the
arguments of the call.

`CallsStayAtomic` is the second refinement, by the table of section 2. It needs little more of
the state (`AtomicInv`): a client has its answer from the end of its request, or the loss of
its connection, on (`ClientInv`), and what a service method returned with agrees with its call
(`PreparedInv`). Steps a client does not see share one lemma (`ForwardIsUnseen`), rollbacks
another (`RollbackResponds`); what is left is the reason of each refusal. It was read by
several statements, and `IInv` is what makes it hold at once: the key was free and, its lock
being held, still is when the product turns out to be missing or short (`FoundBeforeLock`); and
of all constraints a flush can meet, none but the order of the two timestamps can be violated
(`RejectFlushAnswers`), because the locks protect what the others are about.

`StockIsConserved` and `CountersStayTrue` are about sums. `StockIsConserved` rests on the refinement: a step of
the service is one of the ledger's three actions or leaves the tables alone
(`StepsAreLedgerSteps`), and each of these moves as many units from the shelf to a reservation
as it takes (`ConservationInv`, which adds that the stored reservations are finitely many,
since the set of requests need not be finite). `CountersStayTrue` needs to know what a commit
still owes the counters: `CountersInv` says that what they show, added over the instances,
plus what committed but unacknowledged requests will add never exceeds what the tables hold,
and equals it as long as no crash and no lost commit has interfered.

`FiniteSums` has what both need to know of `SumFunctionOnSet`, the recursive sum of the
community modules: it depends only on the values in the set, an element contributes its value
in whatever order is summed, a sum of naturals is one, and so on. Each is proved by a
least counterexample, from the well-foundedness of the naturals, because the library's
induction rules cannot be instantiated here. Even that the recursion has a solution
(`SumsExist`) is proved this way.

`ProductCatalogProofs` does the same with `CatalogInv` (theorem `CatalogInvariant`): besides
types, positions and answers it says that a transaction between its insert and its end has its
SKU to itself (`Exclusive`). `CatalogTypes`, `SkusStayUnique` and `AnswersStayTrue` follow, and with a `ClientInv` like the
service's, `CreationsStayAtomic` (`CreationsAreAtomic`).
`CountersStayTrue` (`CountersFollowCatalog`) is proved as for the service, from what commits
still owe the counters.

`ReleasePipelineProofs` proves every property of the run `release` but its liveness, for any number of
deploying and rolling back runs, images and changes by hand:

| Theorem | Property |
| --- | --- |
| `PipelineTypes` | `TypeOK` |
| `MigrationsSpare` | `MigrationsSpareServingTasks` |
| `AutomaticRollbacks` | `AutomaticRollbackIsVerified` |
| `ServingFollows` | `ServingFollowsMigration` |
| `OutcomesAgree` | `OutcomesAgreeWithTheService` |
| `RollbacksKeep` | `RollbacksKeepToTheirOwn` |

What a gate has inspected is used minutes later, by another step, and the properties speak of
that later moment. `PipelineInv` (theorem `PipelineInvariant`) carries the inspection over:
one run is at work at a time (`OneAtATime`, the workflow's concurrency group); what it has
inspected (`Inspected`) is what serves until it updates (`Undisturbed`); afterwards the
service has the run's revision or the one of its baseline, in one of the few states ECS can
have brought it to (`UnderWay`, `OnItsWay`, `Restoring`), and what ECS would go back to is one
of them (`Fallback`). A revision that is still in service when the next run comes is one whose
own run was inspected and migrated (`Released`, `InService`), which is how the argument goes
on from run to run.

`DrillFixtureProofs` does so for the run `drill_fixture`, for any drills, containers and
faulty Docker calls:

| Theorem | Property |
| --- | --- |
| `FixtureTypes` | `TypeOK` |
| `NothingIsLeft` | `NothingIsLeftUnreported` |
| `OthersAreLeft` | `OthersAreLeftAlone` |
| `PreparedAccept` | `PreparedDatabasesAcceptTheirPassword` |
| `OutagesEnd` | `OutagesEndBeforeCleanup` |
| `ClientsKeep` | `ClientsKeepWhatTheyUse` |

`FixtureInv` (theorem `FixtureInvariant`) says that labels tell the drill's containers from
others' (`LabelsTell`), that whatever is the drill's is tracked or was reported (`Remembered`),
and that the cleanup has removed or reported what it has passed (`Visited`). The other three
invariants rest on it. `JobInv`: a job at work is the one that is waited for and has the
password that is registered after it. `PausesEnd`: a paused database has its unpause ahead, in
the script or its `finally` block. `ClientInv`: a container was tracked after the database it
uses, and the cleanup goes backwards. The steps of the scripts are many but of few kinds;
`MigrationsSpare` has a second half, of migrations that outlive their runs, and `PipelineInv`,
which speaks of the run at work, does not reach it. `Spared` (theorem `SparedInvariant`) adds
that from the moment a migration starts, whatever ECS serves, deploys or could go back to
honours the contract or was put over at count zero by a run that did not inspect it
(`Exposed`): every later update either puts its revision over what it has inspected or makes
such an exception, which no step takes back.

`DrillStep` says what all of them respect, and each invariant is looked at once for it.

`ToolsProofs` proves every property of the run `tools` but its liveness, for any numbers of
workers, threads, images, changes, rows and jobs:

| Theorem | Property |
| --- | --- |
| `ToolsTypes` | `TypeOK` |
| `ReportsStayTrue` | `ReportsAreTrue` |
| `PagesShowEveryRow` | `PagesShowAll` |
| `LimitsStayKept` | `LimitsAreKept` |
| `TheRoleStaysWhole` | `TheRoleIsWhole` |

`ToolsInv` (theorem `ToolsInvariant`) is one invariant for each part, which its initial states
and the idle state satisfy; a step of all six is a step of one (`StepOfOne`).

- `LoadInv`. Each request that was taken is held by one worker or is among the samples, once
  (`Counted`), and what a worker was answered is what the service decided (`Answered`). If all
  are answered, the successes map one to one onto the reservations stored
  (`PassedSoldExactly`); that an atomic service is not failed (`NoFalseAlarm`) is part of the
  invariant, because the service may fail before the test knows.
- `BatchInv`. Every answer is of a record that is or was stored (`Stored`). If the replicas
  share one lock, the transaction that holds it has read what is still there, and the answers
  fit one order of the transactions that have committed (`Serial`), so that a sound service is
  not failed; a passed batch is serial because the main thread counts the answers and looks at
  the stock, and only when all threads have ended (`Threading`).
- `ExtractionInv`. What the gate cannot have found wrong with the images so far (`Inspected`);
  the containers are ours, if it was created, and those of others, none of which has its exact
  name where it is removed (`Known`).
- `PreflightInv`. Each check that was made has failed or has found what is right, and after the
  first the account is the expected one (`ChecksMade`); the report on disk and the exit status
  are of one outcome.
- `ListingInv`, of `PagedListingProofs`.
- `RoleInv`. What a commit writes was drafted steps before, when others could have changed the
  role. At most one open transaction has written the role (`Writers`), its draft is that job's
  role as far as its statements have gone (`Drafts`), of a role that was and still is
  acceptable (`Safe`), and a job past its migrations finds them applied (`Migrated`).

`PagedListingProofs` proves `PagesStayComplete` (`PagesShowAll`) for any number of rows, any
page size and any width of the integers. Pages are cut by offset, so the argument counts: the
rank of a row, the number of rows in front of it, never falls. `ListingInv` (theorem
`ListingInvariant`) says that rows not yet read have at least the rank of the offset, that
those a page has missed have at least the rank of the next one, and that the count, which is
taken later, therefore tells of a next page.

`MonitoringProofs` proves `AcknowledgedStaysKept` (`AcknowledgedIsKept`) and the types for any
number of threads and events, lost answers and repetitions. `ReceiverInv` (theorem
`ReceiverInvariant`) says that the lock is held by the one thread that has looked for room, so
that the room is still there when it appends (`Locked`), and that what is accepted is among
the events, which are never removed (`Accepted`). For the drill, `PassedIsNotified`
(`PassedMeansNotified`) needs the whole course of its outage: `CourseInv` says which step of
the drill goes with which stage of the outage (`InStep`), and that, as long as no probe fails
by itself, nothing but the notices of that outage is due, on its way or kept, the firing one
first (`Course`).

Assumptions: `DomainAssumption`, `ServiceAssumption`, `CatalogAssumption`,
`PipelineAssumption`, `FixtureAssumption`, `MonitoringAssumption` and `ToolsAssumption`, which
is the assumptions of its parts and that there are images and configurations to idle with.
They type the constants and keep the null values out of the sets of proper
ones. Four say more. `FleetAssumption`, that there are finitely many instances, is needed to add
up their counters. `ScriptAssumption` states how the drills are written: a migration is given
a password, and what a `try` block pauses, its `finally` block unpauses; TLC evaluates it on
the scripts of all drills. `ExtractionAssumption`, a part of `ToolsAssumption`, says that
Docker gives a name to one container at a time. `LoadAssumption` has finitely many workers.
Otherwise no finiteness and no bound is assumed, and nothing of the workload but its type.
TLC evaluates the assumptions in every run.

Model-checked only:

- liveness (`Every...Ends`, `PassesInTime`, `SoundApplicationsPass`), which is beyond the prover;
- `PassedMeansClaimed` of `DrillChecks`: it holds because of what each drill's script asks for
  and requires, so that a proof would go through these scripts call by call, which is what TLC
  does. They are constants of the program, and nothing in them is left to generalise.

Some invariants are proved and not checked by a run: `KeyedInsertNeverCollides`, the type
invariant of `Monitoring`, and `RefusalsLeaveNoTrace` (what is refused is not stored) and
`AnswersAreTrue` (what is created is stored as asked for, what is refused is not), which the
runs check as a part of `AnswersAreAtomic` and `CreationsAreAtomic`. The type invariant of
`DrillChecks` documents its state and is not part of a run.

## 6. What is not modelled, and why

- *Authentication and roles, request logging*: stateless configuration; the customer is an
  argument of a call.
- *Static pages and the API description*: documents.
- *Publication, CI, security report checks*: linear jobs on fresh runners, which share nothing
  but a registry of immutable images.
- *Terraform and Compose declarations*: no behaviour of their own. What the ECS service's
  declaration makes ECS do is in `ReleasePipeline`.
- *Names, SKU syntax, timestamps' precision, problem documents, logs, percentiles*: data no
  property tells apart. `Normalize` stands for SKU normalisation and its syntax check
  together; an identifier of the preflight is malformed or not.
- *A change of the service by hand between the second snapshot and the update*
  (`deploy-ecs.sh:47`): ECS has no compare-and-swap, and `docs/operations.md:61` leaves it to
  the operator. The model excludes it, so no property is about it.
- *Time*: waits may end at any moment. That a drill's limits are long enough for what
  Prometheus and Alertmanager are configured to do is not shown.
- *The read of a single row*: one query, of which there is nothing to say.

## 7. Plan

Done, in order of importance: the inventory transactions, product creation and their proofs;
the release pipeline, the drills' containers and monitoring, with their proofs; the drills'
requests; the load test and the batches, contract extraction and preflight, provisioning and
listings, with their proofs. Every safety property of a passing run is proved but
`PassedMeansClaimed` (section 5).

Models worth adding: the drills of `DrillChecks` against `InventoryService` itself instead of
a service with defects, which needs fewer interleavings than that module has.
