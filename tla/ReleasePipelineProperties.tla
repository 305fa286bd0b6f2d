----------------------- MODULE ReleasePipelineProperties -----------------------
(***************************************************************************)
(* What must hold of ReleasePipeline.                                      *)
(***************************************************************************)
EXTENDS ReleasePipeline

\* An image that can serve next to a migrated database and its clients.
Honours(image) ==
    /\ Contract[image] # NoContract
    /\ RequiredCapabilities \subseteq Contract[image].capabilities

\* r has gone on to put its revision over a task at count zero: the gate does
\* not inspect what such a service names (verify-deployment-image.py:59-60).
PutOverZero(r, task) ==
    /\ step[r] \in {"wait stable", "describe", "readiness", "rollback",
                    "wait restored", "done"}
    /\ baseline[r] # NoBaseline
    /\ baseline[r].task = task
    /\ baseline[r].count = 0

\* Nothing that serves while a run waits for its migration, which alters
\* grants, is older than the contract, though the service may have changed
\* since the run inspected it (migrate-ecs.sh:10-13 and 23-26,
\* operations.md:59).  Nor while the migration of a run that has ended still
\* runs (migrate-ecs.sh:39-43), whatever releases came after: except what such
\* a release was put over at count zero, if ECS goes back to it.
MigrationsSpareServingTasks ==
    /\ (\E r \in Active : migration[r] = "running") =>
           \A task \in Serving : Honours(ImageOf(task))
    /\ (\E r \in Runs : migration[r] = "running") =>
           \A task \in Serving : \/ Honours(ImageOf(task))
                                 \/ \E r \in Runs : PutOverZero(r, task)

\* While a rollout over a live service can still be undone by ECS, what ECS
\* would go back to honours the contract (deploy-ecs.sh:13-17,
\* operations.md:59-61).
AutomaticRollbackIsVerified ==
    /\ service.task \in Runs
    /\ service.rollout = "IN_PROGRESS"
    /\ baseline[service.task].count > 0
    => Honours(ImageOf(service.completed))

\* No deployed image serves before the migration of its own run has exited
\* with zero (migrate-ecs.sh:39-52, deploy.yml:47-51).
ServingFollowsMigration ==
    \A r \in Runs :
        /\ request[r] # NoRequest
        /\ request[r].operation = "deploy"
        /\ r \in Serving \cup {service.task}
        => migration[r] = "succeeded"

Ends(r, result) == outcome[r] = "none" /\ outcome'[r] = result

\* What a release reports is so.  Healthy, over a live service: its own
\* revision has completed and is in service, at the count asked for
\* (deploy-ecs.sh:51-69).  Restored: the previous revision runs at the previous
\* count, unless ECS, not the script, brought the rejected one back
\* (deploy-ecs.sh:41-58 and 60-68).
OutcomesAgreeWithTheService ==
    [][\A r \in Runs :
          /\ Ends(r, "healthy") /\ baseline[r].count > 0 =>
                 /\ service.task = r
                 /\ service.completed = r
                 /\ service.desired = request[r].count
          /\ Ends(r, "restored") =>
                 /\ service.desired = baseline[r].count
                 /\ \/ service.task = baseline[r].task
                    \/ service.task = r /\ service.completed = r]_vars

\* A release takes back only what it put in service itself, never the
\* rollout of another run (deploy.yml:20-22, deploy-ecs.sh:41-45).
RollbacksKeepToTheirOwn ==
    [][\A r \in Runs :
          step[r] = "rollback" /\ step'[r] # "rollback" /\ service' # service
              => service.task \in {r, baseline[r].task}]_vars

\* Every dispatched release ends, also when its migration never exits or
\* the service never settles (migrate-ecs.sh:39-43, deploy-ecs.sh:51-54).
EveryReleaseEnds ==
    \A r \in Runs : request[r] # NoRequest ~> step[r] = "done"

\* "Failed checks restore both the previous revision and count"
\* (docs/operations.md:76).
FailedChecksRestoreRevisionAndCount ==
    [][\A r \in Runs :
          Ends(r, "restored") =>
              /\ service.desired = baseline[r].count
              /\ service.task = baseline[r].task]_vars

\* "Images built before the embedded-contract baseline cannot be selected or
\* relied on for automatic rollback" (docs/operations.md:61).
OlderImagesAreNotReliedOn ==
    service.task \in Runs /\ service.rollout = "IN_PROGRESS" =>
        Honours(ImageOf(service.completed))
=============================================================================
