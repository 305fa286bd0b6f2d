------------------------------ MODULE DrillScripts -----------------------------
(***************************************************************************)
(* What each drill asks of its fixture, in order: the run functions of the *)
(* scripts.  The requests a drill sends to a runtime between two steps of  *)
(* the fixture are one step, "use"; DrillChecks has them one by one.       *)
(***************************************************************************)
EXTENDS Integers, Sequences

CONSTANT NoPassword

LOCAL Step(op, name, db, password, mounts) ==
    [op |-> op, name |-> name, db |-> db, password |-> password,
     mounts |-> mounts]

LOCAL On(op, name, db) == Step(op, name, db, NoPassword, FALSE)
LOCAL Net(db) == On("network", db, db)
LOCAL Database(db) == On("database", db, db)
LOCAL Query(name, db) == On("query", name, db)
LOCAL App(name, db) == On("runtime", name, db)
LOCAL Start(name, db) == On("rollback runtime", name, db)
LOCAL Use(name, db) == On("use", name, db)
LOCAL Migrate(name, db, password) == Step("migrate", name, db, password, FALSE)
LOCAL Login(db, password) == Step("login", db, db, password, FALSE)
LOCAL Private(op, name, db) == Step(op, name, db, NoPassword, TRUE)

LOCAL Prepare(db, job) ==
    <<Net(db), Database(db), Migrate(job, db, "initial"), Login(db, "initial")>>

Recovery ==
    Prepare("source-db", "source-migrate") \o
    <<App("source-app", "source-db"),
      Use("source-app", "source-db"),
      Query("source-db", "source-db"),                                    \* pg_dump
      Database("restored-db"),
      Query("restored-db", "restored-db"),                                  \* pg_restore
      Migrate("restored-migrate", "restored-db", "initial"),
      Login("restored-db", "initial"),
      App("restored-app", "restored-db"),
      Use("restored-app", "restored-db"),
      Use("source-app", "source-db"),
      On("pause", "restored-db", "restored-db"),
      On("outage", "restored-app", "restored-db"),
      On("unpause", "restored-db", "restored-db"),
      Use("restored-app", "restored-db")>>

Rotation ==
    Prepare("rotation-db", "initial-migrate") \o
    <<App("old-runtime", "rotation-db"),
      Use("old-runtime", "rotation-db"),
      On("stop", "old-runtime", "rotation-db"),
      Migrate("rotation-migrate", "rotation-db", "new"),
      Step("refused login", "rotation-db", "rotation-db", "initial", FALSE),
      Login("rotation-db", "new"),
      App("replacement-runtime", "rotation-db"),
      Use("replacement-runtime", "rotation-db")>>

Replicas ==
    Prepare("replica-db", "replica-migrate") \o
    <<App("replica-a", "replica-db"),
      App("replica-b", "replica-db"),
      Use("replica-a", "replica-db"),
      On("stop replica", "replica-a", "replica-db"),
      Use("replica-b", "replica-db"),
      On("restart", "replica-a", "replica-db"),
      Use("replica-a", "replica-db")>>

Rollback ==
    Prepare("rollback-db", "baseline-migrate") \o
    <<Query("rollback-db", "rollback-db"),
      Start("original-api", "rollback-db"),
      Use("original-api", "rollback-db"),
      On("tag image", "original-api", "rollback-db"),
      On("build", "original-api", "rollback-db"),
      On("candidate migration", "candidate-migrate", "rollback-db"),
      Query("rollback-db", "rollback-db"),
      Use("original-api", "rollback-db"),
      On("stop", "original-api", "rollback-db"),
      Start("unhealthy-candidate", "rollback-db"),
      On("unhealthy", "unhealthy-candidate", "rollback-db"),
      On("stop", "unhealthy-candidate", "rollback-db"),
      Start("restored-api", "rollback-db"),
      Use("restored-api", "rollback-db"),
      Query("rollback-db", "rollback-db")>>

Oidc ==
    <<Net("oidc-db"),
      Private("job", "certificate-builder", "oidc-db"),
      Database("oidc-db"),
      Migrate("oidc-migrate", "oidc-db", "initial"),
      Private("provider", "keycloak", "oidc-db"),
      Private("production runtime", "production-api", "oidc-db"),
      Use("production-api", "oidc-db")>>

Monitoring ==
    <<Net("monitoring-db"),
      Database("monitoring-db"),
      Migrate("monitoring-migrate", "monitoring-db", "initial"),
      App("monitoring-app", "monitoring-db"),
      Private("service", "receiver", "monitoring-db"),
      Private("service", "alertmanager", "monitoring-db"),
      Private("service", "blackbox", "monitoring-db"),
      Private("service", "prometheus", "monitoring-db"),
      Query("receiver", "monitoring-db"),
      Query("prometheus", "monitoring-db"),
      Use("monitoring-app", "monitoring-db"),
      On("pause", "monitoring-db", "monitoring-db"),
      On("outage", "monitoring-app", "monitoring-db"),
      Query("receiver", "monitoring-db"),
      Query("prometheus", "monitoring-db"),
      On("unpause if paused", "monitoring-db", "monitoring-db"),
      Use("monitoring-app", "monitoring-db"),
      Query("prometheus", "monitoring-db"),
      Query("receiver", "monitoring-db")>>

Load ==
    Prepare("load-db", "load-migrate") \o
    <<App("load-app", "load-db"), Use("load-app", "load-db")>>

ScriptOf(d) ==
    CASE d = "recovery" -> Recovery
      [] d = "rotation" -> Rotation
      [] d = "replicas" -> Replicas
      [] d = "rollback" -> Rollback
      [] d = "oidc" -> Oidc
      [] d = "monitoring" -> Monitoring
      [] d = "load" -> Load

\* The finally block that unpauses the database, 0 in the other drills.
FinallyOf(d) ==
    CASE d = "recovery" -> 17
      [] d = "monitoring" -> 16
      [] OTHER -> 0

\* The recovery drill pauses before its try block, the monitoring drill in it.
TryOf(d) ==
    CASE d = "recovery" -> {16}
      [] d = "monitoring" -> 12..15
      [] OTHER -> {}

=============================================================================
