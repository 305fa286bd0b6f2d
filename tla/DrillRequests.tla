------------------------------ MODULE DrillRequests ----------------------------
(***************************************************************************)
(* What each drill asks of the application, request by request, and what   *)
(* it requires of the answers: the run functions of the drills and         *)
(* demo-local.py.                                                          *)
(*                                                                         *)
(* A step sends its request `times' times, to the runtimes `on' in turn,   *)
(* requires the statuses `counts' and whatever else it names, and keeps    *)
(* the bodies of the answers under the name `keep'.                        *)
(***************************************************************************)
EXTENDS Integers, Sequences, TLC

Unsaid == -1

LOCAL Default ==
    [op |-> "product", on |-> <<>>, db |-> "none", by |-> "customer", n |-> 0,
     key |-> "none", product |-> "p", of |-> "none", times |-> 1,
     counts |-> (200 :> 1),
     number |-> Unsaid,        \* stock of a product, size of a list
     state |-> "any",       \* of a reservation, or an image
     same |-> "none",       \* equal to what was kept under this name
     alike |-> FALSE,       \* all answers are equal
     distinct |-> FALSE,    \* successes differ, refusals are for lack of stock
     all |-> {},            \* a list of exactly what was kept under these names
     after |-> "none",      \* one migration after what was kept
     keep |-> "none"]

LOCAL Ask(op, app) == [Default EXCEPT !.op = op, !.on = <<app>>]
LOCAL Start(app, db) == [Ask("start", app) EXCEPT !.db = db, !.state = "verified"]
LOCAL Stop(app) == Ask("stop", app)
LOCAL On(op, db) == [Default EXCEPT !.op = op, !.db = db]
LOCAL Migrate(db, password) == [On("migrate", db) EXCEPT !.key = password]
LOCAL Login(db, password) == [On("login", db) EXCEPT !.key = password]

LOCAL Status(step, status) == [step EXCEPT !.counts = (status :> step.times)]
LOCAL By(step, account) == [step EXCEPT !.by = account]
LOCAL Says(step, number) == [step EXCEPT !.number = number]
LOCAL Is(step, state) == [step EXCEPT !.state = state]
LOCAL Same(step, name) == [step EXCEPT !.same = name]
LOCAL Keep(step, name) == [step EXCEPT !.keep = name]

LOCAL Create(app, n) ==
    Status([By(Ask("create", app), "admin") EXCEPT !.n = n], 201)
LOCAL Reserve(app, key, n) == [Ask("reserve", app) EXCEPT !.key = key, !.n = n]
LOCAL New(step) == Status(step, 201)
LOCAL Look(app) == Ask("product", app)
LOCAL Browse(app) == Ask("products", app)
LOCAL Ready(app) == Ask("readiness", app)
LOCAL Read(app, of) == [Ask("reservation", app) EXCEPT !.of = of]
LOCAL Cancel(app, of) == [Ask("cancel", app) EXCEPT !.of = of]

-----------------------------------------------------------------------------

\* Mutant: the replay after the cancellation is compared with the reservation
\* as it was first answered.
SurvivesUnchanged(app, n, initial) ==
    <<Same(Look(app), "product"),
      Same(Read(app, "reservation"), "reservation"),
      Keep(Is(Cancel(app, "reservation"), "CANCELLED"), "cancelled"),
      Same(Reserve(app, "seed", n), "reservation"),
      Says(Look(app), initial)>>

\* Cancellation of the seeded reservation after it has survived, with what the
\* recovery and the rotation drill require of it.
Survives(app, n, initial) ==
    <<Same(Look(app), "product"),
      Same(Read(app, "reservation"), "reservation"),
      Same(Reserve(app, "seed", n), "reservation"),
      Keep(Is(Cancel(app, "reservation"), "CANCELLED"), "cancelled"),
      Same(Cancel(app, "reservation"), "cancelled"),
      Same(Reserve(app, "seed", n), "cancelled"),
      Says(Look(app), initial)>>

Seed(app, initial, n) ==
    <<Create(app, initial),
      Keep(New(Reserve(app, "seed", n)), "reservation"),
      Keep(Says(Look(app), initial - n), "product"),
      Keep(Is(Read(app, "reservation"), "ACTIVE"), "reservation")>>

Recovery ==
    <<Migrate("source-db", "initial"), Login("source-db", "initial"),
      Start("source-app", "source-db")>>
    \o Seed("source-app", 37, 7)
    \o <<On("dump", "source-db"), On("restore", "restored-db"),
         Migrate("restored-db", "initial"), Login("restored-db", "initial"),
         Start("restored-app", "restored-db")>>
    \o Survives("restored-app", 7, 37)
    \o <<Same(Look("source-app"), "product"),
         Says(Look("restored-app"), 37)>>

Rotation ==
    <<Migrate("source-db", "initial"), Login("source-db", "initial"),
      Start("old-runtime", "source-db")>>
    \o Seed("old-runtime", 23, 6)
    \o <<Stop("old-runtime"), Migrate("source-db", "new"),
         Status(Login("source-db", "initial"), 401), Login("source-db", "new"),
         Start("replacement-runtime", "source-db")>>
    \o Survives("replacement-runtime", 6, 23)

-----------------------------------------------------------------------------

Rollback ==
    <<Migrate("source-db", "initial"), Login("source-db", "initial"),
      Keep(On("history", "source-db"), "before"),
      Start("original-api", "source-db"),
      Create("original-api", 17),
      Keep(New(Reserve("original-api", "seed", 4)), "reservation"),
      Keep(Says(Look("original-api"), 13), "product"),
      On("candidate", "source-db"),
      [Keep(On("history", "source-db"), "after") EXCEPT !.after = "before"],
      Says(On("column", "source-db"), 1),
      Same(Look("original-api"), "product"),
      Stop("original-api"),
      Is(Start("unhealthy-candidate", "source-db"), "candidate"),
      Browse("unhealthy-candidate"),
      Status(Ready("unhealthy-candidate"), 404),
      Is(Ask("image", "unhealthy-candidate"), "candidate"),
      Stop("unhealthy-candidate"),
      Start("restored-api", "source-db"),
      Is(Ask("image", "restored-api"), "verified"),
      Same(Look("restored-api"), "product"),
      Same(Read("restored-api", "reservation"), "reservation"),
      Same(Reserve("restored-api", "seed", 4), "reservation"),
      Says(Look("restored-api"), 13),
      Keep(Is(Cancel("restored-api", "reservation"), "CANCELLED"), "cancelled"),
      Same(Cancel("restored-api", "reservation"), "cancelled"),
      Says(Look("restored-api"), 17),
      Same(Reserve("restored-api", "seed", 4), "cancelled"),
      Says(On("column", "source-db"), 1),
      Same(On("history", "source-db"), "after")>>

-----------------------------------------------------------------------------

LOCAL Both == <<"replica-a", "replica-b">>
LOCAL Batch(step, counts) ==
    [step EXCEPT !.on = Both, !.times = 8, !.counts = counts]
LOCAL Alike(step) == [step EXCEPT !.alike = TRUE]
LOCAL Stock(product, number) ==
    [Status([Says(Alike(Look("replica-a")), number)
                EXCEPT !.times = 2, !.on = Both], 200)
        EXCEPT !.product = product]
\* What each replica answers after the restart, and at the end.
LOCAL Replays(app) ==
    <<Same(Reserve(app, "same", 5), "cancelled"),
      Same(Reserve(app, "survivor", 1), "survivor")>>
LOCAL Holds(app) ==
    <<Same(Reserve(app, "active", 4), "active cancelled"),
      [Ask("list", app) EXCEPT !.number = 6,
           !.all = {"cancelled", "active cancelled", "survivor", "contended"}]>>

Replicas ==
    <<Migrate("source-db", "initial"), Login("source-db", "initial"),
      Start("replica-a", "source-db"), Start("replica-b", "source-db"),
      Create("replica-a", 20),
      Keep(Is(Alike(Batch(Reserve("replica-a", "same", 5),
                          201 :> 1 @@ 200 :> 7)), "ACTIVE"), "reservation"),
      Stock("p", 15),
      [Create("replica-b", 7) EXCEPT !.product = "q"],
      [Keep(Batch(Reserve("replica-a", "each", 2), 201 :> 3 @@ 409 :> 5),
            "contended")
          EXCEPT !.product = "q", !.distinct = TRUE],
      Stock("q", 1),
      Keep(Is(Alike(Batch(Cancel("replica-a", "reservation"), 200 :> 8)),
              "CANCELLED"), "cancelled"),
      Stock("p", 20),
      Keep(New(Reserve("replica-a", "active", 4)), "active"),
      Stock("p", 16),
      Stop("replica-a"),
      Same(Reserve("replica-b", "same", 5), "cancelled"),
      Same(Reserve("replica-b", "active", 4), "active"),
      Keep(New(Reserve("replica-b", "survivor", 1)), "survivor"),
      Says(Look("replica-b"), 15),
      Start("replica-a", "source-db"),
      Stock("p", 15)>>
    \o Replays("replica-a") \o Replays("replica-b")
    \o <<Same(Batch(Reserve("replica-a", "active", 4), 200 :> 8), "active"),
         Stock("p", 15),
         Keep(Is(Alike(Batch(Cancel("replica-a", "active"), 200 :> 8)),
                 "CANCELLED"), "active cancelled"),
         Stock("p", 19),
         Stock("q", 1)>>
    \o Holds("replica-a") \o Holds("replica-b")

-----------------------------------------------------------------------------

Oidc ==
    <<Migrate("source-db", "initial"), Start("production-api", "source-db"),
      By(Browse("production-api"), "short-lived token"),
      Status(By(Browse("production-api"), "nobody"), 401),
      Status(By(Browse("production-api"), "Basic credentials"), 401),
      Browse("production-api"),
      Status(By(Create("production-api", 9), "customer"), 403),
      Create("production-api", 9),
      Keep(New(Reserve("production-api", "seed", 3)), "reservation"),
      Same(Reserve("production-api", "seed", 3), "reservation"),
      Says(Look("production-api"), 6),
      Status(By(Read("production-api", "reservation"), "other"), 404),
      Status(By(Cancel("production-api", "reservation"), "other"), 404),
      By(Says(Ask("list", "production-api"), 0), "other"),
      Keep(Is(Cancel("production-api", "reservation"), "CANCELLED"),
           "cancelled"),
      Same(Cancel("production-api", "reservation"), "cancelled"),
      Says(Look("production-api"), 9),
      Status(By(Browse("production-api"), "wrong audience"), 401),
      Status(By(Browse("production-api"), "modified signature"), 401),
      Status(By(Browse("production-api"), "expired token"), 401),
      Browse("production-api")>>

Monitoring ==
    <<Migrate("source-db", "initial"), Start("monitoring-app", "source-db"),
      Create("monitoring-app", 9),
      Keep(New(Reserve("monitoring-app", "seed", 3)), "reservation"),
      Same(Reserve("monitoring-app", "seed", 3), "reservation"),
      Cancel("monitoring-app", "reservation"),
      Says(Look("monitoring-app"), 9)>>

\* demo-local.py runs against a service that is there already.
Demo ==
    <<Migrate("source-db", "initial"), Start("service", "source-db"),
      Ready("service"),
      Status(By(Browse("service"), "nobody"), 401),
      Create("service", 7),
      Keep(New(Reserve("service", "seed", 3)), "reservation"),
      Same(Reserve("service", "seed", 3), "reservation"),
      Status(Reserve("service", "seed", 4), 409),
      Says(Look("service"), 4),
      Keep(Is(Cancel("service", "reservation"), "CANCELLED"), "cancelled"),
      Same(Cancel("service", "reservation"), "cancelled"),
      Same(Reserve("service", "seed", 3), "cancelled"),
      Says(Look("service"), 7)>>

=============================================================================
