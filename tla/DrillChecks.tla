------------------------------- MODULE DrillChecks -----------------------------
(***************************************************************************)
(* A drill as a test of the application: it sends the requests of its      *)
(* script to a service with at most one defect, chosen at the start, and   *)
(* passes when every answer is as it requires.                             *)
(*                                                                         *)
(* The service is what the drills can see of it: databases with stock,     *)
(* reservations, accepted passwords and a schema, and runtimes that serve  *)
(* one of them.  It works on one request at a time here; ReplicaBatch and  *)
(* LoadTest have the concurrent ones.                                      *)
(***************************************************************************)
EXTENDS DrillRequests, FiniteSets

CONSTANTS
    Drills,         \* names of the drills to run
    NoDefect

Scripts ==
    [recovery |-> Recovery, rotation |-> Rotation, rollback |-> Rollback,
     replicas |-> Replicas, oidc |-> Oidc, monitoring |-> Monitoring,
     demo |-> Demo]

\* Credentials that must not be accepted; to accept one is a defect.
BadCredentials == {"nobody", "Basic credentials", "wrong audience",
                   "modified signature", "expired token"}

Defects ==
    BadCredentials \cup
    {"customers create products", "anyone reads", "anyone lists",
     "anyone cancels", "any payload replays", "replay reserves again",
     "replay subtracts again", "reserving subtracts nothing",
     "sells more than there is", "keys end with their process",
     "cancelled keys are free", "cancelling keeps the status",
     "cancelling adds every time", "cancelling returns nothing",
     "dump misses reservations", "dump misses stock",
     "restored runtime serves the source", "passwords are not rotated",
     "old passwords stay valid", "old code fails on the new schema",
     "candidate rewrites history", "rollback removes the column",
     "rollback starts the candidate"}

ASSUME ChecksAssumption ==
    /\ Drills \subseteq DOMAIN Scripts
    /\ NoDefect \notin Defects

VARIABLES
    drill, defect,
    i, samples,     \* the step of the script, and the answers to it so far
    memory,         \* what the script has kept
    verdict, interrupted,
    dbs, runtimes,  \* the databases, and what each runtime serves
    backup, processes

script == <<drill, defect, i, samples, memory, verdict, interrupted>>
service == <<dbs, runtimes, backup, processes>>
vars == <<script, service>>

Databases == {"source-db", "restored-db"}
Products == {"p", "q"}
Absent == -1
Empty == [stock |-> [p \in Products |-> Absent], made |-> <<>>,
          passwords |-> {}, password |-> "none", column |-> FALSE,
          history |-> <<"V1", "V2">>]
Step == Scripts[drill][i]
Problem(reason) == [reason |-> reason]

TypeOK ==
    /\ drill \in Drills
    /\ defect \in Defects \cup {NoDefect}
    /\ i \in 1..Len(Scripts[drill])
    /\ Len(samples) <= Step.times
    /\ verdict \in {"none", "passed", "failed"}
    /\ interrupted \in BOOLEAN
    /\ \A d \in Databases :
           /\ dbs[d].stock \in [Products -> Int]
           /\ \A r \in 1..Len(dbs[d].made) :
                  dbs[d].made[r].state \in {"ACTIVE", "CANCELLED"}
    /\ \A a \in DOMAIN runtimes : runtimes[a].db \in Databases
    /\ processes \in Nat

Init ==
    /\ drill \in Drills
    /\ defect \in Defects \cup {NoDefect}
    /\ i = 1
    /\ samples = <<>>
    /\ memory = <<>>
    /\ verdict = "none"
    /\ interrupted = FALSE
    /\ dbs = [d \in Databases |-> Empty]
    /\ runtimes = <<>>
    /\ backup = Empty
    /\ processes = 0

-----------------------------------------------------------------------------
(* The service: the answer to a request, and the database after it.        *)

Answer(status, body, db) == [status |-> status, body |-> body, db |-> db]
Refuse(status, db) == Answer(status, Problem("none"), db)

Accepted(by) == by \notin BadCredentials \/ by = defect
Subject(by) == IF by \in {"admin", "customer", "other"} THEN by ELSE "customer"
Mine(r, by) == r.customer = Subject(by)

\* What the API shows of a reservation.
Shown(r) == [id |-> r.id, customer |-> r.customer, product |-> r.product,
             quantity |-> r.quantity, state |-> r.state]

WithStock(db, product, n) == [db EXCEPT !.stock[product] = @ + n]

CreateProduct(db, step) ==
    IF step.by # "admin" /\ defect # "customers create products"
    THEN Refuse(403, db)
    ELSE Answer(201, [product |-> step.product, stock |-> step.n],
                [db EXCEPT !.stock[step.product] = step.n])

\* Whether this image can read the products of this schema.
Reads(db, app) ==
    ~(/\ db.column /\ app.image = "verified"
      /\ defect = "old code fails on the new schema")

GetProduct(db, step, app) ==
    IF Reads(db, app)
    THEN Answer(200, [product |-> step.product,
                      stock |-> db.stock[step.product]], db)
    ELSE Refuse(500, db)

ListProducts(db, app) ==
    IF Reads(db, app) THEN Answer(200, db.stock, db) ELSE Refuse(500, db)

\* The reservation that a key already stands for.
Known(db, step, key, app) ==
    {r \in 1..Len(db.made) :
        /\ Mine(db.made[r], step.by)
        /\ db.made[r].key = key
        /\ defect # "replay reserves again"
        /\ defect = "keys end with their process" =>
               db.made[r].process = app.process
        /\ defect = "cancelled keys are free" => db.made[r].state = "ACTIVE"}

Replay(db, step, r) ==
    IF /\ db.made[r].quantity # step.n \/ db.made[r].product # step.product
       /\ defect # "any payload replays"
    THEN Answer(409, Problem("key was used"), db)
    ELSE Answer(200, Shown(db.made[r]),
                IF defect = "replay subtracts again"
                THEN WithStock(db, step.product, -step.n) ELSE db)

Reserve(db, step, key, app) ==
    LET known == Known(db, step, key, app)
        r == [id |-> Len(db.made) + 1, customer |-> Subject(step.by),
              product |-> step.product, quantity |-> step.n,
              state |-> "ACTIVE", key |-> key, process |-> app.process]
    IN IF known # {} THEN Replay(db, step, CHOOSE k \in known : TRUE)
       ELSE IF db.stock[step.product] < step.n
               /\ defect # "sells more than there is"
       THEN Answer(409, Problem("insufficient stock"), db)
       ELSE Answer(201, Shown(r),
                   [WithStock(db, step.product,
                              IF defect = "reserving subtracts nothing"
                              THEN 0 ELSE -step.n)
                       EXCEPT !.made = Append(@, r)])

Returned(r) ==
    IF defect = "cancelling returns nothing" THEN 0
    ELSE IF r.state = "ACTIVE" \/ defect = "cancelling adds every time"
    THEN r.quantity ELSE 0

CancelReservation(db, step, id) ==
    LET r == db.made[id]
        c == [r EXCEPT !.state = IF defect = "cancelling keeps the status"
                                 THEN @ ELSE "CANCELLED"]
    IN IF ~Mine(r, step.by) /\ defect # "anyone cancels" THEN Refuse(404, db)
       ELSE Answer(200, Shown(c),
                   [WithStock(db, r.product, Returned(r))
                       EXCEPT !.made[id] = c])

GetReservation(db, step, id) ==
    IF id \notin 1..Len(db.made) THEN Refuse(404, db)
    ELSE IF ~Mine(db.made[id], step.by) /\ defect # "anyone reads"
    THEN Refuse(404, db)
    ELSE Answer(200, Shown(db.made[id]), db)

ListReservations(db, step) ==
    Answer(200, {Shown(db.made[r]) : r \in
                     {q \in 1..Len(db.made) :
                         Mine(db.made[q], step.by) \/ defect = "anyone lists"}},
           db)

\* The reservation a step is about, out of an answer the script has kept.
Target(step) == (CHOOSE b \in memory[step.of] : TRUE).id

Serve(db, step, key, app) ==
    IF ~Accepted(step.by) THEN Refuse(401, db)
    ELSE CASE step.op = "create" -> CreateProduct(db, step)
           [] step.op = "product" -> GetProduct(db, step, app)
           [] step.op = "products" -> ListProducts(db, app)
           [] step.op = "reserve" -> Reserve(db, step, key, app)
           [] step.op = "cancel" ->
                  IF Target(step) \in 1..Len(db.made)
                  THEN CancelReservation(db, step, Target(step))
                  ELSE Refuse(404, db)
           [] step.op = "reservation" -> GetReservation(db, step, Target(step))
           [] step.op = "list" -> ListReservations(db, step)
           [] step.op = "readiness" ->
                  Refuse(IF app.image = "candidate" THEN 404 ELSE 200, db)
           [] step.op = "image" -> Answer(200, [state |-> app.image], db)

Requests == {"create", "product", "products", "reserve", "cancel",
             "reservation", "list", "readiness", "image"}

-----------------------------------------------------------------------------
(* What the drills do to the service by other ways than its API.           *)

\* Migration with the password of the runtime role.
Migrated(db, password) ==
    [db EXCEPT
        !.password = password,
        !.passwords = CASE defect = "passwords are not rotated" /\ @ # {} -> @
                        [] defect = "old passwords stay valid" -> @ \cup {password}
                        [] OTHER -> {password}]

Upgraded(db) ==
    [db EXCEPT !.column = TRUE,
               !.history = Append(IF defect = "candidate rewrites history"
                                  THEN <<"V1", "V2 edited">> ELSE @, "V3")]

Dumped(db) ==
    [db EXCEPT !.passwords = {}, !.password = "none",
               !.made = IF defect = "dump misses reservations" THEN <<>> ELSE @,
               !.stock = IF defect = "dump misses stock"
                         THEN [p \in Products |-> 0] ELSE @]

\* A runtime that finds a newer schema than its own.
Started(db, image) ==
    IF image = "verified" /\ db.column /\ defect = "rollback removes the column"
    THEN [db EXCEPT !.column = FALSE] ELSE db

-----------------------------------------------------------------------------
(* The script.                                                             *)

Asked == Len(samples) + 1
App == Step.on[1 + ((Asked - 1) % Len(Step.on))]
Key == IF Step.key = "each" THEN <<"each", Asked>> ELSE <<Step.key, 0>>

Fail ==
    /\ verdict' = "failed"
    /\ UNCHANGED <<drill, defect, i, samples, memory, interrupted>>

\* Mutant: the stock in an answer is not looked at.
AgreesButNumbers(answers) ==
    LET bodies == {answers[k].body : k \in 1..Len(answers)}
    IN /\ \A s \in {answers[k].status : k \in 1..Len(answers)} :
              /\ s \in DOMAIN Step.counts
              /\ Cardinality({k \in 1..Len(answers) : answers[k].status = s})
                     = Step.counts[s]
       /\ Step.state # "any" => \A b \in bodies : b.state = Step.state
       /\ Step.same # "none" => bodies = memory[Step.same]
       /\ Step.alike => Cardinality(bodies) = 1

\* Everything a step requires of its answers.
Agrees(answers) ==
    LET bodies == {answers[k].body : k \in 1..Len(answers)}
        created == {answers[k].body : k \in
                        {q \in 1..Len(answers) : answers[q].status = 201}}
    IN /\ \A s \in {answers[k].status : k \in 1..Len(answers)} :
              /\ s \in DOMAIN Step.counts
              /\ Cardinality({k \in 1..Len(answers) : answers[k].status = s})
                     = Step.counts[s]
       /\ Step.number # Unsaid =>
              \A b \in bodies :
                  Step.number = CASE Step.op = "list" -> Cardinality(b)
                                  [] Step.op = "column" -> b.number
                                  [] OTHER -> b.stock
       /\ Step.state # "any" => \A b \in bodies : b.state = Step.state
       /\ Step.same # "none" => bodies = memory[Step.same]
       /\ Step.alike => Cardinality(bodies) = 1
       /\ Step.distinct => /\ Cardinality(created) = Step.counts[201]
                           /\ bodies \ created = {Problem("insufficient stock")}
       /\ Step.all # {} => bodies = {UNION {memory[m] : m \in Step.all}}
       /\ Step.after # "none" =>
              \A b \in bodies, m \in memory[Step.after] :
                  /\ Len(b) = Len(m) + 1
                  /\ SubSeq(b, 1, Len(m)) = m

\* What the script knows after a step: the bodies of the answers it keeps.
Kept(answers) ==
    IF Step.keep = "none" THEN memory
    ELSE (Step.keep :> {answers[k].body : k \in
              {q \in 1..Len(answers) : answers[q].status < 300}}) @@ memory

\* The next step, or the end, after answers that are as required.
Proceed(answers) ==
    /\ memory' = Kept(answers)
    /\ samples' = <<>>
    /\ IF i = Len(Scripts[drill])
       THEN verdict' = "passed" /\ UNCHANGED i
       ELSE i' = i + 1 /\ UNCHANGED verdict
    /\ UNCHANGED <<drill, defect, interrupted>>

Judge(answers) == IF Agrees(answers) THEN Proceed(answers) ELSE Fail

\* Api.request and Api.expect, and concurrent_batch.
Send ==
    /\ verdict = "none"
    /\ Step.op \in Requests
    /\ LET app == runtimes[App]
           answer == Serve(dbs[app.db], Step, Key, app)
           answers == Append(samples, [status |-> answer.status,
                                       body |-> answer.body])
       IN /\ dbs' = [dbs EXCEPT ![app.db] = answer.db]
          /\ IF Asked = Step.times THEN Judge(answers)
             ELSE /\ samples' = answers
                  /\ UNCHANGED <<drill, defect, i, memory, verdict,
                                 interrupted>>
    /\ UNCHANGED <<runtimes, backup, processes>>

\* An answer from psql.
Query ==
    /\ verdict = "none"
    /\ Step.op \in {"history", "column", "login"}
    /\ LET db == dbs[Step.db]
       IN Judge(<<[status |-> IF Step.op = "login" /\ Step.key \notin db.passwords
                              THEN 401 ELSE 200,
                   body |-> CASE Step.op = "history" -> db.history
                              [] Step.op = "column" ->
                                     [number |-> IF db.column THEN 1 ELSE 0]
                              [] OTHER -> <<>>]>>)
    /\ UNCHANGED service

MigrateDatabase ==
    /\ verdict = "none"
    /\ Step.op \in {"migrate", "candidate"}
    /\ dbs' = [dbs EXCEPT ![Step.db] =
                   IF Step.op = "migrate" THEN Migrated(@, Step.key)
                   ELSE Upgraded(@)]
    /\ Proceed(<<>>)
    /\ UNCHANGED <<runtimes, backup, processes>>

Copy ==
    /\ verdict = "none"
    /\ \/ /\ Step.op = "dump"
          /\ backup' = Dumped(dbs[Step.db])
          /\ UNCHANGED dbs
       \/ /\ Step.op = "restore"
          /\ dbs' = [dbs EXCEPT ![Step.db] = backup]
          /\ UNCHANGED backup
    /\ Proceed(<<>>)
    /\ UNCHANGED <<runtimes, processes>>

\* A runtime gets ready when its database takes the password the fixture has
\* for it.
StartRuntime ==
    /\ verdict = "none"
    /\ Step.op = "start"
    /\ LET db == IF defect = "restored runtime serves the source"
                 THEN "source-db" ELSE Step.db
           image == IF defect = "rollback starts the candidate" /\ dbs[db].column
                    THEN "candidate" ELSE Step.state
       IN /\ runtimes' = (Step.on[1] :> [db |-> db, image |-> image,
                                         process |-> processes + 1]) @@ runtimes
          /\ dbs' = [dbs EXCEPT ![db] = Started(@, image)]
          /\ IF dbs[Step.db].password \in dbs[Step.db].passwords
             THEN Proceed(<<>>) ELSE Fail
    /\ processes' = processes + 1
    /\ UNCHANGED backup

StopRuntime ==
    /\ verdict = "none"
    /\ Step.op = "stop"
    /\ runtimes' = [a \in DOMAIN runtimes \ {Step.on[1]} |-> runtimes[a]]
    /\ Proceed(<<>>)
    /\ UNCHANGED <<dbs, backup, processes>>

\* A command that fails or times out, or an answer that does not come.
Interrupt ==
    /\ verdict = "none"
    /\ verdict' = "failed"
    /\ interrupted' = TRUE
    /\ UNCHANGED <<drill, defect, i, samples, memory, service>>

DrillNext ==
    Send \/ Query \/ MigrateDatabase \/ Copy \/ StartRuntime \/ StopRuntime

Next == DrillNext \/ Interrupt

Spec == Init /\ [][Next]_vars

\* Every request and every command of a drill has a timeout.
FairSpec == Spec /\ WF_vars(DrillNext)

=============================================================================
