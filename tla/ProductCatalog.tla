---------------------------- MODULE ProductCatalog ----------------------------
(***************************************************************************)
(* Product creation: concurrent calls of InventoryService.createProduct on *)
(* several application instances against one products table.               *)
(*                                                                         *)
(* A call normalises its SKU, looks for it among the committed rows, and   *)
(* inserts.  The lookup takes no lock: two calls may both find nothing.    *)
(* What keeps SKUs unique is the index products_sku_unique, where an       *)
(* insert waits for the transaction that has inserted the same SKU and not *)
(* yet ended, and fails if that one commits.  A step is a statement with   *)
(* the Java code before the next one; isolation is READ COMMITTED.         *)
(* The connection pool is left out here: see InventoryService.             *)
(***************************************************************************)
EXTENDS Integers, FiniteSets

CONSTANTS
    Requests,           \* creations asked for; also the ids of the rows they make
    Instances,          \* application processes that share the database
    Spellings, Skus,    \* SKUs as clients write them, and as they are stored
    Normalize,          \* Product.normalizeSku: Spellings -> Skus or InvalidSku
    InvalidSku,
    Quantities,         \* initial quantities clients ask for
    MaxQuantity,        \* Product.MAX_QUANTITY
    MaxCrashes,         \* bound on crashes of instances
    NoProduct, NoCall, NoInstance

Calls == [sku: Spellings, quantity: Quantities]
Rows == [sku: Skus, quantity: 0..MaxQuantity]

ASSUME CatalogAssumption ==
    /\ Normalize \in [Spellings -> Skus \cup {InvalidSku}]
    /\ InvalidSku \notin Skus
    /\ Quantities \subseteq Int
    /\ MaxQuantity \in Nat
    /\ MaxCrashes \in Nat
    /\ NoProduct \notin Rows
    /\ NoCall \notin Calls
    /\ NoInstance \notin Instances

ASSUME FleetAssumption == IsFiniteSet(Instances)

VARIABLES
    products,   \* committed rows, by the request that inserted them
    pc,         \* the next statement of each request
    call,       \* its arguments
    home,       \* the instance that serves it
    abandoned,  \* clients gone, backends still waiting in their insert
    answer,     \* the HTTP response
    counters,   \* InventoryMetrics of each process
    crashes     \* crashes so far

vars == <<products, pc, call, home, abandoned, answer, counters, crashes>>

Statements == {"idle", "exists", "insert", "commit", "committed", "answered"}

\* 201, 400, 409, and 500 or no response at all.
Answers == {"none", "created", "badRequest", "conflict", "error"}

Meters == {"productsCreated", "stockAdded"}
ZeroCounters == [meter \in Meters |-> 0]

TypeOK ==
    /\ products \in [Requests -> Rows \cup {NoProduct}]
    /\ pc \in [Requests -> Statements]
    /\ call \in [Requests -> Calls \cup {NoCall}]
    /\ home \in [Requests -> Instances \cup {NoInstance}]
    /\ abandoned \subseteq Requests
    /\ answer \in [Requests -> Answers]
    /\ counters \in [Instances -> [Meters -> Nat]]
    /\ crashes \in 0..MaxCrashes

Init ==
    /\ products = [r \in Requests |-> NoProduct]
    /\ pc = [r \in Requests |-> "idle"]
    /\ call = [r \in Requests |-> NoCall]
    /\ home = [r \in Requests |-> NoInstance]
    /\ abandoned = {}
    /\ answer = [r \in Requests |-> "none"]
    /\ counters = [i \in Instances |-> ZeroCounters]
    /\ crashes = 0

-----------------------------------------------------------------------------

Sku(r) == Normalize[call[r].sku]
Row(r) == [sku |-> Sku(r), quantity |-> call[r].quantity]

Stored == {r \in Requests : products[r] # NoProduct}

\* ProductRepository.existsBySku, and the index an insert consults.
Exists(sku) == \E p \in Stored : products[p].sku = sku

\* Transactions whose insert of this SKU has neither committed nor aborted.
Inserting(sku) == {s \in Requests : pc[s] = "commit" /\ Sku(s) = sku}

Blocked(r) == pc[r] = "insert" /\ Inserting(Sku(r)) # {}

At(r, statement) == pc[r] = statement /\ r \notin abandoned

\* Mutant: only the SKU is validated.
ValidSku(o) == Normalize[o.sku] \in Skus
Valid(o) == Normalize[o.sku] \in Skus /\ o.quantity \in 0..MaxQuantity

Respond(r, status) ==
    /\ pc' = [pc EXCEPT ![r] = "answered"]
    /\ answer' = [answer EXCEPT ![r] = status]

\* An exception leaves the @Transactional method.
Rollback(r, status) ==
    /\ Respond(r, status)
    /\ UNCHANGED <<products, call, home, abandoned, counters, crashes>>

Goto(r, statement) ==
    /\ pc' = [pc EXCEPT ![r] = statement]
    /\ UNCHANGED <<products, call, home, abandoned, answer, counters, crashes>>

-----------------------------------------------------------------------------

\* The controller's and the constructor's validation.
Receive(r, i, o) ==
    /\ pc[r] = "idle"
    /\ call' = [call EXCEPT ![r] = o]
    /\ home' = [home EXCEPT ![r] = i]
    /\ \/ /\ Valid(o)
          /\ pc' = [pc EXCEPT ![r] = "exists"]
          /\ UNCHANGED answer
       \/ ~Valid(o) /\ Respond(r, "badRequest")
    /\ UNCHANGED <<products, abandoned, counters, crashes>>

Arrive(r) == \E i \in Instances, o \in Calls : Receive(r, i, o)

\* Mutant: asks again until the SKU is free.
AskUntilFree(r) ==
    /\ At(r, "exists")
    /\ ~Exists(Sku(r))
    /\ Goto(r, "insert")

CheckExists(r) ==
    /\ At(r, "exists")
    /\ \/ Exists(Sku(r)) /\ Rollback(r, "conflict")
       \/ ~Exists(Sku(r)) /\ Goto(r, "insert")

\* Mutant: no unique index.
InsertUnchecked(r) == At(r, "insert") /\ Goto(r, "commit")

\* Mutant: an insert in progress counts as a duplicate.
InsertWithoutWaiting(r) ==
    /\ At(r, "insert")
    /\ \/ (Exists(Sku(r)) \/ Blocked(r)) /\ Rollback(r, "conflict")
       \/ ~Exists(Sku(r)) /\ ~Blocked(r) /\ Goto(r, "commit")

\* Mutant: counted when flushed, not when committed.
CountAtFlush(r) ==
    /\ At(r, "insert")
    /\ ~Blocked(r)
    /\ \/ Exists(Sku(r)) /\ Rollback(r, "conflict")
       \/ /\ ~Exists(Sku(r))
          /\ pc' = [pc EXCEPT ![r] = "commit"]
          /\ counters' = [counters EXCEPT ![home[r]].productsCreated = @ + 1]
          /\ UNCHANGED <<products, call, home, abandoned, answer, crashes>>

\* saveAndFlush.
Insert(r) ==
    /\ At(r, "insert")
    /\ ~Blocked(r)
    /\ \/ Exists(Sku(r)) /\ Rollback(r, "conflict")
       \/ ~Exists(Sku(r)) /\ Goto(r, "commit")

Commit(r) ==
    /\ At(r, "commit")
    /\ products' = [products EXCEPT ![r] = Row(r)]
    /\ pc' = [pc EXCEPT ![r] = "committed"]
    /\ UNCHANGED <<call, home, abandoned, answer, counters, crashes>>

\* InventoryMetrics.productCreated
Counted(current, quantity) ==
    [productsCreated |-> current.productsCreated + 1,
     stockAdded |-> current.stockAdded + quantity]

\* afterCompletion(STATUS_COMMITTED), then the response.
Acknowledge(r) ==
    /\ At(r, "committed")
    /\ counters' = [counters EXCEPT ![home[r]] = Counted(@, call[r].quantity)]
    /\ Respond(r, "created")
    /\ UNCHANGED <<products, call, home, abandoned, crashes>>

-----------------------------------------------------------------------------

\* socketTimeout expires under an insert that waits for another transaction:
\* the backend goes on waiting without a client.
InsertTimeout(r) ==
    /\ At(r, "insert")
    /\ Blocked(r)
    /\ abandoned' = abandoned \cup {r}
    /\ answer' = [answer EXCEPT ![r] = "error"]
    /\ UNCHANGED <<products, pc, call, home, counters, crashes>>

AbandonedEnds(r) ==
    /\ r \in abandoned
    /\ ~Blocked(r)
    /\ abandoned' = abandoned \ {r}
    /\ pc' = [pc EXCEPT ![r] = "answered"]
    /\ UNCHANGED <<products, call, home, answer, counters, crashes>>

\* Mutant: every failure is taken for a duplicate.
LoseConnectionAsConflict(r) ==
    /\ At(r, "exists") \/ At(r, "commit") \/ At(r, "committed")
    /\ Rollback(r, "conflict")

\* Between two statements, or under the COMMIT, before or after it took effect.
LoseConnection(r) ==
    /\ At(r, "exists") \/ At(r, "commit") \/ At(r, "committed")
    /\ Rollback(r, "error")

Crash(i) ==
    LET inFlight == {r \in Requests : /\ home[r] = i
                                     /\ pc[r] # "answered"
                                     /\ r \notin abandoned}
        waiting == {r \in inFlight : Blocked(r)}
    IN  /\ crashes < MaxCrashes
        /\ crashes' = crashes + 1
        /\ counters' = [counters EXCEPT ![i] = ZeroCounters]
        /\ abandoned' = abandoned \cup waiting
        /\ pc' = [r \in Requests |->
                    IF r \in inFlight \ waiting THEN "answered" ELSE pc[r]]
        /\ answer' = [r \in Requests |->
                    IF r \in inFlight THEN "error" ELSE answer[r]]
        /\ UNCHANGED <<products, call, home>>

-----------------------------------------------------------------------------

Progress(r) ==
    \/ CheckExists(r)
    \/ Insert(r)
    \/ Commit(r)
    \/ Acknowledge(r)
    \/ AbandonedEnds(r)

Next ==
    \/ \E r \in Requests :
          Arrive(r) \/ Progress(r) \/ InsertTimeout(r) \/ LoseConnection(r)
    \/ \E i \in Instances : Crash(i)

Spec == Init /\ [][Next]_vars

\* The database runs the statements of open transactions; no client has to
\* call and nothing has to fail.
Fairness == \A r \in Requests : WF_vars(Progress(r))
FairSpec == Spec /\ Fairness
=============================================================================
