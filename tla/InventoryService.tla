--------------------------- MODULE InventoryService ---------------------------
(***************************************************************************)
(* The transactional inventory service: application instances that run     *)
(* the mutating requests of InventoryController against one PostgreSQL     *)
(* database.                                                               *)
(*                                                                         *)
(* A request is one call of InventoryService.addStock, reserve or          *)
(* cancelReservation and one transaction.  A step of it is a statement     *)
(* sent to the database together with the Java code that runs before the   *)
(* next one, so that requests of one instance and of several interleave at *)
(* the statements.  Isolation is READ COMMITTED: a statement reads what is *)
(* committed when it runs, and a locking read returns the row as it is     *)
(* once the lock is granted.  Changes to entities stay in the persistence  *)
(* context (work) and overwrite whole rows when the commit flushes them.   *)
(*                                                                         *)
(* Failures: the bounded wait for an idempotency key, the socket timeout   *)
(* of every other statement, a full connection pool, a connection lost     *)
(* between statements or under a COMMIT, and the crash of an instance.     *)
(***************************************************************************)
EXTENDS InventoryDomain, FiniteSets

CONSTANTS
    Requests,       \* attempts; a retry of the same call is another request
    Instances,      \* application processes that share the database
    UnknownProduct, \* a product id with no row
    Workload,       \* the addStock and reserve calls clients make
    Stocked,        \* the stock levels a catalogue may start from
    LockIds, LockOf,\* ReservationKeyLock.lockId: <<customer, key>> -> LockIds
    PoolSize,       \* spring.datasource.hikari.maximum-pool-size
    MaxCrashes,     \* bound on crashes of instances
    NoRequest, NoInstance, NoOperation, NoReservation

ProductIds == Products \cup {UnknownProduct}

AddStockCalls == [kind: {"addStock"}, product: ProductIds, quantity: Int]
ReserveCalls ==
    [kind: {"reserve"}, product: ProductIds, quantity: Int,
     customer: Customers, key: Keys \cup {NoKey}]
CancelCalls ==
    [kind: {"cancel"}, reservation: Requests, customer: Customers]

ASSUME ServiceAssumption ==
    /\ Workload \subseteq AddStockCalls \cup ReserveCalls
    /\ Stocked \subseteq 0..MaxQuantity
    /\ LockOf \in [Customers \X Keys -> LockIds]
    /\ MaxCrashes \in Nat
    /\ UnknownProduct \notin Products
    /\ NoRequest \notin Requests
    /\ NoInstance \notin Instances
    /\ NoOperation \notin AddStockCalls \cup ReserveCalls \cup CancelCalls
    /\ NoReservation \notin Reservation

ASSUME FleetAssumption == IsFiniteSet(Instances)

VARIABLES
    \* the committed database
    stock,              \* products.available_quantity
    reservations,       \* reservations, by id; an id is the request that made it
    supplied,           \* history: units ever brought into each product
    \* PostgreSQL's lock tables: who holds what
    keyOwner,           \* pg_advisory_xact_lock
    productOwner,       \* SELECT ... FOR UPDATE on products
    reservationOwner,   \* SELECT ... FOR UPDATE on reservations
    \* the requests
    pc,                 \* the next statement, see Statements
    call,               \* the arguments
    home,               \* the instance that serves the request
    work,               \* what the persistence context will flush
    abandoned,          \* clients gone, backends still waiting for a lock
    answer,             \* the HTTP response
    \* the instances
    counters,           \* InventoryMetrics of each process
    crashes             \* crashes so far

dbVars == <<stock, reservations, supplied>>
lockVars == <<keyOwner, productOwner, reservationOwner>>
requestVars == <<pc, call, home, work, abandoned, answer>>
instanceVars == <<counters, crashes>>
vars == <<dbVars, lockVars, requestVars, instanceVars>>

-----------------------------------------------------------------------------
(***************************************************************************)
(* Types                                                                   *)
(***************************************************************************)

Waits == {"acquireKey", "lockProduct", "lockReservation"}
Statements ==
    Waits \cup {"idle", "begin", "findByKey", "commit", "committed",
                "answered"}

Writes == {"restock", "reserve", "cancel"}
Effects == Writes \cup {"none", "replay", "cancelReplay"}

Work ==
    [effect: Effects, stock: 0..MaxQuantity,
     id: Requests \cup {NoRequest}, row: Reservation \cup {NoReservation}]

NoWork == [effect |-> "none", stock |-> 0, id |-> NoRequest,
           row |-> NoReservation]

\* Statuses of a response: 201 or 200 ("ok", with the reservation it shows),
\* 400, 404, 409 of a business rule or constraint, 409 of contention
\* ("retry"), and 500 or no response at all ("error").
Statuses == {"none", "created", "replayed", "ok", "badRequest", "notFound",
             "conflict", "retry", "error"}

Answer == [status: Statuses, reservation: Requests \cup {NoRequest}]

Reply(status, id) == [status |-> status, reservation |-> id]

Meters == {"stockAdded", "reservations", "replayed", "cancelled",
           "cancellationReplayed", "stockReserved", "stockReleased"}

ZeroCounters == [meter \in Meters |-> 0]

TypeOK ==
    /\ stock \in [Products -> 0..MaxQuantity]
    /\ reservations \in [Requests -> Reservation \cup {NoReservation}]
    /\ supplied \in [Products -> Nat]
    /\ keyOwner \in [LockIds -> Requests \cup {NoRequest}]
    /\ productOwner \in [Products -> Requests \cup {NoRequest}]
    /\ reservationOwner \in [Requests -> Requests \cup {NoRequest}]
    /\ pc \in [Requests -> Statements]
    /\ call \in [Requests -> Workload \cup CancelCalls \cup {NoOperation}]
    /\ home \in [Requests -> Instances \cup {NoInstance}]
    /\ work \in [Requests -> Work]
    /\ abandoned \subseteq Requests
    /\ answer \in [Requests -> Answer]
    /\ counters \in [Instances -> [Meters -> Nat]]
    /\ crashes \in 0..MaxCrashes

Init ==
    /\ stock \in [Products -> Stocked]
    /\ supplied = stock
    /\ reservations = [r \in Requests |-> NoReservation]
    /\ keyOwner = [l \in LockIds |-> NoRequest]
    /\ productOwner = [p \in Products |-> NoRequest]
    /\ reservationOwner = [r \in Requests |-> NoRequest]
    /\ pc = [r \in Requests |-> "idle"]
    /\ call = [r \in Requests |-> NoOperation]
    /\ home = [r \in Requests |-> NoInstance]
    /\ work = [r \in Requests |-> NoWork]
    /\ abandoned = {}
    /\ answer = [r \in Requests |-> Reply("none", NoRequest)]
    /\ counters = [i \in Instances |-> ZeroCounters]
    /\ crashes = 0

-----------------------------------------------------------------------------
(***************************************************************************)
(* The arguments of a request, and the locks it takes                      *)
(***************************************************************************)

Kind(r) == call[r].kind
Keyed(r) == Kind(r) = "reserve" /\ call[r].key # NoKey
KeyLock(r) == LockOf[<<call[r].customer, call[r].key>>]

\* The product a request locks: its argument, or that of the reservation.
Target(r) ==
    IF Kind(r) = "cancel" THEN reservations[call[r].reservation].product
                          ELSE call[r].product

Stored == {id \in Requests : reservations[id] # NoReservation}

\* Mutant: a cancelled reservation frees its key.
FindActiveByKey(customer, key) ==
    {id \in Stored : /\ reservations[id].customer = customer
                     /\ reservations[id].key = key
                     /\ reservations[id].status = "ACTIVE"}

\* ReservationRepository.findByCustomerIdAndIdempotencyKey
FindByKey(customer, key) ==
    {id \in Stored : /\ reservations[id].customer = customer
                     /\ reservations[id].key = key}

\* The holder a request waits for: its statement needs a lock another has.
Holder(r) ==
    CASE pc[r] = "acquireKey" -> keyOwner[KeyLock(r)]
      [] pc[r] = "lockReservation" -> reservationOwner[call[r].reservation]
      [] pc[r] = "lockProduct" /\ Target(r) \in Products ->
            productOwner[Target(r)]
      [] OTHER -> NoRequest

Blocked(r) == Holder(r) # NoRequest

At(r, statement) == pc[r] = statement /\ r \notin abandoned

\* Requests that hold a connection of an instance's pool.
Connected(i) ==
    {r \in Requests : /\ home[r] = i
                      /\ pc[r] \notin {"idle", "begin", "answered"}
                      /\ r \notin abandoned}

-----------------------------------------------------------------------------
(***************************************************************************)
(* The ends of a transaction                                               *)
(***************************************************************************)

\* Mutant: the advisory lock is session scoped.
ReleaseRowLocks(R) ==
    /\ UNCHANGED keyOwner
    /\ productOwner' = [p \in Products |->
            IF productOwner[p] \in R THEN NoRequest ELSE productOwner[p]]
    /\ reservationOwner' = [id \in Requests |->
            IF reservationOwner[id] \in R THEN NoRequest
                                          ELSE reservationOwner[id]]

\* Every lock is transaction scoped: COMMIT and ROLLBACK drop them all.
ReleaseLocks(R) ==
    /\ keyOwner' = [l \in LockIds |->
            IF keyOwner[l] \in R THEN NoRequest ELSE keyOwner[l]]
    /\ productOwner' = [p \in Products |->
            IF productOwner[p] \in R THEN NoRequest ELSE productOwner[p]]
    /\ reservationOwner' = [id \in Requests |->
            IF reservationOwner[id] \in R THEN NoRequest
                                          ELSE reservationOwner[id]]

Respond(r, status, id) ==
    /\ pc' = [pc EXCEPT ![r] = "answered"]
    /\ answer' = [answer EXCEPT ![r] = Reply(status, id)]

\* An exception leaves the @Transactional method: nothing is flushed.
Rollback(r, status) ==
    /\ ReleaseLocks({r})
    /\ Respond(r, status, NoRequest)
    /\ UNCHANGED <<dbVars, call, home, work, abandoned, instanceVars>>

\* The method returns with the given changes pending.
ReadyToCommit(r, effect, newStock, id, row) ==
    /\ work' = [work EXCEPT ![r] = [effect |-> effect, stock |-> newStock,
                                    id |-> id, row |-> row]]
    /\ pc' = [pc EXCEPT ![r] = "commit"]

-----------------------------------------------------------------------------
(***************************************************************************)
(* Requests arrive and get a connection                                    *)
(***************************************************************************)

FirstStatement(o) ==
    CASE o.kind = "cancel" -> "lockReservation"
      [] o.kind = "reserve" /\ o.key # NoKey -> "acquireKey"
      [] OTHER -> "lockProduct"

\* The controller and the head of each service method reject a quantity out
\* of range before any statement.
Receive(r, i, o) ==
    /\ pc[r] = "idle"
    /\ call' = [call EXCEPT ![r] = o]
    /\ home' = [home EXCEPT ![r] = i]
    /\ \/ /\ o.kind # "cancel" => ValidPositiveQuantity(o.quantity)
          /\ pc' = [pc EXCEPT ![r] = "begin"]
          /\ UNCHANGED answer
       \/ /\ o.kind # "cancel" /\ ~ValidPositiveQuantity(o.quantity)
          /\ Respond(r, "badRequest", NoRequest)
    /\ UNCHANGED <<dbVars, lockVars, work, abandoned, instanceVars>>

\* Random ids: a client can only name a reservation it has been shown.
Arrive(r) ==
    \E i \in Instances :
        \/ \E o \in Workload : Receive(r, i, o)
        \/ \E id \in Stored, customer \in Customers :
              Receive(r, i, [kind |-> "cancel", reservation |-> id,
                             customer |-> customer])

\* JpaTransactionManager takes a connection for the whole transaction.
Begin(r) ==
    /\ At(r, "begin")
    /\ Cardinality(Connected(home[r])) < PoolSize
    /\ pc' = [pc EXCEPT ![r] = FirstStatement(call[r])]
    /\ UNCHANGED <<dbVars, lockVars, call, home, work, abandoned, answer,
                   instanceVars>>

\* hikari.connection-timeout: the pool stayed exhausted for five seconds.
PoolTimeout(r) ==
    /\ At(r, "begin")
    /\ Cardinality(Connected(home[r])) >= PoolSize
    /\ Rollback(r, "error")

-----------------------------------------------------------------------------
(***************************************************************************)
(* The statements                                                          *)
(***************************************************************************)

\* Mutant: the key is looked up without a lock.
SkipKeyLock(r) ==
    /\ At(r, "acquireKey")
    /\ pc' = [pc EXCEPT ![r] = "findByKey"]
    /\ UNCHANGED <<dbVars, lockVars, call, home, work, abandoned, answer,
                   instanceVars>>

AcquireKey(r) ==
    /\ At(r, "acquireKey")
    /\ ~Blocked(r)
    /\ keyOwner' = [keyOwner EXCEPT ![KeyLock(r)] = r]
    /\ pc' = [pc EXCEPT ![r] = "findByKey"]
    /\ UNCHANGED <<dbVars, productOwner, reservationOwner, call, home, work,
                   abandoned, answer, instanceVars>>

\* setQueryTimeout(3): the statement is cancelled and answered with a 409.
KeyTimeout(r) ==
    /\ At(r, "acquireKey")
    /\ Blocked(r)
    /\ Rollback(r, "retry")

LookupKey(r) ==
    LET existing == FindByKey(call[r].customer, call[r].key)
        same(id) == SameRequest(reservations[id], call[r].product,
                                call[r].quantity)
    IN  /\ At(r, "findByKey")
        /\ \/ /\ existing = {}
              /\ pc' = [pc EXCEPT ![r] = "lockProduct"]
              /\ UNCHANGED <<dbVars, lockVars, call, home, work, abandoned,
                             answer, instanceVars>>
           \/ \E id \in existing :
                 /\ same(id)
                 /\ ReadyToCommit(r, "replay", 0, id, reservations[id])
                 /\ UNCHANGED <<dbVars, lockVars, call, home, abandoned,
                                answer, instanceVars>>
           \/ \E id \in existing : ~same(id) /\ Rollback(r, "conflict")

\* findOwnedForUpdate and the test of the status it returns.
LockReservation(r) ==
    LET id == call[r].reservation
        row == reservations[id]
    IN  /\ At(r, "lockReservation")
        /\ ~Blocked(r)
        /\ \/ /\ row.customer # call[r].customer
              /\ Rollback(r, "notFound")
           \/ /\ row.customer = call[r].customer
              /\ reservationOwner' = [reservationOwner EXCEPT ![id] = r]
              /\ \/ /\ row.status = "ACTIVE"
                    /\ pc' = [pc EXCEPT ![r] = "lockProduct"]
                    /\ UNCHANGED work
                 \/ /\ row.status = "CANCELLED"
                    /\ ReadyToCommit(r, "cancelReplay", 0, id, row)
              /\ UNCHANGED <<dbVars, keyOwner, productOwner, call, home,
                             abandoned, answer, instanceVars>>

\* Mutant: findById, which locks nothing, instead of findByIdForUpdate.
ReadUnlocked(r) ==
    UNCHANGED <<dbVars, lockVars, call, home, abandoned, answer, instanceVars>>

\* ProductRepository.findByIdForUpdate, then the domain operation on the row
\* it returns; a refusal rolls the lock back in the same step.
Locked(r) ==
    /\ productOwner' = [productOwner EXCEPT ![Target(r)] = r]
    /\ UNCHANGED <<dbVars, keyOwner, reservationOwner, call, home, abandoned,
                   answer, instanceVars>>

LockMissing(r) ==
    /\ At(r, "lockProduct")
    /\ Target(r) \notin Products
    /\ Rollback(r, "notFound")

LockToRestock(r) ==
    LET available == stock[Target(r)]
        quantity == call[r].quantity
    IN  /\ At(r, "lockProduct") /\ Kind(r) = "addStock"
        /\ Target(r) \in Products /\ ~Blocked(r)
        /\ \/ /\ CanAddStock(available, quantity)
              /\ ReadyToCommit(r, "restock", available + quantity,
                               NoRequest, NoReservation)
              /\ Locked(r)
           \/ /\ ~CanAddStock(available, quantity)
              /\ Rollback(r, "conflict")

LockToReserve(r) ==
    LET available == stock[Target(r)]
        quantity == call[r].quantity
    IN  /\ At(r, "lockProduct") /\ Kind(r) = "reserve"
        /\ Target(r) \in Products /\ ~Blocked(r)
        /\ \/ /\ CanReserveStock(available, quantity)
              /\ \E now \in Times :
                    ReadyToCommit(r, "reserve", available - quantity, r,
                        NewReservation(Target(r), quantity, call[r].customer,
                                       call[r].key, now))
              /\ Locked(r)
           \/ /\ ~CanReserveStock(available, quantity)
              /\ Rollback(r, "conflict")

LockToCancel(r) ==
    LET row == reservations[call[r].reservation]
        available == stock[Target(r)]
    IN  /\ At(r, "lockProduct") /\ Kind(r) = "cancel"
        /\ ~Blocked(r)
        /\ \/ /\ CanAddStock(available, row.quantity)
              /\ \E now \in Times :
                    ReadyToCommit(r, "cancel", available + row.quantity,
                                  call[r].reservation, Cancelled(row, now))
              /\ Locked(r)
           \/ /\ ~CanAddStock(available, row.quantity)
              /\ Rollback(r, "conflict")

LockProduct(r) ==
    LockMissing(r) \/ LockToRestock(r) \/ LockToReserve(r) \/ LockToCancel(r)

-----------------------------------------------------------------------------
(***************************************************************************)
(* Flush and commit                                                        *)
(***************************************************************************)

\* The constraints the flushed rows must satisfy.
ConstraintsHold(r) ==
    LET w == work[r] IN
    /\ StockInRange(w.stock)
    /\ w.effect \in {"reserve", "cancel"} => CancellationConsistent(w.row)
    /\ w.effect = "reserve" /\ w.row.key # NoKey =>
            FindByKey(w.row.customer, w.row.key) = {}

Commit(r) ==
    LET w == work[r] IN
    /\ At(r, "commit")
    /\ ConstraintsHold(r)
    /\ stock' = IF w.effect \in Writes
                THEN [stock EXCEPT ![Target(r)] = w.stock] ELSE stock
    /\ reservations' = IF w.effect \in {"reserve", "cancel"}
                       THEN [reservations EXCEPT ![w.id] = w.row]
                       ELSE reservations
    /\ supplied' = IF w.effect = "restock"
                   THEN [supplied EXCEPT ![Target(r)] = @ + call[r].quantity]
                   ELSE supplied
    /\ ReleaseLocks({r})
    /\ pc' = [pc EXCEPT ![r] = "committed"]
    /\ UNCHANGED <<call, home, work, abandoned, answer, instanceVars>>

\* InventoryMetrics: the increments registered for an effect of so many units.
Increments(effect, units) ==
    CASE effect = "restock" -> [stockAdded |-> units]
      [] effect = "reserve" -> [reservations |-> 1, stockReserved |-> units]
      [] effect = "replay" -> [replayed |-> 1]
      [] effect = "cancel" -> [cancelled |-> 1, stockReleased |-> units]
      [] effect = "cancelReplay" -> [cancellationReplayed |-> 1]

Counted(current, increments) ==
    [meter \in Meters |->
        IF meter \in DOMAIN increments
        THEN current[meter] + increments[meter] ELSE current[meter]]

Units(r) ==
    IF work[r].effect = "restock" THEN call[r].quantity
                                  ELSE work[r].row.quantity

SuccessStatus(effect) ==
    CASE effect = "reserve" -> "created"
      [] effect = "replay" -> "replayed"
      [] OTHER -> "ok"

\* Mutant: afterCompletion ignores its status.
CountRejected(r) ==
    /\ At(r, "commit")
    /\ ~ConstraintsHold(r)
    /\ counters' = [counters EXCEPT ![home[r]] =
            Counted(@, Increments(work[r].effect, Units(r)))]
    /\ ReleaseLocks({r})
    /\ Respond(r, "conflict", NoRequest)
    /\ UNCHANGED <<dbVars, call, home, work, abandoned, crashes>>

\* DataIntegrityViolationException out of the flush.
RejectFlush(r) ==
    /\ At(r, "commit")
    /\ ~ConstraintsHold(r)
    /\ Rollback(r, "conflict")

\* The COMMIT is acknowledged: afterCompletion(STATUS_COMMITTED), response.
Acknowledge(r) ==
    /\ At(r, "committed")
    /\ counters' = [counters EXCEPT ![home[r]] =
            Counted(@, Increments(work[r].effect, Units(r)))]
    /\ Respond(r, SuccessStatus(work[r].effect), work[r].id)
    /\ UNCHANGED <<dbVars, lockVars, call, home, work, abandoned, crashes>>

-----------------------------------------------------------------------------
(***************************************************************************)
(* Failures                                                                *)
(***************************************************************************)

\* socketTimeout expires under a SELECT ... FOR UPDATE that waits: the driver
\* drops the connection, but the backend goes on waiting with its locks.
RowTimeout(r) ==
    /\ At(r, "lockProduct") \/ At(r, "lockReservation")
    /\ Blocked(r)
    /\ abandoned' = abandoned \cup {r}
    /\ answer' = [answer EXCEPT ![r] = Reply("error", NoRequest)]
    /\ UNCHANGED <<dbVars, lockVars, pc, call, home, work, instanceVars>>

\* The abandoned backend gets its lock, finds no client, and rolls back.
AbandonedEnds(r) ==
    /\ r \in abandoned
    /\ ~Blocked(r)
    /\ ReleaseLocks({r})
    /\ abandoned' = abandoned \ {r}
    /\ pc' = [pc EXCEPT ![r] = "answered"]
    /\ UNCHANGED <<dbVars, call, home, work, answer, instanceVars>>

\* Mutant: a lost connection is reported as contention.
LoseConnectionAsContention(r) ==
    /\ At(r, "findByKey") \/ At(r, "commit") \/ At(r, "committed")
    /\ Rollback(r, "retry")

\* The connection breaks between two statements, or under the COMMIT: before
\* it took effect the transaction is gone, afterwards only its outcome is
\* unknown, and afterCompletion(STATUS_UNKNOWN) counts nothing.
LoseConnection(r) ==
    /\ At(r, "findByKey") \/ At(r, "commit") \/ At(r, "committed")
    /\ Rollback(r, "error")

\* An instance dies: its counters go, its clients get no answer, and its
\* backends roll back once they are not waiting for a lock.
Crash(i) ==
    LET inFlight == {r \in Requests :
                        /\ home[r] = i
                        /\ pc[r] # "answered"
                        /\ r \notin abandoned}
        waiting == {r \in inFlight : Blocked(r)}
        gone == inFlight \ waiting
    IN  /\ crashes < MaxCrashes
        /\ crashes' = crashes + 1
        /\ counters' = [counters EXCEPT ![i] = ZeroCounters]
        /\ abandoned' = abandoned \cup waiting
        /\ pc' = [r \in Requests |->
                    IF r \in gone THEN "answered" ELSE pc[r]]
        /\ answer' = [r \in Requests |->
                    IF r \in inFlight THEN Reply("error", NoRequest)
                                      ELSE answer[r]]
        /\ ReleaseLocks(gone)
        /\ UNCHANGED <<dbVars, call, home, work>>

-----------------------------------------------------------------------------

\* What the service and the database do of their own accord.
Progress(r) ==
    \/ Begin(r)
    \/ AcquireKey(r)
    \/ LookupKey(r)
    \/ LockReservation(r)
    \/ LockProduct(r)
    \/ Commit(r)
    \/ RejectFlush(r)
    \/ Acknowledge(r)
    \/ AbandonedEnds(r)

Failure(r) ==
    \/ PoolTimeout(r)
    \/ KeyTimeout(r)
    \/ RowTimeout(r)
    \/ LoseConnection(r)

Next ==
    \/ \E r \in Requests : Arrive(r) \/ Progress(r) \/ Failure(r)
    \/ \E i \in Instances : Crash(i)

Spec == Init /\ [][Next]_vars

\* No client has to call and no failure has to happen: requests end because
\* the database runs statements and grants free locks.
Fairness == \A r \in Requests : WF_vars(Progress(r))

FairSpec == Spec /\ Fairness
=============================================================================
