---------------------- MODULE InventoryServiceProperties ----------------------
(***************************************************************************)
(* What must hold of InventoryService: the invariants its runs check and   *)
(* its proofs establish, and the refinement of InventoryLedger.            *)
(***************************************************************************)
EXTENDS InventoryService, Functions

\* A reservation's id is the request that created it; everything else of the
\* ledger has the same name here.
Ledger == INSTANCE InventoryLedger WITH ReservationIds <- Requests

\* A request has taken effect when it has committed a write.
Effective ==
    {r \in Requests : pc[r] = "committed" /\ work[r].effect \in Writes}

Atomic == INSTANCE AtomicInventory WITH
    ReservationIds <- Requests, effective <- Effective

-----------------------------------------------------------------------------
(***************************************************************************)
(* Stock and keys                                                          *)
(***************************************************************************)

\* Whatever interleaving of statements, buffered writes, lost connections and
\* crashes, the committed tables only ever change by a step of the ledger: no
\* update is lost, nothing is oversold, no cancellation returns stock twice
\* (InventoryService.java:59-121, docs/architecture.md, Stock consistency).
ImplementsLedger == Ledger!Spec

\* Units on the shelf and units held by active reservations add up to what
\* was ever supplied, in every committed state (Product.java:71-86,
\* Reservation.java:83-91).
StockConservation == Ledger!StockConservation

\* A customer's key is bound to one reservation at most, whichever instances
\* serve the retries (InventoryService.java:73-85).
OneReservationPerKey == Ledger!OneReservationPerKey

\* The unique index on customer and key is a second line of defence: the
\* advisory lock and the lookup under it let no keyed insert reach the flush
\* while the key is taken, so a concurrent retry is replayed and never
\* refused (ReservationKeyLock.java:19-29, V2:5-6).
KeyedInsertNeverCollides ==
    \A r \in Requests :
        /\ pc[r] = "commit"
        /\ work[r].effect = "reserve"
        /\ call[r].key # NoKey
        => FindByKey(call[r].customer, call[r].key) = {}

-----------------------------------------------------------------------------
(***************************************************************************)
(* Responses                                                               *)
(***************************************************************************)

Granted(r) == answer[r].status \in {"created", "replayed"}

\* Every response is that of a call which took effect at one instant between
\* its request and its response, or did not: what a request has read under its
\* locks is what it is answered for.  A sale is refused only when the stock is
\* short, a cancellation only when its units do not fit or the clock is
\* behind, a key only when it is bound to something else, each at the instant
\* of the refusal (InventoryController.java:28-54,
\* InventoryService.java:59-121, ApiExceptionHandler).
AnswersAreAtomic == Atomic!AtomicSpec

\* A successful response describes what is stored, and goes on doing so: a
\* reservation the caller owns, for the product and quantity and under the
\* key of the call, or a cancelled one (InventoryController.java:44-53,
\* InventoryService.java:76-89 and 105-121).
RepliesAreTrue ==
    \A r \in Requests :
        LET row == reservations[answer[r].reservation] IN
        /\ Granted(r) =>
              /\ answer[r].reservation \in Stored
              /\ row.product = call[r].product
              /\ row.quantity = call[r].quantity
              /\ row.customer = call[r].customer
              /\ row.key = call[r].key
        /\ answer[r].status = "ok" /\ Kind(r) = "cancel" =>
              /\ answer[r].reservation = call[r].reservation
              /\ row.status = "CANCELLED"
              /\ row.customer = call[r].customer

\* Every success under one customer's key shows the same reservation, and
\* only one of them says it was created (docs/idempotency.md:19-27).
OneAnswerPerKey ==
    \A r, s \in Requests :
        /\ Granted(r) /\ Granted(s)
        /\ call[r].customer = call[s].customer
        /\ call[r].key = call[s].key /\ call[r].key # NoKey
        => /\ answer[r].reservation = answer[s].reservation
           /\ answer[r].status = "created" /\ answer[s].status = "created"
                => r = s

\* A request that was definitely refused made no reservation and so consumed
\* no key, at whatever point it failed; only a request answered with an error
\* may have taken effect (ReservationKeyLock.java:20-21,
\* docs/idempotency.md:26).
RefusalsLeaveNoTrace ==
    \A r \in Requests :
        answer[r].status \in {"badRequest", "notFound", "conflict", "retry"}
            => /\ pc[r] = "answered"
               /\ r \notin Stored

-----------------------------------------------------------------------------
(***************************************************************************)
(* Locks                                                                   *)
(***************************************************************************)

\* A waiting request waits for a live transaction, never for itself, for one
\* that has ended, or for a ring of requests that all wait: keys are locked
\* before products, reservations before products, and nothing after a
\* product (InventoryService.java:74, 86, 109, 112).
WaitsEnd ==
    /\ \A r \in Requests : Blocked(r) =>
          pc[Holder(r)] \in {"findByKey", "lockProduct", "commit"}
    /\ \A R \in (SUBSET Requests) \ {{}} :
          \E r \in R : Holder(r) \notin R

-----------------------------------------------------------------------------
(***************************************************************************)
(* Business metrics                                                        *)
(***************************************************************************)

Total(meter) ==
    SumFunction([i \in Instances |-> counters[i][meter]])

Quantity(ids) ==
    SumFunction([id \in ids |-> reservations[id].quantity])

CancelledIds == {id \in Stored : reservations[id].status = "CANCELLED"}

\* Added over all instances the counters never run ahead of the committed
\* tables, and fall behind only for a commit in flight, one whose outcome was
\* lost, or a process that restarted (InventoryMetrics.java:43-83,
\* docs/business-metrics.md:19-23 and 38-40).
CountersFollowLedger ==
    LET figures == [reservations |-> Cardinality(Stored),
                    stockReserved |-> Quantity(Stored),
                    cancelled |-> Cardinality(CancelledIds),
                    stockReleased |-> Quantity(CancelledIds)]
        undisturbed ==
            /\ crashes = 0
            /\ \A r \in Requests : /\ pc[r] # "committed"
                                   /\ answer[r].status # "error"
    IN  \A meter \in DOMAIN figures :
            /\ Total(meter) <= figures[meter]
            /\ undisturbed => Total(meter) = figures[meter]

-----------------------------------------------------------------------------
(***************************************************************************)
(* Progress                                                                *)
(***************************************************************************)

\* Every request that was received ends, with its locks and its connection
\* returned, though instances crash and backends are abandoned: no wait lasts
\* for ever, for a lock or for the pool (InventoryService.java:59-121,
\* application.yaml:10-15).
EveryRequestEnds ==
    \A r \in Requests : pc[r] = "begin" ~> pc[r] = "answered"

\* docs/idempotency.md:40, "Lock waiting is bounded; timeouts return a
\* retryable 409", read of every lock a request waits for.
LockTimeoutsAreRetryable ==
    \A r \in abandoned : answer[r].status = "retry"
=============================================================================
