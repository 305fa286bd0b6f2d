--------------------------- MODULE InventoryDomain ---------------------------
(***************************************************************************)
(* The entities of com.ryanshankar.inventory.domain and the constraints    *)
(* that the Flyway migrations put on their tables: pure definitions, with  *)
(* no state.  A product is its available quantity; a reservation is a row  *)
(* of the reservations table without its id, which is the index of the row *)
(* in the modules that extend this one.                                    *)
(*                                                                         *)
(* Quantities are Java ints and never leave 0..MAX_QUANTITY, a million, so *)
(* that no sum or difference the code takes wraps around: the comparison   *)
(* in addStock is written so that it cannot.                               *)
(***************************************************************************)
EXTENDS Integers

CONSTANTS
    Products,       \* ids of the products in the catalogue
    Customers,      \* authenticated principals
    Keys, NoKey,    \* Idempotency-Key values, and the absence of the header
    MaxQuantity,    \* Product.MAX_QUANTITY
    Times, NoTime   \* readings of Instant.now(), and a null timestamp

ASSUME DomainAssumption ==
    /\ MaxQuantity \in Nat \ {0}
    /\ Times \subseteq Nat
    /\ NoTime \notin Times
    /\ NoKey \notin Keys

ValidPositiveQuantity(quantity) == quantity \in 1..MaxQuantity

\* What Product.addStock and Product.reserveStock require of the quantity
\* that the locked row holds.
UncappedAddStock(available, quantity) ==    \* mutant: the cap is forgotten
    quantity <= MaxQuantity
CanAddStock(available, quantity) == quantity <= MaxQuantity - available
NeverTheLastUnit(available, quantity) ==    \* mutant: off by one
    quantity < available
CanReserveStock(available, quantity) == quantity <= available

Reservation ==
    [product: Products, quantity: 1..MaxQuantity, customer: Customers,
     key: Keys \cup {NoKey}, status: {"ACTIVE", "CANCELLED"},
     createdAt: Times, cancelledAt: Times \cup {NoTime}]

NewReservation(product, quantity, customer, key, now) ==
    [product |-> product, quantity |-> quantity, customer |-> customer,
     key |-> key, status |-> "ACTIVE", createdAt |-> now,
     cancelledAt |-> NoTime]

Cancelled(reservation, now) ==
    [reservation EXCEPT !.status = "CANCELLED", !.cancelledAt = now]

\* The comparison that decides whether a reused key is a replay.
SameProduct(reservation, product, quantity) ==  \* mutant: quantity ignored
    reservation.product = product
SameRequest(reservation, product, quantity) ==
    reservation.product = product /\ reservation.quantity = quantity

-----------------------------------------------------------------------------

\* CHECK products_stock_range
StockInRange(available) == available \in 0..MaxQuantity

\* CHECK reservations_cancellation_consistent
CancellationConsistent(reservation) ==
    \/ reservation.status = "ACTIVE" /\ reservation.cancelledAt = NoTime
    \/ /\ reservation.status = "CANCELLED"
       /\ reservation.cancelledAt # NoTime
       /\ reservation.cancelledAt >= reservation.createdAt
=============================================================================
