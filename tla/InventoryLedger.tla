--------------------------- MODULE InventoryLedger ---------------------------
(***************************************************************************)
(* What the inventory service promises about its committed data, with no   *)
(* transactions, locks, processes or failures: stock arrives, a            *)
(* reservation takes its units and appears in one step, the first          *)
(* cancellation returns them, and a customer's key is bound to one         *)
(* reservation for ever.  InventoryService is shown to implement this.     *)
(***************************************************************************)
EXTENDS Integers, Functions

CONSTANTS
    Products, ReservationIds, Customers, Keys, NoKey,
    MaxQuantity,    \* the documented cap on stock and on a single quantity
    Times, NoTime,  \* timestamps, and a null timestamp
    NoReservation,  \* an id no reservation has been stored under
    Stocked         \* the stock levels a catalogue may start from

VARIABLES
    stock,          \* available units of each product
    reservations,   \* the reservations table, by id
    supplied        \* history: units ever brought into each product

vars == <<stock, reservations, supplied>>

Stored == {id \in ReservationIds : reservations[id] # NoReservation}

Active(product) ==
    {id \in Stored : /\ reservations[id].product = product
                     /\ reservations[id].status = "ACTIVE"}

Bound(customer, key) ==
    {id \in Stored : /\ reservations[id].customer = customer
                     /\ reservations[id].key = key}

Init ==
    /\ stock \in [Products -> Stocked]
    /\ supplied = stock
    /\ reservations = [id \in ReservationIds |-> NoReservation]

AddStock(product, quantity) ==
    /\ stock[product] + quantity <= MaxQuantity
    /\ stock' = [stock EXCEPT ![product] = @ + quantity]
    /\ supplied' = [supplied EXCEPT ![product] = @ + quantity]
    /\ UNCHANGED reservations

\* A key may be used once per customer; without a key every call reserves.
Reserve(id, product, quantity, customer, key, now) ==
    /\ reservations[id] = NoReservation
    /\ key # NoKey => Bound(customer, key) = {}
    /\ stock[product] - quantity >= 0
    /\ stock' = [stock EXCEPT ![product] = @ - quantity]
    /\ reservations' = [reservations EXCEPT ![id] =
            [product |-> product, quantity |-> quantity,
             customer |-> customer, key |-> key, status |-> "ACTIVE",
             createdAt |-> now, cancelledAt |-> NoTime]]
    /\ UNCHANGED supplied

\* Units go back to the product they came from, once, and never over the cap.
CancelReservation(id, now) ==
    /\ reservations[id] # NoReservation
    /\ reservations[id].status = "ACTIVE"
    /\ now >= reservations[id].createdAt
    /\ LET product == reservations[id].product
           returned == stock[product] + reservations[id].quantity
       IN  /\ returned <= MaxQuantity
           /\ stock' = [stock EXCEPT ![product] = returned]
    /\ reservations' = [reservations EXCEPT ![id].status = "CANCELLED",
                                            ![id].cancelledAt = now]
    /\ UNCHANGED supplied

Next ==
    \/ \E product \in Products, quantity \in 1..MaxQuantity :
            AddStock(product, quantity)
    \/ \E id \in ReservationIds, product \in Products,
          quantity \in 1..MaxQuantity, customer \in Customers,
          key \in Keys \cup {NoKey}, now \in Times :
            Reserve(id, product, quantity, customer, key, now)
    \/ \E id \in ReservationIds, now \in Times : CancelReservation(id, now)

Spec == Init /\ [][Next]_vars

-----------------------------------------------------------------------------

\* Units that active reservations of a product hold.
Held(product) ==
    SumFunctionOnSet([id \in Stored |-> reservations[id].quantity],
                     Active(product))

\* No unit is lost or made up: what was ever supplied is on the shelf or held
\* by an active reservation.  Product.java:71-86, Reservation.java:83-91 and
\* the single transaction around them (docs/architecture.md, Stock
\* consistency).
StockConservation ==
    \A product \in Products :
        stock[product] + Held(product) = supplied[product]

\* One reservation at most carries a customer's key: the unique index of
\* V2 and the key lookup of InventoryService.reserve.
OneReservationPerKey ==
    \A customer \in Customers, key \in Keys :
        \A s, t \in Bound(customer, key) : s = t
=============================================================================
