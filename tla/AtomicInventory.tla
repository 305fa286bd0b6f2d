--------------------------- MODULE AtomicInventory ---------------------------
(***************************************************************************)
(* What the inventory service promises to its clients: each call takes     *)
(* effect at one instant between its request and its response, as a step   *)
(* of the ledger, or not at all.  A success is answered once the effect is *)
(* there; a refusal leaves none, and its reason holds when it is decided;  *)
(* an error says nothing.  InventoryService is shown to implement this.    *)
(***************************************************************************)
EXTENDS InventoryLedger

CONSTANTS
    Workload,       \* the addStock and reserve calls clients make
    NoOperation, NoRequest

VARIABLES
    call,           \* what each request asks for
    effective,      \* requests that took effect and are not yet answered
    answer          \* the responses

atomicVars == <<vars, call, effective, answer>>

Reply(status, id) == [status |-> status, reservation |-> id]

AtomicInit ==
    /\ Init
    /\ call = [r \in ReservationIds |-> NoOperation]
    /\ effective = {}
    /\ answer = [r \in ReservationIds |-> Reply("none", NoRequest)]

Waiting(r) == call[r] # NoOperation /\ answer[r].status = "none"
Undecided(r) == Waiting(r) /\ r \notin effective

-----------------------------------------------------------------------------

Malformed(o) == o.kind # "cancel" /\ o.quantity \notin 1..MaxQuantity

Ask(r, o) ==
    /\ call[r] = NoOperation
    /\ call' = [call EXCEPT ![r] = o]
    /\ answer' = IF Malformed(o)
                 THEN [answer EXCEPT ![r] = Reply("badRequest", NoRequest)]
                 ELSE answer
    /\ UNCHANGED <<vars, effective>>

\* The reservation a cancellation names, and a caller who owns it.
Row(o) == reservations[o.reservation]
Owned(o) == Row(o).customer = o.customer

Carries(id, o) ==
    reservations[id].product = o.product /\ reservations[id].quantity = o.quantity

TakeEffect(r) ==
    LET o == call[r] IN
    /\ Undecided(r)
    /\ effective' = effective \cup {r}
    /\ \/ /\ o.kind = "addStock" /\ o.product \in Products
          /\ AddStock(o.product, o.quantity)
       \/ /\ o.kind = "reserve" /\ o.product \in Products
          /\ \E now \in Times :
                Reserve(r, o.product, o.quantity, o.customer, o.key, now)
       \/ /\ o.kind = "cancel" /\ Owned(o)
          /\ \E now \in Times : CancelReservation(o.reservation, now)
    /\ UNCHANGED <<call, answer>>

-----------------------------------------------------------------------------

Respond(r, status, id) ==
    /\ answer' = [answer EXCEPT ![r] = Reply(status, id)]
    /\ effective' = effective \ {r}
    /\ UNCHANGED <<vars, call>>

\* Its own effect is there, or an equal one of an earlier call.
Succeed(r) ==
    LET o == call[r] IN
    /\ Waiting(r)
    /\ \/ r \in effective /\ o.kind = "addStock" /\ Respond(r, "ok", NoRequest)
       \/ r \in effective /\ o.kind = "reserve" /\ Respond(r, "created", r)
       \/ /\ o.kind = "reserve" /\ o.key # NoKey
          /\ \E id \in Bound(o.customer, o.key) :
                r \notin effective /\ Carries(id, o) /\ Respond(r, "replayed", id)
       \/ /\ o.kind = "cancel" /\ Owned(o) /\ Row(o).status = "CANCELLED"
          /\ Respond(r, "ok", o.reservation)

\* A key that is taken decides before the product and its stock are looked at.
KeyIsFree(o) ==
    o.kind = "reserve" /\ o.key # NoKey => Bound(o.customer, o.key) = {}

NothingToFind(o) ==
    \/ o.kind # "cancel" /\ o.product \notin Products /\ KeyIsFree(o)
    \/ o.kind = "cancel" /\ ~Owned(o)

KeyWasUsed(o) ==
    /\ o.kind = "reserve" /\ o.key # NoKey
    /\ \E id \in Bound(o.customer, o.key) : ~Carries(id, o)

DoesNotFit(o) ==
    \/ /\ o.kind = "addStock" /\ o.product \in Products
       /\ stock[o.product] + o.quantity > MaxQuantity
    \/ /\ o.kind = "reserve" /\ o.product \in Products /\ KeyIsFree(o)
       /\ stock[o.product] - o.quantity < 0
    \/ /\ o.kind = "cancel" /\ Owned(o) /\ Row(o).status = "ACTIVE"
       /\ \/ stock[Row(o).product] + Row(o).quantity > MaxQuantity
          \/ \E now \in Times : now < Row(o).createdAt

Refuse(r) ==
    LET o == call[r] IN
    /\ Undecided(r)
    /\ \/ NothingToFind(o) /\ Respond(r, "notFound", NoRequest)
       \/ KeyWasUsed(o) /\ Respond(r, "conflict", NoRequest)
       \/ DoesNotFit(o) /\ Respond(r, "conflict", NoRequest)
       \/ /\ o.kind = "reserve" /\ o.key # NoKey    \* its lock is taken
          /\ Respond(r, "retry", NoRequest)

\* Requests get no answer, or one that leaves open what became of them.
Fail(R) ==
    /\ \A r \in R : Waiting(r)
    /\ answer' = [r \in ReservationIds |->
            IF r \in R THEN Reply("error", NoRequest) ELSE answer[r]]
    /\ effective' = effective \ R
    /\ UNCHANGED <<vars, call>>

-----------------------------------------------------------------------------

\* A client can only name a reservation it has been shown.
Calls ==
    Workload \cup
    [kind : {"cancel"}, reservation : Stored, customer : Customers]

AtomicNext ==
    \/ \E r \in ReservationIds :
          \/ \E o \in Calls : Ask(r, o)
          \/ TakeEffect(r) \/ Succeed(r) \/ Refuse(r)
    \/ \E R \in SUBSET ReservationIds : Fail(R)

AtomicSpec == AtomicInit /\ [][AtomicNext]_atomicVars
=============================================================================
