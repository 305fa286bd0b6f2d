----------------------------- MODULE AtomicCatalog -----------------------------
(***************************************************************************)
(* What product creation promises to its clients: a product appears at one *)
(* instant between the request and its response, under a SKU that no other *)
(* has, or never; it is refused as a duplicate only while another product  *)
(* has the SKU; an error says nothing.  ProductCatalog is shown to         *)
(* implement this.                                                         *)
(***************************************************************************)
EXTENDS Integers

CONSTANTS
    Requests, Calls, Skus, Normalize, MaxQuantity, NoProduct, NoCall

VARIABLES products, call, answer

vars == <<products, call, answer>>

Init ==
    /\ products = [r \in Requests |-> NoProduct]
    /\ call = [r \in Requests |-> NoCall]
    /\ answer = [r \in Requests |-> "none"]

Stored == {r \in Requests : products[r] # NoProduct}
Waiting(r) == call[r] # NoCall /\ answer[r] = "none"
Sku(r) == Normalize[call[r].sku]
Taken(sku) == \E p \in Stored : products[p].sku = sku

Ask(r, o) ==
    /\ call[r] = NoCall
    /\ call' = [call EXCEPT ![r] = o]
    /\ answer' = IF Normalize[o.sku] \in Skus /\ o.quantity \in 0..MaxQuantity
                 THEN answer ELSE [answer EXCEPT ![r] = "badRequest"]
    /\ UNCHANGED products

Create(r) ==
    /\ Waiting(r) /\ r \notin Stored
    /\ ~Taken(Sku(r))
    /\ products' = [products EXCEPT
            ![r] = [sku |-> Sku(r), quantity |-> call[r].quantity]]
    /\ UNCHANGED <<call, answer>>

Respond(r, status) ==
    /\ answer' = [answer EXCEPT ![r] = status]
    /\ UNCHANGED <<products, call>>

Confirm(r) == Waiting(r) /\ r \in Stored /\ Respond(r, "created")

Refuse(r) ==
    /\ Waiting(r) /\ r \notin Stored
    /\ Taken(Sku(r))
    /\ Respond(r, "conflict")

\* Requests get no answer, or one that leaves open what became of them.
Fail(R) ==
    /\ \A r \in R : Waiting(r)
    /\ answer' = [r \in Requests |-> IF r \in R THEN "error" ELSE answer[r]]
    /\ UNCHANGED <<products, call>>

Next ==
    \/ \E r \in Requests :
          (\E o \in Calls : Ask(r, o)) \/ Create(r) \/ Confirm(r) \/ Refuse(r)
    \/ \E R \in SUBSET Requests : Fail(R)

Spec == Init /\ [][Next]_vars
=============================================================================
