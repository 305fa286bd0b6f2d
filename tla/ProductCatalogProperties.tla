----------------------- MODULE ProductCatalogProperties -----------------------
(***************************************************************************)
(* What must hold of ProductCatalog.                                       *)
(***************************************************************************)
EXTENDS ProductCatalog, Functions

Atomic == INSTANCE AtomicCatalog

\* Whatever interleaves and fails, a creation is one instant between its
\* request and its response: it is refused as a duplicate only while a product
\* with its SKU is there, and stored only while none is
\* (InventoryController.java:22-26, InventoryService.java:35-50).
CreationsAreAtomic == Atomic!Spec

\* Whatever two clients wrote, and whenever they looked, two products never
\* share a normalised SKU (InventoryService.java:35-50, V1:7).
SkusAreUnique ==
    \A p, q \in Stored : products[p].sku = products[q].sku => p = q

\* What a client is told is what was stored: a created product is there as
\* asked for, a refused one is not; only after an error may it be either.  A
\* creation is refused as a duplicate only for a product that really exists:
\* one whose own creation was rolled back, or may still be, refuses nobody
\* (InventoryController.java:22-26, InventoryService.java:36-49).
AnswersAreTrue ==
    \A r \in Requests :
        /\ answer[r] = "created" => products[r] = Row(r)
        /\ answer[r] \in {"badRequest", "conflict"} => r \notin Stored
        /\ answer[r] = "conflict" => Exists(Sku(r))

Total(meter) ==
    SumFunction([i \in Instances |-> counters[i][meter]])

\* The counters count committed creations only, and all of them until a
\* commit in flight, a lost outcome or a restart (InventoryMetrics.java:32-37
\* and 70-83, docs/business-metrics.md:19-23 and 38-40).
CountersFollowCatalog ==
    LET figures == [productsCreated |-> Cardinality(Stored),
                    stockAdded |->
                        SumFunction([p \in Stored |-> products[p].quantity])]
        undisturbed ==
            /\ crashes = 0
            /\ \A r \in Requests : pc[r] # "committed" /\ answer[r] # "error"
    IN  \A meter \in Meters :
            /\ Total(meter) <= figures[meter]
            /\ undisturbed => Total(meter) = figures[meter]

\* Every creation ends, also one that waits in the index for another that
\* fails or loses its client (InventoryService.java:41-49,
\* application.yaml:10-15).
EveryCreationEnds ==
    \A r \in Requests : pc[r] = "exists" ~> pc[r] = "answered"
=============================================================================
