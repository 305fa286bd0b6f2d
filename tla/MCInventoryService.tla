------------------------- MODULE MCInventoryService -------------------------
(***************************************************************************)
(* Small instances of InventoryService.  Every run has one product and two *)
(* customers unless its configuration says otherwise; quantities of one    *)
(* and two against a cap of three reach the cap, an empty shelf, and a     *)
(* cancellation that no longer fits.                                       *)
(***************************************************************************)
EXTENDS InventoryServiceProperties, TLC

CONSTANTS r1, r2, r3, i1, i2, p1, p2, alice, bob, k1, k2

Restock(p, q) == [kind |-> "addStock", product |-> p, quantity |-> q]
Order(p, q, c, k) ==
    [kind |-> "reserve", product |-> p, quantity |-> q, customer |-> c,
     key |-> k]

\* Keyed retries of two different bodies, unkeyed calls, restocking, an
\* unknown product and a quantity out of range.
MixedWorkload ==
    {Restock(p1, 2),
     Order(p1, 1, alice, k1), Order(p1, 2, alice, k1),
     Order(p1, 1, bob, NoKey), Order(UnknownProduct, 1, alice, k1),
     Order(p1, 0, bob, NoKey)}

\* Two products and two keys, whose locks may be the same.
TwoProductWorkload ==
    {Restock(p1, 1), Order(p1, 2, alice, k1), Order(p2, 2, alice, k1),
     Order(p1, 1, alice, k2)}

\* Contention for one key and one product.
ContentionWorkload ==
    {Restock(p1, 1), Order(p1, 1, alice, k1), Order(p1, 2, alice, k1)}

OneLockPerKey == [ck \in Customers \X Keys |-> ck]
OneLockForAll == [ck \in Customers \X Keys |-> "lock"]
LockPairs == Customers \X Keys

RequestSymmetry == Permutations(Requests)
RequestAndInstanceSymmetry ==
    Permutations(Requests) \cup Permutations(Instances)
=============================================================================
