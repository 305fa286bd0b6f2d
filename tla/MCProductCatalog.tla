--------------------------- MODULE MCProductCatalog ---------------------------
(***************************************************************************)
(* Small instances of ProductCatalog: two SKUs, one of them spelled in two *)
(* ways, one malformed spelling, and quantities at and beyond the bounds.  *)
(***************************************************************************)
EXTENDS ProductCatalogProperties, TLC

CONSTANTS r1, r2, r3, i1, i2, lower, upper, other, malformed, A, B

Spelled ==
    lower :> A @@ upper :> A @@ other :> B @@ malformed :> InvalidSku

=============================================================================
