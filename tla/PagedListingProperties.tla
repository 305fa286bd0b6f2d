------------------------- MODULE PagedListingProperties ------------------------
(***************************************************************************)
(* What the pages promise to a client.                                     *)
(***************************************************************************)
EXTENDS PagedListing

\* A client that reads page after page, until the last answer says that there
\* is no other, has got every row that was there when it began, whatever was
\* added meanwhile and wherever it sorts; it may get some twice
\* (InventoryController.java:77, ApiModels.java:39-43).
NoRowIsSkipped ==
    step = "end" /\ reading = "all pages" /\ status = "ok" => early \subseteq got

\* A request is refused exactly if its parameters are, and no request that is
\* admitted fails for its offset (InventoryController.java:72-76).
AdmittedMeansServed ==
    step = "answered" =>
        status = IF page >= 0 /\ size \in 1..MaxSize /\ page * size <= MaxInt
                 THEN "ok" ELSE "refused"

\* Pages show all there is (InventoryController.java:72-78).
PagesShowAll == NoRowIsSkipped /\ AdmittedMeansServed

Ended == step = "end"

\* Every listing ends, if rows are not added for ever.
EveryListingEnds == <>Ended

=============================================================================
