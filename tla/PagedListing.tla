------------------------------ MODULE PagedListing ------------------------------
(***************************************************************************)
(* GET /products and GET /reservations: one page of the rows a caller may  *)
(* list, newest first, and how many there are.  The page and the count are *)
(* two queries, each of what is committed when it runs, and rows are added *)
(* in between.                                                             *)
(*                                                                         *)
(* A row is the instant its instance took from its own clock, so that rows *)
(* committed later may sort first or last, and its random id.  Integers of *)
(* the request are at most MaxInt, which stands for 2^31 - 1; MaxSize      *)
(* stands for 100, and -1 for the pages below zero.  Rows are never        *)
(* deleted, and keep both of theirs.                                       *)
(***************************************************************************)
EXTENDS Integers, Sequences, SequencesExt, FiniteSets

CONSTANTS
    Ids, Instants,          \* what rows are made of
    MaxSize, MaxInt,
    MaxLosses               \* bound on answers that are lost

ListingAssumption ==
    /\ Ids \subseteq Int
    /\ Instants \subseteq Int
    /\ MaxSize \in Nat \ {0}
    /\ MaxInt \in Nat \ {0}
    /\ MaxLosses \in Nat

VARIABLES
    rows,                   \* committed rows
    early,                  \* history: those of them that were there at first
    reading,                \* "one page", or "all pages" from the first on
    page, size,             \* the request
    step,                   \* "ask", "content", "count", "answered", "end"
    items, total, status,   \* the answer, as far as it is known
    got,                    \* history: the rows the client was given
    losses

query == <<page, size>>
answer == <<items, total, status>>
vars == <<rows, early, reading, query, step, answer, got, losses>>

Rows == [at : Instants, id : Ids]
\* The rows a table can have: an id is a key.
Tables ==
    {s \in SUBSET Rows :
        IsFiniteSet(s) /\ \A r, q \in s : r.id = q.id => r = q}

Steps == {"ask", "content", "count", "answered", "end"}
Statuses == {"none", "ok", "refused", "error"}

TypeOK ==
    /\ rows \in Tables
    /\ early \subseteq rows
    /\ reading \in {"one page", "all pages"}
    /\ page \in Nat \cup {-1}
    /\ size \in Nat
    /\ step \in Steps
    /\ items \in Seq(Rows)
    /\ total \in Nat
    /\ status \in Statuses
    /\ got \subseteq Rows
    /\ losses \in 0..MaxLosses

Init ==
    /\ rows \in Tables
    /\ early = rows
    /\ \/ /\ reading = "one page"
          /\ page \in {-1} \cup 0..MaxInt
          /\ size \in 0..(MaxSize + 1)
       \/ reading = "all pages" /\ page = 0 /\ size \in 1..MaxSize
    /\ step = "ask"
    /\ items = <<>> /\ total = 0 /\ status = "none"
    /\ got = {}
    /\ losses = 0

-----------------------------------------------------------------------------

\* What page * size is in Java's int.
Wrapped(n) == ((n + MaxInt + 1) % (2 * (MaxInt + 1))) - (MaxInt + 1)

\* Mutant: the product is compared in 32 bits, where it has wrapped.
AdmittedWrapped ==
    page >= 0 /\ size \in 1..MaxSize /\ Wrapped(page * size) <= MaxInt

\* pagination().
Admitted == page >= 0 /\ size \in 1..MaxSize /\ page * size <= MaxInt

Ask ==
    /\ step = "ask"
    /\ items' = <<>> /\ total' = 0
    /\ status' = IF Admitted THEN "none" ELSE "refused"
    /\ step' = IF Admitted THEN "content" ELSE "answered"
    /\ UNCHANGED <<rows, early, reading, query, got, losses>>

-----------------------------------------------------------------------------
(* Spring Data.                                                            *)

\* Mutant: rows of one instant have no order, and each query its own.
BeforeByInstant(r, q) == r.at > q.at

\* Sort.by(DESC, "createdAt").and(Sort.by("id")).
Before(r, q) == r.at > q.at \/ (r.at = q.at /\ r.id < q.id)

\* The orders the database may return the rows in.
Listings ==
    {l \in SetToSeqs(rows) :
        \A i, j \in 1..Len(l) : i < j => ~Before(l[j], l[i])}

Offset == page * size
PageOf(listing) ==
    SubSeq(listing, Offset + 1,
           IF Len(listing) < Offset + size THEN Len(listing) ELSE Offset + size)

\* PageImpl: what a page shows is counted, although it came after the count.
Adjusted(count, content) ==
    IF content # <<>> /\ Offset + size > count THEN Offset + Len(content)
    ELSE count

\* Mutant: the rows are counted before the page is read.
ReadCounted ==
    /\ step = "content"
    /\ \/ /\ total = 0
          /\ total' = Cardinality(rows) + 1
          /\ UNCHANGED <<step, items, status>>
       \/ /\ total > 0
          /\ \E listing \in Listings :
                /\ items' = PageOf(listing)
                /\ total' = Adjusted(total - 1, items')
          /\ status' = "ok"
          /\ step' = "answered"
    /\ UNCHANGED <<rows, early, reading, query, got, losses>>

\* The page.  An offset that is no int is an error; a page that is not full
\* tells how many rows there are, unless it is empty and not the first.
ReadPage ==
    /\ step = "content"
    /\ IF Offset > MaxInt
       THEN status' = "error" /\ step' = "answered" /\ UNCHANGED <<items, total>>
       ELSE /\ \E listing \in Listings : items' = PageOf(listing)
            /\ IF Len(items') < size /\ (Offset = 0 \/ items' # <<>>)
               THEN /\ total' = Offset + Len(items')
                    /\ status' = "ok"
                    /\ step' = "answered"
               ELSE step' = "count" /\ UNCHANGED <<total, status>>
    /\ UNCHANGED <<rows, early, reading, query, got, losses>>

CountRows ==
    /\ step = "count"
    /\ total' = Adjusted(Cardinality(rows), items)
    /\ status' = "ok"
    /\ step' = "answered"
    /\ UNCHANGED <<rows, early, reading, query, items, got, losses>>

-----------------------------------------------------------------------------
(* The client, and other requests.                                         *)

\* page + 1 < totalPages, which is total / size, rounded up.
HasNext == (page + 1) * size < total

\* The client goes on with the next page as long as there is one.
Receive ==
    /\ step = "answered"
    /\ got' = got \cup ToSet(items)
    /\ IF reading = "all pages" /\ status = "ok" /\ HasNext
       THEN page' = page + 1 /\ step' = "ask"
       ELSE step' = "end" /\ UNCHANGED page
    /\ UNCHANGED <<rows, early, reading, size, answer, losses>>

\* The answer is lost, and asked for again.
Lose ==
    /\ step = "answered"
    /\ losses < MaxLosses
    /\ losses' = losses + 1
    /\ step' = "ask"
    /\ UNCHANGED <<rows, early, reading, query, answer, got>>

\* A creation or a reservation is committed.
Add ==
    /\ step # "end"
    /\ \E r \in Rows :
          /\ \A q \in rows : q.id # r.id
          /\ rows' = rows \cup {r}
    /\ UNCHANGED <<early, reading, query, step, answer, got, losses>>

Handle == Ask \/ ReadPage \/ CountRows
Next == Handle \/ Receive \/ Lose \/ Add

Spec == Init /\ [][Next]_vars

\* Each query ends, and the client asks as long as there are pages.
Fairness == WF_vars(Handle \/ Receive)
FairSpec == Spec /\ Fairness

=============================================================================
