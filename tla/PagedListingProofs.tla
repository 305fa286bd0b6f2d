--------------------------- MODULE PagedListingProofs --------------------------
(***************************************************************************)
(* Proofs about PagedListing, for any rows, sizes and integers.            *)
(*                                                                         *)
(* The argument: rows are only added, so the rank of a row, the number of  *)
(* rows in front of it, never falls.  A row of rank Offset or more that is *)
(* not on the page read at Offset has at least Offset + size rows in front *)
(* of it (Missed), so that the count, which is taken later, tells of a     *)
(* next page (Told), where it is not too late for it.                      *)
(***************************************************************************)
EXTENDS PagedListingProperties, FiniteSetTheorems, SequenceTheorems, TLAPS

InFront(r) == {q \in rows : Before(q, r)}
Rank(r) == Cardinality(InFront(r))

\* Rows the client has not been given, and those it will not be given by the
\* page that was read.
Open == early \ got
Missed == early \ (got \cup ToSet(items))

ReadingAll ==
    reading = "all pages" =>
        /\ page \in Nat /\ size > 0
        /\ step # "end" => \A r \in Open : Rank(r) >= Offset
        /\ step = "count" \/ (step = "answered" /\ status = "ok") =>
               \A r \in Missed : Rank(r) >= Offset + size
        /\ step = "answered" /\ status = "ok" =>
               \A r \in Missed : total > Offset + size
        /\ step = "end" /\ status = "ok" => early \subseteq got

Served ==
    /\ step = "content" => Admitted /\ status = "none"
    /\ step = "count" => Admitted
    /\ step = "answered" => status = IF Admitted THEN "ok" ELSE "refused"

ListingInv ==
    /\ TypeOK
    /\ ReadingAll
    /\ Served

-----------------------------------------------------------------------------
(* Ranks.                                                                  *)

\* Products of sizes and page numbers.
LEMMA Products ==
    ASSUME NEW a \in Nat, NEW b \in Nat
    PROVE  /\ a * b \in Nat
           /\ (a + 1) * b = a * b + b
OBVIOUS

LEMMA OffsetType ==
    ASSUME TypeOK, page \in Nat PROVE Offset \in Nat /\ size \in Nat
<1>1. size \in Nat
  BY DEF TypeOK
<1>2. QED
  BY <1>1, Products DEF Offset

LEMMA AdmittedPage == ASSUME TypeOK, Admitted PROVE page \in Nat
<1>1. page \in Nat \cup {-1} /\ page >= 0
  BY DEF TypeOK, Admitted
<1>2. QED
  BY <1>1

LEMMA TableType ==
    ASSUME TypeOK
    PROVE  /\ rows \subseteq Rows
           /\ IsFiniteSet(rows)
           /\ \A r, q \in rows : r.id = q.id => r = q
BY DEF TypeOK, Tables

LEMMA RowTypes ==
    ASSUME TypeOK, ListingAssumption, NEW r \in rows
    PROVE  r \in Rows /\ r.at \in Int /\ r.id \in Int
<1>1. r \in Rows
  BY TableType
<1>2. QED
  BY <1>1 DEF ListingAssumption, Rows

LEMMA RankType ==
    ASSUME TypeOK, NEW r
    PROVE  /\ IsFiniteSet(InFront(r))
           /\ Rank(r) \in Nat
<1>1. InFront(r) \in SUBSET rows /\ IsFiniteSet(rows)
  BY TableType DEF InFront
<1>2. QED
  BY <1>1, FS_Subset, FS_CardinalityType DEF Rank

\* A row in the table has more rows than its rank.
LEMMA RankBelowCount ==
    ASSUME TypeOK, ListingAssumption, NEW r \in rows
    PROVE  /\ Cardinality(rows) \in Nat
           /\ Rank(r) < Cardinality(rows)
<1>1. IsFiniteSet(rows) /\ InFront(r) \in SUBSET rows
  BY TableType DEF InFront
<1>2. r \notin InFront(r)
  BY RowTypes DEF InFront, Before
<1>3. QED
  BY <1>1, <1>2, FS_Subset, FS_CardinalityType DEF Rank

\* Ranks never fall.
LEMMA RankGrows ==
    ASSUME TypeOK, TypeOK', rows \subseteq rows', NEW r
    PROVE  Rank(r)' >= Rank(r)
<1>1. InFront(r) \in SUBSET InFront(r)'
  BY DEF InFront, Before
<1>2. IsFiniteSet(InFront(r)')
  <2>1. InFront(r)' \in SUBSET rows' /\ IsFiniteSet(rows')
    BY DEF TypeOK, Tables, InFront
  <2>2. QED
    BY <2>1, FS_Subset
<1>3. QED
  BY <1>1, <1>2, FS_Subset DEF Rank

\* Before is a strict total order of the rows.
LEMMA BeforeOrders ==
    ASSUME TypeOK, ListingAssumption, NEW r \in rows, NEW q \in rows
    PROVE  /\ Before(r, q) => ~Before(q, r)
           /\ r # q => Before(r, q) \/ Before(q, r)
<1>1. /\ r.at \in Int /\ r.id \in Int
      /\ q.at \in Int /\ q.id \in Int
  BY RowTypes
<1>2. r.id = q.id => r = q
  BY TableType
<1>3. QED
  BY <1>1, <1>2 DEF Before

\* In the listing, a row stands behind as many rows as its rank.
LEMMA ListingRank ==
    ASSUME TypeOK, ListingAssumption, NEW l \in Listings
    PROVE  /\ l \in Seq(rows)
           /\ Len(l) = Cardinality(rows)
           /\ \A r \in rows : \E i \in 1..Len(l) : l[i] = r
           /\ \A i \in 1..Len(l) : Rank(l[i]) = i - 1
<1> DEFINE n == Cardinality(rows)
<1>1. IsFiniteSet(rows) /\ n \in Nat
  BY TableType, FS_CardinalityType
<1>2. l \in [1..n -> rows] /\ \A i, j \in 1..n : i # j => l[i] # l[j]
  BY DEF Listings, SetToSeqs
<1>3. l \in Seq(rows) /\ Len(l) = n
  BY <1>1, <1>2
<1>4. \A i, j \in 1..n : i < j => ~Before(l[j], l[i])
  BY <1>3 DEF Listings
<1>5. \A r \in rows : \E i \in 1..n : l[i] = r
  <2>1. l \in Injection(1..n, rows)
    BY <1>2 DEF Injection, IsInjective
  <2>2. Cardinality(1..n) = n
    BY <1>1, FS_Interval
  <2>3. l \in Surjection(1..n, rows)
    BY <1>1, <2>1, <2>2, FS_Injection
  <2>4. QED
    BY <2>3 DEF Surjection
<1>6. ASSUME NEW i \in 1..n PROVE Rank(l[i]) = i - 1
  <2>1. InFront(l[i]) = {l[j] : j \in 1..(i - 1)}
    <3>1. ASSUME NEW q \in rows, Before(q, l[i])
          PROVE  \E j \in 1..(i - 1) : q = l[j]
      <4>1. PICK j \in 1..n : q = l[j]
        BY <1>5
      <4>2. j # i
        BY <1>2, <3>1, <4>1, BeforeOrders
      <4>3. ~(i < j)
        BY <1>4, <3>1, <4>1
      <4>4. QED
        BY <1>1, <4>1, <4>2, <4>3
    <3>2. ASSUME NEW j \in 1..(i - 1)
          PROVE  l[j] \in rows /\ Before(l[j], l[i])
      <4>1. j \in 1..n /\ j < i
        BY <1>1
      <4>2. QED
        BY <1>2, <1>4, <4>1, BeforeOrders
    <3>3. QED
      BY <3>1, <3>2 DEF InFront
  <2> DEFINE f == [j \in 1..(i - 1) |-> l[j]]
  <2>2. f \in Bijection(1..(i - 1), InFront(l[i]))
    <3>1. \A j, k \in 1..(i - 1) : j # k => f[j] # f[k]
      BY <1>1, <1>2
    <3>2. QED
      BY <2>1, <3>1 DEF Bijection, Injection, Surjection, IsInjective
  <2>3. IsFiniteSet(1..(i - 1)) /\ Cardinality(1..(i - 1)) = i - 1
    <3>1. i \in Int /\ i >= 1
      BY <1>1
    <3>2. i - 1 \in Int /\ (IF 1 > i - 1 THEN 0 ELSE (i - 1) - 1 + 1) = i - 1
      BY <3>1
    <3> DEFINE m == i - 1
    <3>3. IsFiniteSet(1..m) /\ Cardinality(1..m) = IF 1 > m THEN 0 ELSE m - 1 + 1
      <4>1. 1 \in Int /\ m \in Int
        BY <3>2
      <4> HIDE DEF m
      <4>2. QED
        BY <4>1, FS_Interval
    <3>4. QED
      BY <3>2, <3>3
  <2>4. QED
    BY <2>2, <2>3, FS_Bijection DEF Rank, ExistsBijection
<1>7. QED
  BY <1>3, <1>5, <1>6

\* A row that has not been passed, and is not on the page, is behind it, and
\* the page is full.
LEMMA PageShows ==
    ASSUME TypeOK, ListingAssumption, NEW l \in Listings, page \in Nat,
           size > 0, NEW r \in rows, Rank(r) >= Offset, r \notin ToSet(PageOf(l))
    PROVE  /\ Rank(r) >= Offset + size
           /\ Len(PageOf(l)) = size
<1> DEFINE o == Offset
           m == IF Len(l) < o + size THEN Len(l) ELSE o + size
<1>1. o \in Nat /\ size \in Nat
  BY OffsetType
<1>2. Len(l) \in Nat /\ m \in Int
  <2>1. Len(l) \in Nat
    BY ListingRank
  <2>2. QED
    BY <1>1, <2>1
<1>3. PICK i \in 1..Len(l) : l[i] = r /\ Rank(r) = i - 1
  BY ListingRank
<1>4. i >= o + 1 /\ o \in Nat
  BY <1>1, <1>2, <1>3
<1>5. /\ Len(PageOf(l)) = IF o + 1 <= m THEN m - (o + 1) + 1 ELSE 0
      /\ \A k \in 1..(m - (o + 1) + 1) : PageOf(l)[k] = l[k + (o + 1) - 1]
      /\ PageOf(l) \in Seq(rows)
  <2>1. PageOf(l) = SubSeq(l, o + 1, m)
    BY DEF PageOf
  <2>2. \A k \in (o + 1)..m : l[k] \in rows
    <3>1. \A k \in (o + 1)..m : k \in 1..Len(l)
      BY <1>1, <1>2
    <3>2. \A k \in 1..Len(l) : l[k] \in rows
      <4>1. l \in Seq(rows)
        BY ListingRank
      <4>2. QED
        BY <4>1
    <3>3. QED
      BY <3>1, <3>2
  <2>3. o + 1 \in Int
    BY <1>1
  <2> HIDE DEF o, m
  <2>4. QED
    BY <1>2, <2>1, <2>2, <2>3, SubSeqProperties
<1>6. i > m
  <2>1. SUFFICES ASSUME i <= m PROVE FALSE
    BY <1>2, <1>3
  <2> DEFINE k == i - o
  <2>2. k \in 1..(m - (o + 1) + 1) /\ k + (o + 1) - 1 = i
    BY <1>1, <1>2, <1>3, <1>4, <2>1
  <2>3. k \in 1..Len(PageOf(l)) /\ PageOf(l)[k] = r
    BY <1>1, <1>2, <1>3, <1>5, <2>2
  <2>4. QED
    BY <1>5, <2>3 DEF ToSet
<1>7. m = o + size /\ i > o + size
  BY <1>1, <1>2, <1>3, <1>6
<1>8. QED
  BY <1>1, <1>3, <1>5, <1>7

LEMMA PageType ==
    ASSUME TypeOK, ListingAssumption, NEW l \in Listings, page \in Nat
    PROVE  PageOf(l) \in Seq(rows) /\ Len(PageOf(l)) \in Nat
<1> DEFINE o == Offset
           m == IF Len(l) < o + size THEN Len(l) ELSE o + size
<1>1. o + 1 \in Int /\ m \in Int /\ o \in Nat /\ size \in Nat
  BY OffsetType, ListingRank
<1>2. \A k \in (o + 1)..m : k \in 1..Len(l)
  BY <1>1, ListingRank
<1>3. \A k \in 1..Len(l) : l[k] \in rows
  <2>1. l \in Seq(rows)
    BY ListingRank
  <2>2. QED
    BY <2>1
<1>4. PageOf(l) = SubSeq(l, o + 1, m)
  BY DEF PageOf
<1> HIDE DEF o, m
<1>5. \A k \in (o + 1)..m : l[k] \in rows
  BY <1>2, <1>3
<1>6. PageOf(l) \in Seq(rows)
  BY <1>1, <1>4, <1>5, SubSeqProperties
<1>7. QED
  BY <1>6

-----------------------------------------------------------------------------
(* Steps.                                                                  *)

LEMMA InitListingInv ==
    ASSUME ListingAssumption, Init
    PROVE  ListingInv
<1>1. page \in Nat \cup {-1} /\ size \in Nat
  <2>1. CASE page \in {-1} \cup 0..MaxInt /\ size \in 0..(MaxSize + 1)
    BY <2>1
  <2>2. CASE page = 0 /\ size \in 1..MaxSize
    BY <2>2
  <2>3. QED
    BY <2>1, <2>2 DEF Init
<1>2. TypeOK
  <2>1. rows \in Tables /\ early = rows /\ got = {}
    BY DEF Init
  <2>2. reading \in {"one page", "all pages"}
    BY DEF Init
  <2>3. step \in Steps /\ status \in Statuses
    BY DEF Init, Steps, Statuses
  <2>4. items \in Seq(Rows) /\ total \in Nat /\ losses \in 0..MaxLosses
    <3>1. items = <<>> /\ total = 0 /\ losses = 0
      BY DEF Init
    <3>2. MaxLosses \in Nat
      BY DEF ListingAssumption
    <3>3. QED
      BY <3>1, <3>2
  <2>5. QED
    BY <1>1, <2>1, <2>2, <2>3, <2>4 DEF TypeOK
<1>3. ReadingAll
  <2>1. SUFFICES ASSUME reading = "all pages"
                 PROVE  /\ page \in Nat /\ size > 0 /\ step = "ask"
                        /\ \A r \in Open : Rank(r) >= Offset
    BY DEF ReadingAll
  <2>2. page = 0 /\ size > 0 /\ step = "ask"
    <3>1. page = 0 /\ size \in 1..MaxSize /\ step = "ask"
      BY <2>1 DEF Init
    <3>2. QED
      BY <3>1
  <2>3. Offset = 0
    BY <1>1, <2>2 DEF Offset
  <2>4. \A r \in Open : Rank(r) >= Offset
    BY <1>2, <2>3, RankType
  <2>5. QED
    BY <2>2, <2>4
<1>4. Served
  BY DEF Init, Served
<1>5. QED
  BY <1>2, <1>3, <1>4 DEF ListingInv

\* What a step that adds no row leaves alone.
LEMMA SameRows ==
    ASSUME rows' = rows, page' = page, size' = size
    PROVE  /\ \A r : Rank(r)' = Rank(r)
           /\ Offset' = Offset
           /\ Admitted' = Admitted
BY DEF Rank, InFront, Before, Offset, Admitted

LEMMA AskKeeps ==
    ASSUME ListingAssumption, ListingInv, Ask
    PROVE  ListingInv'
<1>1. /\ step = "ask"
      /\ UNCHANGED <<rows, early, reading, page, size, got, losses>>
      /\ items' = <<>> /\ total' = 0
      /\ status' = IF Admitted THEN "none" ELSE "refused"
      /\ step' = IF Admitted THEN "content" ELSE "answered"
  BY DEF Ask, query
<1>2. TypeOK'
  <2>1. step' \in Steps /\ status' \in Statuses
    BY <1>1 DEF Steps, Statuses
  <2>2. items' \in Seq(Rows) /\ total' \in Nat
    BY <1>1
  <2>3. QED
    BY <1>1, <2>1, <2>2 DEF ListingInv, TypeOK
<1>3. ReadingAll'
  BY <1>1, SameRows DEF ListingInv, ReadingAll, Open
<1>4. Served'
  BY <1>1, SameRows DEF Served
<1>5. QED
  BY <1>2, <1>3, <1>4 DEF ListingInv

LEMMA ReadPageKeeps ==
    ASSUME ListingAssumption, ListingInv, ReadPage
    PROVE  ListingInv'
<1>1. /\ step = "content"
      /\ UNCHANGED <<rows, early, reading, page, size, got, losses>>
      /\ TypeOK /\ ReadingAll /\ Served
  BY DEF ReadPage, query, ListingInv
<1>2. /\ Offset \in Nat /\ Offset <= MaxInt /\ size \in Nat /\ size > 0
      /\ page \in Nat /\ Admitted
  <2>1. Admitted /\ page \in Nat
    BY <1>1, AdmittedPage DEF Served
  <2>2. QED
    BY <1>1, <2>1, OffsetType DEF Admitted, Offset, ListingAssumption
<1>3. ~(Offset > MaxInt)
  BY <1>2 DEF ListingAssumption
<1>4. PICK l \in Listings :
          /\ items' = PageOf(l)
          /\ \/ /\ Len(items') < size
                /\ total' = Offset + Len(items')
                /\ status' = "ok"
                /\ step' = "answered"
             \/ /\ step' = "count"
                /\ UNCHANGED <<total, status>>
  BY <1>3 DEF ReadPage
<1>5. items' \in Seq(rows) /\ Len(items') \in Nat
  BY <1>1, <1>2, <1>4, PageType
<1>6. TypeOK'
  <2>1. items' \in Seq(Rows)
    BY <1>1, <1>5, TableType
  <2>2. total' \in Nat
    <3>1. Offset + Len(items') \in Nat
      BY <1>2, <1>5
    <3>2. total \in Nat
      BY <1>1 DEF TypeOK
    <3>3. QED
      BY <1>4, <3>1, <3>2
  <2>3. QED
    BY <1>1, <1>4, <2>1, <2>2 DEF TypeOK, Steps, Statuses
<1>7. ASSUME NEW r \in Missed', reading = "all pages"
      PROVE  Rank(r) >= Offset + size /\ Len(items') = size
  <2>1. r \in Open /\ r \in rows /\ r \notin ToSet(items')
    BY <1>1 DEF Open, Missed, TypeOK
  <2>2. Rank(r) >= Offset
    BY <1>1, <1>7, <2>1 DEF ReadingAll
  <2>3. QED
    BY <1>1, <1>2, <1>4, <2>1, <2>2, PageShows
<1>8. ReadingAll'
  <2>1. SUFFICES ASSUME reading = "all pages"
                 PROVE  /\ \A r \in Open' : Rank(r)' >= Offset'
                        /\ \A r \in Missed' : Rank(r)' >= Offset' + size'
                        /\ step' = "answered" => Missed' = {}
    BY <1>1, <1>2, <1>4 DEF ReadingAll
  <2>2. \A r \in Open' : Rank(r)' >= Offset'
    BY <1>1, <2>1, SameRows DEF ReadingAll, Open
  <2>3. \A r \in Missed' : Rank(r)' >= Offset' + size'
    BY <1>1, <1>7, <2>1, SameRows
  <2>4. ASSUME step' = "answered" PROVE Missed' = {}
    <3>1. Len(items') < size
      BY <1>4, <2>4
    <3>2. ~(Len(items') = size)
      BY <1>2, <1>5, <3>1
    <3>3. QED
      BY <1>7, <2>1, <3>2
  <2>5. QED
    BY <2>2, <2>3, <2>4
<1>9. Served'
  BY <1>1, <1>2, <1>4, SameRows DEF Served
<1>10. QED
  BY <1>6, <1>8, <1>9 DEF ListingInv

LEMMA CountRowsKeeps ==
    ASSUME ListingAssumption, ListingInv, CountRows
    PROVE  ListingInv'
<1>1. /\ step = "count"
      /\ UNCHANGED <<rows, early, reading, page, size, items, got, losses>>
      /\ total' = Adjusted(Cardinality(rows), items)
      /\ status' = "ok" /\ step' = "answered"
      /\ TypeOK /\ ReadingAll /\ Served
  BY DEF CountRows, query, ListingInv
<1>2. Offset \in Nat /\ size \in Nat /\ Cardinality(rows) \in Nat
      /\ Len(items) \in Nat
  <2> page \in Nat
    BY <1>1, AdmittedPage DEF Served
  <2>1. Cardinality(rows) \in Nat
    BY <1>1, TableType, FS_CardinalityType
  <2>2. Len(items) \in Nat
    <3>1. items \in Seq(Rows)
      BY <1>1 DEF TypeOK
    <3>2. QED
      BY <3>1
  <2>3. QED
    BY <1>1, <2>1, <2>2, OffsetType
<1>3. TypeOK'
  <2>1. total' \in Nat
    BY <1>1, <1>2 DEF Adjusted
  <2>2. QED
    BY <1>1, <2>1 DEF TypeOK, Steps, Statuses
<1>4. ASSUME NEW r \in Missed, reading = "all pages"
      PROVE  total' > Offset + size
  <2>1. r \in rows /\ Rank(r) >= Offset + size
    BY <1>1, <1>4 DEF Missed, TypeOK, ReadingAll
  <2>2. Cardinality(rows) > Offset + size
    BY <1>1, <1>2, <2>1, RankBelowCount, RankType
  <2>3. QED
    BY <1>1, <1>2, <2>2 DEF Adjusted
<1>5. Missed' = Missed /\ Open' = Open
  BY <1>1 DEF Missed, Open
<1>6. ReadingAll'
  BY <1>1, <1>4, <1>5, SameRows DEF ReadingAll
<1>7. Served'
  BY <1>1, SameRows DEF Served
<1>8. QED
  BY <1>3, <1>6, <1>7 DEF ListingInv

LEMMA ReceiveKeeps ==
    ASSUME ListingAssumption, ListingInv, Receive
    PROVE  ListingInv'
<1>1. /\ step = "answered"
      /\ UNCHANGED <<rows, early, reading, size, items, total, status, losses>>
      /\ got' = got \cup ToSet(items)
      /\ TypeOK /\ ReadingAll
  BY DEF Receive, answer, ListingInv
<1>2. ToSet(items) \subseteq Rows
  <2>1. items \in Seq(Rows)
    BY <1>1 DEF TypeOK
  <2>2. \A i \in DOMAIN items : items[i] \in Rows
    BY <2>1
  <2>3. QED
    BY <2>2 DEF ToSet
<1>3. CASE /\ reading = "all pages" /\ status = "ok" /\ HasNext
           /\ page' = page + 1 /\ step' = "ask"
  <2>1. page \in Nat /\ size \in Nat
    BY <1>1, <1>3 DEF TypeOK, ReadingAll
  <2>2. Offset' = Offset + size
    BY <1>1, <1>3, <2>1, Products DEF Offset
  <2>3. Open' = Missed /\ \A r : Rank(r)' = Rank(r)
    BY <1>1 DEF Open, Missed, Rank, InFront, Before
  <2>4. page' \in Nat
    <3>1. page' = page + 1
      BY <1>3
    <3>2. QED
      BY <2>1, <3>1
  <2>5. TypeOK'
    <3>1. step' \in Steps /\ page' \in Nat \cup {-1}
      BY <1>3, <2>4 DEF Steps
    <3>2. got' \subseteq Rows
      BY <1>1, <1>2 DEF TypeOK
    <3>3. QED
      BY <1>1, <3>1, <3>2 DEF TypeOK
  <2>6. ReadingAll'
    BY <1>1, <1>3, <2>2, <2>3, <2>4 DEF ReadingAll
  <2>7. Served'
    BY <1>3 DEF Served
  <2>8. QED
    BY <2>5, <2>6, <2>7 DEF ListingInv
<1>4. CASE /\ ~(reading = "all pages" /\ status = "ok" /\ HasNext)
           /\ page' = page /\ step' = "end"
  <2>1. TypeOK'
    BY <1>1, <1>2, <1>4 DEF TypeOK, Steps
  <2>2. ASSUME reading = "all pages", status = "ok"
        PROVE  early \subseteq got'
    <3>1. page \in Nat /\ size \in Nat /\ Offset \in Nat /\ total \in Nat
      BY <1>1, <2>2, OffsetType DEF TypeOK, ReadingAll
    <3>2. ~(Offset + size < total)
      BY <1>4, <2>2, <3>1, Products DEF HasNext, Offset
    <3>3. Missed = {}
      BY <1>1, <2>2, <3>1, <3>2 DEF ReadingAll
    <3>4. QED
      BY <1>1, <3>3 DEF Missed
  <2>3. ReadingAll'
    BY <1>1, <1>4, <2>2 DEF ReadingAll
  <2>4. Served'
    BY <1>4 DEF Served
  <2>5. QED
    BY <2>1, <2>3, <2>4 DEF ListingInv
<1>5. QED
  BY <1>3, <1>4 DEF Receive

LEMMA LoseKeeps ==
    ASSUME ListingAssumption, ListingInv, Lose
    PROVE  ListingInv'
<1>1. /\ step = "answered" /\ step' = "ask"
      /\ UNCHANGED <<rows, early, reading, page, size, items, total, status, got>>
      /\ losses < MaxLosses /\ losses' = losses + 1
  BY DEF Lose, query, answer
<1>2. TypeOK'
  <2>1. losses \in 0..MaxLosses /\ MaxLosses \in Nat
    BY DEF ListingInv, TypeOK, ListingAssumption
  <2>2. losses' \in 0..MaxLosses
    BY <1>1, <2>1
  <2>3. QED
    BY <1>1, <2>2 DEF ListingInv, TypeOK, Steps
<1>3. ReadingAll'
  BY <1>1, SameRows DEF ListingInv, ReadingAll, Open
<1>4. Served'
  BY <1>1 DEF Served
<1>5. QED
  BY <1>2, <1>3, <1>4 DEF ListingInv

LEMMA AddKeeps ==
    ASSUME ListingAssumption, ListingInv, Add
    PROVE  ListingInv'
<1>1. PICK n \in Rows :
          /\ \A q \in rows : q.id # n.id
          /\ rows' = rows \cup {n}
  BY DEF Add
<1>2. /\ UNCHANGED <<early, reading, page, size, step, items, total, status,
                     got, losses>>
      /\ step # "end"
      /\ TypeOK /\ ReadingAll /\ Served
  BY DEF Add, query, answer, ListingInv
<1>3. TypeOK'
  <2>1. IsFiniteSet(rows')
    BY <1>1, <1>2, TableType, FS_AddElement
  <2>2. \A r, q \in rows' : r.id = q.id => r = q
    BY <1>1, <1>2, TableType
  <2>3. rows' \in Tables
    BY <1>1, <1>2, <2>1, <2>2, TableType DEF Tables
  <2>4. QED
    BY <1>1, <1>2, <2>3 DEF TypeOK
<1>4. \A r : Rank(r)' >= Rank(r) /\ Rank(r)' \in Nat /\ Rank(r) \in Nat
  <2>1. ASSUME NEW r PROVE Rank(r)' >= Rank(r)
    BY <1>1, <1>2, <1>3, RankGrows
  <2>2. ASSUME NEW r PROVE Rank(r)' \in Nat /\ Rank(r) \in Nat
    <3>1. /\ InFront(r) \in SUBSET rows /\ IsFiniteSet(rows)
          /\ InFront(r)' \in SUBSET rows' /\ IsFiniteSet(rows')
      BY <1>2, <1>3 DEF TypeOK, Tables, InFront
    <3>2. QED
      BY <3>1, FS_Subset, FS_CardinalityType DEF Rank
  <2>3. QED
    BY <2>1, <2>2
<1>5. /\ Offset' = Offset
      /\ Admitted' = Admitted
      /\ Open' = Open
      /\ Missed' = Missed
  BY <1>2 DEF Offset, Admitted, Open, Missed
<1>6. ReadingAll'
  <2>1. SUFFICES ASSUME reading = "all pages"
                 PROVE  /\ size > 0
                        /\ \A r \in Open : Rank(r)' >= Offset
                        /\ step = "count" \/ (step = "answered" /\ status = "ok") =>
                               \A r \in Missed : Rank(r)' >= Offset + size
                        /\ step = "answered" /\ status = "ok" =>
                               \A r \in Missed : total > Offset + size
    BY <1>2, <1>5 DEF ReadingAll
  <2>2. \A r \in Open : Rank(r)' >= Offset
    <3>1. \A r \in Open : Rank(r) >= Offset
      BY <1>2, <2>1 DEF ReadingAll
    <3>2. Offset \in Nat
      BY <1>2, <2>1, OffsetType DEF ReadingAll
    <3>3. QED
      BY <1>4, <3>1, <3>2
  <2>3. ASSUME step = "count" \/ (step = "answered" /\ status = "ok"),
               NEW r \in Missed
        PROVE  Rank(r)' >= Offset + size
    <3>1. Rank(r) >= Offset + size
      BY <1>2, <2>1, <2>3 DEF ReadingAll
    <3>2. Offset \in Nat /\ size \in Nat
      BY <1>2, <2>1, OffsetType DEF ReadingAll
    <3>3. QED
      BY <1>4, <3>1, <3>2
  <2>4. QED
    BY <1>2, <2>1, <2>2, <2>3 DEF ReadingAll
<1>7. Served'
  BY <1>2, <1>5 DEF Served
<1>8. QED
  BY <1>3, <1>6, <1>7 DEF ListingInv

LEMMA NextKeepsListing ==
    ASSUME ListingAssumption, ListingInv, [Next]_vars
    PROVE  ListingInv'
<1>1. CASE UNCHANGED vars
  <2>1. UNCHANGED <<rows, early, reading, page, size, step, items, total,
                    status, got, losses>>
    BY <1>1 DEF vars, query, answer
  <2>2. TypeOK'
    BY <2>1 DEF ListingInv, TypeOK
  <2>3. ReadingAll'
    BY <2>1, SameRows DEF ListingInv, ReadingAll, Open, Missed
  <2>4. Served'
    BY <2>1, SameRows DEF ListingInv, Served
  <2>5. QED
    BY <2>2, <2>3, <2>4 DEF ListingInv
<1>2. QED
  BY <1>1, AskKeeps, ReadPageKeeps, CountRowsKeeps, ReceiveKeeps, LoseKeeps,
     AddKeeps
     DEF Next, Handle

\* The ranks of the rows that are still to come, and what the answers tell of
\* them, for any rows, sizes of pages and integers.
THEOREM ListingInvariant ==
    ASSUME ListingAssumption
    PROVE  Spec => []ListingInv
<1>1. Init => ListingInv
  BY InitListingInv
<1>2. ListingInv /\ [Next]_vars => ListingInv'
  BY NextKeepsListing
<1>3. QED
  BY <1>1, <1>2, PTL DEF Spec

\* Whoever reads all pages has got every row that was there when he began, and
\* a request is refused exactly if it should be
\* (InventoryController.java:72-78), however many rows are added meanwhile.
THEOREM PagesStayComplete ==
    ASSUME ListingAssumption
    PROVE  Spec => []PagesShowAll
<1>1. ListingInv => PagesShowAll
  BY DEF ListingInv, ReadingAll, Served, Admitted, PagesShowAll,
         NoRowIsSkipped, AdmittedMeansServed
<1>2. QED
  BY <1>1, ListingInvariant, PTL

=============================================================================
