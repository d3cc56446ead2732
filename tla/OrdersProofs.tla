---------------------------- MODULE OrdersProofs ----------------------------
(***************************************************************************)
(* Proofs about Orders and what the portal says of them (OrdersDesk), for  *)
(* every set of listings, holds, sales and users and every bound on a      *)
(* listing's stock.                                                        *)
(***************************************************************************)
EXTENDS OrdersDesk, FiniteSetTheorems, TLAPS

-----------------------------------------------------------------------------
(* Sums of quantities.                                                     *)

\* A sum over a finite set is a natural number.
LEMMA SumType ==
    ASSUME NEW S, IsFiniteSet(S), NEW q
    PROVE  IsFiniteSet(Units(S, q)) /\ Sum(S, q) \in Nat
<1>1. IsFiniteSet(1..MaxTotal)
  BY FS_Interval, StockAssumption
<1>2. IsFiniteSet(S \X (1..MaxTotal))
  BY <1>1, FS_Product
<1>3. Units(S, q) \in SUBSET (S \X (1..MaxTotal))
  BY DEF Units
<1> QED
  BY <1>2, <1>3, FS_Subset, FS_CardinalityType DEF Sum

\* A sum depends only on the quantities of the members.
LEMMA SumSame ==
    ASSUME NEW S, NEW q, NEW r, \A x \in S : q[x] = r[x]
    PROVE  Sum(S, q) = Sum(S, r)
<1>1. \A u \in S \X (1..MaxTotal) : u[1] \in S
  OBVIOUS
<1>2. Units(S, q) = Units(S, r)
  BY <1>1 DEF Units
<1> QED
  BY <1>2 DEF Sum

\* The sum over nothing.
LEMMA SumNone ==
    ASSUME NEW q
    PROVE  Sum({}, q) = 0
<1>1. Units({}, q) = {}
  BY DEF Units
<1> QED
  BY <1>1, FS_EmptySet DEF Sum

\* The sum over one member is its quantity.
LEMMA SumOne ==
    ASSUME NEW x, NEW q, q[x] \in 0..MaxTotal
    PROVE  Sum({x}, q) = q[x]
<1>1. Units({x}, q) = {x} \X (1..q[x])
  <2>1. \A u \in {x} \X (1..MaxTotal) : u[1] = x
    OBVIOUS
  <2>2. 1..q[x] \subseteq 1..MaxTotal
    BY StockAssumption
  <2>3. \A u \in {x} \X (1..MaxTotal) : u[2] <= q[x] <=> u \in {x} \X (1..q[x])
    BY StockAssumption
  <2> QED
    BY <2>1, <2>2, <2>3 DEF Units
<1>2. IsFiniteSet({x}) /\ Cardinality({x}) = 1
  BY FS_Singleton
<1>n. q[x] \in Nat
  BY StockAssumption
<1>3. IsFiniteSet(1..q[x]) /\ Cardinality(1..q[x]) = q[x]
  <2> DEFINE n == q[x]
  <2>1. n \in Nat
    BY <1>n
  <2> HIDE DEF n
  <2>2. IsFiniteSet(1..n) /\ Cardinality(1..n) = IF 1 > n THEN 0 ELSE n - 1 + 1
    BY <2>1, FS_Interval
  <2>3. Cardinality(1..n) = n
    BY <2>1, <2>2
  <2> QED
    BY <2>2, <2>3 DEF n
<1>4. Cardinality({x} \X (1..q[x])) = 1 * q[x]
  BY <1>2, <1>3, FS_Product
<1>5. 1 * q[x] = q[x]
  BY <1>n
<1> QED
  BY <1>1, <1>4, <1>5 DEF Sum

\* Disjoint sets add up.
LEMMA SumUnion ==
    ASSUME NEW A, IsFiniteSet(A), NEW B, IsFiniteSet(B), A \cap B = {}, NEW q
    PROVE  Sum(A \cup B, q) = Sum(A, q) + Sum(B, q)
<1>1. Units(A \cup B, q) = Units(A, q) \cup Units(B, q)
  BY DEF Units
<1>2. Units(A, q) \cap Units(B, q) = {}
  <2>1. \A u \in Units(A, q) : u[1] \in A
    BY DEF Units
  <2>2. \A u \in Units(B, q) : u[1] \in B
    BY DEF Units
  <2> QED
    BY <2>1, <2>2
<1>3. /\ IsFiniteSet(Units(A, q)) /\ IsFiniteSet(Units(B, q))
      /\ Sum(A, q) \in Nat /\ Sum(B, q) \in Nat
  BY SumType
<1>4. Cardinality(Units(A, q) \cup Units(B, q))
        = Cardinality(Units(A, q)) + Cardinality(Units(B, q)) - Cardinality({})
  BY <1>2, <1>3, FS_Union
<1>5. Cardinality({}) = 0
  BY FS_EmptySet
<1>6. /\ Cardinality(Units(A, q)) = Sum(A, q)
      /\ Cardinality(Units(B, q)) = Sum(B, q)
      /\ Cardinality(Units(A, q) \cup Units(B, q)) = Sum(A \cup B, q)
  BY <1>1 DEF Sum
<1> QED
  BY <1>3, <1>4, <1>5, <1>6

\* Taking a subset out of a set takes its sum out.
LEMMA SumWithout ==
    ASSUME NEW S, IsFiniteSet(S), NEW A \in SUBSET S, NEW q
    PROVE  Sum(S \ A, q) = Sum(S, q) - Sum(A, q) /\ Sum(A, q) <= Sum(S, q)
<1>1. IsFiniteSet(A) /\ IsFiniteSet(S \ A)
  BY FS_Subset, FS_Difference
<1>2. (S \ A) \cap A = {} /\ S = (S \ A) \cup A
  OBVIOUS
<1>3. Sum(S, q) = Sum(S \ A, q) + Sum(A, q)
  BY <1>1, <1>2, SumUnion
<1> QED
  BY <1>1, <1>3, SumType

\* What a member contributes is at most the sum.
LEMMA SumMember ==
    ASSUME NEW S, IsFiniteSet(S), NEW x \in S, NEW q, q[x] \in 0..MaxTotal
    PROVE  q[x] <= Sum(S, q) /\ Sum(S \ {x}, q) = Sum(S, q) - q[x]
<1>1. Sum({x}, q) = q[x]
  BY SumOne
<1>2. {x} \in SUBSET S
  OBVIOUS
<1>3. Sum(S \ {x}, q) = Sum(S, q) - Sum({x}, q) /\ Sum({x}, q) <= Sum(S, q)
  BY <1>2, SumWithout
<1> QED
  BY <1>1, <1>3

\* A new member adds its quantity.
LEMMA SumWith ==
    ASSUME NEW S, IsFiniteSet(S), NEW x, x \notin S, NEW q, q[x] \in 0..MaxTotal
    PROVE  Sum(S \cup {x}, q) = Sum(S, q) + q[x]
<1>1. IsFiniteSet({x}) /\ S \cap {x} = {}
  BY FS_Singleton
<1> QED
  BY <1>1, SumUnion, SumOne

-----------------------------------------------------------------------------
(* What the helpers do to a listing and to the holds.                      *)

\* Relisting touches nothing but the status.
LEMMA RelistedStock ==
    ASSUME NEW x \in ListingRecord
    PROVE  /\ Relisted(x) \in ListingRecord
           /\ Relisted(x).reserved = x.reserved
           /\ Relisted(x).total = x.total /\ Relisted(x).sold = x.sold
           /\ Relisted(x).approved = x.approved /\ Relisted(x).confirmed = x.confirmed
           /\ (Relisted(x).status = "none" <=> x.status = "none")
BY DEF Relisted, OnSale, Available, ListingRecord, ListingStatuses

\* A release gives back n units and touches nothing else but the status.
LEMMA FreedStock ==
    ASSUME NEW x \in ListingRecord, NEW n \in Int
    PROVE  /\ Freed(x, n) \in ListingRecord
           /\ Freed(x, n).reserved = x.reserved - n
           /\ Freed(x, n).total = x.total /\ Freed(x, n).sold = x.sold
           /\ Freed(x, n).approved = x.approved /\ Freed(x, n).confirmed = x.confirmed
           /\ (Freed(x, n).status = "none" <=> x.status = "none")
<1> DEFINE y == [x EXCEPT !.reserved = @ - n]
<1>1. /\ y \in ListingRecord /\ y.reserved = x.reserved - n
      /\ y.total = x.total /\ y.sold = x.sold
      /\ y.approved = x.approved /\ y.confirmed = x.confirmed /\ y.status = x.status
  BY DEF ListingRecord
<1>2. Freed(x, n) = Relisted(y)
  BY DEF Freed
<1> HIDE DEF y
<1> QED
  BY <1>1, <1>2, RelistedStock

\* Nor does the status computed after a stock action touch more.
LEMMA StockStatusStock ==
    ASSUME NEW x \in ListingRecord
    PROVE  /\ StockStatus(x) \in ListingRecord
           /\ StockStatus(x).reserved = x.reserved
           /\ StockStatus(x).total = x.total /\ StockStatus(x).sold = x.sold
           /\ (StockStatus(x).status = "none" <=> x.status = "none")
BY DEF StockStatus, OnSale, Available, ListingRecord, ListingStatuses

\* A refresh gives back the units of the overdue holds, nothing else.
LEMMA RefreshedStock ==
    ASSUME TypeOK, NEW l \in Listings, NEW x \in ListingRecord
    PROVE  /\ Refreshed(l, x) \in ListingRecord
           /\ Refreshed(l, x).reserved = x.reserved - Sum(Overdue(l), HoldQuantity)
           /\ Refreshed(l, x).total = x.total /\ Refreshed(l, x).sold = x.sold
           /\ Refreshed(l, x).approved = x.approved
           /\ Refreshed(l, x).confirmed = x.confirmed
           /\ (Refreshed(l, x).status = "none" <=> x.status = "none")
<1> DEFINE n == Sum(Overdue(l), HoldQuantity)
           y == IF Overdue(l) = {} THEN x ELSE Freed(x, n)
<1>1. n \in Nat
  <2>1. IsFiniteSet(Overdue(l))
    BY StockAssumption, FS_Subset DEF Overdue
  <2> QED
    BY <2>1, SumType
<1>2. /\ y \in ListingRecord /\ y.reserved = x.reserved - n
      /\ y.total = x.total /\ y.sold = x.sold
      /\ y.approved = x.approved /\ y.confirmed = x.confirmed
      /\ (y.status = "none" <=> x.status = "none")
  <2>1. CASE Overdue(l) = {}
    <3>1. n = 0
      BY <2>1, SumNone
    <3> QED
      BY <2>1, <3>1 DEF ListingRecord
  <2>2. CASE Overdue(l) # {}
    BY <2>2, <1>1, FreedStock
  <2> QED
    BY <2>1, <2>2
<1>3. Refreshed(l, x) = IF y.status = "live" /\ ~y.confirmed
                        THEN [y EXCEPT !.status = "needs_confirmation"] ELSE y
  BY DEF Refreshed
<1> HIDE DEF y, n
<1>4. /\ Refreshed(l, x) \in ListingRecord /\ Refreshed(l, x).reserved = y.reserved
      /\ Refreshed(l, x).total = y.total /\ Refreshed(l, x).sold = y.sold
      /\ Refreshed(l, x).approved = y.approved /\ Refreshed(l, x).confirmed = y.confirmed
      /\ (Refreshed(l, x).status = "none" <=> y.status = "none")
  BY <1>2, <1>3 DEF ListingRecord, ListingStatuses
<1> QED
  BY <1>2, <1>4 DEF n

\* Ending holds changes their status only.
LEMMA EndedHolds ==
    ASSUME NEW holds \in [Holds -> HoldRecord], NEW S, NEW status \in HoldStatuses
    PROVE  /\ Ended(holds, S, status) \in [Holds -> HoldRecord]
           /\ \A h \in Holds :
                /\ Ended(holds, S, status)[h].listing = holds[h].listing
                /\ Ended(holds, S, status)[h].quantity = holds[h].quantity
                /\ Ended(holds, S, status)[h].lapsed = holds[h].lapsed
                /\ Ended(holds, S, status)[h].status =
                      IF h \in S THEN status ELSE holds[h].status
BY DEF Ended, HoldRecord

\* The effect shared by the actions that start with a refresh: the listing
\* becomes a listing record, the overdue holds become expired.
LEMMA RefreshTypes ==
    ASSUME TypeOK, NEW l \in Listings
    PROVE  /\ RefreshedHolds(l) \in [Holds -> HoldRecord]
           /\ Refreshed(l, listing[l]) \in ListingRecord
           /\ listing[l] \in ListingRecord
<1>1. listing[l] \in ListingRecord /\ hold \in [Holds -> HoldRecord]
  BY DEF TypeOK, StockTypeOK
<1>2. "expired" \in HoldStatuses
  BY DEF HoldStatuses
<1> QED
  BY <1>1, <1>2, RefreshedStock, EndedHolds DEF RefreshedHolds

\* A release taken after a refresh keeps the types.
LEMMA ReleaseTypes ==
    ASSUME TypeOK, NEW h \in Holds, NEW status \in HoldStatuses,
           ReleaseAfterRefresh(h, hold[h].listing, status)
    PROVE  listing' \in [Listings -> ListingRecord] /\ hold' \in [Holds -> HoldRecord]
<1> DEFINE l == hold[h].listing
<1>1. /\ l \in Listings /\ hold[h].quantity \in Int
      /\ listing \in [Listings -> ListingRecord]
  BY StockAssumption DEF TypeOK, StockTypeOK, HoldRecord
<1>2. Refreshed(l, listing[l]) \in ListingRecord /\ RefreshedHolds(l) \in [Holds -> HoldRecord]
  BY <1>1, RefreshTypes
<1>3. Freed(Refreshed(l, listing[l]), hold[h].quantity) \in ListingRecord
  BY <1>1, <1>2, FreedStock
<1>4. Ended(RefreshedHolds(l), {h}, status) \in [Holds -> HoldRecord]
  BY <1>2, EndedHolds
<1> QED
  BY <1>1, <1>3, <1>4 DEF ReleaseAfterRefresh

-----------------------------------------------------------------------------
(* Type correctness.                                                       *)

\* Every stock action keeps the types of the stock variables.
LEMMA StockTypeStep ==
    ASSUME TypeOK, StockNext
    PROVE  StockTypeOK'
<1> USE StockAssumption
<1>0. /\ supplier \in [Suppliers -> SupplierStatuses]
      /\ listing \in [Listings -> ListingRecord]
      /\ hold \in [Holds -> HoldRecord]
      /\ sale \in [Sales -> SaleRecord]
      /\ standing \in [Listings -> Standings]
  BY DEF TypeOK, StockTypeOK
<1>1. ASSUME NEW u \in Suppliers, Onboard(u)
      PROVE  StockTypeOK'
  BY <1>0, <1>1 DEF Onboard, StockTypeOK, SupplierStatuses
<1>2. ASSUME NEW u \in Suppliers, NEW st \in SupplierStatuses, DecideSupplier(u, st)
      PROVE  StockTypeOK'
  <2>1. \A l \in Listings : [listing[l] EXCEPT !.status = "paused"] \in ListingRecord
    BY <1>0 DEF ListingRecord, ListingStatuses
  <2> QED
    BY <1>0, <1>2, <2>1 DEF DecideSupplier, StockTypeOK, Standings
<1>3. ASSUME NEW u \in Suppliers, ConfirmDue(u)
      PROVE  StockTypeOK'
  <2> DEFINE asked == {l \in Listings : SupplierOf[l] = u /\ listing[l].approved
                                   /\ listing[l].status \in {"live", "needs_confirmation"}}
             after(l) == LET x == Refreshed(l, listing[l])
                         IN  IF x.status = "needs_confirmation" /\ Available(x) > 0
                             THEN [x EXCEPT !.status = "live", !.confirmed = TRUE] ELSE x
  <2>1. \A l \in Listings : after(l) \in ListingRecord
    BY RefreshTypes DEF ListingRecord, ListingStatuses
  <2>2. /\ listing' = [l \in Listings |-> IF l \in asked THEN after(l) ELSE listing[l]]
        /\ hold' = Ended(hold, UNION {Overdue(l) : l \in asked}, "expired")
        /\ UNCHANGED <<supplier, sale, standing>>
    BY <1>3 DEF ConfirmDue
  <2> HIDE DEF after, asked
  <2>3. listing' \in [Listings -> ListingRecord]
    BY <1>0, <2>1, <2>2
  <2>4. hold' \in [Holds -> HoldRecord]
    BY <1>0, <2>2, EndedHolds DEF HoldStatuses
  <2> QED
    BY <1>0, <2>2, <2>3, <2>4 DEF StockTypeOK
<1>4. ASSUME NEW l \in Listings,
             \/ Approve(l) \/ RequestChanges(l) \/ UpdateMedia(l) \/ ConfirmationLapses(l)
      PROVE  StockTypeOK'
  <2> DEFINE x == listing[l]
  <2>1. x \in ListingRecord
    BY <1>0
  <2>2. /\ [x EXCEPT !.status = "live", !.approved = TRUE, !.confirmed = TRUE] \in ListingRecord
        /\ [x EXCEPT !.status = "changes_requested"] \in ListingRecord
        /\ [x EXCEPT !.status = "pending_review", !.approved = FALSE] \in ListingRecord
        /\ [x EXCEPT !.confirmed = FALSE] \in ListingRecord
    <3> HIDE DEF x
    <3> QED
      BY <2>1 DEF ListingRecord, ListingStatuses
  <2>3. \/ listing' = [listing EXCEPT ![l] =
             [x EXCEPT !.status = "live", !.approved = TRUE, !.confirmed = TRUE]]
        \/ listing' = [listing EXCEPT ![l] = [x EXCEPT !.status = "changes_requested"]]
        \/ listing' = [listing EXCEPT ![l] = [x EXCEPT !.status = "pending_review", !.approved = FALSE]]
        \/ listing' = [listing EXCEPT ![l] = [x EXCEPT !.confirmed = FALSE]]
    BY <1>4 DEF Approve, RequestChanges, UpdateMedia, ConfirmationLapses
  <2>4. /\ standing' \in [Listings -> Standings]
        /\ UNCHANGED <<supplier, hold, sale>>
    BY <1>0, <1>4 DEF Approve, RequestChanges, UpdateMedia, ConfirmationLapses, Standings
  <2> HIDE DEF x
  <2>5. listing' \in [Listings -> ListingRecord]
    BY <1>0, <2>2, <2>3
  <2> QED
    BY <1>0, <2>4, <2>5 DEF StockTypeOK
<1>5. ASSUME NEW l \in Listings, Resume(l)
      PROVE  StockTypeOK'
  <2> DEFINE x == [listing[l] EXCEPT !.status = IF Available(listing[l]) > 0 THEN "live" ELSE "sold_out"]
  <2>1. x \in ListingRecord
    BY <1>0 DEF ListingRecord, ListingStatuses
  <2>2. Refreshed(l, x) \in ListingRecord
    BY <2>1, RefreshedStock
  <2>3. listing' = [listing EXCEPT ![l] = Refreshed(l, x)]
    BY <1>0, <1>5 DEF Resume
  <2> HIDE DEF x
  <2>4. RefreshedHolds(l) \in [Holds -> HoldRecord]
    BY RefreshTypes
  <2> QED
    BY <1>0, <1>5, <2>2, <2>3, <2>4 DEF Resume, StockTypeOK, Standings
<1>6. ASSUME NEW l \in Listings, NEW st \in {"paused", "rejected"}, TakeDown(l, st)
      PROVE  StockTypeOK'
  <2> DEFINE open == {h \in Holds : hold[h].status = "active" /\ hold[h].listing = l}
             n == Sum(open, HoldQuantity)
  <2>1. n \in Nat
    BY FS_Subset, SumType
  <2>3. /\ listing' = [listing EXCEPT ![l] =
             [listing[l] EXCEPT !.status = st, !.reserved = listing[l].reserved - n]]
        /\ hold' = Ended(hold, open, "released")
        /\ standing' = [standing EXCEPT ![l] = st]
        /\ UNCHANGED <<supplier, sale>>
    BY <1>0, <1>6 DEF TakeDown
  <2> HIDE DEF n, open
  <2>2. [listing[l] EXCEPT !.status = st, !.reserved = listing[l].reserved - n] \in ListingRecord
    <3>1. st \in ListingStatuses
      BY DEF ListingStatuses
    <3>2. ASSUME NEW x \in ListingRecord
          PROVE  [x EXCEPT !.status = st, !.reserved = x.reserved - n] \in ListingRecord
      <4>1. x.reserved - n \in Int
        BY <2>1 DEF ListingRecord
      <4> QED
        BY <3>1, <4>1 DEF ListingRecord
    <3> QED
      BY <1>0, <3>2
  <2>4. hold' \in [Holds -> HoldRecord]
    BY <1>0, <2>3, EndedHolds DEF HoldStatuses
  <2> QED
    BY <1>0, <2>2, <2>3, <2>4 DEF StockTypeOK, Standings
<1>7. ASSUME NEW l \in Listings, Resubmit(l) \/ Pause(l) \/ Confirm(l) \/ ReadListing(l)
      PROVE  StockTypeOK'
  <2> DEFINE x == Refreshed(l, listing[l])
  <2>1. x \in ListingRecord /\ RefreshedHolds(l) \in [Holds -> HoldRecord]
    BY RefreshTypes
  <2>2. \A st \in ListingStatuses :
          /\ [x EXCEPT !.status = st] \in ListingRecord
          /\ [x EXCEPT !.confirmed = TRUE, !.status = st] \in ListingRecord
    BY <2>1 DEF ListingRecord
  <2>3. hold' = RefreshedHolds(l) /\ UNCHANGED <<supplier, sale>>
    BY <1>7 DEF Resubmit, Pause, Confirm, ReadListing
  <2>4. \E y \in ListingRecord : listing' = [listing EXCEPT ![l] = y]
    <3>1. CASE Resubmit(l)
      BY <1>0, <2>2, <3>1 DEF Resubmit, ListingStatuses
    <3>2. CASE Pause(l)
      BY <1>0, <2>2, <3>2 DEF Pause, ListingStatuses
    <3>3. CASE Confirm(l)
      <4> DEFINE st == IF Available(x) > 0 THEN "live" ELSE "sold_out"
      <4>1. listing' = [listing EXCEPT ![l] = [x EXCEPT !.confirmed = TRUE, !.status = st]]
        BY <3>3 DEF Confirm
      <4>2. st \in ListingStatuses
        BY DEF ListingStatuses
      <4> QED
        BY <2>2, <4>1, <4>2
    <3>4. CASE ReadListing(l)
      BY <1>0, <2>1, <3>4 DEF ReadListing
    <3> QED
      BY <1>7, <3>1, <3>2, <3>3, <3>4
  <2>5. standing' \in [Listings -> Standings]
    BY <1>0, <1>7 DEF Resubmit, Pause, Confirm, ReadListing, Standings
  <2> HIDE DEF x
  <2> QED
    BY <1>0, <2>1, <2>3, <2>4, <2>5 DEF StockTypeOK
<1>8. ASSUME NEW l \in Listings, NEW n \in 0..MaxTotal, CorrectStock(l, n)
      PROVE  StockTypeOK'
  <2> DEFINE x == Refreshed(l, listing[l])
             y == [x EXCEPT !.total = n + x.sold]
  <2>1. x \in ListingRecord /\ RefreshedHolds(l) \in [Holds -> HoldRecord]
    BY RefreshTypes
  <2>2. y \in ListingRecord
    BY <2>1 DEF ListingRecord
  <2>3. /\ listing' = [listing EXCEPT ![l] = StockStatus(y)]
        /\ hold' = RefreshedHolds(l) /\ UNCHANGED <<supplier, sale, standing>>
    BY <1>8 DEF CorrectStock
  <2> HIDE DEF x, y
  <2> QED
    BY <1>0, <2>1, <2>2, <2>3, StockStatusStock DEF StockTypeOK
<1>9. ASSUME NEW l \in Listings, NEW n \in 1..MaxTotal, AddToStock(l, n)
      PROVE  StockTypeOK'
  <2> DEFINE x == Refreshed(l, listing[l])
             y == [x EXCEPT !.total = @ + n]
  <2>1. x \in ListingRecord /\ RefreshedHolds(l) \in [Holds -> HoldRecord]
    BY RefreshTypes
  <2>2. y \in ListingRecord
    BY <2>1 DEF ListingRecord
  <2>3. /\ listing' = [listing EXCEPT ![l] = StockStatus(y)]
        /\ hold' = RefreshedHolds(l) /\ UNCHANGED <<supplier, sale, standing>>
    BY <1>9 DEF AddToStock
  <2> HIDE DEF x, y
  <2> QED
    BY <1>0, <2>1, <2>2, <2>3, StockStatusStock DEF StockTypeOK
<1>10. ASSUME NEW l \in Listings, NEW n \in 1..MaxTotal, AddStock(l, n)
       PROVE  StockTypeOK'
  <2>1. [NoListing EXCEPT !.status = "pending_review", !.total = n] \in ListingRecord
    <3>1. NoListing \in ListingRecord /\ n \in Int
      BY DEF NoListing, ListingRecord, ListingStatuses
    <3>2. ASSUME NEW x \in ListingRecord
          PROVE  [x EXCEPT !.status = "pending_review", !.total = n] \in ListingRecord
      BY <3>1 DEF ListingRecord, ListingStatuses
    <3> QED
      BY <3>1, <3>2
  <2> QED
    BY <1>0, <1>10, <2>1 DEF AddStock, StockTypeOK
<1>11. ASSUME NEW s \in Sales, NEW l \in Listings, NEW n \in 1..MaxTotal, RecordSale(s, l, n)
       PROVE  StockTypeOK'
  <2> DEFINE x == Refreshed(l, listing[l])
             y == [x EXCEPT !.sold = @ + n]
  <2>1. x \in ListingRecord /\ RefreshedHolds(l) \in [Holds -> HoldRecord]
    BY RefreshTypes
  <2>2. y \in ListingRecord
    BY <2>1 DEF ListingRecord
  <2>3. /\ listing' = [listing EXCEPT ![l] = StockStatus(y)]
        /\ hold' = RefreshedHolds(l) /\ UNCHANGED <<supplier, standing>>
    BY <1>11 DEF RecordSale
  <2> HIDE DEF x, y
  <2>4. sale' \in [Sales -> SaleRecord]
    BY <1>0, <1>11 DEF RecordSale, SaleRecord
  <2> QED
    BY <1>0, <2>1, <2>2, <2>3, <2>4, StockStatusStock DEF StockTypeOK
<1>12. ASSUME NEW s \in Sales, ReverseSale(s)
       PROVE  StockTypeOK'
  <2> DEFINE l == sale[s].listing
             y == [listing[l] EXCEPT !.sold = listing[l].sold - sale[s].quantity]
  <2>1. l \in Listings /\ sale[s].quantity \in Int
    BY <1>0 DEF SaleRecord
  <2>2. y \in ListingRecord
    BY <1>0, <2>1 DEF ListingRecord
  <2>3. /\ listing' = [listing EXCEPT ![l] = StockStatus(y)]
        /\ UNCHANGED <<supplier, hold, standing>>
    BY <1>0, <1>12, <2>1 DEF ReverseSale
  <2>4. sale' \in [Sales -> SaleRecord]
    BY <1>0, <1>12 DEF ReverseSale, SaleRecord
  <2> HIDE DEF l, y
  <2> QED
    BY <1>0, <2>1, <2>2, <2>3, <2>4, StockStatusStock DEF StockTypeOK
<1>13. ASSUME NEW h \in Holds, NEW l \in Listings, NEW u \in Users, NEW n \in 1..MaxTotal,
              Reserve(h, l, u, n)
       PROVE  StockTypeOK'
  <2> DEFINE x == Refreshed(l, listing[l])
             y == [x EXCEPT !.reserved = @ + n]
  <2>1. x \in ListingRecord /\ RefreshedHolds(l) \in [Holds -> HoldRecord]
    BY RefreshTypes
  <2>2. y \in ListingRecord
    BY <2>1 DEF ListingRecord
  <2>3. /\ listing' = [listing EXCEPT ![l] = y]
        /\ hold' = [RefreshedHolds(l) EXCEPT ![h] =
              [status |-> "active", listing |-> l, buyer |-> u, quantity |-> n, lapsed |-> FALSE]]
        /\ UNCHANGED <<supplier, sale, standing>>
    BY <1>13 DEF Reserve
  <2> HIDE DEF x, y
  <2>4. hold' \in [Holds -> HoldRecord]
    BY <2>1, <2>3 DEF HoldRecord, HoldStatuses
  <2> QED
    BY <1>0, <2>2, <2>3, <2>4 DEF StockTypeOK
<1>14. ASSUME NEW h \in Holds, ReadReservation(h)
       PROVE  StockTypeOK'
  <2>1. hold[h].listing \in Listings /\ "released" \in HoldStatuses
    BY <1>0 DEF HoldRecord, HoldStatuses
  <2>2. /\ \/ ReleaseAfterRefresh(h, hold[h].listing, "released")
           \/ /\ listing' = [listing EXCEPT ![hold[h].listing] = Refreshed(hold[h].listing, @)]
              /\ hold' = RefreshedHolds(hold[h].listing)
        /\ UNCHANGED <<supplier, sale, standing>>
    BY <1>14 DEF ReadReservation
  <2>3. listing' \in [Listings -> ListingRecord] /\ hold' \in [Holds -> HoldRecord]
    BY <1>0, <2>1, <2>2, ReleaseTypes, RefreshTypes
  <2> QED
    BY <1>0, <2>2, <2>3 DEF StockTypeOK
<1>15. ASSUME NEW h \in Holds, ReleaseReservation(h)
       PROVE  StockTypeOK'
  <2>1. hold[h].listing \in Listings /\ hold[h].quantity \in Int
    BY <1>0 DEF HoldRecord
  <2>2. Freed(listing[hold[h].listing], hold[h].quantity) \in ListingRecord
    BY <1>0, <2>1, FreedStock
  <2>3. Ended(hold, {h}, "cancelled") \in [Holds -> HoldRecord]
    BY <1>0, EndedHolds DEF HoldStatuses
  <2> QED
    BY <1>0, <1>15, <2>2, <2>3 DEF ReleaseReservation, StockTypeOK
<1>16. ASSUME NEW h \in Holds, HoldLapses(h)
       PROVE  StockTypeOK'
  BY <1>0, <1>16 DEF HoldLapses, StockTypeOK, HoldRecord
<1> QED
  BY <1>1, <1>2, <1>3, <1>4, <1>5, <1>6, <1>7, <1>8, <1>9, <1>10, <1>11, <1>12, <1>13,
     <1>14, <1>15, <1>16 DEF StockNext

\* The statuses of an order, listed.
LEMMA OrderStatusesListed ==
    OrderStatuses = {"none", "reserved", "supply_confirmed", "pickup_scheduled", "collected",
                     "quality_checked", "in_transit", "delivered", "completed", "cancelled",
                     "payment_failed"}
BY DEF OrderStatuses, Transitions

\* Every order action keeps the types of all the variables.
LEMMA OrderTypeStep ==
    ASSUME TypeOK, OrderNext
    PROVE  TypeOK'
<1> USE StockAssumption
<1>0. /\ StockTypeOK
      /\ listing \in [Listings -> ListingRecord]
      /\ hold \in [Holds -> HoldRecord]
      /\ order \in [Holds -> OrderRecord]
      /\ payout \in [Holds -> PayoutRecord]
      /\ supplies \in [Suppliers -> Nat]
  BY DEF TypeOK, StockTypeOK
<1>a. \A h \in Holds : /\ hold[h].listing \in Listings
                       /\ hold[h].quantity \in 0..MaxTotal /\ hold[h].quantity \in Int
                       /\ SupplierOf[hold[h].listing] \in Suppliers
  BY <1>0 DEF HoldRecord, Suppliers
<1>b. ASSUME UNCHANGED stockVars PROVE StockTypeOK'
  BY <1>0, <1>b DEF StockTypeOK, stockVars
<1>c. ASSUME listing' \in [Listings -> ListingRecord], hold' \in [Holds -> HoldRecord],
             UNCHANGED <<supplier, sale, standing>>
      PROVE  StockTypeOK'
  BY <1>0, <1>c DEF StockTypeOK
<1>1. ASSUME NEW h \in Holds, Checkout(h)
      PROVE  TypeOK'
  <2> DEFINE l == hold[h].listing
             o == [NoOrder EXCEPT !.status = "reserved", !.due = hold[h].quantity]
  <2>1. Refreshed(l, listing[l]) \in ListingRecord /\ RefreshedHolds(l) \in [Holds -> HoldRecord]
    BY <1>a, RefreshTypes
  <2>2. o \in OrderRecord
    <3>1. NoOrder \in OrderRecord /\ hold[h].quantity \in 0..MaxTotal
      BY <1>a, OrderStatusesListed DEF NoOrder, OrderRecord, PaymentStatuses
    <3>2. ASSUME NEW r \in OrderRecord, NEW n \in 0..MaxTotal
          PROVE  [r EXCEPT !.status = "reserved", !.due = n] \in OrderRecord
      BY OrderStatusesListed DEF OrderRecord
    <3> QED
      BY <3>1, <3>2
  <2>3. Ended(RefreshedHolds(l), {h}, "confirmed") \in [Holds -> HoldRecord]
    BY <2>1, EndedHolds DEF HoldStatuses
  <2>4. /\ listing' = [listing EXCEPT ![l] = Refreshed(l, listing[l])]
        /\ hold' = Ended(RefreshedHolds(l), {h}, "confirmed")
        /\ order' = [order EXCEPT ![h] = o]
        /\ UNCHANGED <<supplier, sale, standing, payout, supplies>>
    BY <1>1 DEF Checkout
  <2> HIDE DEF l, o
  <2>5. StockTypeOK'
    BY <1>0, <1>c, <2>1, <2>3, <2>4
  <2> QED
    BY <1>0, <2>2, <2>4, <2>5 DEF TypeOK
<1>2. ASSUME NEW h \in Holds, CheckoutLate(h) \/ CheckoutStale(h)
      PROVE  TypeOK'
  <2>1. /\ \/ ReleaseAfterRefresh(h, hold[h].listing, "released")
           \/ /\ listing' = [listing EXCEPT ![hold[h].listing] = Refreshed(hold[h].listing, @)]
              /\ hold' = RefreshedHolds(hold[h].listing)
        /\ UNCHANGED <<supplier, sale, standing, order, payout, supplies>>
    BY <1>2 DEF CheckoutLate, CheckoutStale, orderVars
  <2>2. listing' \in [Listings -> ListingRecord] /\ hold' \in [Holds -> HoldRecord]
    <3>1. "released" \in HoldStatuses
      BY DEF HoldStatuses
    <3> QED
      BY <1>0, <1>a, <2>1, <3>1, ReleaseTypes, RefreshTypes
  <2> QED
    BY <1>0, <1>c, <2>1, <2>2 DEF TypeOK
<1>3. ASSUME NEW h \in Holds, NEW t \in OrderStatuses, Progress(h, t)
      PROVE  TypeOK'
  BY <1>0, <1>3, <1>b DEF TypeOK, Progress, OrderRecord
<1>4. ASSUME NEW h \in Holds, NEW n \in 0..MaxTotal, QualityCheck(h, n)
      PROVE  TypeOK'
  <2>1. order' \in [Holds -> OrderRecord]
    <3>1. ASSUME NEW r \in OrderRecord, NEW p \in PaymentStatuses
          PROVE  [r EXCEPT !.status = "quality_checked", !.checked = TRUE, !.accepted = n,
                           !.due = n, !.payment = p] \in OrderRecord
      BY OrderStatusesListed DEF OrderRecord
    <3>2. (IF n = 0 THEN "paid" ELSE order[h].payment) \in PaymentStatuses /\ order[h] \in OrderRecord
      BY <1>0 DEF OrderRecord, PaymentStatuses
    <3> QED
      BY <1>0, <1>4, <3>1, <3>2 DEF QualityCheck
  <2> QED
    BY <1>0, <1>4, <1>b, <2>1 DEF TypeOK, QualityCheck
<1>5. ASSUME NEW h \in Holds, NEW t \in Dropped, Drop(h, t)
      PROVE  TypeOK'
  <2> DEFINE l == hold[h].listing
  <2>1. Freed(listing[l], hold[h].quantity) \in ListingRecord
    BY <1>0, <1>a, FreedStock
  <2>2. Ended(hold, {h}, "cancelled") \in [Holds -> HoldRecord]
    BY <1>0, EndedHolds DEF HoldStatuses
  <2>3. listing' \in [Listings -> ListingRecord] /\ hold' \in [Holds -> HoldRecord]
    BY <1>0, <1>5, <2>1, <2>2 DEF Drop
  <2>4. order' \in [Holds -> OrderRecord]
    <3>1. ASSUME NEW r \in OrderRecord, NEW p \in PaymentStatuses
          PROVE  [r EXCEPT !.status = t, !.payment = p] \in OrderRecord
      BY OrderStatusesListed DEF OrderRecord, Dropped
    <3>2. /\ (IF t = "payment_failed" THEN "failed" ELSE order[h].payment) \in PaymentStatuses
          /\ order[h] \in OrderRecord
      BY <1>0 DEF OrderRecord, PaymentStatuses
    <3> QED
      BY <1>0, <1>5, <3>1, <3>2 DEF Drop
  <2> QED
    BY <1>0, <1>5, <1>c, <2>3, <2>4 DEF TypeOK, Drop
<1>6. ASSUME NEW h \in Holds, Deliver(h)
      PROVE  TypeOK'
  <2> DEFINE l == hold[h].listing
             n == order[h].accepted
             f == Freed(listing[l], hold[h].quantity)
             x == [f EXCEPT !.sold = @ + n]
             y == IF Available(x) = 0 THEN [x EXCEPT !.status = "sold_out"] ELSE x
  <2>1. n \in 0..MaxTotal
    BY <1>0 DEF OrderRecord
  <2>2. f \in ListingRecord
    BY <1>0, <1>a, FreedStock
  <2> HIDE DEF f
  <2>3. x \in ListingRecord
    BY <2>1, <2>2 DEF ListingRecord
  <2> HIDE DEF x
  <2>4. y \in ListingRecord
    BY <2>3 DEF ListingRecord, ListingStatuses
  <2>5. /\ listing' = [listing EXCEPT ![l] = y]
        /\ hold' = Ended(hold, {h}, "released")
        /\ UNCHANGED <<supplier, sale, standing>>
    BY <1>6 DEF Deliver, x, f
  <2>6. Ended(hold, {h}, "released") \in [Holds -> HoldRecord]
    BY <1>0, EndedHolds DEF HoldStatuses
  <2>7. order' \in [Holds -> OrderRecord]
    <3>1. ASSUME NEW r \in OrderRecord, NEW k \in Nat
          PROVE  [r EXCEPT !.status = "delivered", !.recognised = TRUE, !.sales = k] \in OrderRecord
      BY OrderStatusesListed DEF OrderRecord
    <3>2. /\ (IF n > 0 THEN order[h].sales + 1 ELSE order[h].sales) \in Nat
          /\ order[h] \in OrderRecord
      BY <1>0 DEF OrderRecord
    <3> QED
      BY <1>0, <1>6, <3>1, <3>2 DEF Deliver
  <2>8. payout' \in [Holds -> PayoutRecord]
    BY <1>0, <1>6, <2>1 DEF Deliver, PayoutRecord
  <2>9. supplies' \in [Suppliers -> Nat]
    BY <1>0, <1>a, <1>6 DEF Deliver
  <2> HIDE DEF y
  <2>10. StockTypeOK'
    BY <1>0, <1>c, <2>4, <2>5, <2>6
  <2> QED
    BY <2>7, <2>8, <2>9, <2>10 DEF TypeOK
<1>7. ASSUME NEW h \in Holds, Complete(h)
      PROVE  TypeOK'
  BY <1>0, <1>7, <1>b DEF TypeOK, Complete, OrderRecord, OrderStatuses, Transitions
<1>8. ASSUME NEW h \in Holds, NEW kind \in {"reopen", "return"}, ReverseDelivery(h, kind)
      PROVE  TypeOK'
  <2> DEFINE l == hold[h].listing
             back == IF order[h].sales > 0
                     THEN [listing[l] EXCEPT !.sold = listing[l].sold - order[h].accepted]
                     ELSE listing[l]
             x == IF kind = "reopen" THEN [back EXCEPT !.reserved = @ + hold[h].quantity] ELSE back
  <2>1. order[h].accepted \in 0..MaxTotal /\ order[h].sales \in Nat /\ listing[l] \in ListingRecord
    BY <1>0, <1>a DEF OrderRecord
  <2>2. back \in ListingRecord
    BY <2>1 DEF ListingRecord
  <2> HIDE DEF back
  <2>3. x \in ListingRecord
    BY <1>a, <2>2 DEF ListingRecord
  <2> HIDE DEF x
  <2>4. listing' = [listing EXCEPT ![l] = Relisted(x)]
    BY <1>0, <1>a, <1>8 DEF ReverseDelivery, x, back
  <2>5. hold' \in [Holds -> HoldRecord]
    BY <1>0, <1>8, EndedHolds DEF ReverseDelivery, HoldStatuses
  <2>6. order' \in [Holds -> OrderRecord]
    <3>1. ASSUME NEW r \in OrderRecord, NEW k \in Nat, NEW t \in {"in_transit", "cancelled"}
          PROVE  [r EXCEPT !.status = t, !.recognised = FALSE, !.sales = k] \in OrderRecord
      BY OrderStatusesListed DEF OrderRecord
    <3>2. /\ (IF order[h].sales > 0 THEN order[h].sales - 1 ELSE order[h].sales) \in Nat
          /\ order[h] \in OrderRecord
      BY <1>0 DEF OrderRecord
    <3>3. (IF kind = "reopen" THEN "in_transit" ELSE "cancelled") \in {"in_transit", "cancelled"}
      OBVIOUS
    <3> QED
      BY <1>0, <1>8, <3>1, <3>2, <3>3 DEF ReverseDelivery
  <2>7. payout' \in [Holds -> PayoutRecord]
    BY <1>0, <1>8 DEF ReverseDelivery, PayoutRecord
  <2>8. supplies' \in [Suppliers -> Nat]
    BY <1>0, <1>a, <1>8 DEF ReverseDelivery
  <2>9. Relisted(x) \in ListingRecord /\ UNCHANGED <<supplier, sale, standing>>
    BY <1>8, <2>3, RelistedStock DEF ReverseDelivery
  <2>10. StockTypeOK'
    BY <1>0, <1>c, <2>4, <2>5, <2>9
  <2> QED
    BY <2>6, <2>7, <2>8, <2>10 DEF TypeOK
<1>9. ASSUME NEW h \in Holds, NEW n \in 1..MaxTotal, Reconcile(h, n)
      PROVE  TypeOK'
  <2>1. order' \in [Holds -> OrderRecord]
    <3> DEFINE total == order[h].received + n
               p == IF total = order[h].due THEN "paid" ELSE "partial"
    <3>1. ASSUME NEW r \in OrderRecord, NEW m \in 0..MaxTotal, NEW q \in PaymentStatuses
          PROVE  [r EXCEPT !.received = m, !.payment = q] \in OrderRecord
      BY DEF OrderRecord
    <3>2. order[h] \in OrderRecord /\ p \in PaymentStatuses
      BY <1>0 DEF PaymentStatuses
    <3>3. total \in 0..MaxTotal
      BY <1>9, <3>2 DEF Reconcile, OrderRecord
    <3>4. order' = [order EXCEPT ![h] = [order[h] EXCEPT !.received = total, !.payment = p]]
      BY <1>0, <1>9 DEF Reconcile
    <3> HIDE DEF p, total
    <3> QED
      BY <1>0, <3>1, <3>2, <3>3, <3>4
  <2> QED
    BY <1>0, <1>9, <1>b, <2>1 DEF TypeOK, Reconcile
<1>10. ASSUME NEW h \in Holds, PaySettlement(h) \/ RefundSettlement(h)
       PROVE  TypeOK'
  <2>1. payout' \in [Holds -> PayoutRecord]
    BY <1>0, <1>10 DEF PaySettlement, RefundSettlement, PayoutRecord
  <2> QED
    BY <1>0, <1>10, <1>b, <2>1 DEF TypeOK, PaySettlement, RefundSettlement
<1> QED
  <2>1. "cancelled" \in Dropped
    BY DEF Dropped
  <2>2. {"supply_confirmed", "pickup_scheduled", "collected", "in_transit"} \subseteq OrderStatuses
    BY DEF OrderStatuses, Transitions
  <2>3. \A h \in Holds : BuyerCancel(h) => Drop(h, "cancelled")
    BY DEF BuyerCancel
  <2> QED
    BY <1>1, <1>2, <1>3, <1>4, <1>5, <1>6, <1>7, <1>8, <1>9, <1>10, <2>1, <2>2, <2>3 DEF OrderNext

\* Every step keeps the types.
LEMMA TypeStep ==
    ASSUME TypeOK, [Next]_vars
    PROVE  TypeOK'
<1>1. CASE StockNext /\ UNCHANGED orderVars
  BY <1>1, StockTypeStep DEF TypeOK, orderVars
<1>2. CASE OrderNext
  BY <1>2, OrderTypeStep
<1>3. CASE UNCHANGED vars
  BY <1>3 DEF TypeOK, StockTypeOK, vars, stockVars, orderVars
<1> QED
  BY <1>1, <1>2, <1>3 DEF Next

\* The initial state has the right types.
LEMMA TypeInit ==
    ASSUME Init
    PROVE  TypeOK
<1> USE StockAssumption
<1>1. StockTypeOK
  <2>1. NoListing \in ListingRecord
    BY DEF NoListing, ListingRecord, ListingStatuses
  <2>2. NoHold \in HoldRecord
    BY DEF NoHold, HoldRecord, HoldStatuses
  <2>3. NoSale \in SaleRecord
    BY DEF NoSale, SaleRecord
  <2> QED
    BY <2>1, <2>2, <2>3 DEF Init, StockInit, StockTypeOK, SupplierStatuses, Standings
<1>2. NoOrder \in OrderRecord
  BY DEF NoOrder, OrderRecord, OrderStatuses, Transitions, PaymentStatuses
<1> QED
  BY <1>1, <1>2 DEF Init, TypeOK, PayoutRecord

\* Every variable has its type in every reachable state.
THEOREM TypeCorrect == Spec => []TypeOK
<1> QED
  BY TypeInit, TypeStep, PTL DEF Spec

-----------------------------------------------------------------------------
(***************************************************************************)
(* What Orders promises of stock, holds and deliveries, proved for every   *)
(* set of listings, holds, sales and users.  The inductive invariant IInv  *)
(* is the conjunction of invariants TLC checks: a listing's balances are   *)
(* the sums of what stands behind them (ReservedIsHeld, SoldIsSold), and   *)
(* what stands behind them follows the order (HoldFollowsOrder,            *)
(* DeliveryCountsOnce).  None of them is inductive alone: a release is     *)
(* safe because the units it takes off are those of a hold that is counted,*)
(* a delivery because the order it delivers was not counted yet.           *)
(***************************************************************************)
IInv ==
    /\ TypeOK
    /\ ReservedIsHeld
    /\ SoldIsSold
    /\ NoOversell
    /\ HoldFollowsOrder
    /\ DeliveryCountsOnce

Counted == {"active", "confirmed"}
Gone == {"expired", "released", "cancelled"}

\* The holds Out leave their listings; what else is known of a hold stays.
Leave(Out) ==
    \A h \in Holds :
        /\ hold'[h].listing = hold[h].listing /\ hold'[h].quantity = hold[h].quantity
        /\ IF h \in Out THEN hold'[h].status \in Gone ELSE hold'[h].status = hold[h].status

\* The same, but only as far as the listings count holds.
Uncounted(Out) ==
    \A h \in Holds :
        /\ hold'[h].listing = hold[h].listing /\ hold'[h].quantity = hold[h].quantity
        /\ hold'[h].status \in Counted <=> hold[h].status \in Counted /\ h \notin Out

OutOf(Out, l) == {h \in Out : hold[h].listing = l}

-----------------------------------------------------------------------------
(* The sums, in a state and in the next.                                   *)

\* What the sums range over is finite.
LEMMA Finite ==
    ASSUME NEW l
    PROVE  /\ IsFiniteSet(HeldOn(l)) /\ IsFiniteSet(SoldByOrder(l)) /\ IsFiniteSet(SoldOutside(l))
           /\ IsFiniteSet(HeldOn(l)') /\ IsFiniteSet(SoldByOrder(l)') /\ IsFiniteSet(SoldOutside(l)')
<1>1. HeldOn(l) \subseteq Holds /\ SoldByOrder(l) \subseteq Holds /\ SoldOutside(l) \subseteq Sales
  BY DEF HeldOn, SoldByOrder, SoldOutside
<1>2. HeldOn(l)' \subseteq Holds /\ SoldByOrder(l)' \subseteq Holds /\ SoldOutside(l)' \subseteq Sales
  BY DEF HeldOn, SoldByOrder, SoldOutside
<1> QED
  BY <1>1, <1>2, StockAssumption, FS_Subset

\* ReservedIsHeld and SoldIsSold of the next state, with the prime inside.
LEMMA PrimedSums ==
    /\ ReservedIsHeld' <=>
         \A l \in Listings : listing'[l].reserved = Sum(HeldOn(l)', HoldQuantity')
    /\ SoldIsSold' <=>
         \A l \in Listings : listing'[l].sold = Sum(SoldByOrder(l)', AcceptedQuantity')
                                              + Sum(SoldOutside(l)', SaleQuantity')
BY DEF ReservedIsHeld, SoldIsSold, Sum, Units

\* When holds leave, the listing's sum loses their quantities.
LEMMA HeldLeave ==
    ASSUME TypeOK, NEW Out \in SUBSET Holds, \A h \in Out : hold[h].status \in Counted,
           Uncounted(Out), NEW l \in Listings
    PROVE  /\ Sum(HeldOn(l)', HoldQuantity')
                = Sum(HeldOn(l), HoldQuantity) - Sum(OutOf(Out, l), HoldQuantity)
           /\ Sum(OutOf(Out, l), HoldQuantity) \in Nat
<1>1. OutOf(Out, l) \in SUBSET HeldOn(l)
  BY DEF OutOf, HeldOn, Counted
<1>2. HeldOn(l)' = HeldOn(l) \ OutOf(Out, l)
  <2>1. \A h \in Holds : h \in HeldOn(l)' <=> h \in HeldOn(l) /\ h \notin OutOf(Out, l)
    BY DEF HeldOn, OutOf, Uncounted, Counted
  <2>2. HeldOn(l)' \subseteq Holds /\ HeldOn(l) \subseteq Holds
    BY DEF HeldOn
  <2> QED
    BY <2>1, <2>2
<1>3. HoldQuantity' = HoldQuantity
  BY DEF HoldQuantity, Uncounted
<1>4. Sum(HeldOn(l) \ OutOf(Out, l), HoldQuantity)
        = Sum(HeldOn(l), HoldQuantity) - Sum(OutOf(Out, l), HoldQuantity)
  BY <1>1, Finite, SumWithout
<1>5. IsFiniteSet(OutOf(Out, l))
  BY <1>1, Finite, FS_Subset
<1> QED
  BY <1>2, <1>3, <1>4, <1>5, SumType

\* Every listing that loses the units of the holds that leave it still
\* counts exactly its holds, and promises no more than before.
LEMMA ReleaseStep ==
    ASSUME TypeOK, TypeOK', ReservedIsHeld,
           NEW Out \in SUBSET Holds, \A h \in Out : hold[h].status \in Counted,
           Leave(Out) \/ Uncounted(Out),
           \A l \in Listings :
              listing'[l].reserved = listing[l].reserved - Sum(OutOf(Out, l), HoldQuantity)
    PROVE  ReservedIsHeld' /\ \A l \in Listings : listing'[l].reserved <= listing[l].reserved
<1>0. Uncounted(Out)
  BY DEF Leave, Uncounted, Gone, Counted
<1>1. ASSUME NEW l \in Listings
      PROVE  /\ listing'[l].reserved = Sum(HeldOn(l)', HoldQuantity')
             /\ listing'[l].reserved <= listing[l].reserved
  <2>1. /\ Sum(HeldOn(l)', HoldQuantity')
             = Sum(HeldOn(l), HoldQuantity) - Sum(OutOf(Out, l), HoldQuantity)
        /\ Sum(OutOf(Out, l), HoldQuantity) \in Nat
    BY <1>0, HeldLeave
  <2>2. listing[l].reserved = Sum(HeldOn(l), HoldQuantity)
    BY DEF ReservedIsHeld
  <2>3. listing[l].reserved \in Int
    BY DEF TypeOK, StockTypeOK, ListingRecord
  <2> QED
    BY <2>1, <2>2, <2>3
<1> QED
  BY <1>1, PrimedSums

\* Holds of one listing leave that listing only.
LEMMA OutOfOne ==
    ASSUME NEW Out \in SUBSET Holds, NEW l \in Listings, \A h \in Out : hold[h].listing = l
    PROVE  /\ OutOf(Out, l) = Out
           /\ \A m \in Listings : m # l => Sum(OutOf(Out, m), HoldQuantity) = 0
<1>1. OutOf(Out, l) = Out
  BY DEF OutOf
<1>2. \A m \in Listings : m # l => OutOf(Out, m) = {}
  BY DEF OutOf
<1> QED
  BY <1>1, <1>2, SumNone

\* The orders keep what they say of holds and deliveries when no order
\* changes and no hold of an order does.
LEMMA OrdersKept ==
    ASSUME IInv, TypeOK', UNCHANGED orderVars,
           \A h \in Holds :
              /\ hold'[h].status = "confirmed" <=> hold[h].status = "confirmed"
              /\ hold'[h].status \in {"none", "active"} => hold[h].status \in {"none", "active"}
              /\ hold[h].status # "none" =>
                    hold'[h].listing = hold[h].listing /\ hold'[h].quantity = hold[h].quantity
    PROVE  /\ HoldFollowsOrder' /\ DeliveryCountsOnce'
           /\ AcceptedQuantity' = AcceptedQuantity
           /\ \A l \in Listings : SoldByOrder(l)' = SoldByOrder(l)
<1> USE DEF IInv, orderVars
<1>1. DeliveryCountsOnce' /\ AcceptedQuantity' = AcceptedQuantity
  BY DEF DeliveryCountsOnce, AcceptedQuantity
<1>2. HoldFollowsOrder'
  <2> SUFFICES ASSUME NEW h \in Holds
               PROVE  /\ hold'[h].status = "confirmed" <=> order[h].status \in OnTheWay
                      /\ hold'[h].status \in {"none", "active"} => order[h] = NoOrder
                      /\ order[h].accepted <= hold'[h].quantity
    BY DEF HoldFollowsOrder
  <2>1. /\ hold[h].status = "confirmed" <=> order[h].status \in OnTheWay
        /\ hold[h].status \in {"none", "active"} => order[h] = NoOrder
        /\ order[h].accepted <= hold[h].quantity
    BY DEF HoldFollowsOrder
  <2>2. CASE hold[h].status = "none"
    <3>1. order[h].accepted = 0
      BY <2>1, <2>2 DEF NoOrder
    <3>2. hold'[h].quantity \in 0..MaxTotal
      BY DEF TypeOK, StockTypeOK, HoldRecord
    <3> QED
      BY <2>1, <2>2, <3>1, <3>2
  <2>3. CASE hold[h].status # "none"
    BY <2>1, <2>3
  <2> QED
    BY <2>2, <2>3
<1>3. ASSUME NEW l \in Listings
      PROVE  SoldByOrder(l)' = SoldByOrder(l)
  <2>1. \A h \in Holds : order[h].sales > 0 => hold[h].status # "none"
    BY DEF HoldFollowsOrder, NoOrder
  <2> QED
    BY <2>1 DEF SoldByOrder
<1> QED
  BY <1>1, <1>2, <1>3

\* NoOversell needs only that no promise exceeds the total: a balance that
\* is a sum is never negative.
LEMMA OversellStep ==
    ASSUME TypeOK', ReservedIsHeld', SoldIsSold',
           \A l \in Listings :
              /\ listing'[l].reserved + listing'[l].sold <= listing'[l].total
              /\ listing'[l].status = "none" => listing'[l].total = 0
    PROVE  NoOversell'
<1>1. ASSUME NEW l \in Listings
      PROVE  listing'[l].reserved >= 0 /\ listing'[l].sold >= 0
  <2>1. /\ Sum(HeldOn(l)', HoldQuantity') \in Nat
        /\ Sum(SoldByOrder(l)', AcceptedQuantity') \in Nat
        /\ Sum(SoldOutside(l)', SaleQuantity') \in Nat
    BY Finite, SumType
  <2> QED
    BY <2>1, PrimedSums
<1> QED
  BY <1>1 DEF NoOversell

\* The steps that only take open holds off listings, and change a listing
\* otherwise in its status, approval or confirmation.
LEMMA GivingBack ==
    ASSUME IInv, TypeOK', UNCHANGED <<sale, orderVars>>,
           NEW Out \in SUBSET Holds, \A h \in Out : hold[h].status = "active", Leave(Out),
           \A l \in Listings :
              /\ listing'[l].reserved = listing[l].reserved - Sum(OutOf(Out, l), HoldQuantity)
              /\ listing'[l].sold = listing[l].sold /\ listing'[l].total = listing[l].total
              /\ listing'[l].status = "none" => listing[l].status = "none"
    PROVE  IInv'
<1>1. ReservedIsHeld' /\ \A l \in Listings : listing'[l].reserved <= listing[l].reserved
  BY ReleaseStep DEF IInv, Counted
<1>2. /\ HoldFollowsOrder' /\ DeliveryCountsOnce'
      /\ AcceptedQuantity' = AcceptedQuantity
      /\ \A l \in Listings : SoldByOrder(l)' = SoldByOrder(l)
  BY OrdersKept DEF Leave, Gone
<1>3. SoldIsSold'
  <2>1. SaleQuantity' = SaleQuantity /\ \A l \in Listings : SoldOutside(l)' = SoldOutside(l)
    BY DEF SaleQuantity, SoldOutside
  <2> QED
    BY <1>2, <2>1, PrimedSums DEF IInv, SoldIsSold
<1>4. NoOversell'
  <2>1. ASSUME NEW l \in Listings
        PROVE  /\ listing'[l].reserved + listing'[l].sold <= listing'[l].total
               /\ listing'[l].status = "none" => listing'[l].total = 0
    <3>1. /\ listing[l].reserved \in Int /\ listing[l].sold \in Int /\ listing[l].total \in Int
          /\ listing'[l].reserved \in Int
      BY DEF IInv, TypeOK, StockTypeOK, ListingRecord
    <3>2. /\ listing[l].reserved + listing[l].sold <= listing[l].total
          /\ listing[l].status = "none" => listing[l].total = 0
      BY DEF IInv, NoOversell
    <3>3. listing'[l].reserved <= listing[l].reserved
      BY <1>1
    <3> QED
      BY <3>1, <3>2, <3>3
  <2> QED
    BY <1>1, <1>3, <2>1, OversellStep
<1> QED
  BY <1>1, <1>2, <1>3, <1>4 DEF IInv

\* The same when one listing changes.
LEMMA GivingBackOne ==
    ASSUME IInv, TypeOK', UNCHANGED <<sale, orderVars>>,
           NEW l \in Listings, NEW y, listing' = [listing EXCEPT ![l] = y],
           NEW Out \in SUBSET Holds,
           \A h \in Out : hold[h].status = "active" /\ hold[h].listing = l, Leave(Out),
           y.reserved = listing[l].reserved - Sum(Out, HoldQuantity),
           y.sold = listing[l].sold, y.total = listing[l].total,
           y.status = "none" => listing[l].status = "none"
    PROVE  IInv'
<1>1. /\ OutOf(Out, l) = Out
      /\ \A m \in Listings : m # l => Sum(OutOf(Out, m), HoldQuantity) = 0
  BY OutOfOne
<1>2. ASSUME NEW m \in Listings
      PROVE  /\ listing'[m].reserved = listing[m].reserved - Sum(OutOf(Out, m), HoldQuantity)
             /\ listing'[m].sold = listing[m].sold /\ listing'[m].total = listing[m].total
             /\ listing'[m].status = "none" => listing[m].status = "none"
  <2>1. listing \in [Listings -> ListingRecord] /\ listing[m].reserved \in Int
    BY DEF IInv, TypeOK, StockTypeOK, ListingRecord
  <2>2. CASE m = l
    BY <1>1, <2>1, <2>2
  <2>3. CASE m # l
    BY <1>1, <2>1, <2>3
  <2> QED
    BY <2>2, <2>3
<1> QED
  BY <1>2, GivingBack

\* A refresh takes the overdue holds, open holds all, off their listing.
LEMMA RefreshLeaves ==
    ASSUME TypeOK, NEW l \in Listings
    PROVE  /\ Overdue(l) \in SUBSET Holds
           /\ \A h \in Overdue(l) : hold[h].status = "active" /\ hold[h].listing = l
           /\ \A h \in Holds :
                /\ RefreshedHolds(l)[h].listing = hold[h].listing
                /\ RefreshedHolds(l)[h].quantity = hold[h].quantity
                /\ RefreshedHolds(l)[h].status =
                      IF h \in Overdue(l) THEN "expired" ELSE hold[h].status
           /\ Sum(Overdue(l), HoldQuantity) \in Nat
<1>1. hold \in [Holds -> HoldRecord] /\ "expired" \in HoldStatuses
  BY DEF TypeOK, StockTypeOK, HoldStatuses
<1>2. Overdue(l) \in SUBSET Holds
  BY DEF Overdue
<1>3. IsFiniteSet(Overdue(l))
  BY <1>2, StockAssumption, FS_Subset
<1> QED
  BY <1>1, <1>2, <1>3, EndedHolds, SumType DEF RefreshedHolds, Overdue

\* A listing in a state that differs from its refreshed one in status,
\* approval or confirmation: the steps that refresh one listing.
LEMMA RefreshStep ==
    ASSUME IInv, TypeOK', UNCHANGED <<sale, orderVars>>,
           NEW l \in Listings, NEW y, listing' = [listing EXCEPT ![l] = y],
           hold' = RefreshedHolds(l),
           y.reserved = listing[l].reserved - Sum(Overdue(l), HoldQuantity),
           y.sold = listing[l].sold, y.total = listing[l].total,
           y.status = "none" => listing[l].status = "none"
    PROVE  IInv'
<1>1. /\ Overdue(l) \in SUBSET Holds
      /\ \A h \in Overdue(l) : hold[h].status = "active" /\ hold[h].listing = l
      /\ Leave(Overdue(l))
  BY RefreshLeaves DEF IInv, Leave, Gone
<1> QED
  BY <1>1, GivingBackOne

\* A release after a refresh.
LEMMA ReleaseAfterRefreshStep ==
    ASSUME IInv, TypeOK', UNCHANGED <<sale, orderVars>>,
           NEW h \in Holds, hold[h].status = "active", h \notin Overdue(hold[h].listing),
           ReleaseAfterRefresh(h, hold[h].listing, "released")
    PROVE  IInv'
<1> DEFINE l == hold[h].listing
           Out == Overdue(l) \cup {h}
           x == Refreshed(l, listing[l])
           y == Freed(x, hold[h].quantity)
<1>0. TypeOK /\ l \in Listings /\ hold[h].quantity \in 0..MaxTotal /\ listing[l] \in ListingRecord
  BY DEF IInv, TypeOK, StockTypeOK, HoldRecord
<1>1. /\ listing' = [listing EXCEPT ![l] = y]
      /\ hold' = Ended(RefreshedHolds(l), {h}, "released")
  BY DEF ReleaseAfterRefresh
<1>2. /\ Overdue(l) \in SUBSET Holds /\ Sum(Overdue(l), HoldQuantity) \in Nat
      /\ \A k \in Overdue(l) : hold[k].status = "active" /\ hold[k].listing = l
      /\ \A k \in Holds :
            /\ RefreshedHolds(l)[k].listing = hold[k].listing
            /\ RefreshedHolds(l)[k].quantity = hold[k].quantity
            /\ RefreshedHolds(l)[k].status = IF k \in Overdue(l) THEN "expired" ELSE hold[k].status
  BY <1>0, RefreshLeaves
<1>3. Leave(Out)
  <2>1. RefreshedHolds(l) \in [Holds -> HoldRecord] /\ "released" \in HoldStatuses
    BY <1>0, RefreshTypes DEF HoldStatuses
  <2>2. \A k \in Holds :
          /\ hold'[k].listing = RefreshedHolds(l)[k].listing
          /\ hold'[k].quantity = RefreshedHolds(l)[k].quantity
          /\ hold'[k].status = IF k \in {h} THEN "released" ELSE RefreshedHolds(l)[k].status
    BY <1>1, <2>1, EndedHolds
  <2> QED
    BY <1>2, <2>2 DEF Leave, Gone
<1>4. Sum(Out, HoldQuantity) = Sum(Overdue(l), HoldQuantity) + hold[h].quantity
  <2>1. IsFiniteSet(Overdue(l)) /\ h \notin Overdue(l)
    BY <1>2, StockAssumption, FS_Subset
  <2>2. HoldQuantity[h] = hold[h].quantity /\ HoldQuantity[h] \in 0..MaxTotal
    BY <1>0 DEF HoldQuantity
  <2> QED
    BY <2>1, <2>2, SumWith
<1>5. /\ x \in ListingRecord /\ x.reserved = listing[l].reserved - Sum(Overdue(l), HoldQuantity)
      /\ x.sold = listing[l].sold /\ x.total = listing[l].total
      /\ (x.status = "none" <=> listing[l].status = "none")
  BY <1>0, RefreshedStock
<1> HIDE DEF x
<1>6. /\ y.reserved = x.reserved - hold[h].quantity /\ y.sold = x.sold /\ y.total = x.total
      /\ (y.status = "none" <=> x.status = "none")
  BY <1>0, <1>5, FreedStock
<1>7. y.reserved = listing[l].reserved - Sum(Out, HoldQuantity)
  BY <1>0, <1>2, <1>4, <1>5, <1>6 DEF ListingRecord
<1>8. Out \in SUBSET Holds /\ \A k \in Out : hold[k].status = "active" /\ hold[k].listing = l
  BY <1>2
<1> HIDE DEF y, l, Out
<1> QED
  BY <1>0, <1>1, <1>3, <1>5, <1>6, <1>7, <1>8, GivingBackOne

-----------------------------------------------------------------------------
(* The stock actions.                                                      *)

\* The steps of StockNext that take nothing but open holds off listings.
LEMMA StockReleases ==
    ASSUME IInv, TypeOK', UNCHANGED orderVars,
           NEW l \in Listings,
           \/ Approve(l) \/ RequestChanges(l) \/ UpdateMedia(l) \/ ConfirmationLapses(l)
           \/ Resume(l) \/ Resubmit(l) \/ Pause(l) \/ Confirm(l) \/ ReadListing(l)
           \/ TakeDown(l, "paused") \/ TakeDown(l, "rejected")
    PROVE  IInv'
<1>0. TypeOK /\ listing[l] \in ListingRecord /\ hold \in [Holds -> HoldRecord]
  BY DEF IInv, TypeOK, StockTypeOK
<1>1. ASSUME \/ Approve(l) \/ RequestChanges(l) \/ UpdateMedia(l) \/ ConfirmationLapses(l)
      PROVE  IInv'
  <2> DEFINE x == listing[l]
             y1 == [x EXCEPT !.status = "live", !.approved = TRUE, !.confirmed = TRUE]
             y2 == [x EXCEPT !.status = "changes_requested"]
             y3 == [x EXCEPT !.status = "pending_review", !.approved = FALSE]
             y4 == [x EXCEPT !.confirmed = FALSE]
             Like(y) == /\ y.reserved = x.reserved /\ y.sold = x.sold /\ y.total = x.total
                        /\ y.status = "none" => x.status = "none"
  <2>1. /\ \E y \in {y1, y2, y3, y4} : listing' = [listing EXCEPT ![l] = y]
        /\ UNCHANGED <<hold, sale>>
    BY <1>1 DEF Approve, RequestChanges, UpdateMedia, ConfirmationLapses
  <2>2. Like(y1) /\ Like(y2) /\ Like(y3) /\ Like(y4)
    <3>1. x \in ListingRecord
      BY <1>0
    <3> HIDE DEF x
    <3> QED
      BY <3>1 DEF ListingRecord
  <2> HIDE DEF y1, y2, y3, y4
  <2>3. PICK y : listing' = [listing EXCEPT ![l] = y] /\ Like(y)
    BY <2>1, <2>2
  <2>4. Leave({}) /\ Sum({}, HoldQuantity) = 0 /\ x.reserved \in Int
    BY <1>0, <2>1, SumNone DEF Leave, ListingRecord
  <2>5. y.reserved = listing[l].reserved - Sum({}, HoldQuantity)
    BY <2>3, <2>4
  <2>6. /\ y.sold = listing[l].sold /\ y.total = listing[l].total
        /\ y.status = "none" => listing[l].status = "none"
    BY <2>3
  <2>7. {} \in SUBSET Holds /\ UNCHANGED <<sale, orderVars>> /\ Leave({})
    BY <2>1, <2>4
  <2> HIDE DEF x
  <2> QED
    BY <2>3, <2>5, <2>6, <2>7, GivingBackOne
<1>2. CASE Resume(l)
  <2> DEFINE x == [listing[l] EXCEPT !.status = IF Available(listing[l]) > 0 THEN "live" ELSE "sold_out"]
             y == Refreshed(l, x)
  <2>1. /\ x \in ListingRecord /\ x.reserved = listing[l].reserved
        /\ x.sold = listing[l].sold /\ x.total = listing[l].total /\ x.status # "none"
    BY <1>0 DEF ListingRecord, ListingStatuses
  <2>2. listing' = [listing EXCEPT ![l] = y] /\ hold' = RefreshedHolds(l) /\ UNCHANGED sale
    BY <1>2 DEF Resume
  <2> HIDE DEF x
  <2>3. /\ y.reserved = listing[l].reserved - Sum(Overdue(l), HoldQuantity)
        /\ y.sold = listing[l].sold /\ y.total = listing[l].total /\ y.status # "none"
    BY <1>0, <2>1, RefreshedStock
  <2> HIDE DEF y
  <2> QED
    BY <2>2, <2>3, RefreshStep
<1>3. ASSUME Resubmit(l) \/ Pause(l) \/ Confirm(l) \/ ReadListing(l)
      PROVE  IInv'
  <2> DEFINE x == Refreshed(l, listing[l])
  <2>1. /\ x \in ListingRecord
        /\ x.reserved = listing[l].reserved - Sum(Overdue(l), HoldQuantity)
        /\ x.sold = listing[l].sold /\ x.total = listing[l].total
        /\ (x.status = "none" <=> listing[l].status = "none")
    BY <1>0, RefreshedStock
  <2> DEFINE y1 == [x EXCEPT !.status = "pending_review"]
             y2 == [x EXCEPT !.status = "paused"]
             y3 == [x EXCEPT !.confirmed = TRUE, !.status = IF Available(x) > 0 THEN "live" ELSE "sold_out"]
             Like(y) == /\ y.reserved = x.reserved /\ y.sold = x.sold /\ y.total = x.total
                        /\ y.status = "none" => x.status = "none"
  <2>2. /\ \E y \in {x, y1, y2, y3} : listing' = [listing EXCEPT ![l] = y]
        /\ hold' = RefreshedHolds(l) /\ UNCHANGED sale
    BY <1>3 DEF Resubmit, Pause, Confirm, ReadListing
  <2> HIDE DEF x
  <2>3. Like(x) /\ Like(y1) /\ Like(y2) /\ Like(y3)
    BY <2>1 DEF ListingRecord
  <2> HIDE DEF y1, y2, y3
  <2>4. PICK y : listing' = [listing EXCEPT ![l] = y] /\ Like(y)
    BY <2>2, <2>3
  <2> QED
    BY <2>1, <2>2, <2>4, RefreshStep
<1>4. ASSUME NEW st \in {"paused", "rejected"}, TakeDown(l, st)
      PROVE  IInv'
  <2> DEFINE Out == {h \in Holds : hold[h].status = "active" /\ hold[h].listing = l}
             x == listing[l]
             n == Sum(Out, HoldQuantity)
             y == [x EXCEPT !.status = st, !.reserved = x.reserved - n]
  <2>1. listing' = [listing EXCEPT ![l] = y] /\ hold' = Ended(hold, Out, "released") /\ UNCHANGED sale
    BY <1>4 DEF TakeDown
  <2>2. /\ Out \in SUBSET Holds
        /\ \A h \in Out : hold[h].status = "active" /\ hold[h].listing = l
    OBVIOUS
  <2>3. Leave(Out)
    BY <1>0, <2>1, EndedHolds DEF Leave, Gone, HoldStatuses
  <2>4. x \in ListingRecord
    BY <1>0
  <2> HIDE DEF Out, x, n
  <2>5. y.reserved = x.reserved - n /\ y.sold = x.sold /\ y.total = x.total /\ y.status # "none"
    BY <2>4 DEF ListingRecord
  <2> HIDE DEF y
  <2> QED
    BY <2>1, <2>2, <2>3, <2>5, GivingBackOne DEF n, x
<1> QED
  BY <1>1, <1>2, <1>3, <1>4

\* A step that refreshes one listing keeps the count of holds and the
\* orders, whatever it does to the listing's total and sold units.
LEMMA RefreshHeld ==
    ASSUME IInv, TypeOK', UNCHANGED orderVars,
           NEW l \in Listings, NEW y, listing' = [listing EXCEPT ![l] = y],
           hold' = RefreshedHolds(l),
           y.reserved = listing[l].reserved - Sum(Overdue(l), HoldQuantity)
    PROVE  /\ ReservedIsHeld' /\ HoldFollowsOrder' /\ DeliveryCountsOnce'
           /\ AcceptedQuantity' = AcceptedQuantity
           /\ \A m \in Listings : SoldByOrder(m)' = SoldByOrder(m)
<1>0. TypeOK /\ listing \in [Listings -> ListingRecord]
  BY DEF IInv, TypeOK, StockTypeOK
<1>1. /\ Overdue(l) \in SUBSET Holds
      /\ \A h \in Overdue(l) : hold[h].status = "active" /\ hold[h].listing = l
      /\ Leave(Overdue(l))
  BY <1>0, RefreshLeaves DEF Leave, Gone
<1>2. /\ OutOf(Overdue(l), l) = Overdue(l)
      /\ \A m \in Listings : m # l => Sum(OutOf(Overdue(l), m), HoldQuantity) = 0
  BY <1>1, OutOfOne
<1>3. ASSUME NEW m \in Listings
      PROVE  listing'[m].reserved = listing[m].reserved - Sum(OutOf(Overdue(l), m), HoldQuantity)
  <2>1. listing[m].reserved \in Int
    BY <1>0 DEF ListingRecord
  <2>2. CASE m = l
    BY <1>0, <1>2, <2>2
  <2>3. CASE m # l
    BY <1>0, <1>2, <2>1, <2>3
  <2> QED
    BY <2>2, <2>3
<1>4. ReservedIsHeld'
  BY <1>0, <1>1, <1>3, ReleaseStep DEF IInv, Counted
<1> QED
  BY <1>1, <1>4, OrdersKept DEF Leave, Gone

\* A step that touches no hold and no listing's reserved units.
LEMMA HeldUntouched ==
    ASSUME IInv, TypeOK', UNCHANGED <<hold, orderVars>>,
           \A l \in Listings : listing'[l].reserved = listing[l].reserved
    PROVE  /\ ReservedIsHeld' /\ HoldFollowsOrder' /\ DeliveryCountsOnce'
           /\ AcceptedQuantity' = AcceptedQuantity
           /\ \A l \in Listings : SoldByOrder(l)' = SoldByOrder(l)
<1>1. HoldQuantity' = HoldQuantity /\ \A l \in Listings : HeldOn(l)' = HeldOn(l)
  BY DEF HoldQuantity, HeldOn
<1>2. ReservedIsHeld'
  BY <1>1, PrimedSums DEF IInv, ReservedIsHeld
<1> QED
  BY <1>2, OrdersKept

\* A step that touches no sale and no delivery.
LEMMA SoldUntouched ==
    ASSUME IInv, UNCHANGED sale, AcceptedQuantity' = AcceptedQuantity,
           \A l \in Listings : SoldByOrder(l)' = SoldByOrder(l),
           \A l \in Listings : listing'[l].sold = listing[l].sold
    PROVE  SoldIsSold'
<1>1. SaleQuantity' = SaleQuantity /\ \A l \in Listings : SoldOutside(l)' = SoldOutside(l)
  BY DEF SaleQuantity, SoldOutside
<1> QED
  BY <1>1, PrimedSums DEF IInv, SoldIsSold

\* One listing changes, and promises no more than it has.
LEMMA OneWithin ==
    ASSUME IInv, TypeOK', ReservedIsHeld', SoldIsSold', HoldFollowsOrder', DeliveryCountsOnce',
           NEW l \in Listings, NEW y, listing' = [listing EXCEPT ![l] = y],
           y.reserved + y.sold <= y.total, y.status = "none" => y.total = 0
    PROVE  IInv'
<1>1. ASSUME NEW m \in Listings
      PROVE  /\ listing'[m].reserved + listing'[m].sold <= listing'[m].total
             /\ listing'[m].status = "none" => listing'[m].total = 0
  BY DEF IInv, NoOversell, TypeOK, StockTypeOK
<1>2. NoOversell'
  BY <1>1, OversellStep
<1> QED
  BY <1>2 DEF IInv

\* What IInv says of one listing.
LEMMA Balances ==
    ASSUME IInv, NEW l \in Listings
    PROVE  /\ TypeOK /\ listing \in [Listings -> ListingRecord] /\ hold \in [Holds -> HoldRecord]
           /\ sale \in [Sales -> SaleRecord] /\ order \in [Holds -> OrderRecord]
           /\ listing[l].reserved \in Nat /\ listing[l].sold \in Nat /\ listing[l].total \in Int
           /\ listing[l].reserved + listing[l].sold <= listing[l].total
           /\ listing[l].status = "none" => listing[l].total = 0
BY DEF IInv, TypeOK, StockTypeOK, ListingRecord, NoOversell

\* A listing's first stock.
LEMMA AddStockSafe ==
    ASSUME IInv, TypeOK', UNCHANGED orderVars, NEW l \in Listings, NEW n \in 1..MaxTotal,
           AddStock(l, n)
    PROVE  IInv'
<1> DEFINE y == [NoListing EXCEPT !.status = "pending_review", !.total = n]
<1>1. listing[l].reserved = 0 /\ listing[l].sold = 0
  <2>1. listing[l].status = "none"
    BY DEF AddStock
  <2>2. /\ listing[l].reserved \in Nat /\ listing[l].sold \in Nat
        /\ listing[l].reserved + listing[l].sold <= 0
    BY <2>1, Balances
  <2> QED
    BY <2>2
<1>2. listing' = [listing EXCEPT ![l] = y] /\ UNCHANGED <<hold, sale>>
  BY DEF AddStock
<1>3. y.reserved = 0 /\ y.sold = 0 /\ y.total = n /\ y.status # "none"
  BY DEF NoListing
<1>4. n \in Nat /\ 0 + 0 <= n
  BY StockAssumption
<1> HIDE DEF y
<1>5. \A m \in Listings : /\ listing'[m].reserved = listing[m].reserved
                          /\ listing'[m].sold = listing[m].sold
  BY <1>1, <1>2, <1>3, Balances
<1>6. /\ ReservedIsHeld' /\ HoldFollowsOrder' /\ DeliveryCountsOnce'
      /\ AcceptedQuantity' = AcceptedQuantity
      /\ \A m \in Listings : SoldByOrder(m)' = SoldByOrder(m)
  BY <1>2, <1>5, HeldUntouched
<1>7. SoldIsSold'
  BY <1>2, <1>5, <1>6, SoldUntouched
<1> QED
  BY <1>2, <1>3, <1>4, <1>6, <1>7, OneWithin

\* A stock count or an addition.
LEMMA CountSafe ==
    ASSUME IInv, TypeOK', UNCHANGED orderVars, NEW l \in Listings, NEW n \in 0..MaxTotal,
           CorrectStock(l, n) \/ (n > 0 /\ AddToStock(l, n))
    PROVE  IInv'
<1> DEFINE x == Refreshed(l, listing[l])
           y1 == [x EXCEPT !.total = n + x.sold]
           y2 == [x EXCEPT !.total = @ + n]
<1>0. n \in Nat
  BY StockAssumption
<1>1. /\ x \in ListingRecord
      /\ x.reserved = listing[l].reserved - Sum(Overdue(l), HoldQuantity)
      /\ x.sold = listing[l].sold /\ x.total = listing[l].total
      /\ (x.status = "none" <=> listing[l].status = "none")
  BY Balances, RefreshedStock
<1>2. /\ hold' = RefreshedHolds(l) /\ UNCHANGED sale /\ listing[l].status # "none"
      /\ \/ n >= x.reserved /\ listing' = [listing EXCEPT ![l] = StockStatus(y1)]
         \/ n > 0 /\ listing' = [listing EXCEPT ![l] = StockStatus(y2)]
  BY DEF CorrectStock, AddToStock
<1>3. Sum(Overdue(l), HoldQuantity) \in Nat
  BY Balances, RefreshLeaves
<1> HIDE DEF x
<1>4. /\ y1 \in ListingRecord /\ y1.reserved = x.reserved /\ y1.sold = x.sold
      /\ y1.total = n + x.sold /\ y1.status = x.status
  BY <1>0, <1>1 DEF ListingRecord
<1>5. /\ y2 \in ListingRecord /\ y2.reserved = x.reserved /\ y2.sold = x.sold
      /\ y2.total = x.total + n /\ y2.status = x.status
  BY <1>0, <1>1 DEF ListingRecord
<1> HIDE DEF y1, y2
<1>6. PICK y : /\ listing' = [listing EXCEPT ![l] = y]
               /\ y.reserved = x.reserved /\ y.sold = x.sold
               /\ (y.total = n + x.sold /\ n >= x.reserved) \/ y.total = x.total + n
               /\ y.status # "none"
  <2>1. CASE n >= x.reserved /\ listing' = [listing EXCEPT ![l] = StockStatus(y1)]
    BY <1>1, <1>2, <1>4, <2>1, StockStatusStock
  <2>2. CASE listing' = [listing EXCEPT ![l] = StockStatus(y2)]
    <3>1. /\ StockStatus(y2).reserved = x.reserved /\ StockStatus(y2).sold = x.sold
          /\ StockStatus(y2).total = x.total + n /\ StockStatus(y2).status # "none"
      BY <1>1, <1>2, <1>5, StockStatusStock
    <3> QED
      BY <2>2, <3>1
  <2> QED
    BY <1>2, <2>1, <2>2
<1>7. /\ ReservedIsHeld' /\ HoldFollowsOrder' /\ DeliveryCountsOnce'
      /\ AcceptedQuantity' = AcceptedQuantity
      /\ \A m \in Listings : SoldByOrder(m)' = SoldByOrder(m)
  BY <1>1, <1>2, <1>6, RefreshHeld
<1>8. SoldIsSold'
  <2>1. \A m \in Listings : listing'[m].sold = listing[m].sold
    BY <1>1, <1>6, Balances
  <2> QED
    BY <1>2, <1>7, <2>1, SoldUntouched
<1>9. y.reserved + y.sold <= y.total
  BY <1>0, <1>1, <1>3, <1>6, Balances
<1> QED
  BY <1>6, <1>7, <1>8, <1>9, OneWithin

\* A sale of the supplier's own.
LEMMA RecordSaleSafe ==
    ASSUME IInv, TypeOK', UNCHANGED orderVars, NEW s \in Sales, NEW l \in Listings,
           NEW n \in 1..MaxTotal, RecordSale(s, l, n)
    PROVE  IInv'
<1> DEFINE x == Refreshed(l, listing[l])
           y == [x EXCEPT !.sold = @ + n]
           z == StockStatus(y)
<1>0. n \in Nat /\ n \in 0..MaxTotal
  BY StockAssumption
<1>1. /\ x \in ListingRecord
      /\ x.reserved = listing[l].reserved - Sum(Overdue(l), HoldQuantity)
      /\ x.sold = listing[l].sold /\ x.total = listing[l].total
      /\ (x.status = "none" <=> listing[l].status = "none")
  BY Balances, RefreshedStock
<1>2. /\ hold' = RefreshedHolds(l) /\ listing[l].status # "none" /\ sale[s].status = "none"
      /\ listing' = [listing EXCEPT ![l] = z]
      /\ sale' = [sale EXCEPT ![s] = [status |-> "recorded", listing |-> l, quantity |-> n]]
      /\ n <= x.total - x.reserved - x.sold
  BY DEF RecordSale, Available
<1> HIDE DEF x
<1>3. /\ y \in ListingRecord /\ y.reserved = x.reserved /\ y.sold = x.sold + n
      /\ y.total = x.total /\ y.status = x.status
  BY <1>0, <1>1 DEF ListingRecord
<1> HIDE DEF y
<1>4. /\ z.reserved = x.reserved /\ z.sold = listing[l].sold + n
      /\ z.total = x.total /\ z.status # "none"
  BY <1>1, <1>2, <1>3, StockStatusStock
<1> HIDE DEF z
<1>5. /\ ReservedIsHeld' /\ HoldFollowsOrder' /\ DeliveryCountsOnce'
      /\ AcceptedQuantity' = AcceptedQuantity
      /\ \A m \in Listings : SoldByOrder(m)' = SoldByOrder(m)
  BY <1>1, <1>2, <1>4, RefreshHeld
<1>6. ASSUME NEW m \in Listings
      PROVE  Sum(SoldOutside(m)', SaleQuantity')
                = Sum(SoldOutside(m), SaleQuantity) + (IF m = l THEN n ELSE 0)
  <2>1. s \notin SoldOutside(m) /\ IsFiniteSet(SoldOutside(m)) /\ sale \in [Sales -> SaleRecord]
    BY <1>2, Finite, Balances DEF SoldOutside
  <2>2. \A k \in SoldOutside(m) : SaleQuantity'[k] = SaleQuantity[k]
    BY <1>2, <2>1 DEF SaleQuantity, SoldOutside
  <2>3. Sum(SoldOutside(m), SaleQuantity') = Sum(SoldOutside(m), SaleQuantity)
    BY <2>2, SumSame
  <2>4. SaleQuantity'[s] = n
    BY <1>2, <2>1 DEF SaleQuantity
  <2>5. SoldOutside(m)' = IF m = l THEN SoldOutside(m) \cup {s} ELSE SoldOutside(m)
    <3>1. \A k \in Sales : k \in SoldOutside(m)' <=> k \in SoldOutside(m) \/ (m = l /\ k = s)
      BY <1>2, <2>1 DEF SoldOutside
    <3>2. SoldOutside(m)' \subseteq Sales /\ SoldOutside(m) \subseteq Sales
      BY DEF SoldOutside
    <3> QED
      BY <3>1, <3>2
  <2>6. Sum(SoldOutside(m) \cup {s}, SaleQuantity') = Sum(SoldOutside(m), SaleQuantity') + n
    BY <1>0, <2>1, <2>4, SumWith
  <2>7. Sum(SoldOutside(m), SaleQuantity) \in Nat
    BY <2>1, SumType
  <2> QED
    BY <2>3, <2>5, <2>6, <2>7
<1>7. SoldIsSold'
  <2>1. ASSUME NEW m \in Listings
        PROVE  listing'[m].sold = Sum(SoldByOrder(m)', AcceptedQuantity')
                                  + Sum(SoldOutside(m)', SaleQuantity')
    <3>1. listing[m].sold = Sum(SoldByOrder(m), AcceptedQuantity) + Sum(SoldOutside(m), SaleQuantity)
      BY DEF IInv, SoldIsSold
    <3>2. listing'[m].sold = listing[m].sold + (IF m = l THEN n ELSE 0)
      BY <1>2, <1>4, Balances
    <3>3. Sum(SoldByOrder(m), AcceptedQuantity) \in Nat /\ Sum(SoldOutside(m), SaleQuantity) \in Nat
      BY Finite, SumType
    <3> QED
      BY <1>0, <1>5, <1>6, <3>1, <3>2, <3>3
  <2> QED
    BY <2>1, PrimedSums
<1>8. z.reserved + z.sold <= z.total
  <2>1. /\ x.reserved \in Int /\ x.sold \in Int /\ x.total \in Int
    BY <1>1 DEF ListingRecord
  <2> QED
    BY <1>0, <1>1, <1>2, <1>4, <2>1
<1> QED
  BY <1>2, <1>4, <1>5, <1>7, <1>8, OneWithin

\* A sale of the supplier's own taken back.
LEMMA ReverseSaleSafe ==
    ASSUME IInv, TypeOK', UNCHANGED orderVars, NEW s \in Sales, ReverseSale(s)
    PROVE  IInv'
<1> DEFINE l == sale[s].listing
           n == sale[s].quantity
           y == [listing[l] EXCEPT !.sold = listing[l].sold - n]
           z == StockStatus(y)
<1>0. /\ TypeOK /\ sale \in [Sales -> SaleRecord] /\ listing \in [Listings -> ListingRecord]
      /\ l \in Listings /\ n \in 0..MaxTotal /\ n \in Nat
  BY StockAssumption DEF IInv, TypeOK, StockTypeOK, SaleRecord
<1>1. /\ sale[s].status = "recorded" /\ listing' = [listing EXCEPT ![l] = z]
      /\ sale' = [sale EXCEPT ![s].status = "reversed"] /\ UNCHANGED hold
  BY DEF ReverseSale
<1>2. /\ y \in ListingRecord /\ y.reserved = listing[l].reserved /\ y.sold = listing[l].sold - n
      /\ y.total = listing[l].total /\ y.status = listing[l].status
  BY <1>0 DEF ListingRecord
<1> HIDE DEF y
<1>3. /\ z.reserved = listing[l].reserved /\ z.sold = listing[l].sold - n
      /\ z.total = listing[l].total /\ (z.status = "none" <=> listing[l].status = "none")
  BY <1>2, StockStatusStock
<1> HIDE DEF z
<1>4. /\ ReservedIsHeld' /\ HoldFollowsOrder' /\ DeliveryCountsOnce'
      /\ AcceptedQuantity' = AcceptedQuantity
      /\ \A m \in Listings : SoldByOrder(m)' = SoldByOrder(m)
  <2>1. \A m \in Listings : listing'[m].reserved = listing[m].reserved
    BY <1>0, <1>1, <1>3
  <2> QED
    BY <1>1, <2>1, HeldUntouched
<1>5. ASSUME NEW m \in Listings
      PROVE  Sum(SoldOutside(m)', SaleQuantity')
                = Sum(SoldOutside(m), SaleQuantity) - (IF m = l THEN n ELSE 0)
  <2>1. SaleQuantity' = SaleQuantity /\ SaleQuantity[s] = n
    BY <1>0, <1>1 DEF SaleQuantity
  <2>2. SoldOutside(m)' = IF m = l THEN SoldOutside(m) \ {s} ELSE SoldOutside(m)
    <3>1. \A k \in Sales : k \in SoldOutside(m)' <=> k \in SoldOutside(m) /\ k # s
      BY <1>0, <1>1 DEF SoldOutside
    <3>2. SoldOutside(m)' \subseteq Sales /\ SoldOutside(m) \subseteq Sales
      BY DEF SoldOutside
    <3>3. s \in SoldOutside(m) <=> m = l
      BY <1>1 DEF SoldOutside
    <3> QED
      BY <3>1, <3>2, <3>3
  <2>3. m = l => s \in SoldOutside(m)
    BY <1>1 DEF SoldOutside
  <2>4. IsFiniteSet(SoldOutside(m)) /\ Sum(SoldOutside(m), SaleQuantity) \in Nat
    BY Finite, SumType
  <2>5. m = l => Sum(SoldOutside(m) \ {s}, SaleQuantity) = Sum(SoldOutside(m), SaleQuantity) - n
    BY <1>0, <2>1, <2>3, <2>4, SumMember
  <2> QED
    BY <2>1, <2>2, <2>4, <2>5
<1>6. SoldIsSold'
  <2>1. ASSUME NEW m \in Listings
        PROVE  listing'[m].sold = Sum(SoldByOrder(m)', AcceptedQuantity')
                                  + Sum(SoldOutside(m)', SaleQuantity')
    <3>1. listing[m].sold = Sum(SoldByOrder(m), AcceptedQuantity) + Sum(SoldOutside(m), SaleQuantity)
      BY DEF IInv, SoldIsSold
    <3>2. listing'[m].sold = listing[m].sold - (IF m = l THEN n ELSE 0)
      BY <1>0, <1>1, <1>3, Balances
    <3>3. Sum(SoldByOrder(m), AcceptedQuantity) \in Nat /\ Sum(SoldOutside(m), SaleQuantity) \in Nat
      BY Finite, SumType
    <3> QED
      BY <1>0, <1>4, <1>5, <3>1, <3>2, <3>3
  <2> QED
    BY <2>1, PrimedSums
<1>7. z.reserved + z.sold <= z.total /\ (z.status = "none" => z.total = 0)
  BY <1>0, <1>3, Balances
<1> HIDE DEF l, n
<1> QED
  BY <1>0, <1>1, <1>4, <1>6, <1>7, OneWithin

\* A new checkout hold.
LEMMA ReserveSafe ==
    ASSUME IInv, TypeOK', UNCHANGED orderVars, NEW h \in Holds, NEW l \in Listings,
           NEW u \in Users, NEW n \in 1..MaxTotal, Reserve(h, l, u, n)
    PROVE  IInv'
<1> DEFINE x == Refreshed(l, listing[l])
           y == [x EXCEPT !.reserved = @ + n]
           new == [status |-> "active", listing |-> l, buyer |-> u, quantity |-> n, lapsed |-> FALSE]
<1>0. n \in Nat /\ n \in 0..MaxTotal /\ TypeOK
  BY StockAssumption DEF IInv
<1>1. /\ x \in ListingRecord
      /\ x.reserved = listing[l].reserved - Sum(Overdue(l), HoldQuantity)
      /\ x.sold = listing[l].sold /\ x.total = listing[l].total
      /\ (x.status = "none" <=> listing[l].status = "none")
  BY Balances, RefreshedStock
<1>2. /\ hold[h].status = "none" /\ x.status = "live" /\ n <= x.total - x.reserved - x.sold
      /\ listing' = [listing EXCEPT ![l] = y]
      /\ hold' = [RefreshedHolds(l) EXCEPT ![h] = new] /\ UNCHANGED sale
  BY DEF Reserve, Available, Fresh
<1> HIDE DEF x
<1>3. /\ y.reserved = x.reserved + n /\ y.sold = x.sold /\ y.total = x.total
      /\ y.status = x.status
  BY <1>0, <1>1 DEF ListingRecord
<1> HIDE DEF y
<1>4. /\ Overdue(l) \in SUBSET Holds /\ h \notin Overdue(l)
      /\ \A k \in Overdue(l) : hold[k].status = "active" /\ hold[k].listing = l
      /\ Sum(Overdue(l), HoldQuantity) \in Nat
  BY <1>0, <1>2, RefreshLeaves
<1>5. /\ hold'[h].status = "active" /\ hold'[h].listing = l /\ hold'[h].quantity = n
      /\ \A k \in Holds \ {h} :
            /\ hold'[k].listing = hold[k].listing /\ hold'[k].quantity = hold[k].quantity
            /\ hold'[k].status = IF k \in Overdue(l) THEN "expired" ELSE hold[k].status
  <2>1. RefreshedHolds(l) \in [Holds -> HoldRecord]
    BY <1>0, RefreshTypes
  <2> QED
    BY <1>0, <1>2, <2>1, RefreshLeaves
<1>6. /\ HoldFollowsOrder' /\ DeliveryCountsOnce'
      /\ AcceptedQuantity' = AcceptedQuantity
      /\ \A m \in Listings : SoldByOrder(m)' = SoldByOrder(m)
  <2>1. \A k \in Holds :
          /\ hold'[k].status = "confirmed" <=> hold[k].status = "confirmed"
          /\ hold'[k].status \in {"none", "active"} => hold[k].status \in {"none", "active"}
          /\ hold[k].status # "none" =>
                hold'[k].listing = hold[k].listing /\ hold'[k].quantity = hold[k].quantity
    <3>1. ASSUME NEW k \in Holds, k # h
          PROVE  /\ hold'[k].status = "confirmed" <=> hold[k].status = "confirmed"
                 /\ hold'[k].status \in {"none", "active"} => hold[k].status \in {"none", "active"}
                 /\ hold'[k].listing = hold[k].listing /\ hold'[k].quantity = hold[k].quantity
      BY <1>4, <1>5, <3>1
    <3> QED
      BY <1>2, <1>5, <3>1
  <2> QED
    BY <2>1, OrdersKept
<1>7. ASSUME NEW m \in Listings
      PROVE  Sum(HeldOn(m)', HoldQuantity')
                = Sum(HeldOn(m), HoldQuantity)
                  + (IF m = l THEN n - Sum(Overdue(l), HoldQuantity) ELSE 0)
  <2> DEFINE out == OutOf(Overdue(l), m)
             base == HeldOn(m) \ out
  <2>1. /\ h \notin HeldOn(m) /\ IsFiniteSet(HeldOn(m)) /\ out \in SUBSET HeldOn(m)
        /\ HeldOn(m) \subseteq Holds
    BY <1>2, <1>4, Finite DEF HeldOn, OutOf
  <2>2. /\ Sum(base, HoldQuantity) = Sum(HeldOn(m), HoldQuantity) - Sum(out, HoldQuantity)
        /\ IsFiniteSet(base)
    BY <2>1, SumWithout, FS_Subset
  <2>3. Sum(out, HoldQuantity) = IF m = l THEN Sum(Overdue(l), HoldQuantity) ELSE 0
    BY <1>4, OutOfOne
  <2>4. \A k \in base : HoldQuantity'[k] = HoldQuantity[k]
    BY <1>5, <2>1 DEF HoldQuantity
  <2>5. Sum(base, HoldQuantity') = Sum(base, HoldQuantity)
    BY <2>4, SumSame
  <2>6. HoldQuantity'[h] = n
    BY <1>5 DEF HoldQuantity
  <2>7. Sum(base \cup {h}, HoldQuantity') = Sum(base, HoldQuantity') + n
    BY <1>0, <2>1, <2>2, <2>6, SumWith
  <2>8. HeldOn(m)' = IF m = l THEN base \cup {h} ELSE base
    <3>1. \A k \in Holds : k \in HeldOn(m)' <=> k \in base \/ (m = l /\ k = h)
      <4>1. ASSUME NEW k \in Holds, k # h
            PROVE  k \in HeldOn(m)' <=> k \in base
        BY <1>4, <1>5, <4>1 DEF HeldOn, OutOf
      <4>2. h \in HeldOn(m)' <=> m = l
        BY <1>5 DEF HeldOn
      <4> QED
        BY <2>1, <4>1, <4>2
    <3>2. HeldOn(m)' \subseteq Holds
      BY DEF HeldOn
    <3> QED
      BY <2>1, <3>1, <3>2
  <2>9. Sum(HeldOn(m), HoldQuantity) \in Nat
    BY <2>1, SumType
  <2> HIDE DEF base, out
  <2> QED
    BY <1>0, <1>4, <2>2, <2>3, <2>5, <2>7, <2>8, <2>9
<1>8. ReservedIsHeld'
  <2>1. ASSUME NEW m \in Listings
        PROVE  listing'[m].reserved = Sum(HeldOn(m)', HoldQuantity')
    <3>1. listing[m].reserved = Sum(HeldOn(m), HoldQuantity) /\ listing[m].reserved \in Nat
      BY Balances DEF IInv, ReservedIsHeld
    <3>2. listing'[m].reserved = listing[m].reserved
             + (IF m = l THEN n - Sum(Overdue(l), HoldQuantity) ELSE 0)
      <4>1. CASE m = l
        BY <1>0, <1>1, <1>2, <1>3, <1>4, <3>1, <4>1, Balances
      <4>2. CASE m # l
        BY <1>2, <3>1, <4>2, Balances
      <4> QED
        BY <4>1, <4>2
    <3> QED
      BY <1>7, <3>1, <3>2
  <2> QED
    BY <2>1, PrimedSums
<1>9. SoldIsSold'
  <2>1. \A m \in Listings : listing'[m].sold = listing[m].sold
    BY <1>1, <1>2, <1>3, Balances
  <2> QED
    BY <1>2, <1>6, <2>1, SoldUntouched
<1>10. y.reserved + y.sold <= y.total /\ y.status # "none"
  <2>1. /\ x.reserved \in Int /\ x.sold \in Int /\ x.total \in Int
    BY <1>1 DEF ListingRecord
  <2> QED
    BY <1>0, <1>2, <1>3, <2>1
<1> QED
  BY <1>2, <1>6, <1>8, <1>9, <1>10, OneWithin

\* A hold given up: the buyer's own, or one an order drops.
LEMMA FreeOne ==
    ASSUME TypeOK, NEW h \in Holds
    PROVE  /\ {h} \in SUBSET Holds /\ Sum({h}, HoldQuantity) = hold[h].quantity
           /\ hold[h].listing \in Listings /\ hold[h].quantity \in Nat
           /\ \A st \in Gone : hold' = Ended(hold, {h}, st) => Leave({h})
           /\ LET x == listing[hold[h].listing]
                  y == Freed(x, hold[h].quantity)
              IN  /\ x \in ListingRecord /\ y \in ListingRecord
                  /\ y.reserved = x.reserved - hold[h].quantity
                  /\ y.sold = x.sold /\ y.total = x.total
                  /\ (y.status = "none" <=> x.status = "none")
<1>1. /\ hold \in [Holds -> HoldRecord] /\ hold[h].listing \in Listings
      /\ hold[h].quantity \in 0..MaxTotal /\ hold[h].quantity \in Nat
      /\ listing[hold[h].listing] \in ListingRecord
  BY StockAssumption DEF TypeOK, StockTypeOK, HoldRecord
<1>2. Sum({h}, HoldQuantity) = hold[h].quantity
  <2>1. HoldQuantity[h] = hold[h].quantity
    BY DEF HoldQuantity
  <2> QED
    BY <1>1, <2>1, SumOne
<1>3. ASSUME NEW st \in Gone, hold' = Ended(hold, {h}, st)
      PROVE  Leave({h})
  <2>1. st \in HoldStatuses
    BY DEF Gone, HoldStatuses
  <2> QED
    BY <1>1, <1>3, <2>1, EndedHolds DEF Leave
<1>4. /\ Freed(listing[hold[h].listing], hold[h].quantity) \in ListingRecord
      /\ Freed(listing[hold[h].listing], hold[h].quantity).reserved
            = listing[hold[h].listing].reserved - hold[h].quantity
      /\ Freed(listing[hold[h].listing], hold[h].quantity).sold = listing[hold[h].listing].sold
      /\ Freed(listing[hold[h].listing], hold[h].quantity).total = listing[hold[h].listing].total
      /\ (Freed(listing[hold[h].listing], hold[h].quantity).status = "none"
            <=> listing[hold[h].listing].status = "none")
  BY <1>1, FreedStock
<1> QED
  BY <1>1, <1>2, <1>3, <1>4

\* Every stock action keeps the invariant.
LEMMA StockStep ==
    ASSUME IInv, TypeOK', StockNext, UNCHANGED orderVars
    PROVE  IInv'
<1>0. /\ TypeOK /\ listing \in [Listings -> ListingRecord] /\ hold \in [Holds -> HoldRecord]
      /\ \A h \in Holds : hold[h].listing \in Listings
  BY DEF IInv, TypeOK, StockTypeOK, HoldRecord
<1>a. /\ \A l \in Listings : Sum(OutOf({}, l), HoldQuantity) = 0
      /\ {} \in SUBSET Holds
  BY SumNone DEF OutOf
<1>b. ASSUME UNCHANGED <<sale, hold>>,
             \A l \in Listings :
                /\ listing'[l].reserved = listing[l].reserved
                /\ listing'[l].sold = listing[l].sold /\ listing'[l].total = listing[l].total
                /\ listing'[l].status = "none" => listing[l].status = "none"
      PROVE  IInv'
  <2>1. Leave({})
    BY <1>b DEF Leave
  <2>2. \A l \in Listings :
          listing'[l].reserved = listing[l].reserved - Sum(OutOf({}, l), HoldQuantity)
    BY <1>0, <1>a, <1>b DEF ListingRecord
  <2> QED
    BY <1>a, <1>b, <2>1, <2>2, GivingBack
<1>1. ASSUME NEW u \in Suppliers, Onboard(u)
      PROVE  IInv'
  BY <1>1, <1>b DEF Onboard
<1>2. ASSUME NEW u \in Suppliers, NEW st \in SupplierStatuses, DecideSupplier(u, st)
      PROVE  IInv'
  <2>1. \A l \in Listings :
          \/ listing'[l] = [listing[l] EXCEPT !.status = "paused"]
          \/ listing'[l] = listing[l]
    BY <1>2 DEF DecideSupplier
  <2>2. ASSUME NEW l \in Listings
        PROVE  /\ listing'[l].reserved = listing[l].reserved
               /\ listing'[l].sold = listing[l].sold /\ listing'[l].total = listing[l].total
               /\ listing'[l].status = "none" => listing[l].status = "none"
    <3>1. listing[l] \in ListingRecord
      BY <1>0
    <3> QED
      BY <2>1, <3>1 DEF ListingRecord
  <2> QED
    BY <1>2, <1>b, <2>2 DEF DecideSupplier
<1>3. ASSUME NEW u \in Suppliers, ConfirmDue(u)
      PROVE  IInv'
  <2> DEFINE asked == {l \in Listings : SupplierOf[l] = u /\ listing[l].approved
                                   /\ listing[l].status \in {"live", "needs_confirmation"}}
             after(l) == LET x == Refreshed(l, listing[l])
                         IN  IF x.status = "needs_confirmation" /\ Available(x) > 0
                             THEN [x EXCEPT !.status = "live", !.confirmed = TRUE] ELSE x
             Out == UNION {Overdue(l) : l \in asked}
  <2>1. /\ listing' = [l \in Listings |-> IF l \in asked THEN after(l) ELSE listing[l]]
        /\ hold' = Ended(hold, Out, "expired")
        /\ UNCHANGED <<supplier, sale, standing>>
    BY <1>3 DEF ConfirmDue
  <2>2. ASSUME NEW l \in Listings
        PROVE  /\ after(l).reserved = listing[l].reserved - Sum(Overdue(l), HoldQuantity)
               /\ after(l).sold = listing[l].sold /\ after(l).total = listing[l].total
               /\ after(l).status = "none" => listing[l].status = "none"
    <3>1. /\ Refreshed(l, listing[l]) \in ListingRecord
          /\ Refreshed(l, listing[l]).reserved = listing[l].reserved - Sum(Overdue(l), HoldQuantity)
          /\ Refreshed(l, listing[l]).sold = listing[l].sold
          /\ Refreshed(l, listing[l]).total = listing[l].total
          /\ (Refreshed(l, listing[l]).status = "none" <=> listing[l].status = "none")
      BY <1>0, RefreshedStock
    <3> QED
      BY <3>1 DEF ListingRecord
  <2>3. \A l \in Listings : OutOf(Out, l) = IF l \in asked THEN Overdue(l) ELSE {}
    BY <1>0 DEF OutOf, Overdue
  <2>4. /\ Out \in SUBSET Holds /\ \A h \in Out : hold[h].status = "active"
    BY DEF Overdue
  <2> HIDE DEF after, asked, Out
  <2>5. Leave(Out)
    BY <1>0, <2>1, EndedHolds DEF Leave, Gone, HoldStatuses
  <2>6. ASSUME NEW l \in Listings
        PROVE  /\ listing'[l].reserved = listing[l].reserved - Sum(OutOf(Out, l), HoldQuantity)
               /\ listing'[l].sold = listing[l].sold /\ listing'[l].total = listing[l].total
               /\ listing'[l].status = "none" => listing[l].status = "none"
    <3>1. CASE l \in asked
      BY <2>1, <2>2, <2>3, <3>1
    <3>2. CASE l \notin asked
      <4>1. Sum(OutOf(Out, l), HoldQuantity) = 0 /\ listing[l].reserved \in Int
        BY <1>0, <2>3, <3>2, SumNone DEF ListingRecord
      <4> QED
        BY <2>1, <3>2, <4>1
    <3> QED
      BY <3>1, <3>2
  <2> QED
    BY <2>1, <2>4, <2>5, <2>6, GivingBack
<1>4. ASSUME NEW h \in Holds, ReadReservation(h)
      PROVE  IInv'
  <2>1. UNCHANGED sale
    BY <1>4 DEF ReadReservation
  <2>2. CASE hold[h].status = "active" /\ h \notin Overdue(hold[h].listing)
             /\ ReleaseAfterRefresh(h, hold[h].listing, "released")
    BY <2>1, <2>2, ReleaseAfterRefreshStep
  <2>3. CASE /\ listing' = [listing EXCEPT ![hold[h].listing] =
                               Refreshed(hold[h].listing, listing[hold[h].listing])]
             /\ hold' = RefreshedHolds(hold[h].listing)
    BY <1>0, <2>1, <2>3, RefreshedStock, RefreshStep
  <2> QED
    BY <1>0, <1>4, <2>2, <2>3 DEF ReadReservation
<1>5. ASSUME NEW h \in Holds, ReleaseReservation(h)
      PROVE  IInv'
  <2> DEFINE l == hold[h].listing
             y == Freed(listing[l], hold[h].quantity)
  <2>1. /\ hold[h].status = "active" /\ listing' = [listing EXCEPT ![l] = y]
        /\ hold' = Ended(hold, {h}, "cancelled") /\ UNCHANGED sale
    BY <1>0, <1>5 DEF ReleaseReservation
  <2>2. /\ {h} \in SUBSET Holds /\ Sum({h}, HoldQuantity) = hold[h].quantity /\ Leave({h})
        /\ l \in Listings /\ y.reserved = listing[l].reserved - hold[h].quantity
        /\ y.sold = listing[l].sold /\ y.total = listing[l].total
        /\ (y.status = "none" <=> listing[l].status = "none")
    BY <1>0, <2>1, FreeOne DEF Gone
  <2> HIDE DEF y
  <2> QED
    BY <2>1, <2>2, GivingBackOne
<1>6. ASSUME NEW h \in Holds, HoldLapses(h)
      PROVE  IInv'
  <2>1. Leave({}) /\ UNCHANGED <<listing, sale>>
    BY <1>0, <1>6 DEF HoldLapses, Leave
  <2>2. \A l \in Listings :
          listing'[l].reserved = listing[l].reserved - Sum(OutOf({}, l), HoldQuantity)
    BY <1>0, <1>a, <2>1 DEF ListingRecord
  <2> QED
    BY <1>a, <2>1, <2>2, GivingBack
<1>7. \A n \in 1..MaxTotal : n \in 0..MaxTotal /\ n > 0
  BY StockAssumption
<1> QED
  BY <1>1, <1>2, <1>3, <1>4, <1>5, <1>6, <1>7, StockReleases, CountSafe, AddStockSafe,
     RecordSaleSafe, ReverseSaleSafe, ReserveSafe DEF StockNext

-----------------------------------------------------------------------------
(* The order actions.                                                      *)

OnTheWayListed ==
    {"reserved", "supply_confirmed", "pickup_scheduled", "collected", "quality_checked", "in_transit"}

\* Where an order's next status can come from.
LEMMA Sources ==
    ASSUME TypeOK, NEW h \in Holds
    PROVE  /\ OnTheWay = OnTheWayListed
           /\ \A t \in OrderStatuses \ {"completed"} :
                May(h, t) => order[h].status \in OnTheWayListed
           /\ May(h, "completed") => order[h].status = "delivered"
<1>1. order[h].status \in OrderStatuses
  BY DEF TypeOK, OrderRecord
<1>2. OnTheWay = OnTheWayListed
  BY OrderStatusesListed DEF OnTheWay, OnTheWayListed, Recognised, Dropped
<1>3. \A s \in OrderStatuses :
        /\ Transitions[s] # {} => s \in OnTheWayListed \cup {"delivered"}
        /\ "completed" \in Transitions[s] => s = "delivered"
  BY OrderStatusesListed DEF Transitions, OnTheWayListed
<1>4. Transitions["delivered"] = {"completed"}
  BY DEF Transitions
<1> QED
  BY <1>1, <1>2, <1>3, <1>4 DEF May

\* One order changes: what the invariant says of the others stays.
LEMMA Follow ==
    ASSUME IInv, NEW h \in Holds,
           \A k \in Holds \ {h} :
              /\ order'[k] = order[k] /\ payout'[k] = payout[k]
              /\ hold'[k].quantity = hold[k].quantity
              /\ hold'[k].status = "confirmed" <=> hold[k].status = "confirmed"
              /\ hold'[k].status \in {"none", "active"} => hold[k].status \in {"none", "active"},
           /\ hold'[h].status = "confirmed" <=> order'[h].status \in OnTheWay
           /\ hold'[h].status \in {"none", "active"} => order'[h] = NoOrder
           /\ order'[h].accepted <= hold'[h].quantity,
           NEW owed, owed = (order'[h].status \in Recognised /\ order'[h].accepted > 0),
           /\ order'[h].recognised <=> order'[h].status \in Recognised
           /\ order'[h].sales = IF owed THEN 1 ELSE 0
           /\ payout'[h].status \in {"pending", "paid"} <=> owed
           /\ owed => payout'[h].quantity = order'[h].accepted
    PROVE  HoldFollowsOrder' /\ DeliveryCountsOnce'
<1>1. HoldFollowsOrder'
  <2>1. ASSUME NEW k \in Holds, k # h
        PROVE  /\ hold'[k].status = "confirmed" <=> order'[k].status \in OnTheWay
               /\ hold'[k].status \in {"none", "active"} => order'[k] = NoOrder
               /\ order'[k].accepted <= hold'[k].quantity
    BY <2>1 DEF IInv, HoldFollowsOrder
  <2> QED
    BY <2>1 DEF HoldFollowsOrder
<1>2. DeliveryCountsOnce'
  <2>1. ASSUME NEW k \in Holds, k # h
        PROVE  LET stands == order'[k].status \in Recognised
                   due == stands /\ order'[k].accepted > 0
               IN  /\ order'[k].recognised <=> stands
                   /\ order'[k].sales = IF due THEN 1 ELSE 0
                   /\ payout'[k].status \in {"pending", "paid"} <=> due
                   /\ due => payout'[k].quantity = order'[k].accepted
    BY <2>1 DEF IInv, DeliveryCountsOnce
  <2> QED
    BY <2>1 DEF DeliveryCountsOnce
<1> QED
  BY <1>1, <1>2

\* A step of the orders that touches no stock and no standing delivery.
LEMMA StockUntouched ==
    ASSUME IInv, TypeOK', UNCHANGED stockVars, HoldFollowsOrder', DeliveryCountsOnce',
           \A h \in Holds :
              /\ order'[h].sales = order[h].sales
              /\ order[h].sales > 0 => order'[h].accepted = order[h].accepted
    PROVE  IInv'
<1>1. /\ HoldQuantity' = HoldQuantity /\ \A l \in Listings : HeldOn(l)' = HeldOn(l)
      /\ SaleQuantity' = SaleQuantity /\ \A l \in Listings : SoldOutside(l)' = SoldOutside(l)
      /\ \A l \in Listings : SoldByOrder(l)' = SoldByOrder(l)
      /\ NoOversell' <=> NoOversell
  BY DEF stockVars, HoldQuantity, HeldOn, SaleQuantity, SoldOutside, SoldByOrder, NoOversell
<1>2. ASSUME NEW l \in Listings
      PROVE  Sum(SoldByOrder(l), AcceptedQuantity') = Sum(SoldByOrder(l), AcceptedQuantity)
  <2>1. \A h \in SoldByOrder(l) : AcceptedQuantity'[h] = AcceptedQuantity[h]
    BY DEF SoldByOrder, AcceptedQuantity
  <2> QED
    BY <2>1, SumSame
<1>3. ReservedIsHeld' /\ SoldIsSold'
  BY <1>1, <1>2, PrimedSums DEF IInv, ReservedIsHeld, SoldIsSold, stockVars
<1> QED
  BY <1>1, <1>3 DEF IInv

\* A step that neither delivers nor reverses anything.
LEMMA DeliveriesUntouched ==
    ASSUME \A h \in Holds :
              /\ order'[h].sales = order[h].sales /\ order'[h].accepted = order[h].accepted
              /\ hold'[h].listing = hold[h].listing
    PROVE  /\ AcceptedQuantity' = AcceptedQuantity
           /\ \A l \in Listings : SoldByOrder(l)' = SoldByOrder(l)
BY DEF AcceptedQuantity, SoldByOrder

\* One delivery joins, or leaves, what its listing counts as sold.
LEMMA DeliveriesOne ==
    ASSUME NEW h \in Holds, NEW l \in Listings, hold[h].listing = l,
           order[h].accepted \in 0..MaxTotal,
           \A k \in Holds :
              /\ order'[k].accepted = order[k].accepted /\ hold'[k].listing = hold[k].listing
              /\ k # h => order'[k].sales = order[k].sales,
           NEW m \in Listings
    PROVE  /\ /\ order[h].sales = 0
              /\ order'[h].sales = IF order[h].accepted > 0 THEN 1 ELSE 0
              => Sum(SoldByOrder(m)', AcceptedQuantity')
                   = Sum(SoldByOrder(m), AcceptedQuantity)
                     + (IF m = l THEN order[h].accepted ELSE 0)
           /\ order[h].sales = 1 /\ order'[h].sales = 0
              => Sum(SoldByOrder(m)', AcceptedQuantity')
                   = Sum(SoldByOrder(m), AcceptedQuantity)
                     - (IF m = l THEN order[h].accepted ELSE 0)
<1> DEFINE n == order[h].accepted
           S == SoldByOrder(m)
           T == SoldByOrder(m)'
           q == AcceptedQuantity
<1>0. n \in Nat /\ n \in 0..MaxTotal
  BY StockAssumption
<1>1. AcceptedQuantity' = q /\ q[h] = n
  BY DEF AcceptedQuantity
<1>2. T \subseteq Holds /\ S \subseteq Holds /\ IsFiniteSet(S) /\ Sum(S, q) \in Nat
  BY Finite, SumType DEF SoldByOrder
<1>3. \A k \in Holds \ {h} : k \in T <=> k \in S
  BY DEF SoldByOrder
<1>4. h \in T <=> m = l /\ order'[h].sales > 0
  BY DEF SoldByOrder
<1>5. h \in S <=> m = l /\ order[h].sales > 0
  BY DEF SoldByOrder
<1> HIDE DEF S, T, q, n
<1>6. ASSUME order[h].sales = 0, order'[h].sales = IF n > 0 THEN 1 ELSE 0
      PROVE  Sum(T, q) = Sum(S, q) + (IF m = l THEN n ELSE 0)
  <2>1. CASE m = l /\ n > 0
    <3>1. h \in T /\ h \notin S
      BY <1>4, <1>5, <1>6, <2>1
    <3>2. T = S \cup {h}
      BY <1>2, <1>3, <3>1
    <3>3. Sum(S \cup {h}, q) = Sum(S, q) + n
      BY <1>0, <1>1, <1>2, <3>1, SumWith
    <3> QED
      BY <2>1, <3>2, <3>3
  <2>2. CASE ~(m = l /\ n > 0)
    <3>1. h \notin T /\ h \notin S
      BY <1>4, <1>5, <1>6, <2>2
    <3>2. T = S
      <4>1. T \subseteq S /\ S \subseteq T
        BY <1>2, <1>3, <3>1
      <4> QED
        BY <4>1, Zenon
    <3>3. (IF m = l THEN n ELSE 0) = 0
      BY <1>0, <2>2
    <3> QED
      BY <1>2, <3>2, <3>3
  <2> QED
    BY <2>1, <2>2
<1>7. ASSUME order[h].sales = 1, order'[h].sales = 0
      PROVE  Sum(T, q) = Sum(S, q) - (IF m = l THEN n ELSE 0)
  <2>1. CASE m = l
    <3>1. h \notin T /\ h \in S
      BY <1>4, <1>5, <1>7, <2>1
    <3>2. T = S \ {h}
      BY <1>2, <1>3, <3>1
    <3>3. Sum(S \ {h}, q) = Sum(S, q) - n
      BY <1>0, <1>1, <1>2, <3>1, SumMember
    <3> QED
      BY <2>1, <3>2, <3>3
  <2>2. CASE m # l
    <3>1. h \notin T /\ h \notin S
      BY <1>4, <1>5, <2>2
    <3>2. T = S
      <4>1. T \subseteq S /\ S \subseteq T
        BY <1>2, <1>3, <3>1
      <4> QED
        BY <4>1, Zenon
    <3> QED
      BY <1>2, <2>2, <3>2
  <2> QED
    BY <2>1, <2>2
<1> QED
  BY <1>1, <1>6, <1>7 DEF n, S, T, q

\* What the invariant says of one order.
LEMMA OneOrder ==
    ASSUME IInv, NEW h \in Holds
    PROVE  /\ order[h] \in OrderRecord /\ payout[h] \in PayoutRecord /\ hold[h] \in HoldRecord
           /\ order[h].accepted \in Nat /\ hold[h].quantity \in Nat
           /\ hold[h].status = "confirmed" <=> order[h].status \in OnTheWay
           /\ hold[h].status \in {"none", "active"} => order[h] = NoOrder
           /\ order[h].accepted <= hold[h].quantity
           /\ order[h].recognised <=> order[h].status \in Recognised
           /\ order[h].sales = IF order[h].status \in Recognised /\ order[h].accepted > 0
                               THEN 1 ELSE 0
           /\ payout[h].status \in {"pending", "paid"}
                <=> order[h].status \in Recognised /\ order[h].accepted > 0
           /\ order[h].status \in Recognised /\ order[h].accepted > 0
                => payout[h].quantity = order[h].accepted
BY StockAssumption DEF IInv, TypeOK, StockTypeOK, HoldFollowsOrder, DeliveryCountsOnce, OrderRecord,
   HoldRecord

\* Progress, quality check, completion and the money.
LEMMA PaperSafe ==
    ASSUME IInv, TypeOK', NEW h \in Holds,
           \/ \E t \in {"supply_confirmed", "pickup_scheduled", "collected", "in_transit"} : Progress(h, t)
           \/ \E n \in 0..MaxTotal : QualityCheck(h, n)
           \/ Complete(h) \/ PaySettlement(h) \/ RefundSettlement(h)
           \/ \E n \in 1..MaxTotal : Reconcile(h, n)
    PROVE  IInv'
<1>0. /\ TypeOK /\ order \in [Holds -> OrderRecord] /\ payout \in [Holds -> PayoutRecord]
  BY DEF IInv, TypeOK
<1>a. OnTheWay = OnTheWayListed
  BY <1>0, Sources
<1>b. ASSUME NEW o, NEW p, UNCHANGED stockVars,
             order' = [order EXCEPT ![h] = o], payout' = [payout EXCEPT ![h] = p],
             o.status \in OnTheWay <=> order[h].status \in OnTheWay,
             o.status \in Recognised <=> order[h].status \in Recognised,
             order[h] = NoOrder => o = NoOrder,
             o.sales = order[h].sales, o.recognised = order[h].recognised,
             \/ o.accepted = order[h].accepted
             \/ order[h].status \in OnTheWay /\ o.accepted <= hold[h].quantity,
             p.quantity = payout[h].quantity,
             p.status \in {"pending", "paid"} <=> payout[h].status \in {"pending", "paid"}
      PROVE  IInv'
  <2>1. OnTheWay \cap Recognised = {}
    BY DEF OnTheWay
  <2>2. order'[h] = o /\ payout'[h] = p
    BY <1>0, <1>b
  <2>3. \A k \in Holds \ {h} : order'[k] = order[k] /\ payout'[k] = payout[k]
    BY <1>0, <1>b
  <2>4. UNCHANGED hold
    BY <1>b DEF stockVars
  <2>5. /\ hold[h].status = "confirmed" <=> o.status \in OnTheWay
        /\ hold[h].status \in {"none", "active"} => o = NoOrder
        /\ o.accepted <= hold[h].quantity
    BY <1>b, OneOrder
  <2>6. /\ o.recognised <=> o.status \in Recognised
        /\ o.sales = IF o.status \in Recognised /\ o.accepted > 0 THEN 1 ELSE 0
        /\ p.status \in {"pending", "paid"} <=> o.status \in Recognised /\ o.accepted > 0
        /\ o.status \in Recognised /\ o.accepted > 0 => p.quantity = o.accepted
    BY <1>b, <2>1, OneOrder
  <2>7. HoldFollowsOrder' /\ DeliveryCountsOnce'
    BY <2>2, <2>3, <2>4, <2>5, <2>6, Follow
  <2>8. order[h].sales > 0 => o.accepted = order[h].accepted
    BY <1>b, <2>1, OneOrder
  <2> QED
    BY <1>b, <2>2, <2>3, <2>7, <2>8, StockUntouched
<1>c. order[h].status \in OnTheWay => order[h] # NoOrder
  BY <1>a DEF NoOrder, OnTheWayListed
<1>d. payout = [payout EXCEPT ![h] = payout[h]] /\ order = [order EXCEPT ![h] = order[h]]
  BY <1>0
<1>1. ASSUME NEW t \in {"supply_confirmed", "pickup_scheduled", "collected", "in_transit"},
             Progress(h, t)
      PROVE  IInv'
  <2> DEFINE o == [order[h] EXCEPT !.status = t]
  <2>1. order[h].status \in OnTheWay /\ t \in OnTheWay
    BY <1>0, <1>1, Sources, OrderStatusesListed DEF Progress, OnTheWayListed
  <2>2. order' = [order EXCEPT ![h] = o] /\ UNCHANGED <<stockVars, payout>>
    BY <1>0, <1>1 DEF Progress
  <2>3. /\ o.status = t /\ o.sales = order[h].sales /\ o.recognised = order[h].recognised
        /\ o.accepted = order[h].accepted
    BY <1>0 DEF OrderRecord
  <2>4. t \notin Recognised /\ order[h].status \notin Recognised
    BY <2>1 DEF OnTheWay
  <2> HIDE DEF o
  <2> QED
    BY <1>b, <1>c, <1>d, <2>1, <2>2, <2>3, <2>4
<1>2. ASSUME NEW n \in 0..MaxTotal, QualityCheck(h, n)
      PROVE  IInv'
  <2> DEFINE pay == IF n = 0 THEN "paid" ELSE order[h].payment
             o == [order[h] EXCEPT !.status = "quality_checked", !.checked = TRUE,
                     !.accepted = n, !.due = n, !.payment = pay]
  <2>1. order[h].status \in OnTheWay /\ "quality_checked" \in OnTheWay /\ n <= hold[h].quantity
    BY <1>0, <1>2, Sources, OrderStatusesListed DEF QualityCheck, OnTheWayListed
  <2>2. order' = [order EXCEPT ![h] = o] /\ UNCHANGED <<stockVars, payout>>
    BY <1>0, <1>2 DEF QualityCheck
  <2> HIDE DEF pay
  <2>3. /\ o.status = "quality_checked" /\ o.sales = order[h].sales
        /\ o.recognised = order[h].recognised /\ o.accepted = n
    BY <1>0 DEF OrderRecord
  <2>4. "quality_checked" \notin Recognised /\ order[h].status \notin Recognised
    BY <2>1 DEF OnTheWay
  <2> HIDE DEF o
  <2> QED
    BY <1>b, <1>c, <1>d, <2>1, <2>2, <2>3, <2>4
<1>3. ASSUME Complete(h)
      PROVE  IInv'
  <2> DEFINE o == [order[h] EXCEPT !.status = "completed"]
  <2>1. order[h].status = "delivered"
    BY <1>0, <1>3, Sources DEF Complete
  <2>2. order' = [order EXCEPT ![h] = o] /\ UNCHANGED <<stockVars, payout>>
    BY <1>0, <1>3 DEF Complete
  <2>3. /\ o.status = "completed" /\ o.sales = order[h].sales
        /\ o.recognised = order[h].recognised /\ o.accepted = order[h].accepted
    BY <1>0 DEF OrderRecord
  <2>4. /\ {"delivered", "completed"} \subseteq Recognised
        /\ "delivered" \notin OnTheWay /\ "completed" \notin OnTheWay
        /\ order[h] # NoOrder
    BY <2>1 DEF OnTheWay, Recognised, NoOrder
  <2> HIDE DEF o
  <2> QED
    BY <1>b, <1>d, <2>1, <2>2, <2>3, <2>4
<1>4. ASSUME NEW n \in 1..MaxTotal, Reconcile(h, n)
      PROVE  IInv'
  <2> DEFINE total == order[h].received + n
             pay == IF total = order[h].due THEN "paid" ELSE "partial"
             o == [order[h] EXCEPT !.received = total, !.payment = pay]
  <2>1. order[h].status \in Recognised /\ order[h] # NoOrder
    <3>1. order[h].status \in {"delivered", "completed"} /\ NoOrder.status = "none"
      BY <1>4 DEF Reconcile, Recognised, NoOrder
    <3> QED
      BY <3>1 DEF Recognised
  <2>2. order' = [order EXCEPT ![h] = o] /\ UNCHANGED <<stockVars, payout>>
    BY <1>0, <1>4 DEF Reconcile
  <2> HIDE DEF pay, total
  <2>3. /\ o.status = order[h].status /\ o.sales = order[h].sales
        /\ o.recognised = order[h].recognised /\ o.accepted = order[h].accepted
    BY <1>0 DEF OrderRecord
  <2> HIDE DEF o
  <2> QED
    BY <1>b, <1>d, <2>1, <2>2, <2>3
<1>5. ASSUME PaySettlement(h) \/ RefundSettlement(h)
      PROVE  IInv'
  <2>1. PICK st \in {"pending", "paid"} : payout' = [payout EXCEPT ![h] = [payout[h] EXCEPT !.status = st]]
    BY <1>0, <1>5 DEF PaySettlement, RefundSettlement
  <2> DEFINE p == [payout[h] EXCEPT !.status = st]
  <2>2. p.status = st /\ p.quantity = payout[h].quantity
    BY <1>0 DEF PayoutRecord
  <2>3. /\ UNCHANGED <<stockVars, order>> /\ payout' = [payout EXCEPT ![h] = p]
        /\ payout[h].status \in {"pending", "paid"}
    BY <1>5, <2>1 DEF PaySettlement, RefundSettlement
  <2> HIDE DEF p
  <2> QED
    BY <1>b, <1>d, <2>2, <2>3
<1> QED
  BY <1>1, <1>2, <1>3, <1>4, <1>5

\* A hold becomes an order's.
LEMMA CheckoutSafe ==
    ASSUME IInv, TypeOK', NEW h \in Holds, Checkout(h)
    PROVE  IInv'
<1> DEFINE l == hold[h].listing
           x == Refreshed(l, listing[l])
           o == [NoOrder EXCEPT !.status = "reserved", !.due = hold[h].quantity]
<1>0. TypeOK /\ l \in Listings /\ listing[l] \in ListingRecord /\ order \in [Holds -> OrderRecord]
  BY DEF IInv, TypeOK, StockTypeOK, HoldRecord
<1>1. /\ hold[h].status = "active" /\ h \notin Overdue(l)
      /\ listing' = [listing EXCEPT ![l] = x]
      /\ hold' = Ended(RefreshedHolds(l), {h}, "confirmed")
      /\ order' = [order EXCEPT ![h] = o]
      /\ UNCHANGED <<sale, payout>>
  BY DEF Checkout
<1>2. /\ x.reserved = listing[l].reserved - Sum(Overdue(l), HoldQuantity)
      /\ x.sold = listing[l].sold /\ x.total = listing[l].total /\ x.reserved \in Int
      /\ (x.status = "none" <=> listing[l].status = "none")
  BY <1>0, RefreshedStock DEF ListingRecord
<1>3. /\ Overdue(l) \in SUBSET Holds /\ Sum(Overdue(l), HoldQuantity) \in Nat
      /\ \A k \in Overdue(l) : hold[k].status = "active" /\ hold[k].listing = l
      /\ \A k \in Holds :
            /\ hold'[k].listing = hold[k].listing /\ hold'[k].quantity = hold[k].quantity
            /\ hold'[k].status = IF k = h THEN "confirmed"
                                 ELSE IF k \in Overdue(l) THEN "expired" ELSE hold[k].status
  <2>1. RefreshedHolds(l) \in [Holds -> HoldRecord] /\ "confirmed" \in HoldStatuses
    BY <1>0, RefreshTypes DEF HoldStatuses
  <2>2. \A k \in Holds :
          /\ hold'[k].listing = RefreshedHolds(l)[k].listing
          /\ hold'[k].quantity = RefreshedHolds(l)[k].quantity
          /\ hold'[k].status = IF k \in {h} THEN "confirmed" ELSE RefreshedHolds(l)[k].status
    BY <1>1, <2>1, EndedHolds
  <2> QED
    BY <1>0, <2>2, RefreshLeaves
<1> HIDE DEF x
<1>4. Uncounted(Overdue(l))
  BY <1>1, <1>3 DEF Uncounted, Counted
<1>5. \A m \in Listings : listing'[m].reserved
                             = listing[m].reserved - Sum(OutOf(Overdue(l), m), HoldQuantity)
  <2>1. ASSUME NEW m \in Listings
        PROVE  listing'[m].reserved = listing[m].reserved - Sum(OutOf(Overdue(l), m), HoldQuantity)
    <3>1. /\ OutOf(Overdue(l), l) = Overdue(l)
          /\ m # l => Sum(OutOf(Overdue(l), m), HoldQuantity) = 0
      BY <1>0, <1>3, OutOfOne
    <3>2. CASE m = l
      BY <1>0, <1>1, <1>2, <3>1, <3>2, Balances
    <3>3. CASE m # l
      BY <1>1, <3>1, <3>3, Balances
    <3> QED
      BY <3>2, <3>3
  <2> QED
    BY <2>1
<1>6. ReservedIsHeld'
  BY <1>0, <1>3, <1>4, <1>5, ReleaseStep DEF IInv, Counted
<1>7. order[h] = NoOrder
  BY <1>1, OneOrder
<1>8. /\ order'[h] = o /\ o.status = "reserved" /\ o.accepted = 0 /\ o.sales = 0
      /\ o.recognised = FALSE
  BY <1>0, <1>1 DEF NoOrder
<1>9. "reserved" \in OnTheWay /\ "reserved" \notin Recognised
  BY <1>0, Sources DEF OnTheWayListed, Recognised
<1>10. HoldFollowsOrder' /\ DeliveryCountsOnce'
  <2>1. \A k \in Holds \ {h} :
          /\ order'[k] = order[k] /\ payout'[k] = payout[k]
          /\ hold'[k].quantity = hold[k].quantity
          /\ hold'[k].status = "confirmed" <=> hold[k].status = "confirmed"
          /\ hold'[k].status \in {"none", "active"} => hold[k].status \in {"none", "active"}
    BY <1>0, <1>1, <1>3
  <2>2. payout'[h].status \notin {"pending", "paid"}
    <3>1. NoOrder.accepted = 0
      BY DEF NoOrder
    <3> QED
      BY <1>1, <1>7, <3>1, OneOrder
  <2>3. hold'[h].quantity \in Nat /\ hold'[h].status = "confirmed"
    BY <1>3, OneOrder
  <2> HIDE DEF o
  <2>4. /\ hold'[h].status = "confirmed" <=> order'[h].status \in OnTheWay
        /\ hold'[h].status \in {"none", "active"} => order'[h] = NoOrder
        /\ order'[h].accepted <= hold'[h].quantity
    BY <1>8, <1>9, <2>3
  <2>5. /\ FALSE = (order'[h].status \in Recognised /\ order'[h].accepted > 0)
        /\ order'[h].recognised <=> order'[h].status \in Recognised
        /\ order'[h].sales = IF FALSE THEN 1 ELSE 0
        /\ payout'[h].status \in {"pending", "paid"} <=> FALSE
        /\ FALSE => payout'[h].quantity = order'[h].accepted
    BY <1>8, <1>9, <2>2
  <2> QED
    BY <2>1, <2>4, <2>5, Follow
<1>11. SoldIsSold'
  <2>1. \A k \in Holds :
          /\ order'[k].sales = order[k].sales /\ order'[k].accepted = order[k].accepted
          /\ hold'[k].listing = hold[k].listing
    <3>1. NoOrder.sales = 0 /\ NoOrder.accepted = 0
      BY DEF NoOrder
    <3> HIDE DEF o
    <3> QED
      BY <1>0, <1>1, <1>3, <1>7, <1>8, <3>1
  <2>2. \A m \in Listings : listing'[m].sold = listing[m].sold
    BY <1>0, <1>1, <1>2, Balances
  <2> QED
    BY <1>1, <2>1, <2>2, DeliveriesUntouched, SoldUntouched
<1>12. x.reserved + x.sold <= x.total /\ (x.status = "none" => x.total = 0)
  BY <1>0, <1>2, <1>3, Balances
<1> HIDE DEF l, o
<1> QED
  BY <1>0, <1>1, <1>6, <1>10, <1>11, <1>12, OneWithin

\* An order dropped before it was delivered.
LEMMA DropSafe ==
    ASSUME IInv, TypeOK', NEW h \in Holds, NEW t \in Dropped, Drop(h, t)
    PROVE  IInv'
<1> DEFINE l == hold[h].listing
           y == Freed(listing[l], hold[h].quantity)
           pay == IF t = "payment_failed" THEN "failed" ELSE order[h].payment
           o == [order[h] EXCEPT !.status = t, !.payment = pay]
<1>0. TypeOK /\ order \in [Holds -> OrderRecord]
  BY DEF IInv, TypeOK
<1>1. order[h].status \in OnTheWay /\ t \notin OnTheWay /\ t \notin Recognised
  BY <1>0, Sources, OrderStatusesListed DEF Drop, Dropped, OnTheWayListed, Recognised
<1>2. hold[h].status = "confirmed"
  BY <1>1, OneOrder
<1>3. /\ listing' = [listing EXCEPT ![l] = y] /\ hold' = Ended(hold, {h}, "cancelled")
      /\ order' = [order EXCEPT ![h] = o] /\ UNCHANGED <<sale, payout>>
  BY <1>0, <1>2 DEF Drop
<1>4. /\ {h} \in SUBSET Holds /\ Sum({h}, HoldQuantity) = hold[h].quantity /\ Leave({h})
      /\ l \in Listings /\ hold[h].quantity \in Nat
      /\ y.reserved = listing[l].reserved - hold[h].quantity
      /\ y.sold = listing[l].sold /\ y.total = listing[l].total
      /\ (y.status = "none" <=> listing[l].status = "none")
  BY <1>0, <1>3, FreeOne DEF Gone
<1> HIDE DEF y, pay
<1>5. /\ o.status = t /\ o.accepted = order[h].accepted /\ o.sales = order[h].sales
      /\ o.recognised = order[h].recognised
  BY <1>0 DEF OrderRecord
<1> HIDE DEF o
<1>6. order'[h] = o /\ \A k \in Holds \ {h} : order'[k] = order[k]
  BY <1>0, <1>3
<1>7. \A m \in Listings : listing'[m].reserved
                             = listing[m].reserved - Sum(OutOf({h}, m), HoldQuantity)
  <2>1. ASSUME NEW m \in Listings
        PROVE  listing'[m].reserved = listing[m].reserved - Sum(OutOf({h}, m), HoldQuantity)
    <3>1. OutOf({h}, l) = {h} /\ (m # l => Sum(OutOf({h}, m), HoldQuantity) = 0)
      BY <1>4, OutOfOne
    <3>2. CASE m = l
      BY <1>3, <1>4, <3>1, <3>2, Balances
    <3>3. CASE m # l
      BY <1>3, <3>1, <3>3, Balances
    <3> QED
      BY <3>2, <3>3
  <2> QED
    BY <2>1
<1>8. ReservedIsHeld'
  BY <1>0, <1>2, <1>4, <1>7, ReleaseStep DEF IInv, Counted
<1>9. HoldFollowsOrder' /\ DeliveryCountsOnce'
  <2>1. \A k \in Holds \ {h} :
          /\ order'[k] = order[k] /\ payout'[k] = payout[k]
          /\ hold'[k].quantity = hold[k].quantity
          /\ hold'[k].status = "confirmed" <=> hold[k].status = "confirmed"
          /\ hold'[k].status \in {"none", "active"} => hold[k].status \in {"none", "active"}
    BY <1>3, <1>4, <1>6 DEF Leave
  <2>2. /\ hold'[h].status \in Gone /\ hold'[h].quantity = hold[h].quantity /\ payout'[h] = payout[h]
    BY <1>3, <1>4 DEF Leave
  <2>3. order[h].status \notin Recognised
    BY <1>1 DEF OnTheWay
  <2>4. /\ hold'[h].status = "confirmed" <=> order'[h].status \in OnTheWay
        /\ hold'[h].status \in {"none", "active"} => order'[h] = NoOrder
        /\ order'[h].accepted <= hold'[h].quantity
    BY <1>1, <1>5, <1>6, <2>2, OneOrder DEF Gone
  <2>5. /\ FALSE = (order'[h].status \in Recognised /\ order'[h].accepted > 0)
        /\ order'[h].recognised <=> order'[h].status \in Recognised
        /\ order'[h].sales = IF FALSE THEN 1 ELSE 0
        /\ payout'[h].status \in {"pending", "paid"} <=> FALSE
        /\ FALSE => payout'[h].quantity = order'[h].accepted
    BY <1>1, <1>5, <1>6, <2>2, <2>3, OneOrder
  <2> QED
    BY <2>1, <2>4, <2>5, Follow
<1>10. SoldIsSold'
  <2>1. \A k \in Holds :
          /\ order'[k].sales = order[k].sales /\ order'[k].accepted = order[k].accepted
          /\ hold'[k].listing = hold[k].listing
    BY <1>4, <1>5, <1>6 DEF Leave
  <2>2. \A m \in Listings : listing'[m].sold = listing[m].sold
    BY <1>3, <1>4, Balances
  <2> QED
    BY <1>3, <2>1, <2>2, DeliveriesUntouched, SoldUntouched
<1>11. y.reserved + y.sold <= y.total /\ (y.status = "none" => y.total = 0)
  BY <1>4, Balances
<1> HIDE DEF l
<1> QED
  BY <1>3, <1>4, <1>8, <1>9, <1>10, <1>11, OneWithin

\* A delivery: the hold ends, what was accepted of it is sold.
LEMMA DeliverSafe ==
    ASSUME IInv, TypeOK', NEW h \in Holds, Deliver(h)
    PROVE  IInv'
<1> DEFINE l == hold[h].listing
           n == order[h].accepted
           f == Freed(listing[l], hold[h].quantity)
           x == [f EXCEPT !.sold = @ + n]
           y == IF Available(x) = 0 THEN [x EXCEPT !.status = "sold_out"] ELSE x
           o == [order[h] EXCEPT !.status = "delivered", !.recognised = TRUE,
                   !.sales = IF n > 0 THEN order[h].sales + 1 ELSE order[h].sales]
           p == [status |-> "pending", quantity |-> n]
<1>0. /\ TypeOK /\ order \in [Holds -> OrderRecord] /\ payout \in [Holds -> PayoutRecord]
      /\ n \in Nat /\ n \in 0..MaxTotal /\ n <= hold[h].quantity
  BY OneOrder DEF IInv, TypeOK, OrderRecord
<1>1. order[h].status \in OnTheWay /\ order[h].status \notin Recognised
  BY <1>0, Sources, OrderStatusesListed DEF Deliver, OnTheWay
<1>2. /\ hold[h].status = "confirmed" /\ listing' = [listing EXCEPT ![l] = y]
      /\ hold' = Ended(hold, {h}, "released") /\ order' = [order EXCEPT ![h] = o]
      /\ payout' = IF n > 0 THEN [payout EXCEPT ![h] = p] ELSE payout
      /\ UNCHANGED sale
  BY <1>0 DEF Deliver
<1>3. order[h].sales = 0 /\ payout[h].status \notin {"pending", "paid"}
  BY <1>1, OneOrder
<1>4. /\ {h} \in SUBSET Holds /\ Sum({h}, HoldQuantity) = hold[h].quantity /\ Leave({h})
      /\ l \in Listings /\ hold[h].quantity \in Nat /\ f \in ListingRecord
      /\ f.reserved = listing[l].reserved - hold[h].quantity
      /\ f.sold = listing[l].sold /\ f.total = listing[l].total
      /\ (f.status = "none" <=> listing[l].status = "none")
  BY <1>0, <1>2, FreeOne DEF Gone
<1> HIDE DEF f
<1>5. /\ x \in ListingRecord /\ x.reserved = f.reserved /\ x.sold = f.sold + n
      /\ x.total = f.total /\ x.status = f.status
  BY <1>0, <1>4 DEF ListingRecord
<1> HIDE DEF x
<1>6. /\ y.reserved = listing[l].reserved - hold[h].quantity
      /\ y.sold = listing[l].sold + n /\ y.total = listing[l].total
      /\ y.status = "none" => listing[l].status = "none"
  BY <1>4, <1>5 DEF ListingRecord
<1> HIDE DEF y
<1>7. /\ o.status = "delivered" /\ o.accepted = n /\ o.recognised = TRUE
      /\ o.sales = IF n > 0 THEN 1 ELSE 0
  BY <1>0, <1>3 DEF OrderRecord
<1> HIDE DEF o
<1>8. order'[h] = o /\ \A k \in Holds \ {h} : order'[k] = order[k] /\ payout'[k] = payout[k]
  BY <1>0, <1>2
<1>9. \A m \in Listings :
        /\ listing'[m].reserved = listing[m].reserved - Sum(OutOf({h}, m), HoldQuantity)
        /\ listing'[m].sold = listing[m].sold + (IF m = l THEN n ELSE 0)
  <2>1. ASSUME NEW m \in Listings
        PROVE  /\ listing'[m].reserved = listing[m].reserved - Sum(OutOf({h}, m), HoldQuantity)
               /\ listing'[m].sold = listing[m].sold + (IF m = l THEN n ELSE 0)
    <3>1. OutOf({h}, l) = {h} /\ (m # l => Sum(OutOf({h}, m), HoldQuantity) = 0)
      BY <1>4, OutOfOne
    <3>2. CASE m = l
      BY <1>2, <1>4, <1>6, <3>1, <3>2, Balances
    <3>3. CASE m # l
      BY <1>2, <3>1, <3>3, Balances
    <3> QED
      BY <3>2, <3>3
  <2> QED
    BY <2>1
<1>10. ReservedIsHeld'
  BY <1>0, <1>2, <1>4, <1>9, ReleaseStep DEF IInv, Counted
<1>11. HoldFollowsOrder' /\ DeliveryCountsOnce'
  <2>1. \A k \in Holds \ {h} :
          /\ order'[k] = order[k] /\ payout'[k] = payout[k]
          /\ hold'[k].quantity = hold[k].quantity
          /\ hold'[k].status = "confirmed" <=> hold[k].status = "confirmed"
          /\ hold'[k].status \in {"none", "active"} => hold[k].status \in {"none", "active"}
    BY <1>4, <1>8 DEF Leave
  <2>2. hold'[h].status \in Gone /\ hold'[h].quantity = hold[h].quantity
    BY <1>4 DEF Leave
  <2>3. "delivered" \in Recognised /\ "delivered" \notin OnTheWay
    BY DEF Recognised, OnTheWay
  <2>4. /\ hold'[h].status = "confirmed" <=> order'[h].status \in OnTheWay
        /\ hold'[h].status \in {"none", "active"} => order'[h] = NoOrder
        /\ order'[h].accepted <= hold'[h].quantity
    BY <1>0, <1>7, <1>8, <2>2, <2>3 DEF Gone
  <2>5. payout'[h] = IF n > 0 THEN p ELSE payout[h]
    BY <1>0, <1>2
  <2>6. (n > 0) = (order'[h].status \in Recognised /\ order'[h].accepted > 0)
    BY <1>7, <1>8, <2>3
  <2>7. /\ order'[h].recognised <=> order'[h].status \in Recognised
        /\ order'[h].sales = IF n > 0 THEN 1 ELSE 0
        /\ payout'[h].status \in {"pending", "paid"} <=> n > 0
        /\ n > 0 => payout'[h].quantity = order'[h].accepted
    BY <1>3, <1>7, <1>8, <2>3, <2>5
  <2> HIDE DEF n, p
  <2> QED
    BY <2>1, <2>4, <2>6, <2>7, Follow
<1>12. SoldIsSold'
  <2>1. \A k \in Holds :
          /\ order'[k].accepted = order[k].accepted /\ hold'[k].listing = hold[k].listing
          /\ k # h => order'[k].sales = order[k].sales
    BY <1>4, <1>7, <1>8 DEF Leave
  <2>2. order'[h].sales = IF order[h].accepted > 0 THEN 1 ELSE 0
    BY <1>7, <1>8
  <2>3. SaleQuantity' = SaleQuantity /\ \A m \in Listings : SoldOutside(m)' = SoldOutside(m)
    BY <1>2 DEF SaleQuantity, SoldOutside
  <2>4. ASSUME NEW m \in Listings
        PROVE  listing'[m].sold = Sum(SoldByOrder(m)', AcceptedQuantity')
                                  + Sum(SoldOutside(m)', SaleQuantity')
    <3>1. Sum(SoldByOrder(m)', AcceptedQuantity')
            = Sum(SoldByOrder(m), AcceptedQuantity) + (IF m = l THEN n ELSE 0)
      BY <1>0, <1>3, <1>4, <2>1, <2>2, DeliveriesOne
    <3>2. listing[m].sold = Sum(SoldByOrder(m), AcceptedQuantity) + Sum(SoldOutside(m), SaleQuantity)
      BY DEF IInv, SoldIsSold
    <3>3. Sum(SoldByOrder(m), AcceptedQuantity) \in Nat /\ Sum(SoldOutside(m), SaleQuantity) \in Nat
      BY Finite, SumType
    <3> HIDE DEF l, n
    <3> QED
      BY <1>0, <1>9, <2>3, <3>1, <3>2, <3>3
  <2> QED
    BY <2>4, PrimedSums
<1>13. y.reserved + y.sold <= y.total /\ (y.status = "none" => y.total = 0)
  BY <1>0, <1>4, <1>6, Balances
<1> HIDE DEF l
<1> QED
  BY <1>2, <1>4, <1>10, <1>11, <1>12, <1>13, OneWithin

\* A delivery taken back: reopened, its hold counts again; returned, not.
LEMMA ReverseSafe ==
    ASSUME IInv, TypeOK', NEW h \in Holds, NEW kind \in {"reopen", "return"},
           ReverseDelivery(h, kind)
    PROVE  IInv'
<1> DEFINE l == hold[h].listing
           n == order[h].accepted
           held == IF kind = "reopen" THEN hold[h].quantity ELSE 0
           back == IF order[h].sales > 0 THEN [listing[l] EXCEPT !.sold = listing[l].sold - n]
                   ELSE listing[l]
           x == IF kind = "reopen" THEN [back EXCEPT !.reserved = @ + hold[h].quantity] ELSE back
           y == Relisted(x)
           st == IF kind = "reopen" THEN "in_transit" ELSE "cancelled"
           o == [order[h] EXCEPT !.status = st, !.recognised = FALSE,
                   !.sales = IF order[h].sales > 0 THEN order[h].sales - 1 ELSE order[h].sales]
<1>0. /\ TypeOK /\ order \in [Holds -> OrderRecord] /\ payout \in [Holds -> PayoutRecord]
      /\ n \in Nat /\ n \in 0..MaxTotal /\ n <= hold[h].quantity
      /\ l \in Listings /\ listing[l] \in ListingRecord
      /\ hold[h].quantity \in 0..MaxTotal /\ hold[h].quantity \in Nat
      /\ hold \in [Holds -> HoldRecord]
  BY OneOrder DEF IInv, TypeOK, StockTypeOK, OrderRecord, HoldRecord
<1>1. /\ order[h].status \in Recognised /\ payout[h].status # "paid"
      /\ kind = "reopen" => Available(x) >= 0
      /\ listing' = [listing EXCEPT ![l] = y]
      /\ hold' = IF kind = "reopen" THEN Ended(hold, {h}, "confirmed") ELSE hold
      /\ order' = [order EXCEPT ![h] = o]
      /\ payout' = IF payout[h].status = "pending"
                   THEN [payout EXCEPT ![h].status = "cancelled"] ELSE payout
      /\ UNCHANGED sale
  BY <1>0 DEF ReverseDelivery
<1>2. /\ order[h].sales = IF n > 0 THEN 1 ELSE 0
      /\ order[h].status \notin OnTheWay /\ hold[h].status \notin Counted \cup {"none"}
  <2>1. order[h].status \notin OnTheWay /\ order[h] # NoOrder
    BY <1>1 DEF OnTheWay, Recognised, NoOrder
  <2> QED
    BY <1>1, <2>1, OneOrder DEF Counted
<1>3. /\ back \in ListingRecord /\ back.reserved = listing[l].reserved
      /\ back.sold = listing[l].sold - n
      /\ back.total = listing[l].total /\ back.status = listing[l].status
  BY <1>0, <1>2 DEF ListingRecord
<1> HIDE DEF back
<1>4. /\ x \in ListingRecord /\ x.reserved = listing[l].reserved + held
      /\ x.sold = listing[l].sold - n
      /\ x.total = listing[l].total /\ x.status = listing[l].status
  BY <1>0, <1>3 DEF ListingRecord
<1> HIDE DEF x
<1>5. /\ y.reserved = listing[l].reserved + held /\ y.sold = listing[l].sold - n
      /\ y.total = listing[l].total /\ (y.status = "none" <=> listing[l].status = "none")
  BY <1>4, RelistedStock
<1> HIDE DEF y
<1>6. /\ o.status = st /\ o.accepted = n /\ o.recognised = FALSE /\ o.sales = 0
  BY <1>0, <1>2 DEF OrderRecord
<1> HIDE DEF o
<1>7. order'[h] = o /\ \A k \in Holds \ {h} : order'[k] = order[k] /\ payout'[k] = payout[k]
  BY <1>0, <1>1
<1>8. /\ \A k \in Holds :
            hold'[k].listing = hold[k].listing /\ hold'[k].quantity = hold[k].quantity
      /\ \A k \in Holds \ {h} : hold'[k].status = hold[k].status
      /\ kind = "reopen" => hold'[h].status = "confirmed"
      /\ kind # "reopen" => hold'[h].status = hold[h].status
  <2>1. CASE kind = "reopen"
    <3>1. "confirmed" \in HoldStatuses
      BY DEF HoldStatuses
    <3> QED
      BY <1>0, <1>1, <2>1, <3>1, EndedHolds
  <2>2. CASE kind # "reopen"
    BY <1>1, <2>2
  <2> QED
    BY <2>1, <2>2
<1>9. ASSUME NEW m \in Listings
      PROVE  Sum(HeldOn(m)', HoldQuantity')
               = Sum(HeldOn(m), HoldQuantity) + (IF m = l THEN held ELSE 0)
  <2> DEFINE S == HeldOn(m)
             T == HeldOn(m)'
  <2>1. HoldQuantity' = HoldQuantity /\ HoldQuantity[h] = hold[h].quantity
    BY <1>8 DEF HoldQuantity
  <2>2. /\ T \subseteq Holds /\ S \subseteq Holds /\ h \notin S
        /\ \A k \in Holds \ {h} : k \in T <=> k \in S
        /\ h \in T <=> m = l /\ kind = "reopen"
    BY <1>2, <1>8 DEF HeldOn, Counted
  <2>3. IsFiniteSet(S) /\ Sum(S, HoldQuantity) \in Nat
    BY Finite, SumType
  <2> HIDE DEF S, T
  <2>4. CASE m = l /\ kind = "reopen"
    <3>1. T = S \cup {h}
      BY <2>2, <2>4
    <3>2. Sum(S \cup {h}, HoldQuantity) = Sum(S, HoldQuantity) + hold[h].quantity
      BY <1>0, <2>1, <2>2, <2>3, SumWith
    <3> QED
      BY <2>1, <2>4, <3>1, <3>2 DEF S, T
  <2>5. CASE ~(m = l /\ kind = "reopen")
    <3>1. T \subseteq S /\ S \subseteq T
      BY <2>2, <2>5
    <3>2. T = S
      BY <3>1, Zenon
    <3>3. (IF m = l THEN held ELSE 0) = 0
      BY <2>5
    <3> QED
      BY <2>1, <2>3, <3>2, <3>3 DEF S, T
  <2> QED
    BY <2>4, <2>5
<1>10. \A m \in Listings :
         /\ listing'[m].reserved = listing[m].reserved + (IF m = l THEN held ELSE 0)
         /\ listing'[m].sold = listing[m].sold - (IF m = l THEN n ELSE 0)
  BY <1>0, <1>1, <1>5, Balances
<1>11. ReservedIsHeld'
  <2>1. \A m \in Listings : listing[m].reserved = Sum(HeldOn(m), HoldQuantity)
    BY DEF IInv, ReservedIsHeld
  <2> HIDE DEF held, l
  <2> QED
    BY <1>9, <1>10, <2>1, PrimedSums
<1>12. HoldFollowsOrder' /\ DeliveryCountsOnce'
  <2>1. \A k \in Holds \ {h} :
          /\ order'[k] = order[k] /\ payout'[k] = payout[k]
          /\ hold'[k].quantity = hold[k].quantity
          /\ hold'[k].status = "confirmed" <=> hold[k].status = "confirmed"
          /\ hold'[k].status \in {"none", "active"} => hold[k].status \in {"none", "active"}
    BY <1>7, <1>8
  <2>2. /\ st \notin Recognised /\ (st \in OnTheWay <=> kind = "reopen")
    BY <1>0, Sources DEF Recognised, OnTheWayListed
  <2>3. /\ hold'[h].status = "confirmed" <=> order'[h].status \in OnTheWay
        /\ hold'[h].status \in {"none", "active"} => order'[h] = NoOrder
        /\ order'[h].accepted <= hold'[h].quantity
    BY <1>0, <1>2, <1>6, <1>7, <1>8, <2>2 DEF Counted
  <2>4. payout'[h].status \notin {"pending", "paid"}
    <3>1. payout[h].status \in {"none", "pending", "paid", "cancelled"}
      BY <1>0 DEF PayoutRecord
    <3>2. payout[h].status = "pending" => payout'[h].status = "cancelled"
      BY <1>0, <1>1 DEF PayoutRecord
    <3> QED
      BY <1>1, <3>1, <3>2
  <2> HIDE DEF st
  <2>5. /\ FALSE = (order'[h].status \in Recognised /\ order'[h].accepted > 0)
        /\ order'[h].recognised <=> order'[h].status \in Recognised
        /\ order'[h].sales = IF FALSE THEN 1 ELSE 0
        /\ payout'[h].status \in {"pending", "paid"} <=> FALSE
        /\ FALSE => payout'[h].quantity = order'[h].accepted
    BY <1>6, <1>7, <2>2, <2>4
  <2> QED
    BY <2>1, <2>3, <2>5, Follow
<1>13. SoldIsSold'
  <2>1. \A k \in Holds :
          /\ order'[k].accepted = order[k].accepted /\ hold'[k].listing = hold[k].listing
          /\ k # h => order'[k].sales = order[k].sales
    BY <1>6, <1>7, <1>8
  <2>2. SaleQuantity' = SaleQuantity /\ \A m \in Listings : SoldOutside(m)' = SoldOutside(m)
    BY <1>1 DEF SaleQuantity, SoldOutside
  <2>3. ASSUME NEW m \in Listings
        PROVE  listing'[m].sold = Sum(SoldByOrder(m)', AcceptedQuantity')
                                  + Sum(SoldOutside(m)', SaleQuantity')
    <3>1. Sum(SoldByOrder(m)', AcceptedQuantity')
            = Sum(SoldByOrder(m), AcceptedQuantity) - (IF m = l THEN n ELSE 0)
      <4>1. CASE n > 0
        <5>1. order[h].sales = 1 /\ order'[h].sales = 0
          BY <1>2, <1>6, <1>7, <4>1
        <5> QED
          BY <1>0, <2>1, <5>1, DeliveriesOne
      <4>2. CASE n = 0
        <5>1. \A k \in Holds : order'[k].sales = order[k].sales
          BY <1>2, <1>6, <1>7, <4>2
        <5>2. AcceptedQuantity' = AcceptedQuantity /\ SoldByOrder(m)' = SoldByOrder(m)
          BY <2>1, <5>1, DeliveriesUntouched
        <5>3. Sum(SoldByOrder(m), AcceptedQuantity) \in Nat
          BY Finite, SumType
        <5> QED
          BY <4>2, <5>2, <5>3
      <4> QED
        BY <1>0, <4>1, <4>2
    <3>2. listing[m].sold = Sum(SoldByOrder(m), AcceptedQuantity) + Sum(SoldOutside(m), SaleQuantity)
      BY DEF IInv, SoldIsSold
    <3>3. Sum(SoldByOrder(m), AcceptedQuantity) \in Nat /\ Sum(SoldOutside(m), SaleQuantity) \in Nat
      BY Finite, SumType
    <3> HIDE DEF l, n
    <3> QED
      BY <1>0, <1>10, <2>2, <3>1, <3>2, <3>3
  <2> QED
    BY <2>3, PrimedSums
<1>14. y.reserved + y.sold <= y.total /\ (y.status = "none" => y.total = 0)
  <2>1. kind = "reopen" => x.reserved + x.sold <= x.total
    BY <1>1, <1>4 DEF Available, ListingRecord
  <2>2. kind # "reopen" => held = 0
    OBVIOUS
  <2> HIDE DEF held
  <2> QED
    BY <1>0, <1>4, <1>5, <2>1, <2>2, Balances
<1> HIDE DEF l
<1> QED
  BY <1>0, <1>1, <1>11, <1>12, <1>13, <1>14, OneWithin

-----------------------------------------------------------------------------
(* The theorems.                                                           *)

\* The initial state satisfies the invariant: nothing is held or sold.
LEMMA IInvInit ==
    ASSUME Init
    PROVE  IInv
<1>1. TypeOK
  BY TypeInit
<1>2. \A h \in Holds : hold[h].status = "none" /\ order[h] = NoOrder /\ payout[h].status = "none"
  BY DEF Init, StockInit, NoHold
<1>3. \A l \in Listings : /\ listing[l].reserved = 0 /\ listing[l].sold = 0
                          /\ listing[l].total = 0
  BY DEF Init, StockInit, NoListing
<1>4. /\ NoOrder.status = "none" /\ NoOrder.sales = 0 /\ NoOrder.accepted = 0
      /\ NoOrder.recognised = FALSE
  BY DEF NoOrder
<1>5. \A l \in Listings : HeldOn(l) = {} /\ SoldByOrder(l) = {} /\ SoldOutside(l) = {}
  <2>1. \A s \in Sales : sale[s].status = "none"
    BY DEF Init, StockInit, NoSale
  <2> QED
    BY <1>2, <1>4, <2>1 DEF HeldOn, SoldByOrder, SoldOutside
<1>6. ReservedIsHeld /\ SoldIsSold
  BY <1>3, <1>5, SumNone DEF ReservedIsHeld, SoldIsSold
<1>7. NoOversell
  BY <1>3 DEF NoOversell
<1>8. HoldFollowsOrder /\ DeliveryCountsOnce
  <2>1. "none" \notin OnTheWay /\ "none" \notin Recognised
    BY DEF OnTheWay, Recognised
  <2>2. \A h \in Holds : hold[h].quantity \in Nat
    BY <1>1, StockAssumption DEF TypeOK, StockTypeOK, HoldRecord
  <2> QED
    BY <1>2, <1>4, <2>1, <2>2 DEF HoldFollowsOrder, DeliveryCountsOnce
<1> QED
  BY <1>1, <1>6, <1>7, <1>8 DEF IInv

\* Every step keeps the invariant.
LEMMA IInvStep ==
    ASSUME IInv, [Next]_vars
    PROVE  IInv'
<1>1. TypeOK'
  BY TypeStep DEF IInv
<1>2. CASE StockNext /\ UNCHANGED orderVars
  BY <1>1, <1>2, StockStep
<1>3. CASE OrderNext
  <2>1. ASSUME NEW h \in Holds, CheckoutLate(h)
        PROVE  IInv'
    <3>1. /\ TypeOK /\ hold[h].listing \in Listings /\ listing[hold[h].listing] \in ListingRecord
      BY DEF IInv, TypeOK, StockTypeOK, HoldRecord
    <3>2. /\ listing' = [listing EXCEPT ![hold[h].listing] =
                           Refreshed(hold[h].listing, listing[hold[h].listing])]
          /\ hold' = RefreshedHolds(hold[h].listing)
          /\ UNCHANGED <<sale, orderVars>>
      BY <2>1 DEF CheckoutLate
    <3> QED
      BY <1>1, <3>1, <3>2, RefreshedStock, RefreshStep
  <2>2. ASSUME NEW h \in Holds, CheckoutStale(h)
        PROVE  IInv'
    BY <1>1, <2>2, ReleaseAfterRefreshStep DEF CheckoutStale
  <2>3. \A h \in Holds : BuyerCancel(h) => Drop(h, "cancelled")
    BY DEF BuyerCancel
  <2>4. "cancelled" \in Dropped
    BY DEF Dropped
  <2> QED
    BY <1>1, <1>3, <2>1, <2>2, <2>3, <2>4, CheckoutSafe, PaperSafe, DropSafe, DeliverSafe,
       ReverseSafe DEF OrderNext
<1>4. CASE UNCHANGED vars
  <2>1. /\ UNCHANGED stockVars /\ UNCHANGED <<order, payout>>
    BY <1>4 DEF vars, orderVars
  <2>2. HoldFollowsOrder' /\ DeliveryCountsOnce'
    BY <2>1 DEF IInv, stockVars, HoldFollowsOrder, DeliveryCountsOnce
  <2> QED
    BY <1>1, <2>1, <2>2, StockUntouched
<1> QED
  BY <1>2, <1>3, <1>4 DEF Next

\* The inductive invariant holds in every reachable state.
THEOREM Inductive == Spec => []IInv
<1> QED
  BY IInvInit, IInvStep, PTL DEF Spec

\* services.release, reserve, refresh and every handler that calls them: a
\* listing's reserved units are always exactly its open and its orders' holds.
THEOREM ReservedIsAlwaysHeld == Spec => []ReservedIsHeld
<1>1. IInv => ReservedIsHeld
  BY DEF IInv
<1> QED
  BY <1>1, Inductive, PTL

\* A listing's sold units are always exactly its standing deliveries and the
\* supplier's unreversed own sales.
THEOREM SoldIsAlwaysSold == Spec => []SoldIsSold
<1>1. IInv => SoldIsSold
  BY DEF IInv
<1> QED
  BY <1>1, Inductive, PTL

\* No history of holds, counts, sales, deliveries and reversals makes a
\* listing promise more than it has (models.Listing valid_inventory).
THEOREM NeverOversold == Spec => []NoOversell
<1>1. IInv => NoOversell
  BY DEF IInv
<1> QED
  BY <1>1, Inductive, PTL

\* An order keeps its hold exactly while it is on its way.
THEOREM HoldAlwaysFollowsOrder == Spec => []HoldFollowsOrder
<1>1. IInv => HoldFollowsOrder
  BY DEF IInv
<1> QED
  BY <1>1, Inductive, PTL

\* However often a delivery is reopened, it is recognised, sold and owed to
\* the supplier once while it stands, and not at all while it does not.
THEOREM DeliveryAlwaysCountsOnce == Spec => []DeliveryCountsOnce
<1>1. IInv => DeliveryCountsOnce
  BY DEF IInv
<1> QED
  BY <1>1, Inductive, PTL

-----------------------------------------------------------------------------
(* The payout's status, as PayoutLife has it.                              *)

PayoutSteps ==
    {<<"none", "pending">>, <<"cancelled", "pending">>, <<"pending", "paid">>,
     <<"paid", "pending">>, <<"pending", "cancelled">>}

\* No status changes, or that of h by a step of PayoutLife.
PayoutMoves(h) ==
    \/ UNCHANGED payout
    \/ \E x : /\ payout' = [payout EXCEPT ![h] = x]
              /\ <<payout[h].status, x.status>> \in PayoutSteps

LEMMA OrderPayoutMoves ==
    ASSUME IInv, [Next]_vars
    PROVE  UNCHANGED payout \/ \E h \in Holds : PayoutMoves(h)
<1>0. payout \in [Holds -> PayoutRecord]
  BY DEF IInv, TypeOK
<1>1. ASSUME NEW h \in Holds, Deliver(h)
      PROVE  PayoutMoves(h)
  <2>. DEFINE x == [status |-> "pending", quantity |-> order[h].accepted]
  <2>1. \/ UNCHANGED payout
        \/ payout[h].status \in {"none", "cancelled"} /\ payout' = [payout EXCEPT ![h] = x]
    BY <1>1 DEF Deliver
  <2>2. x.status = "pending"
    OBVIOUS
  <2>. HIDE DEF x
  <2>. QED BY <2>1, <2>2 DEF PayoutMoves, PayoutSteps
<1>2. ASSUME NEW h \in Holds, NEW kind, ReverseDelivery(h, kind)
      PROVE  PayoutMoves(h)
  <2>. DEFINE x == [payout[h] EXCEPT !.status = "cancelled"]
  <2>1. UNCHANGED payout \/ (payout[h].status = "pending" /\ payout' = [payout EXCEPT ![h] = x])
    BY <1>2 DEF ReverseDelivery
  <2>2. x.status = "cancelled"
    BY <1>0 DEF PayoutRecord
  <2>. HIDE DEF x
  <2>. QED BY <2>1, <2>2 DEF PayoutMoves, PayoutSteps
<1>3. ASSUME NEW h \in Holds, PaySettlement(h)
      PROVE  PayoutMoves(h)
  <2>. DEFINE x == [payout[h] EXCEPT !.status = "paid"]
  <2>1. payout[h].status = "pending" /\ payout' = [payout EXCEPT ![h] = x]
    BY <1>3 DEF PaySettlement
  <2>2. x.status = "paid"
    BY <1>0 DEF PayoutRecord
  <2>. HIDE DEF x
  <2>. QED BY <2>1, <2>2 DEF PayoutMoves, PayoutSteps
<1>4. ASSUME NEW h \in Holds, RefundSettlement(h)
      PROVE  PayoutMoves(h)
  <2>. DEFINE x == [payout[h] EXCEPT !.status = "pending"]
  <2>1. payout[h].status = "paid" /\ payout' = [payout EXCEPT ![h] = x]
    BY <1>4 DEF RefundSettlement
  <2>2. x.status = "pending"
    BY <1>0 DEF PayoutRecord
  <2>. HIDE DEF x
  <2>. QED BY <2>1, <2>2 DEF PayoutMoves, PayoutSteps
<1>5. ASSUME NEW h \in Holds,
             \/ Checkout(h) \/ CheckoutLate(h) \/ CheckoutStale(h)
             \/ \E target : Progress(h, target) \/ Drop(h, target)
             \/ \E n : QualityCheck(h, n) \/ Reconcile(h, n)
             \/ BuyerCancel(h) \/ Complete(h)
      PROVE  UNCHANGED payout
  BY <1>5 DEF Checkout, CheckoutLate, CheckoutStale, Progress, QualityCheck, Drop, BuyerCancel,
              Complete, Reconcile, orderVars
<1>. QED BY <1>1, <1>2, <1>3, <1>4, <1>5 DEF Next, OrderNext, vars, orderVars

\* Also the payouts of orders, reduced to their status, live as PayoutLife says:
\* deliveries and their reversals neither owe a payout twice nor cancel one
\* that was paid (advance, reverse_delivery, pay_settlement, record_refund).
THEOREM OrderPayoutsMoveAsPromised == Spec => PayoutsMoveAsPromised
<1>. DEFINE lives == [h \in Holds |-> payout[h].status]
<1>1. Init => Life!Init
  BY DEF Init, Life!Init
<1>2. ASSUME IInv, [Next]_vars PROVE [Life!Next]_lives
  <2>1. CASE UNCHANGED payout
    BY <2>1
  <2>2. ASSUME NEW h \in Holds, NEW x, payout' = [payout EXCEPT ![h] = x],
               <<payout[h].status, x.status>> \in PayoutSteps
        PROVE  [Life!Next]_lives
    <3>1. PICK from : from = payout[h].status
      OBVIOUS
    <3>2. PICK to : to = x.status
      OBVIOUS
    <3>3. lives[h] = from
      BY <3>1
    <3>4. lives' = [lives EXCEPT ![h] = to]
      <4>1. payout \in [Holds -> PayoutRecord]
        BY <1>2 DEF IInv, TypeOK
      <4>2. \A g \in Holds : payout'[g].status = IF g = h THEN to ELSE payout[g].status
        BY <2>2, <3>2, <4>1
      <4>3. lives' = [g \in Holds |-> payout'[g].status]
        OBVIOUS
      <4>4. [lives EXCEPT ![h] = to] = [g \in Holds |-> IF g = h THEN to ELSE payout[g].status]
        OBVIOUS
      <4>. QED BY <4>2, <4>3, <4>4
    <3>5. \/ from = "none" /\ to = "pending"
          \/ from = "cancelled" /\ to = "pending"
          \/ from = "pending" /\ to = "paid"
          \/ from = "paid" /\ to = "pending"
          \/ from = "pending" /\ to = "cancelled"
      BY <2>2, <3>1, <3>2 DEF PayoutSteps
    <3>. HIDE DEF lives
    <3>6. Life!Owe(h) \/ Life!Pay(h) \/ Life!Unpay(h) \/ Life!Cancel(h)
      BY <3>3, <3>4, <3>5 DEF Life!Owe, Life!Pay, Life!Unpay, Life!Cancel, Life!Move, lives
    <3>. QED BY <3>6, Zenon DEF Life!Next
  <2>. QED BY <1>2, <2>1, <2>2, OrderPayoutMoves DEF PayoutMoves
<1>. QED BY <1>1, <1>2, Inductive, PTL DEF Spec, PayoutsMoveAsPromised, Life!Spec

-----------------------------------------------------------------------------
(* The buyer's money.                                                      *)

\* Before what was collected is checked.
Early == {"none", "reserved", "supply_confirmed", "pickup_scheduled", "collected"}

\* What the order x says of its money: never more than is due, none before it
\* was delivered once, and "paid" or "partial" as far as it is in.
Billed(x) ==
    /\ x.received <= x.due
    /\ x.received > 0 => x.status \in Recognised \cup {"in_transit"}
    /\ x.status \in Recognised \cup {"in_transit", "quality_checked"} => x.checked
    /\ x.checked => x.status \notin Early /\ x.due = x.accepted
    /\ x.payment = "paid" <=> x.checked /\ x.received = x.due
    /\ x.payment = "partial" <=> 0 < x.received /\ x.received < x.due

AllBilled == \A h \in Holds : Billed(order[h])

\* No step takes back money, or changes what is due where some came in.
MoneyStands(h) ==
    order[h].received > 0 =>
       /\ order'[h].status \notin Dropped
       /\ order'[h].due = order[h].due /\ order'[h].received >= order[h].received

BillsKept == AllBilled' /\ \A g \in Holds : MoneyStands(g)

\* Order h becomes x, which keeps the money of h.
Writes(h, x) ==
    /\ order' = [order EXCEPT ![h] = x]
    /\ Billed(x)
    /\ order[h].received > 0 =>
          x.status \notin Dropped /\ x.due = order[h].due /\ x.received >= order[h].received

\* The order of h may have the status s, its money being what it is.
StatusFits(h, s) ==
    /\ s \in Dropped => order[h].received = 0
    /\ order[h].received > 0 => s \in Recognised \cup {"in_transit"}
    /\ s \in Recognised \cup {"in_transit", "quality_checked"} => order[h].checked
    /\ order[h].checked => s \notin Early

LEMMA OrderType ==
    ASSUME IInv, NEW h \in Holds
    PROVE  /\ order[h] \in OrderRecord /\ order \in [Holds -> OrderRecord]
           /\ order[h].due \in 0..MaxTotal /\ order[h].received \in 0..MaxTotal
           /\ order[h].accepted \in 0..MaxTotal /\ MaxTotal \in Nat
BY StockAssumption DEF IInv, TypeOK, OrderRecord

\* One order is written.
LEMMA BillsOne ==
    ASSUME IInv, AllBilled, NEW h \in Holds, NEW x, Writes(h, x)
    PROVE  BillsKept
<1>1. order'[h] = x /\ \A g \in Holds \ {h} : order'[g] = order[g]
  BY OrderType DEF Writes
<1>2. AllBilled'
  BY <1>1 DEF AllBilled, Writes
<1>3. ASSUME NEW g \in Holds PROVE MoneyStands(g)
  <2>1. CASE g = h
    BY <1>1, <2>1 DEF MoneyStands, Writes
  <2>2. CASE g # h
    BY <1>1, <2>2, OrderType DEF MoneyStands, AllBilled, Billed, Dropped, Recognised
  <2>. QED BY <2>1, <2>2
<1>. QED BY <1>2, <1>3 DEF BillsKept

LEMMA BillsNone ==
    ASSUME IInv, AllBilled, UNCHANGED order
    PROVE  BillsKept
<1>1. AllBilled'
  BY DEF AllBilled
<1>2. ASSUME NEW g \in Holds PROVE MoneyStands(g)
  BY OrderType DEF MoneyStands, AllBilled, Billed, Dropped, Recognised
<1>. QED BY <1>1, <1>2 DEF BillsKept

\* The order's status is written, and nothing about its money.
LEMMA BillsStatus ==
    ASSUME IInv, AllBilled, NEW h \in Holds, NEW s, order' = [order EXCEPT ![h].status = s],
           StatusFits(h, s)
    PROVE  BillsKept
<1>. DEFINE x == [order[h] EXCEPT !.status = s]
<1>1. Billed(order[h]) /\ order[h].received \in Nat /\ order[h] \in OrderRecord
  BY OrderType DEF AllBilled
<1>2. /\ x.status = s /\ x.received = order[h].received /\ x.due = order[h].due
      /\ x.payment = order[h].payment /\ x.checked = order[h].checked
      /\ x.accepted = order[h].accepted
  BY <1>1 DEF OrderRecord
<1>3. order' = [order EXCEPT ![h] = x]
  BY OrderType
<1>. HIDE DEF x
<1>4. Billed(x)
  BY <1>1, <1>2 DEF Billed, StatusFits
<1>5. order[h].received > 0 => x.status \notin Dropped
  BY <1>1, <1>2 DEF StatusFits
<1>6. x.received >= order[h].received
  BY <1>1, <1>2
<1>99. Writes(h, x)
  BY <1>2, <1>3, <1>4, <1>5, <1>6 DEF Writes
<1>. QED BY <1>99, BillsOne

LEMMA CheckoutBills ==
    ASSUME IInv, AllBilled, NEW h \in Holds, Checkout(h)
    PROVE  BillsKept
<1>. DEFINE x == [NoOrder EXCEPT !.status = "reserved", !.due = hold[h].quantity]
<1>1. order[h] = NoOrder /\ hold[h].quantity \in Nat
  BY StockAssumption DEF Checkout, IInv, HoldFollowsOrder, TypeOK, StockTypeOK, HoldRecord
<1>2. order' = [order EXCEPT ![h] = x]
  BY DEF Checkout
<1>3. /\ x.status = "reserved" /\ x.received = 0 /\ x.due = hold[h].quantity
      /\ x.payment = "pending" /\ ~ x.checked
  BY DEF NoOrder
<1>. HIDE DEF x
<1>4. Billed(x)
  BY <1>1, <1>3 DEF Billed, Recognised
<1>5. order[h].received = 0
  BY <1>1 DEF NoOrder
<1>99. Writes(h, x)
  BY <1>2, <1>4, <1>5 DEF Writes
<1>. QED BY <1>99, BillsOne

LEMMA ProgressBills ==
    ASSUME IInv, AllBilled, NEW h \in Holds,
           NEW target \in {"supply_confirmed", "pickup_scheduled", "collected", "in_transit"},
           Progress(h, target)
    PROVE  BillsKept
<1>1. order[h].status \in OrderStatuses /\ target \in Transitions[order[h].status]
  BY OrderType DEF Progress, May, OrderRecord
<1>2. target = "in_transit" => order[h].status = "quality_checked"
  BY <1>1 DEF Transitions, OrderStatuses
<1>3. order[h].status \notin Recognised \cup {"in_transit"}
  BY <1>1 DEF Transitions, OrderStatuses, Recognised
<1>4. Billed(order[h]) /\ order[h].received \in Nat
  BY OrderType DEF AllBilled
<1>5. order[h].received = 0
  BY <1>3, <1>4 DEF Billed
<1>6. order[h].checked => target \notin Early
  <2>1. order[h].checked => order[h].status \notin Early
    BY <1>4 DEF Billed
  <2>. QED BY <1>1, <2>1 DEF Transitions, OrderStatuses, Early
<1>7. target \notin Dropped /\ (target = "in_transit" => order[h].checked)
  BY <1>2, <1>4 DEF Dropped, Billed
<1>8. StatusFits(h, target)
  BY <1>5, <1>6, <1>7 DEF StatusFits, Recognised
<1>. QED BY <1>8, BillsStatus DEF Progress

LEMMA QualityCheckBills ==
    ASSUME IInv, AllBilled, NEW h \in Holds, NEW n \in 0..MaxTotal, QualityCheck(h, n)
    PROVE  BillsKept
<1>1. order[h].status \in OrderStatuses /\ "quality_checked" \in Transitions[order[h].status]
  BY OrderType DEF QualityCheck, May, OrderRecord
<1>2. order[h].status = "collected"
  BY <1>1 DEF Transitions, OrderStatuses
<1>3. Billed(order[h]) /\ order[h] \in OrderRecord /\ order[h].received \in Nat /\ n \in Nat
  BY OrderType DEF AllBilled
<1>4. order[h].received = 0 /\ order[h].payment # "partial"
  BY <1>2, <1>3 DEF Billed, Recognised
<1>. DEFINE pay == IF n = 0 THEN "paid" ELSE order[h].payment
            x == [order[h] EXCEPT !.status = "quality_checked", !.checked = TRUE,
                                  !.accepted = n, !.due = n, !.payment = pay]
<1>5. order' = [order EXCEPT ![h] = x]
  BY DEF QualityCheck
<1>6. /\ x.status = "quality_checked" /\ x.received = 0 /\ x.due = n
      /\ x.payment = pay /\ x.checked /\ x.accepted = n
  <2>. HIDE DEF pay
  <2>. QED BY ONLY <1>3, <1>4 DEF OrderRecord
<1>7. pay = "paid" <=> n = 0
  <2>1. order[h].payment # "paid"
    BY <1>2, <1>3 DEF Billed, Early
  <2>. QED BY <2>1
<1>8. pay # "partial"
  BY <1>4
<1>. HIDE DEF x, pay
<1>9. Billed(x)
  BY <1>3, <1>6, <1>7, <1>8 DEF Billed, Early, Recognised
<1>99. Writes(h, x)
  BY <1>4, <1>5, <1>9 DEF Writes
<1>. QED BY <1>99, BillsOne

LEMMA DropBills ==
    ASSUME IInv, AllBilled, NEW h \in Holds, NEW target \in Dropped, Drop(h, target)
    PROVE  BillsKept
<1>. DEFINE pay == IF target = "payment_failed" THEN "failed" ELSE order[h].payment
            x == [order[h] EXCEPT !.status = target, !.payment = pay]
<1>1. Billed(order[h]) /\ order[h] \in OrderRecord /\ order[h].received \in Nat
      /\ order[h].due \in Nat
  BY OrderType DEF AllBilled
<1>2. order' = [order EXCEPT ![h] = x] /\ order[h].payment \notin {"paid", "partial"}
  BY DEF Drop
<1>3. order[h].received = 0
  BY <1>1, <1>2 DEF Billed, Recognised
<1>4. /\ x.status = target /\ x.received = 0 /\ x.due = order[h].due
      /\ x.payment = pay /\ x.checked = order[h].checked /\ x.accepted = order[h].accepted
  <2>. HIDE DEF pay
  <2>. QED BY ONLY <1>1, <1>3 DEF OrderRecord
<1>5. pay \notin {"paid", "partial"}
  BY <1>2
<1>. HIDE DEF x, pay
<1>6. Billed(x)
  BY <1>1, <1>2, <1>3, <1>4, <1>5 DEF Billed, Early, Recognised, Dropped
<1>99. Writes(h, x)
  BY <1>2, <1>3, <1>6 DEF Writes
<1>. QED BY <1>99, BillsOne

LEMMA DeliverBills ==
    ASSUME IInv, AllBilled, NEW h \in Holds, Deliver(h)
    PROVE  BillsKept
<1>1. PICK n : order' = [order EXCEPT ![h] =
                  [@ EXCEPT !.status = "delivered", !.recognised = TRUE, !.sales = n]]
  BY DEF Deliver
<1>. DEFINE x == [order[h] EXCEPT !.status = "delivered", !.recognised = TRUE, !.sales = n]
<1>2. Billed(order[h]) /\ order[h] \in OrderRecord /\ order[h].received \in Nat /\ order[h].checked
  BY OrderType DEF AllBilled, Deliver
<1>3. order' = [order EXCEPT ![h] = x]
  BY <1>1
<1>4. /\ x.status = "delivered" /\ x.received = order[h].received /\ x.due = order[h].due
      /\ x.payment = order[h].payment /\ x.checked /\ x.accepted = order[h].accepted
  BY ONLY <1>2 DEF OrderRecord
<1>. HIDE DEF x
<1>5. Billed(x)
  BY <1>2, <1>4 DEF Billed, Early, Recognised
<1>6. x.status \notin Dropped
  BY <1>4 DEF Dropped
<1>99. Writes(h, x)
  BY <1>2, <1>3, <1>4, <1>5, <1>6 DEF Writes
<1>. QED BY <1>99, BillsOne

LEMMA CompleteBills ==
    ASSUME IInv, AllBilled, NEW h \in Holds, Complete(h)
    PROVE  BillsKept
<1>1. order[h].status \in OrderStatuses /\ "completed" \in Transitions[order[h].status]
  BY OrderType DEF Complete, May, OrderRecord
<1>2. order[h].status = "delivered"
  BY <1>1 DEF Transitions, OrderStatuses
<1>3. order[h].checked
  BY <1>2 DEF AllBilled, Billed, Recognised
<1>4. StatusFits(h, "completed")
  BY <1>3 DEF StatusFits, Dropped, Early, Recognised
<1>. QED BY <1>4, BillsStatus DEF Complete

LEMMA ReverseBills ==
    ASSUME IInv, AllBilled, NEW h \in Holds, NEW kind \in {"reopen", "return"},
           ReverseDelivery(h, kind)
    PROVE  BillsKept
<1>. DEFINE s == IF kind = "reopen" THEN "in_transit" ELSE "cancelled"
<1>1. PICK n : order' = [order EXCEPT ![h] =
                  [@ EXCEPT !.status = s, !.recognised = FALSE, !.sales = n]]
  BY DEF ReverseDelivery
<1>. DEFINE x == [order[h] EXCEPT !.status = s, !.recognised = FALSE, !.sales = n]
<1>2. /\ Billed(order[h]) /\ order[h] \in OrderRecord /\ order[h].received \in Nat
      /\ order[h].due \in Nat /\ order[h].status \in Recognised
      /\ kind = "return" => order[h].payment \notin {"paid", "partial"}
  BY OrderType DEF AllBilled, ReverseDelivery
<1>3. order' = [order EXCEPT ![h] = x]
  BY <1>1
<1>4. /\ x.status = s /\ x.received = order[h].received /\ x.due = order[h].due
      /\ x.payment = order[h].payment /\ x.checked = order[h].checked
      /\ x.accepted = order[h].accepted
  <2>. HIDE DEF s
  <2>. QED BY ONLY <1>2 DEF OrderRecord
<1>. HIDE DEF x
<1>5. kind = "return" => order[h].received = 0
  BY <1>2 DEF Billed
<1>6. Billed(x)
  BY <1>2, <1>4, <1>5 DEF Billed, Early, Recognised
<1>7. order[h].received > 0 => x.status \notin Dropped
  BY <1>2, <1>4, <1>5 DEF Dropped
<1>99. Writes(h, x)
  BY <1>2, <1>3, <1>4, <1>6, <1>7 DEF Writes
<1>. QED BY <1>99, BillsOne

LEMMA ReconcileBills ==
    ASSUME IInv, AllBilled, NEW h \in Holds, NEW n \in 1..MaxTotal, Reconcile(h, n)
    PROVE  BillsKept
<1>. DEFINE total == order[h].received + n
            pay == IF total = order[h].due THEN "paid" ELSE "partial"
            x == [order[h] EXCEPT !.received = total, !.payment = pay]
<1>1. /\ Billed(order[h]) /\ order[h] \in OrderRecord /\ order[h].received \in Nat
      /\ order[h].due \in Nat /\ order[h].status \in Recognised /\ n \in Nat /\ n > 0
      /\ total <= order[h].due
  BY OrderType DEF AllBilled, Reconcile
<1>2. order' = [order EXCEPT ![h] = x]
  BY DEF Reconcile
<1>3. /\ x.status = order[h].status /\ x.received = total /\ x.due = order[h].due
      /\ x.payment = pay /\ x.checked = order[h].checked /\ x.accepted = order[h].accepted
  <2>. HIDE DEF total, pay
  <2>. QED BY ONLY <1>1 DEF OrderRecord
<1>. HIDE DEF x
<1>4. total > 0 /\ total \in Nat /\ total >= order[h].received
  BY <1>1
<1>5. Billed(x)
  <2>. HIDE DEF total
  <2>. QED BY <1>1, <1>3, <1>4 DEF Billed, Recognised
<1>6. x.status \notin Dropped
  BY <1>1, <1>3 DEF Recognised, Dropped
<1>99. Writes(h, x)
  BY <1>2, <1>3, <1>4, <1>5, <1>6 DEF Writes
<1>. QED BY <1>99, BillsOne

LEMMA OrdersBill ==
    ASSUME IInv, AllBilled, [Next]_vars
    PROVE  BillsKept
<1>1. ASSUME NEW h \in Holds, BuyerCancel(h)
      PROVE  BillsKept
  <2>1. Drop(h, "cancelled") /\ "cancelled" \in Dropped
    BY <1>1 DEF BuyerCancel, Dropped
  <2>. QED BY <2>1, DropBills
<1>2. ASSUME NEW h \in Holds,
             CheckoutLate(h) \/ CheckoutStale(h) \/ PaySettlement(h) \/ RefundSettlement(h)
      PROVE  UNCHANGED order
  BY <1>2 DEF CheckoutLate, CheckoutStale, PaySettlement, RefundSettlement, orderVars
<1>3. CASE UNCHANGED order
  BY <1>3, BillsNone
<1>4. CASE OrderNext
  BY <1>1, <1>2, <1>3, <1>4, CheckoutBills, ProgressBills, QualityCheckBills, DropBills,
     DeliverBills, CompleteBills, ReverseBills, ReconcileBills DEF OrderNext
<1>. QED BY <1>3, <1>4 DEF Next, vars, orderVars

LEMMA AlwaysBilled == Spec => []AllBilled
<1>1. Init => AllBilled
  BY DEF Init, AllBilled, Billed, NoOrder, Recognised, Early
<1>2. IInv /\ AllBilled /\ [Next]_vars => AllBilled'
  BY OrdersBill DEF BillsKept
<1>. QED BY <1>1, <1>2, Inductive, PTL DEF Spec

\* Money received is never lost: while an order has some of the buyer's money
\* it is neither cancelled nor failed, returned or billed anew, however often
\* its delivery was reopened (services.advance, reverse_delivery, reconcile).
THEOREM ReceivedMoneyAlwaysStands == Spec => ReceivedMoneyStands
<1>1. IInv /\ AllBilled /\ [Next]_vars => [\A h \in Holds : MoneyStands(h)]_vars
  BY OrdersBill DEF BillsKept
<1>. QED BY <1>1, AlwaysBilled, Inductive, PTL DEF Spec, ReceivedMoneyStands, MoneyStands

-----------------------------------------------------------------------------
(* What the portal says of an order.                                       *)

\* StageIsTrue, for one hold.
StageTrue(h) ==
    LET badge == Badge(Stage(h))
        delivered == order[h].status \in Recognised
        accepted == order[h].accepted
    IN  /\ badge.on_the_way <=> hold[h].status = "confirmed"
        /\ badge.buyer_to_pay <=> delivered /\ order[h].received < order[h].due
        /\ badge.payout_due =>
              /\ delivered /\ order[h].received = order[h].due
              /\ accepted > 0 => payout[h].status = "pending"
        /\ badge.payout_gone =>
              delivered /\ accepted > 0 /\ payout[h] = [status |-> "paid", quantity |-> accepted]
        /\ badge.stopped <=>
              hold[h].status \in {"expired", "released", "cancelled"} /\ ~order[h].recognised
        /\ h \in InProgress(SupplierOf[hold[h].listing]) <=>
              \/ badge.on_the_way
              \/ delivered /\ ~(payout[h].status = "paid" /\ order[h].received = order[h].due)

LEMMA StepNumbers == DOMAIN SupplierSteps = 1..7
BY DEF SupplierSteps

LEMMA WaitingNames ==
    /\ Waiting[2] = "confirmed" /\ Waiting[3] = "collection_scheduled"
    /\ Waiting[4] = "collected" /\ Waiting[5] = "in_transit"
    /\ Waiting[6] = "awaiting_buyer_payment" /\ Waiting[7] = "awaiting_payout"
BY DEF Waiting

\* The stage is that of the first step to do.
LEMMA FirstToDo ==
    ASSUME NEW h \in Holds, order[h].status \notin Dropped \cup {"none"},
           NEW k \in 1..7, ~StepDone(h, k), \A j \in 1..7 : j < k => StepDone(h, j)
    PROVE  Stage(h) = Waiting[k]
<1>. DEFINE todo == {j \in DOMAIN SupplierSteps : ~StepDone(h, j)}
            First(c) == c \in todo /\ \A j \in todo : c <= j
<1>1. k \in todo /\ todo \subseteq 1..7 /\ todo # {}
  BY StepNumbers
<1>2. First(k)
  BY <1>1, StepNumbers
<1>3. \A c : First(c) => c = k
  <2>. TAKE c
  <2>. HAVE First(c)
  <2>1. c <= k /\ k <= c /\ c \in Int /\ k \in Int
    BY <1>1, <1>2
  <2>. QED BY <2>1
<1>4. (CHOOSE c \in todo : \A j \in todo : c <= j) = k
  <2>. HIDE DEF todo
  <2>. QED BY <1>2, <1>3
<1>. HIDE DEF todo
<1>5. Stage(h) = Waiting[CHOOSE c \in todo : \A j \in todo : c <= j]
  BY <1>1 DEF Stage, todo
<1>. QED BY <1>4, <1>5

LEMMA PlacedInProgress ==
    ASSUME NEW h \in Holds, hold[h].status # "none"
    PROVE  h \in InProgress(SupplierOf[hold[h].listing])
              <=> Stage(h) \notin {"reserved", "payout_sent", "cancelled"}
BY DEF InProgress, Placed

LEMMA StepByHandling ==
    ASSUME NEW h, NEW j \in 1..5
    PROVE  StepDone(h, j) <=> j <= Handled(order[h].status)
<1>1. j <= 5 /\ j # 6 /\ j # 7
  OBVIOUS
<1>. QED BY <1>1 DEF StepDone

LEMMA HoldType ==
    ASSUME IInv, NEW h \in Holds
    PROVE  hold[h].status \in {"none", "active", "confirmed", "released", "expired", "cancelled"}
BY DEF IInv, TypeOK, StockTypeOK, HoldRecord, HoldStatuses

\* Nothing came of the hold, or it is still at checkout.
LEMMA StageNoOrder ==
    ASSUME IInv, NEW h \in Holds, hold[h].status # "none", order[h].status = "none"
    PROVE  StageTrue(h)
<1>1. Stage(h) = IF hold[h].status = "active" THEN "reserved" ELSE "cancelled"
  BY DEF Stage, Dropped
<1>2. hold[h].status # "confirmed"
  BY DEF IInv, HoldFollowsOrder, OnTheWay
<1>3. ~order[h].recognised /\ order[h].status \notin Recognised
  BY DEF IInv, DeliveryCountsOnce, Recognised
<1>4. h \notin InProgress(SupplierOf[hold[h].listing])
  BY <1>1, PlacedInProgress
<1>. QED BY <1>1, <1>2, <1>3, <1>4, HoldType DEF StageTrue, Badge

LEMMA StageDropped ==
    ASSUME IInv, NEW h \in Holds, hold[h].status # "none", order[h].status \in Dropped
    PROVE  StageTrue(h)
<1>1. Stage(h) = "cancelled"
  BY DEF Stage, Dropped
<1>2. hold[h].status \notin {"confirmed", "active"}
  BY DEF IInv, HoldFollowsOrder, OnTheWay, Dropped, NoOrder
<1>3. ~order[h].recognised /\ order[h].status \notin Recognised
  BY DEF IInv, DeliveryCountsOnce, Recognised, Dropped
<1>4. h \notin InProgress(SupplierOf[hold[h].listing])
  BY <1>1, PlacedInProgress
<1>. QED BY <1>1, <1>2, <1>3, <1>4, HoldType DEF StageTrue, Badge

LEMMA StageOnTheWay ==
    ASSUME IInv, NEW h \in Holds, hold[h].status # "none", order[h].status \in OnTheWay
    PROVE  StageTrue(h)
<1>. DEFINE k == Handled(order[h].status) + 1
<1>0. /\ Handled(order[h].status) \in 1..4
      /\ order[h].status \notin Dropped \cup {"none"} \cup Recognised
  BY DEF Handled, OnTheWay, OrderStatuses, Transitions, Dropped, Recognised
<1>1. k \in 2..5
  BY <1>0
<1>2. ~StepDone(h, k) /\ \A j \in 1..7 : j < k => StepDone(h, j)
  <2>1. PICK n \in 1..4 : n = Handled(order[h].status) /\ k = n + 1
    BY <1>0
  <2>2. \A j \in 1..5 : StepDone(h, j) <=> j <= n
    BY <2>1, StepByHandling
  <2>. HIDE DEF k
  <2>. QED BY <1>1, <2>1, <2>2
<1>3. Stage(h) = Waiting[k]
  <2>. HIDE DEF k
  <2>. QED BY <1>0, <1>1, <1>2, FirstToDo
<1>4. Stage(h) \in {"confirmed", "collection_scheduled", "collected", "in_transit"}
  <2>. HIDE DEF k
  <2>1. k = 2 \/ k = 3 \/ k = 4 \/ k = 5
    BY <1>1
  <2>. QED BY <1>3, <2>1, WaitingNames
<1>5. hold[h].status = "confirmed"
  BY DEF IInv, HoldFollowsOrder
<1>6. h \in InProgress(SupplierOf[hold[h].listing])
  BY <1>4, PlacedInProgress
<1>. QED BY <1>0, <1>4, <1>5, <1>6 DEF StageTrue, Badge

LEMMA StageDelivered ==
    ASSUME IInv, AllBilled, NEW h \in Holds, hold[h].status # "none", order[h].status \in Recognised
    PROVE  StageTrue(h)
<1>1. order[h].status \notin Dropped \cup {"none"} \cup OnTheWay
  BY DEF OnTheWay, Dropped, Recognised
<1>2. \A j \in 1..5 : StepDone(h, j)
  <2>1. Handled(order[h].status) = 5
    BY DEF Handled, Recognised
  <2>. QED BY <2>1, StepByHandling
<1>3. StepDone(h, 6) <=> order[h].payment = "paid"
  BY DEF StepDone
<1>4. StepDone(h, 7) <=> payout[h].status = "paid"
  BY DEF StepDone
<1>5. /\ order[h].payment = "paid" <=> order[h].received = order[h].due
      /\ order[h].payment # "paid" <=> order[h].received < order[h].due
  <2>1. order[h].received <= order[h].due /\ order[h].received \in Nat /\ order[h].due \in Nat
    BY OrderType DEF AllBilled, Billed
  <2>2. order[h].payment = "paid" <=> order[h].received = order[h].due
    BY DEF AllBilled, Billed
  <2>. QED BY <2>1, <2>2
<1>6. hold[h].status # "confirmed" /\ order[h].recognised
  BY <1>1 DEF IInv, HoldFollowsOrder, DeliveryCountsOnce
<1>7. /\ payout[h].status \in {"pending", "paid"} <=> order[h].accepted > 0
      /\ order[h].accepted > 0 => payout[h].quantity = order[h].accepted
  BY DEF IInv, DeliveryCountsOnce
<1>8. payout[h] \in PayoutRecord
  BY DEF IInv, TypeOK
<1>9. CASE order[h].payment # "paid"
  <2>1. Stage(h) = "awaiting_buyer_payment"
    <3>1. \A j \in 1..7 : j < 6 => StepDone(h, j)
      BY <1>2
    <3>. QED BY <1>1, <1>3, <1>9, <3>1, FirstToDo, WaitingNames
  <2>2. h \in InProgress(SupplierOf[hold[h].listing])
    BY <2>1, PlacedInProgress
  <2>. QED BY <1>5, <1>6, <1>9, <2>1, <2>2 DEF StageTrue, Badge
<1>10. CASE order[h].payment = "paid" /\ payout[h].status # "paid"
  <2>1. Stage(h) = "awaiting_payout"
    <3>1. \A j \in 1..7 : j < 7 => StepDone(h, j)
      BY <1>2, <1>3, <1>10
    <3>. QED BY <1>1, <1>4, <1>10, <3>1, FirstToDo, WaitingNames
  <2>2. h \in InProgress(SupplierOf[hold[h].listing])
    BY <2>1, PlacedInProgress
  <2>. QED BY <1>5, <1>6, <1>7, <1>10, <2>1, <2>2 DEF StageTrue, Badge
<1>11. CASE order[h].payment = "paid" /\ payout[h].status = "paid"
  <2>1. Stage(h) = "payout_sent"
    <3>1. \A j \in DOMAIN SupplierSteps : StepDone(h, j)
      BY <1>2, <1>3, <1>4, <1>11, StepNumbers
    <3>2. {j \in DOMAIN SupplierSteps : ~StepDone(h, j)} = {}
      BY <3>1
    <3>. QED BY <1>1, <3>2 DEF Stage
  <2>2. h \notin InProgress(SupplierOf[hold[h].listing])
    BY <2>1, PlacedInProgress
  <2>3. payout[h] = [status |-> "paid", quantity |-> order[h].accepted] /\ order[h].accepted > 0
    BY <1>7, <1>8, <1>11 DEF PayoutRecord
  <2>. QED BY <1>5, <1>6, <1>11, <2>1, <2>2, <2>3 DEF StageTrue, Badge
<1>. QED BY <1>9, <1>10, <1>11

\* The portal never misleads a supplier: what the stage of an order says of
\* its stock, the buyer's money and the payout is so, and the orders counted
\* as in progress are those with something left to happen
\* (main.supplier_progress, StageBadge, SupplierPanel).
THEOREM StageIsAlwaysTrue == Spec => []StageIsTrue
<1>1. IInv /\ AllBilled => StageIsTrue
  <2>. SUFFICES ASSUME IInv, AllBilled, NEW h \in Holds, hold[h].status # "none"
                PROVE  StageTrue(h)
    BY DEF StageIsTrue, StageTrue
  <2>1. order[h].status \in OrderStatuses
    BY OrderType DEF OrderRecord
  <2>2. order[h].status \in {"none"} \cup Dropped \cup OnTheWay \cup Recognised
    BY <2>1 DEF OnTheWay
  <2>. QED BY <2>2, StageNoOrder, StageDropped, StageOnTheWay, StageDelivered
<1>. QED BY <1>1, AlwaysBilled, Inductive, PTL
=============================================================================
