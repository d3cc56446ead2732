---------------------------- MODULE DemandProofs ----------------------------
(***************************************************************************)
(* Type correctness of Demand, and six of its safety invariants, for any   *)
(* finite sets of batches, reservations, requirements, allocations and     *)
(* orders.  IInv is inductive and gives the types and the three invariants *)
(* about one batch, one reservation or one allocation; that a requirement  *)
(* names its live order, and that one read as matched is, are preserved by *)
(* every step from a state of IInv.  That a batch's reserved quantity is   *)
(* what is held on it needs RInv, and sums over all allocations.           *)
(***************************************************************************)
EXTENDS Demand, FiniteSetTheorems, TLAPS

-----------------------------------------------------------------------------
(* Batches, one at a time.                                                 *)

\* What every stored batch is: its balances fit, and a sold one has no bird left.
GoodBatch(x) ==
    /\ x \in BatchRecord
    /\ Stores(x)
    /\ x.status = "sold" => Left(x) <= 0

GoodMarket(y) ==
    /\ y \in MarketRecord
    /\ y.status = "approved" => y.filled <= y.approved

GoodAllocation(z) ==
    /\ z \in AllocationRecord
    /\ z.filled > 0 => ~ z.listed
    /\ z.filled <= z.quantity

Batched ==
    /\ batch \in [BatchIds -> BatchRecord]
    /\ \A b \in BatchIds : GoodBatch(batch[b])

Marketed ==
    /\ market \in [MarketIds -> MarketRecord]
    /\ \A k \in MarketIds : GoodMarket(market[k])

Allocated ==
    /\ allocation \in [Allocations -> AllocationRecord]
    /\ \A a \in Allocations : GoodAllocation(allocation[a])

Requested == request \in [Requirements -> RequestRecord]

Ordering == order \in [OrderIds -> OrderRecord]

IInv ==
    /\ Batched
    /\ Marketed
    /\ Allocated
    /\ Requested
    /\ Ordering

\* A batch a handler is about to save: its balances may not fit.
Loose ==
    [status : {"none", "open", "fully_reserved", "sold"}, initial : Nat,
     current : Int, reserved : Int, sold : Int, elsewhere : Int,
     approved : BOOLEAN, cleared : BOOLEAN]

(* A batch that the table accepts is good, if it is not sold or has no     *)
(* bird left.                                                              *)
LEMMA StoredIsGood ==
    ASSUME NEW x \in Loose, Stores(x), x.status = "sold" => Left(x) <= 0
    PROVE  GoodBatch(x)
BY DEF Stores, BatchRecord, GoodBatch, Loose

(* Saving a good batch keeps every batch good.                             *)
LEMMA SaveKeeps ==
    ASSUME NEW b \in BatchIds, NEW x, Batched,
           Stores(x) => GoodBatch(x), Save(b, x)
    PROVE  Batched'
BY DEF Batched, Save, GoodBatch

LEMMA SaveMarketKeeps ==
    ASSUME NEW k \in MarketIds, NEW y, Marketed, GoodMarket(y), market' = [market EXCEPT ![k] = y]
    PROVE  Marketed'
BY DEF Marketed, GoodMarket

(* A sum over allocations, or over reservations, is a natural number.      *)
LEMMA SumType ==
    ASSUME NEW S, IsFiniteSet(S), NEW n
    PROVE  Sum(S, n) \in Nat
<1>1. IsFiniteSet(S \X Quantities)
  <2>1. IsFiniteSet(Quantities)
    BY FS_Interval, BatchesAssumption DEF Quantities
  <2>. QED BY <2>1, FS_Product
<1>2. IsFiniteSet({u \in S \X Quantities : u[2] <= n[u[1]]})
  BY <1>1, FS_Subset
<1>. QED BY <1>2, FS_CardinalityType DEF Sum

(* The status a sale or a return leaves a batch with.                     *)
LEMMA Refreshing ==
    ASSUME NEW x \in Loose
    PROVE  Stores(RefreshBatchStatus(x)) => GoodBatch(RefreshBatchStatus(x))
BY DEF Stores, BatchRecord, GoodBatch, RefreshBatchStatus, Left, Loose

(* The batch a delivery note leaves.                                       *)
LEMMA Receiving ==
    ASSUME NEW x, GoodBatch(x), NEW q \in Quantities, NEW f \in 0..q
    PROVE  Stores(Received(x, q, f)) => GoodBatch(Received(x, q, f))
<1>. DEFINE y == [x EXCEPT !.reserved = @ - f, !.sold = @ + q]
<1>0. x \in BatchRecord /\ x.reserved - f \in Int /\ x.sold + q \in Int
  BY DEF GoodBatch, BatchRecord, Quantities
<1>. DEFINE u == [x EXCEPT !.reserved = @ - f]
            w == [u EXCEPT !.sold = @ + q]
<1>1. y \in Loose /\ y.status = x.status
  <2>1. u \in Loose /\ u.status = x.status /\ u.sold + q \in Int
    BY <1>0 DEF BatchRecord, Loose
  <2>2. w \in Loose /\ w.status = x.status
    <3>. HIDE DEF u
    <3>. QED BY <2>1 DEF Loose
  <2>3. y = w
    BY <1>0 DEF BatchRecord
  <2>. QED BY <2>2, <2>3
<1>2. x.status = "sold" => Left(y) <= 0
  BY BatchesAssumption DEF GoodBatch, BatchRecord, Left, Quantities
<1>. DEFINE z == Received(x, q, f)
<1>3. z \in Loose /\ Left(z) = Left(y)
  BY <1>1 DEF Received, Loose, Left, Available
<1>4. z.status = "sold" => Left(y) <= 0
  BY <1>1, <1>2 DEF Received, Loose
<1>. QED BY <1>3, <1>4, StoredIsGood

-----------------------------------------------------------------------------
(* Every action keeps every batch and every market reservation good.       *)

LEMMA CreateBatchKeeps ==
    ASSUME NEW b \in BatchIds, NEW byStaff \in BOOLEAN, Batched, CreateBatch(b, byStaff)
    PROVE  Batched'
<1>. DEFINE x == NewBatch("open", MaxBirds, byStaff)
<1>1. x \in Loose /\ x.status = "open"
  BY BatchesAssumption DEF NewBatch, Loose
<1>2. Stores(x) => GoodBatch(x)
  BY <1>1, StoredIsGood
<1>. QED BY <1>2, SaveKeeps DEF CreateBatch

LEMMA VerifyKeeps ==
    ASSUME NEW b \in BatchIds, NEW v \in Quantities, NEW rejected \in 0..MaxBirds,
           NEW complete \in BOOLEAN, Batched, VerifySupplierBatch(b, v, rejected, complete)
    PROVE  Batched'
<1>. DEFINE x == [batch[b] EXCEPT !.approved = TRUE, !.cleared = complete,
                                  !.current = v, !.status = "open"]
<1>0. batch[b] \in BatchRecord /\ v \in Int
  BY DEF Batched, Quantities
<1>. DEFINE yes == TRUE
            u == [batch[b] EXCEPT !.approved = yes]
            v2 == [u EXCEPT !.cleared = complete]
            w == [v2 EXCEPT !.current = v]
            y == [w EXCEPT !.status = "open"]
<1>1. x \in Loose /\ x.status = "open"
  <2>1. u \in Loose
    <3>1. yes \in BOOLEAN
      OBVIOUS
    <3>. HIDE DEF yes
    <3>. QED BY <1>0, <3>1 DEF BatchRecord, Loose
  <2>2. v2 \in Loose
    <3>. HIDE DEF u
    <3>. QED BY <2>1 DEF Loose
  <2>3. w \in Loose
    <3>. HIDE DEF v2
    <3>. QED BY <1>0, <2>2 DEF Loose
  <2>4. y \in Loose /\ y.status = "open"
    <3>. HIDE DEF w
    <3>. QED BY <2>3 DEF Loose
  <2>5. x = y
    BY <1>0 DEF BatchRecord
  <2>. QED BY <2>4, <2>5
<1>2. Stores(x) => GoodBatch(x)
  BY <1>1, StoredIsGood
<1>. HIDE DEF x
<1>3. Save(b, x)
  BY DEF VerifySupplierBatch, x
<1>. QED BY <1>2, <1>3, SaveKeeps

LEMMA ExternalSaleKeeps ==
    ASSUME NEW b \in BatchIds, NEW q \in Quantities, Batched, ExternalSale(b, q)
    PROVE  Batched'
<1>. DEFINE x == [batch[b] EXCEPT !.elsewhere = @ + q]
            y == IF Available(x) <= 0 THEN [x EXCEPT !.status = "fully_reserved"] ELSE x
<1>0. GoodBatch(batch[b]) /\ q > 0 /\ q \in Int
  BY DEF Batched, Quantities
<1>1. batch[b].status # "sold"
  BY <1>0 DEF ExternalSale, GoodBatch, BatchRecord, Available, Left, Stores
<1>2. x \in Loose /\ x.status = batch[b].status
  BY <1>0 DEF GoodBatch, BatchRecord, Loose
<1>3. y \in Loose /\ y.status # "sold"
  BY <1>1, <1>2 DEF Loose
<1>4. Stores(y) => GoodBatch(y)
  BY <1>3, StoredIsGood
<1>5. Save(b, y)
  BY DEF ExternalSale
<1>. HIDE DEF y
<1>. QED BY <1>4, <1>5, SaveKeeps

LEMMA SoldElsewhereKeeps ==
    ASSUME NEW b \in BatchIds, NEW q \in Quantities, Batched, SoldElsewhere(b, q)
    PROVE  Batched'
<1>. DEFINE x == [batch[b] EXCEPT !.elsewhere = @ + q]
<1>1. x \in Loose
  BY DEF Batched, BatchRecord, Loose, Quantities
<1>. HIDE DEF x
<1>2. Save(b, RefreshBatchStatus(x))
  BY DEF SoldElsewhere, x
<1>. QED BY <1>1, <1>2, Refreshing, SaveKeeps

LEMMA TakeKeeps ==
    ASSUME NEW b \in BatchIds, NEW q \in Quantities, Batched, TakeFromBatch(b, q)
    PROVE  Batched'
<1>. DEFINE x == [batch[b] EXCEPT !.sold = @ + q]
<1>1. x \in Loose
  BY DEF Batched, BatchRecord, Loose, Quantities
<1>. HIDE DEF x
<1>2. Save(b, RefreshBatchStatus(x))
  BY DEF TakeFromBatch, x
<1>. QED BY <1>1, <1>2, Refreshing, SaveKeeps

LEMMA ReturnKeeps ==
    ASSUME NEW b \in BatchIds, NEW q \in Quantities, Batched, ReturnToBatch(b, q)
    PROVE  Batched'
<1>. DEFINE x == [batch[b] EXCEPT !.sold = Positive(@ - q)]
<1>1. x \in Loose
  BY DEF Batched, BatchRecord, Loose, Quantities, Positive
<1>. HIDE DEF x
<1>2. Save(b, RefreshBatchStatus(x))
  BY DEF ReturnToBatch, x
<1>. QED BY <1>1, <1>2, Refreshing, SaveKeeps

LEMMA ReceiveKeeps ==
    ASSUME NEW b \in BatchIds, NEW q \in Quantities, NEW f \in 0..q, Batched,
           ReceiveSupplierStock(b, q, f)
    PROVE  Batched'
<1>1. GoodBatch(batch[b])
  BY DEF Batched
<1>2. Save(b, Received(batch[b], q, f))
  BY DEF ReceiveSupplierStock
<1>. QED BY <1>1, <1>2, Receiving, SaveKeeps

\* What a note fills is at most what it brings and what is outstanding.
LEMMA FilledType ==
    ASSUME NEW q \in Quantities, NEW n \in Nat
    PROVE  Least(q, n) \in 0..q /\ Least(q, n) <= n
BY BatchesAssumption DEF Least, Quantities

LEMMA ReceiveForMarketKeeps ==
    ASSUME NEW k \in MarketIds, NEW q \in Quantities, Batched, Marketed, ReceiveForMarket(k, q)
    PROVE  Batched' /\ Marketed'
<1>. DEFINE f == Least(q, Outstanding(k))
<1>1. GoodMarket(market[k]) /\ market[k].batch \in BatchIds
  BY DEF Marketed, GoodMarket, MarketRecord
<1>2. /\ market[k].status = "approved"
      /\ Outstanding(k) = market[k].approved - market[k].filled
  BY <1>1 DEF ReceiveForMarket, Outstanding, Positive, GoodMarket, MarketRecord
<1>3. Outstanding(k) \in Nat
  BY <1>1, <1>2 DEF GoodMarket, MarketRecord
<1>4. f \in 0..q /\ f <= Outstanding(k)
  BY <1>3, FilledType
<1>. HIDE DEF f
<1>5. ReceiveSupplierStock(market[k].batch, q, f) /\ market' = [market EXCEPT ![k].filled = @ + f]
  BY DEF ReceiveForMarket, f
<1>6. Batched'
  BY <1>1, <1>4, <1>5, ReceiveKeeps
<1>7. market[k].filled + f \in 0..MaxBirds /\ market[k].filled + f <= market[k].approved
  BY <1>1, <1>2, <1>4, BatchesAssumption DEF GoodMarket, MarketRecord, Quantities
<1>8. Marketed'
  BY <1>5, <1>7 DEF Marketed, GoodMarket, MarketRecord
<1>. QED BY <1>6, <1>8

LEMMA RequestKeeps ==
    ASSUME NEW k \in MarketIds, NEW b \in BatchIds, NEW q \in Quantities, Batched, Marketed,
           RequestReservation(k, b, q)
    PROVE  Batched' /\ Marketed'
<1>. DEFINE x == NewBatch("open", q, FALSE)
            y == NewReservation("requested", b, q)
<1>1. x \in Loose /\ x.status = "open"
  BY BatchesAssumption DEF NewBatch, Loose, Quantities
<1>2. Stores(x) => GoodBatch(x)
  BY <1>1, StoredIsGood
<1>3. Batched'
  <2>. HIDE DEF x
  <2>1. CASE Save(b, x)
    BY <1>2, <2>1, SaveKeeps
  <2>2. CASE UNCHANGED batch
    BY <2>2 DEF Batched
  <2>. QED BY <2>1, <2>2 DEF RequestReservation, x
<1>4. y \in MarketRecord /\ y.status = "requested"
  BY BatchesAssumption DEF NewReservation, MarketRecord, Quantities
<1>. HIDE DEF y
<1>5. market' = [market EXCEPT ![k] = y]
  BY DEF RequestReservation, y
<1>6. Marketed'
  BY <1>4, <1>5 DEF Marketed, GoodMarket
<1>. QED BY <1>3, <1>6

LEMMA ApproveKeeps ==
    ASSUME NEW k \in MarketIds, NEW q \in Quantities, Batched, Marketed, ApproveReservation(k, q)
    PROVE  Batched' /\ Marketed'
<1>. DEFINE b == market[k].batch
            old == IF market[k].status = "approved" THEN market[k].approved ELSE 0
            x == [batch[b] EXCEPT !.reserved = @ + q - old]
            y == [x EXCEPT !.status = IF Available(x) <= 0 THEN "fully_reserved" ELSE "open"]
<1>1. b \in BatchIds /\ old \in Int /\ GoodBatch(batch[b])
  BY DEF Batched, Marketed, MarketRecord
<1>2. x \in Loose
  BY <1>1 DEF GoodBatch, BatchRecord, Loose, Quantities
<1>3. y \in Loose /\ y.status # "sold"
  BY <1>2 DEF Loose
<1>5. Save(b, y)
  BY DEF ApproveReservation
<1>. HIDE DEF y
<1>4. Stores(y) => GoodBatch(y)
  BY <1>3, StoredIsGood
<1>6. Batched'
  BY <1>1, <1>4, <1>5, SaveKeeps
<1>. DEFINE m == [market[k] EXCEPT !.status = "approved", !.approved = q]
<1>7. market' = [market EXCEPT ![k] = m]
  BY DEF ApproveReservation, Marketed, MarketRecord
<1>8. GoodMarket(m)
  <2>1. market[k] \in MarketRecord /\ q \in 0..MaxBirds /\ q >= market[k].filled
    BY BatchesAssumption DEF ApproveReservation, Marketed, Quantities
  <2>. QED BY <2>1 DEF GoodMarket, MarketRecord
<1>9. Marketed'
  BY <1>7, <1>8, SaveMarketKeeps
<1>. QED BY <1>6, <1>9

LEMMA DropKeeps ==
    ASSUME NEW k \in MarketIds, NEW status \in {"rejected", "cancelled"}, Batched, Marketed,
           DropReservation(k, status)
    PROVE  Batched' /\ Marketed'
<1>. DEFINE b == market[k].batch
            n == Outstanding(k)
            x == [batch[b] EXCEPT !.reserved = @ - n,
                                  !.status = IF @ = "fully_reserved" THEN "open" ELSE @]
<1>1. b \in BatchIds /\ GoodBatch(batch[b]) /\ n \in Nat
  BY DEF Batched, Marketed, GoodMarket, MarketRecord, Outstanding, Positive
<1>. HIDE DEF n
<1>2. /\ x \in Loose
      /\ x.status = "sold" => batch[b].status = "sold"
      /\ Left(x) = Left(batch[b])
  <2>1. batch[b] \in BatchRecord /\ batch[b].reserved - n \in Int
    BY <1>1 DEF GoodBatch, BatchRecord
  <2>. DEFINE u == [batch[b] EXCEPT !.reserved = @ - n]
              w == [u EXCEPT !.status = IF @ = "fully_reserved" THEN "open" ELSE @]
  <2>2. u \in Loose /\ u.status = batch[b].status /\ Left(u) = Left(batch[b])
    BY <2>1 DEF BatchRecord, Loose, Left
  <2>3. /\ w \in Loose
        /\ w.status = "sold" => u.status = "sold"
        /\ Left(w) = Left(u)
    <3>. HIDE DEF u
    <3>. QED BY <2>2 DEF Loose, Left
  <2>4. x = w
    BY <2>1 DEF BatchRecord
  <2>. QED BY <2>2, <2>3, <2>4
<1>3. Stores(x) => GoodBatch(x)
  BY <1>1, <1>2, StoredIsGood DEF GoodBatch
<1>4. Batched'
  <2>1. CASE market[k].status = "approved"
    <3>1. Save(b, x)
      BY <2>1 DEF DropReservation, ReleaseBatch, n
    <3>. HIDE DEF x
    <3>. QED BY <1>1, <1>3, <3>1, SaveKeeps
  <2>2. CASE market[k].status # "approved"
    BY <2>2 DEF DropReservation, ReleaseBatch, Batched
  <2>. QED BY <2>1, <2>2
<1>. DEFINE y == [market[k] EXCEPT !.status = status,
                                  !.approved = IF status = "rejected" THEN 0 ELSE @]
<1>5. market' = [market EXCEPT ![k] = y]
  BY DEF DropReservation, Marketed, MarketRecord
<1>6. GoodMarket(y)
  <2>1. market[k] \in MarketRecord
    BY DEF Marketed
  <2>. DEFINE u == [market[k] EXCEPT !.status = status]
              w == [u EXCEPT !.approved = IF status = "rejected" THEN 0 ELSE @]
  <2>2. u \in MarketRecord /\ u.status = status
    BY <2>1 DEF MarketRecord
  <2>3. w \in MarketRecord /\ w.status = status
    <3>. HIDE DEF u
    <3>. QED BY <2>2, BatchesAssumption DEF MarketRecord
  <2>4. y = w
    BY <2>1 DEF MarketRecord
  <2>. QED BY <2>3, <2>4 DEF GoodMarket
<1>7. Marketed'
  BY <1>5, <1>6, SaveMarketKeeps
<1>. QED BY <1>4, <1>7

(* Every action of the batches.                                            *)
LEMMA BatchesKeep ==
    ASSUME Batched, Marketed, BatchesNext
    PROVE  Batched' /\ Marketed'
<1>1. ASSUME NEW b \in BatchIds, NEW byStaff \in BOOLEAN, CreateBatch(b, byStaff)
      PROVE  Batched' /\ Marketed'
  BY <1>1, CreateBatchKeeps DEF CreateBatch, Marketed
<1>2. ASSUME NEW b \in BatchIds, NEW q \in Quantities, NEW rejected \in 0..MaxBirds,
             NEW complete \in BOOLEAN, VerifySupplierBatch(b, q, rejected, complete)
      PROVE  Batched' /\ Marketed'
  BY <1>2, VerifyKeeps DEF VerifySupplierBatch, Marketed
<1>3. ASSUME NEW b \in BatchIds, NEW q \in Quantities, ExternalSale(b, q)
      PROVE  Batched' /\ Marketed'
  BY <1>3, ExternalSaleKeeps DEF ExternalSale, Marketed
<1>4. ASSUME NEW b \in BatchIds, NEW q \in Quantities, SoldElsewhere(b, q)
      PROVE  Batched' /\ Marketed'
  BY <1>4, SoldElsewhereKeeps DEF SoldElsewhere, Marketed
<1>5. ASSUME NEW b \in BatchIds, NEW q \in Quantities, TakeFromBatch(b, q)
      PROVE  Batched' /\ Marketed'
  BY <1>5, TakeKeeps DEF TakeFromBatch, Marketed
<1>6. ASSUME NEW b \in BatchIds, NEW q \in Quantities, ReturnToBatch(b, q)
      PROVE  Batched' /\ Marketed'
  BY <1>6, ReturnKeeps DEF ReturnToBatch, Marketed
<1>7. ASSUME NEW b \in BatchIds, NEW q \in Quantities, ReceiveUnreserved(b, q)
      PROVE  Batched' /\ Marketed'
  <2>1. 0 \in 0..q
    BY BatchesAssumption DEF Quantities
  <2>2. ReceiveSupplierStock(b, q, 0) /\ UNCHANGED market
    BY <1>7 DEF ReceiveUnreserved
  <2>. QED BY <2>1, <2>2, ReceiveKeeps DEF Marketed
<1>. QED
  BY <1>1, <1>2, <1>3, <1>4, <1>5, <1>6, <1>7, RequestKeeps, ApproveKeeps,
     ReceiveForMarketKeeps, DropKeeps DEF BatchesNext

-----------------------------------------------------------------------------
(* What the demand handlers write into a batch, an allocation, a request.  *)

\* Reserved birds change, and a batch with birds again is open again.
LEMMA Releasing ==
    ASSUME NEW x, GoodBatch(x), NEW m \in Int
    PROVE  LET y == Reopened([x EXCEPT !.reserved = m]) IN Stores(y) => GoodBatch(y)
<1>. DEFINE u == [x EXCEPT !.reserved = m]
            y == Reopened(u)
<1>1. u \in Loose /\ u.status = x.status /\ Left(u) = Left(x)
  BY DEF GoodBatch, BatchRecord, Loose, Left
<1>. HIDE DEF u
<1>2. y \in Loose /\ (y.status = "sold" => u.status = "sold") /\ Left(y) = Left(u)
  BY <1>1 DEF Reopened, Loose, Left
<1>3. y.status = "sold" => Left(y) <= 0
  BY <1>1, <1>2 DEF GoodBatch
<1>4. Stores(y) => GoodBatch(y)
  BY <1>2, <1>3, StoredIsGood
<1>. QED BY <1>4 DEF u

LEMMA QuantitySumType ==
    ASSUME NEW S \in SUBSET Allocations, NEW n
    PROVE  Sum(S, n) \in Nat
BY SumType, FS_Subset, DemandAssumption

LEMMA RefreshedType ==
    ASSUME NEW q \in RequestRecord, NEW x, NEW r
    PROVE  Refreshed(q, x, r) \in RequestRecord
<1>. DEFINE s == IF q.status \in {"cancelled", "completed"} THEN q.status
                 ELSE IF Secured(x, r) = 0 THEN "open"
                 ELSE IF Secured(x, r) < q.quantity THEN "partially_matched"
                 ELSE "fully_matched"
<1>1. s \in RequestStatuses
  BY DEF RequestStatuses
<1>2. Refreshed(q, x, r) = [q EXCEPT !.status = s]
  BY DEF Refreshed
<1>. HIDE DEF s
<1>. QED BY <1>1, <1>2 DEF RequestRecord

\* A status written into an allocation.
LEMMA StatusKeeps ==
    ASSUME NEW z, GoodAllocation(z), NEW s \in AllocationStatuses
    PROVE  GoodAllocation([z EXCEPT !.status = s])
BY DEF GoodAllocation, AllocationRecord

\* What writes a status into some allocations keeps all of them good.
LEMMA StatusesKeep ==
    ASSUME Allocated, NEW S, NEW s \in AllocationStatuses,
           allocation' = [a \in Allocations |->
              IF a \in S THEN [allocation[a] EXCEPT !.status = s] ELSE allocation[a]]
    PROVE  Allocated'
<1>1. ASSUME NEW a \in Allocations
      PROVE  GoodAllocation(allocation'[a])
  BY <1>1, StatusKeeps DEF Allocated
<1>. QED BY <1>1 DEF Allocated, GoodAllocation

LEMMA SaveAllocationKeeps ==
    ASSUME Allocated, NEW a \in Allocations, NEW z, GoodAllocation(z),
           allocation' = [allocation EXCEPT ![a] = z]
    PROVE  Allocated'
BY DEF Allocated, GoodAllocation

LEMMA SaveRequestKeeps ==
    ASSUME Requested, NEW r \in Requirements, NEW q \in RequestRecord,
           request' = [request EXCEPT ![r] = q]
    PROVE  Requested'
BY DEF Requested

LEMMA SaveOrderKeeps ==
    ASSUME Ordering, NEW o \in OrderIds, NEW x \in OrderRecord,
           order' = [order EXCEPT ![o] = x]
    PROVE  Ordering'
BY DEF Ordering

-----------------------------------------------------------------------------
(* The requirement's and the allocations' own handlers.                    *)

LEMMA CancelAllocationsKeeps ==
    ASSUME Batched, Allocated, NEW r, CancelAllocations(r)
    PROVE  Batched' /\ Allocated'
<1>. DEFINE released == Active(allocation, r)
<1>1. ASSUME NEW b \in BatchIds
      PROVE  GoodBatch(batch'[b])
  <2>. DEFINE n == Held(b, released)
  <2>1. n \in Nat
    BY QuantitySumType DEF Held, Active, Of
  <2>2. GoodBatch(batch[b]) /\ Stores(batch'[b])
    BY DEF CancelAllocations, Batched
  <2>3. batch[b].reserved - n \in Int
    BY <2>1, <2>2 DEF GoodBatch, BatchRecord
  <2>4. CASE \E a \in released : allocation[a].batch = b
    <3>1. batch'[b] = Reopened([batch[b] EXCEPT !.reserved = @ - n])
      BY <2>4 DEF CancelAllocations
    <3>. HIDE DEF n
    <3>. QED BY <2>2, <2>3, <3>1, Releasing
  <2>5. CASE ~ \E a \in released : allocation[a].batch = b
    BY <2>2, <2>5 DEF CancelAllocations
  <2>. QED BY <2>4, <2>5
<1>2. Batched'
  <2>1. batch' = [b \in BatchIds |-> batch'[b]]
    BY DEF CancelAllocations
  <2>. HIDE DEF released
  <2>. QED BY <1>1, <2>1 DEF Batched, GoodBatch
<1>3. Allocated'
  BY StatusesKeep DEF CancelAllocations, AllocationStatuses
<1>. QED BY <1>2, <1>3

LEMMA RequirementKeeps ==
    ASSUME IInv, NEW r \in Requirements,
           \/ \E q \in Needs : CreateRequirement(r, q) \/ EditRequest(r, q)
           \/ \E status \in {"sourcing", "supply_found", "confirmed", "cancelled"} :
                 SourceProgress(r, status)
           \/ \E status \in {"confirmed", "fulfilling", "completed", "cancelled"} :
                 UpdateRequirementProgress(r, status)
           \/ CancelRequirement(r)
    PROVE  IInv'
<1>1. ASSUME NEW q \in Needs, CreateRequirement(r, q) \/ EditRequest(r, q)
      PROVE  IInv'
  <2>1. Requested'
    BY <1>1, DemandAssumption
       DEF IInv, CreateRequirement, EditRequest, Requested, RequestRecord, RequestStatuses, Needs
  <2>. QED BY <1>1, <2>1 DEF IInv, CreateRequirement, EditRequest, Batched, Marketed, Allocated, Ordering
<1>2. ASSUME NEW status \in {"sourcing", "supply_found", "confirmed", "cancelled"},
             SourceProgress(r, status)
      PROVE  IInv'
  <2>1. Requested'
    BY <1>2 DEF IInv, SourceProgress, Requested, RequestRecord, RequestStatuses
  <2>. QED BY <1>2, <2>1 DEF IInv, SourceProgress, Batched, Marketed, Allocated, Ordering
<1>3. ASSUME NEW status \in {"confirmed", "fulfilling", "completed", "cancelled"},
             UpdateRequirementProgress(r, status)
      PROVE  IInv'
  <2>1. Requested'
    BY <1>3 DEF IInv, UpdateRequirementProgress, Requested, RequestRecord, RequestStatuses
  <2>2. Batched' /\ Allocated'
    <3>1. CASE status = "cancelled"
      BY <1>3, <3>1, CancelAllocationsKeeps DEF IInv, UpdateRequirementProgress
    <3>2. CASE status # "cancelled"
      BY <1>3, <3>2 DEF IInv, UpdateRequirementProgress, Batched, Allocated
    <3>. QED BY <3>1, <3>2
  <2>. QED BY <1>3, <2>1, <2>2 DEF IInv, UpdateRequirementProgress, Marketed, Ordering
<1>4. ASSUME CancelRequirement(r)
      PROVE  IInv'
  <2>1. Requested'
    BY <1>4 DEF IInv, CancelRequirement, Requested, RequestRecord, RequestStatuses
  <2>2. Batched' /\ Allocated'
    BY <1>4, CancelAllocationsKeeps DEF IInv, CancelRequirement
  <2>. QED BY <1>4, <2>1, <2>2 DEF IInv, CancelRequirement, Marketed, Ordering
<1>. QED BY <1>1, <1>2, <1>3, <1>4

LEMMA CreateKeeps ==
    ASSUME IInv, NEW a \in Allocations, NEW r \in Requirements, NEW b \in BatchIds,
           NEW q \in Needs, AllocationCreate(a, r, b, q)
    PROVE  IInv'
<1>. DEFINE x == [batch[b] EXCEPT !.reserved = @ + q]
            y == [x EXCEPT !.status = IF Available(x) <= 0 THEN "fully_reserved" ELSE "open"]
            z == NewAllocation("reserved", r, b, q)
            after == [allocation EXCEPT ![a] = z]
            s == Refreshed(request[r], after, r)
<1>1. Batched'
  <2>1. x \in Loose
    BY DemandAssumption DEF IInv, Batched, BatchRecord, Loose, Needs
  <2>2. y \in Loose /\ y.status # "sold"
    BY <2>1 DEF Loose
  <2>3. Save(b, y)
    BY DEF AllocationCreate
  <2>. HIDE DEF y
  <2>4. Stores(y) => GoodBatch(y)
    BY <2>2, StoredIsGood
  <2>. QED BY <2>3, <2>4, SaveKeeps DEF IInv
<1>2. Allocated'
  <2>1. GoodAllocation(z)
    BY DemandAssumption, BatchesAssumption
       DEF GoodAllocation, NewAllocation, AllocationRecord, AllocationStatuses, SecuredStates, Needs
  <2>2. allocation' = after
    BY DEF AllocationCreate
  <2>. HIDE DEF z
  <2>. QED BY <2>1, <2>2, SaveAllocationKeeps DEF IInv
<1>3. Requested'
  <2>1. request' = [request EXCEPT ![r] = s]
    BY DEF AllocationCreate
  <2>2. s \in RequestRecord
    BY RefreshedType DEF IInv, Requested
  <2>. HIDE DEF s
  <2>. QED BY <2>1, <2>2, SaveRequestKeeps DEF IInv
<1>. QED BY <1>1, <1>2, <1>3 DEF IInv, AllocationCreate, Marketed, Ordering

LEMMA CancelKeeps ==
    ASSUME IInv, NEW a \in Allocations, AllocationCancel(a)
    PROVE  IInv'
<1>. DEFINE r == allocation[a].request
            b == allocation[a].batch
            active == allocation[a].status \in SecuredStates
            m == IF active THEN batch[b].reserved - OutstandingAllocation(a) ELSE batch[b].reserved
            y == Reopened([batch[b] EXCEPT !.reserved = m])
            z == [allocation[a] EXCEPT !.status = "cancelled"]
            after == IF active THEN [allocation EXCEPT ![a].status = "cancelled"] ELSE allocation
            s == Refreshed(request[r], after, r)
<1>1. r \in Requirements /\ b \in BatchIds /\ GoodAllocation(allocation[a]) /\ GoodBatch(batch[b])
  BY DEF IInv, Allocated, AllocationRecord, Batched
<1>2. Batched'
  <2>1. OutstandingAllocation(a) \in Int
    BY <1>1 DEF OutstandingAllocation, Positive, GoodAllocation, AllocationRecord
  <2>2. m \in Int
    BY <1>1, <2>1 DEF GoodBatch, BatchRecord
  <2>3. Save(b, y)
    BY DEF AllocationCancel
  <2>. HIDE DEF m
  <2>4. Stores(y) => GoodBatch(y)
    BY <1>1, <2>2, Releasing
  <2>. HIDE DEF y
  <2>. QED BY <1>1, <2>3, <2>4, SaveKeeps DEF IInv
<1>3. Allocated'
  <2>1. GoodAllocation(z)
    BY <1>1, StatusKeeps DEF AllocationStatuses
  <2>2. CASE active
    <3>1. allocation' = [allocation EXCEPT ![a] = z]
      BY <2>2 DEF AllocationCancel
    <3>. HIDE DEF z
    <3>. QED BY <2>1, <3>1, SaveAllocationKeeps DEF IInv
  <2>3. CASE ~ active
    BY <2>3 DEF AllocationCancel, IInv, Allocated
  <2>. QED BY <2>2, <2>3
<1>4. Requested'
  <2>1. request' = [request EXCEPT ![r] = s]
    BY DEF AllocationCancel
  <2>2. s \in RequestRecord
    BY <1>1, RefreshedType DEF IInv, Requested
  <2>. HIDE DEF s
  <2>. QED BY <1>1, <2>1, <2>2, SaveRequestKeeps DEF IInv
<1>. QED BY <1>2, <1>3, <1>4 DEF IInv, AllocationCancel, Marketed, Ordering

LEMMA ReduceKeeps ==
    ASSUME IInv, NEW a \in Allocations, NEW q \in Needs, AllocationReduce(a, q)
    PROVE  IInv'
<1>. DEFINE r == allocation[a].request
            b == allocation[a].batch
            m == batch[b].reserved + q - allocation[a].quantity
            y == Reopened([batch[b] EXCEPT !.reserved = m])
            z == [allocation[a] EXCEPT !.quantity = q]
            after == [allocation EXCEPT ![a].quantity = q]
            s == Refreshed(request[r], after, r)
<1>1. r \in Requirements /\ b \in BatchIds /\ GoodAllocation(allocation[a]) /\ GoodBatch(batch[b])
  BY DEF IInv, Allocated, AllocationRecord, Batched
<1>2. Batched'
  <2>1. m \in Int
    BY <1>1, DemandAssumption DEF GoodBatch, BatchRecord, GoodAllocation, AllocationRecord, Needs
  <2>2. Save(b, y)
    BY DEF AllocationReduce
  <2>. HIDE DEF m
  <2>3. Stores(y) => GoodBatch(y)
    BY <1>1, <2>1, Releasing
  <2>. HIDE DEF y
  <2>. QED BY <1>1, <2>2, <2>3, SaveKeeps DEF IInv
<1>3. Allocated'
  <2>1. GoodAllocation(z)
    BY <1>1, DemandAssumption DEF AllocationReduce, GoodAllocation, AllocationRecord, Needs
  <2>2. allocation' = [allocation EXCEPT ![a] = z]
    BY DEF AllocationReduce
  <2>. HIDE DEF z
  <2>. QED BY <2>1, <2>2, SaveAllocationKeeps DEF IInv
<1>4. Requested'
  <2>1. request' = [request EXCEPT ![r] = s]
    BY DEF AllocationReduce
  <2>2. s \in RequestRecord
    BY <1>1, RefreshedType DEF IInv, Requested
  <2>. HIDE DEF s
  <2>. QED BY <1>1, <2>1, <2>2, SaveRequestKeeps DEF IInv
<1>. QED BY <1>2, <1>3, <1>4 DEF IInv, AllocationReduce, Marketed, Ordering

LEMMA ReceiveForAllocationKeeps ==
    ASSUME IInv, NEW a \in Allocations, NEW q \in Quantities, ReceiveForAllocation(a, q)
    PROVE  IInv'
<1>. DEFINE n == OutstandingAllocation(a)
            f == Least(q, n)
            z == [allocation[a] EXCEPT !.filled = @ + f]
<1>1. GoodAllocation(allocation[a]) /\ allocation[a].batch \in BatchIds
  BY DEF IInv, Allocated, AllocationRecord
<1>2. ~ allocation[a].listed /\ n = allocation[a].quantity - allocation[a].filled /\ n \in Nat
  BY <1>1 DEF ReceiveForAllocation, OutstandingAllocation, Positive, GoodAllocation, AllocationRecord
<1>. HIDE DEF n
<1>3. f \in 0..q /\ f <= n
  BY <1>2, FilledType
<1>4. ReceiveSupplierStock(allocation[a].batch, q, f) /\ allocation' = [allocation EXCEPT ![a] = z]
  BY DEF ReceiveForAllocation, n
<1>. HIDE DEF f
<1>5. Batched'
  BY <1>1, <1>3, <1>4, ReceiveKeeps DEF IInv
<1>6. GoodAllocation(z)
  <2>1. /\ allocation[a].filled + f \in 0..MaxNeeded
        /\ allocation[a].filled + f <= allocation[a].quantity
    BY <1>1, <1>2, <1>3, DemandAssumption DEF GoodAllocation, AllocationRecord, Quantities
  <2>. QED BY <1>1, <1>2, <2>1 DEF GoodAllocation, AllocationRecord
<1>7. Allocated'
  BY <1>4, <1>6, SaveAllocationKeeps DEF IInv
<1>. QED BY <1>5, <1>7 DEF IInv, ReceiveForAllocation, Marketed, Requested, Ordering

-----------------------------------------------------------------------------
(* The order's handlers.                                                   *)

LEMMA ConvertKeeps ==
    ASSUME IInv, NEW r \in Requirements, NEW o \in OrderIds, ConvertRequirement(r, o)
    PROVE  IInv'
<1>. DEFINE take == Ordered(r)
            Taken(b) == Sum({a \in take : allocation[a].batch = b}, Quantity)
            Less(b) == [batch[b] EXCEPT !.current = @ - Taken(b), !.reserved = @ - Taken(b)]
<1>1. batch' = [b \in BatchIds |-> Less(b)] /\ \A b \in BatchIds : Stores(batch'[b])
  BY DEF ConvertRequirement
<1>2. ASSUME NEW b \in BatchIds
      PROVE  GoodBatch(batch'[b])
  <2>. DEFINE n == Taken(b)
              u == [batch[b] EXCEPT !.current = @ - n]
              w == [u EXCEPT !.reserved = @ - n]
  <2>1. n \in Nat
    BY QuantitySumType DEF Ordered, Of
  <2>2. GoodBatch(batch[b]) /\ batch'[b] = Less(b) /\ Stores(batch'[b])
    BY <1>1 DEF IInv, Batched
  <2>. HIDE DEF n
  <2>3. u \in Loose /\ u.status = batch[b].status /\ Left(u) = Left(batch[b]) - n
    BY <2>1, <2>2 DEF GoodBatch, BatchRecord, Loose, Left
  <2>4. w \in Loose /\ w.status = u.status /\ Left(w) = Left(u)
    <3>. HIDE DEF u
    <3>. QED BY <2>1, <2>3 DEF Loose, Left
  <2>5. Less(b) = w
    BY <2>2 DEF GoodBatch, BatchRecord, n
  <2>6. w.status = "sold" => Left(w) <= 0
    <3>1. Left(batch[b]) \in Int /\ (batch[b].status = "sold" => Left(batch[b]) <= 0)
      BY <2>2 DEF GoodBatch, BatchRecord, Left
    <3>. HIDE DEF u, w
    <3>. QED BY <2>1, <2>3, <2>4, <3>1
  <2>. HIDE DEF w
  <2>. QED BY <2>2, <2>4, <2>5, <2>6, StoredIsGood
<1>3. Batched'
  <2>. HIDE DEF Less
  <2>. QED BY <1>1, <1>2 DEF Batched, GoodBatch
<1>4. ASSUME NEW a \in Allocations
      PROVE  GoodAllocation(allocation'[a])
  <2>1. GoodAllocation(allocation[a])
    BY DEF IInv, Allocated
  <2>2. CASE a \in take
    <3>. DEFINE yes == TRUE
                u == [allocation[a] EXCEPT !.status = "supplier_confirmed"]
                w == [u EXCEPT !.listed = yes]
    <3>1. allocation'[a] = [allocation[a] EXCEPT !.status = "supplier_confirmed", !.listed = TRUE]
      BY <2>2 DEF ConvertRequirement
    <3>2. allocation[a].filled = 0
      BY <2>2 DEF ConvertRequirement
    <3>3. u \in AllocationRecord /\ u.filled = 0 /\ u.filled <= u.quantity
      BY <2>1, <3>2 DEF GoodAllocation, AllocationRecord, AllocationStatuses, SecuredStates
    <3>4. w \in AllocationRecord /\ w.filled = 0 /\ w.filled <= w.quantity
      <4>1. yes \in BOOLEAN
        OBVIOUS
      <4>. HIDE DEF u, yes
      <4>. QED BY <3>3, <4>1 DEF AllocationRecord
    <3>5. allocation'[a] = w
      BY <2>1, <3>1 DEF GoodAllocation, AllocationRecord
    <3>. QED BY <3>4, <3>5 DEF GoodAllocation
  <2>3. CASE a \notin take
    BY <2>1, <2>3 DEF ConvertRequirement
  <2>. QED BY <2>2, <2>3
<1>5. Allocated'
  <2>1. allocation' = [a \in Allocations |-> allocation'[a]]
    BY DEF ConvertRequirement
  <2>. QED BY <1>4, <2>1 DEF Allocated, GoodAllocation
<1>6. Requested'
  BY DEF ConvertRequirement, IInv, Requested, RequestRecord, RequestStatuses
<1>7. Ordering'
  BY DEF ConvertRequirement, IInv, Ordering, OrderRecord, OrderStatuses, NewOrder
<1>. QED BY <1>3, <1>5, <1>6, <1>7 DEF IInv, ConvertRequirement, Marketed

LEMMA ConvertHoldKeeps ==
    ASSUME IInv, NEW r \in Requirements, NEW o \in OrderIds, ConvertHold(r, o)
    PROVE  IInv'
<1>1. Requested'
  BY DEF ConvertHold, IInv, Requested, RequestRecord, RequestStatuses
<1>2. Ordering'
  BY DEF ConvertHold, IInv, Ordering, OrderRecord, OrderStatuses, NewOrder
<1>. QED BY <1>1, <1>2 DEF IInv, ConvertHold, Batched, Marketed, Allocated

LEMMA GiveBackKeeps ==
    ASSUME IInv, NEW r \in Requirements, GiveBack(r)
    PROVE  Batched' /\ Allocated' /\ Requested'
<1>. DEFINE back == Active(allocation, r)
            Back(b) == Sum({a \in back : allocation[a].batch = b}, Quantity)
<1>1. ASSUME NEW b \in BatchIds
      PROVE  GoodBatch(batch'[b])
  <2>. DEFINE n == Back(b)
              u == [batch[b] EXCEPT !.status = "open"]
              w == [u EXCEPT !.current = @ + n]
  <2>1. n \in Nat
    BY QuantitySumType DEF Active, Of
  <2>2. GoodBatch(batch[b])
    BY DEF IInv, Batched
  <2>3. CASE \E a \in back : allocation[a].batch = b
    <3>1. batch'[b] = [batch[b] EXCEPT !.status = "open", !.current = @ + n]
      BY <2>3 DEF GiveBack
    <3>. HIDE DEF n
    <3>2. u \in Loose /\ u.status = "open" /\ Stores(u)
      BY <2>2 DEF GoodBatch, BatchRecord, Loose, Stores
    <3>3. w \in Loose /\ w.status = "open" /\ Stores(w)
      <4>. HIDE DEF u
      <4>. QED BY <2>1, <3>2 DEF Loose, Stores
    <3>4. batch'[b] = w
      BY <2>2, <3>1 DEF GoodBatch, BatchRecord
    <3>. HIDE DEF w
    <3>. QED BY <3>3, <3>4, StoredIsGood
  <2>4. CASE ~ \E a \in back : allocation[a].batch = b
    BY <2>2, <2>4 DEF GiveBack
  <2>. QED BY <2>3, <2>4
<1>2. Batched'
  <2>1. batch' = [b \in BatchIds |-> batch'[b]]
    BY DEF GiveBack
  <2>. HIDE DEF back
  <2>. QED BY <1>1, <2>1 DEF Batched, GoodBatch
<1>3. Allocated'
  BY StatusesKeep DEF GiveBack, IInv, AllocationStatuses
<1>4. Requested'
  <2>. DEFINE q == [request[r] EXCEPT !.order = Nil]
              s == Refreshed(q, allocation', r)
  <2>1. q \in RequestRecord
    BY DEF IInv, Requested, RequestRecord
  <2>2. request' = [request EXCEPT ![r] = s]
    BY DEF GiveBack
  <2>. HIDE DEF q
  <2>3. s \in RequestRecord
    BY <2>1, RefreshedType
  <2>. HIDE DEF s
  <2>. QED BY <2>2, <2>3, SaveRequestKeeps DEF IInv
<1>. QED BY <1>2, <1>3, <1>4

LEMMA FollowKeeps ==
    ASSUME IInv, NEW r \in Requirements, NEW target, Follow(r, target)
    PROVE  Batched' /\ Allocated' /\ Requested'
<1>. DEFINE s == IF target \in SecuredStates THEN target ELSE "passed"
<1>1. s \in AllocationStatuses
  BY DEF AllocationStatuses
<1>2. Allocated'
  <2>1. allocation' = [a \in Allocations |->
            IF a \in Active(allocation, r) THEN [allocation[a] EXCEPT !.status = s] ELSE allocation[a]]
    BY DEF Follow
  <2>. HIDE DEF s
  <2>. QED BY <1>1, <2>1, StatusesKeep DEF IInv
<1>3. Requested'
  BY DEF Follow, IInv, Requested, RequestRecord, RequestStatuses
<1>. QED BY <1>2, <1>3 DEF Follow, IInv, Batched

LEMMA AdvanceKeeps ==
    ASSUME IInv, NEW o \in OrderIds,
           NEW target \in Underway \cup Closing \cup {"delivered", "completed"}, Advance(o, target)
    PROVE  IInv'
<1>. DEFINE r == order[o].request
            s == IF target \in Closing THEN "cancelled" ELSE target
            x == [order[o] EXCEPT !.status = s]
<1>1. order[o] \in OrderRecord /\ r \in Requirements
  BY DEF IInv, Ordering, OrderRecord
<1>2. Ordering'
  <2>1. s \in OrderStatuses
    BY DEF OrderStatuses
  <2>2. order' = [order EXCEPT ![o] = x]
    BY DEF Advance
  <2>. HIDE DEF s
  <2>3. x \in OrderRecord
    BY <1>1, <2>1 DEF OrderRecord
  <2>. HIDE DEF x
  <2>. QED BY <2>2, <2>3, SaveOrderKeeps DEF IInv
<1>3. Batched' /\ Allocated' /\ Requested'
  <2>1. CASE GiveBack(r)
    BY <1>1, <2>1, GiveBackKeeps
  <2>2. CASE Follow(r, target)
    BY <1>1, <2>2, FollowKeeps
  <2>3. CASE request' = [request EXCEPT ![r].status = "completed"] /\ UNCHANGED <<batch, allocation>>
    <3>1. Requested'
      BY <2>3 DEF IInv, Requested, RequestRecord, RequestStatuses
    <3>. QED BY <2>3, <3>1 DEF IInv, Batched, Allocated
  <2>4. CASE UNCHANGED <<batch, allocation, request>>
    BY <2>4 DEF IInv, Batched, Allocated, Requested
  <2>. QED BY <2>1, <2>2, <2>3, <2>4 DEF Advance
<1>4. Marketed'
  BY DEF IInv, Marketed, Advance
<1>. QED BY <1>2, <1>3, <1>4 DEF IInv

LEMMA ReverseKeeps ==
    ASSUME IInv, NEW o \in OrderIds, NEW kind \in {"reopen", "return"}, ReverseDelivery(o, kind)
    PROVE  IInv'
<1>1. Ordering'
  BY DEF ReverseDelivery, IInv, Ordering, OrderRecord, OrderStatuses, Underway
<1>2. Requested'
  BY DEF ReverseDelivery, IInv, Requested, RequestRecord, RequestStatuses
<1>. QED BY <1>1, <1>2 DEF ReverseDelivery, IInv, Batched, Marketed, Allocated

-----------------------------------------------------------------------------
LEMMA InitEstablishes == Init => IInv
<1>. SUFFICES ASSUME Init PROVE IInv
  OBVIOUS
<1>1. Batched
  <2>. DEFINE x == NewBatch("none", 0, FALSE)
  <2>1. GoodBatch(x)
    BY DEF GoodBatch, NewBatch, BatchRecord, Stores
  <2>. HIDE DEF x
  <2>. QED BY <2>1 DEF Init, BatchesInit, Batched, GoodBatch, x
<1>2. Marketed
  <2>. DEFINE y == NewReservation("none", CHOOSE b \in BatchIds : TRUE, 0)
  <2>1. (CHOOSE b \in BatchIds : TRUE) \in BatchIds
    BY BatchesAssumption
  <2>2. GoodMarket(y)
    BY <2>1, BatchesAssumption DEF GoodMarket, NewReservation, MarketRecord
  <2>. HIDE DEF y
  <2>. QED BY <2>2 DEF Init, BatchesInit, Marketed, GoodMarket, y
<1>3. (CHOOSE r \in Requirements : TRUE) \in Requirements
  BY DemandAssumption
<1>4. Allocated
  <2>. DEFINE z == NewAllocation("none", CHOOSE r \in Requirements : TRUE, CHOOSE b \in BatchIds : TRUE, 0)
  <2>1. (CHOOSE b \in BatchIds : TRUE) \in BatchIds
    BY BatchesAssumption
  <2>2. GoodAllocation(z)
    BY <1>3, <2>1, DemandAssumption DEF GoodAllocation, NewAllocation, AllocationRecord, AllocationStatuses
  <2>. HIDE DEF z
  <2>. QED BY <2>2 DEF Init, Allocated, GoodAllocation, z
<1>5. Requested
  BY DemandAssumption DEF Init, Requested, RequestRecord, RequestStatuses
<1>6. Ordering
  BY <1>3 DEF Init, Ordering, OrderRecord, OrderStatuses, NewOrder
<1>. QED BY <1>1, <1>2, <1>4, <1>5, <1>6 DEF IInv

LEMMA NextKeeps == IInv /\ [Next]_vars => IInv'
<1>. SUFFICES ASSUME IInv, [Next]_vars PROVE IInv'
  OBVIOUS
<1>1. CASE BatchesNext /\ UNCHANGED <<request, allocation, order>>
  BY <1>1, BatchesKeep DEF IInv, Allocated, Requested, Ordering
<1>2. CASE UNCHANGED vars
  BY <1>2 DEF vars, IInv, Batched, Marketed, Allocated, Requested, Ordering
<1>. QED
  BY <1>1, <1>2, RequirementKeeps, ConvertKeeps, ConvertHoldKeeps, CreateKeeps, CancelKeeps,
     ReduceKeeps, ReceiveForAllocationKeeps, AdvanceKeeps, ReverseKeeps DEF Next

LEMMA InvHolds == Spec => []IInv
BY InitEstablishes, NextKeeps, PTL DEF Spec

(* Every requirement, allocation, order, batch and reservation keeps its   *)
(* type, for any numbers of them and any bounds.                           *)
THEOREM DemandTypeCorrect == Spec => []TypeOK
<1>1. IInv => TypeOK
  BY DEF IInv, TypeOK, BatchesTypeOK, Batched, Marketed, Allocated, Requested, Ordering
<1>. QED BY <1>1, InvHolds, PTL

(* A batch shown as sold has nothing left: refresh_batch_status and        *)
(* receive_supplier_stock keep the status with the balances, and no later  *)
(* release, conversion or cancelled order breaks it.                       *)
THEOREM SoldIsAlwaysFinished == Spec => []SoldIsFinished
<1>1. IInv => SoldIsFinished
  BY DEF IInv, SoldIsFinished, Batched, GoodBatch, BatchRecord, Stores, Available, Left
<1>. QED BY <1>1, InvHolds, PTL

(* Delivery notes never fill more of a market day's reservation than staff *)
(* approved, over every approval of another quantity                       *)
(* (batch_stock._fill_commitment, market_schedule.review_reservation).     *)
THEOREM MarketNeverOverfilled == Spec => []MarketFilledWithinApproval
<1>1. IInv => MarketFilledWithinApproval
  BY DEF IInv, MarketFilledWithinApproval, Marketed, GoodMarket
<1>. QED BY <1>1, InvHolds, PTL

(* Birds received on a note are never also ordered through the app, and no *)
(* note fills more than its allocation holds                               *)
(* (batch_stock._fill_commitment, main.convert_requirement_to_order).      *)
THEOREM NeverReceivedAndOrdered == Spec => []ReceivedOrOrdered
<1>1. IInv => ReceivedOrOrdered
  BY DEF IInv, ReceivedOrOrdered, Allocated, GoodAllocation
<1>. QED BY <1>1, InvHolds, PTL

-----------------------------------------------------------------------------
(* A requirement and its order.                                            *)

LEMMA RefreshedKeeps ==
    ASSUME NEW q \in RequestRecord, NEW x, NEW r
    PROVE  Refreshed(q, x, r).order = q.order /\ Refreshed(q, x, r).quantity = q.quantity
BY DEF Refreshed, RequestRecord

\* No order starts, moves or is forgotten.
LEMMA OrdersAlike ==
    ASSUME IInv, OneLiveOrder, UNCHANGED order,
           \A r \in Requirements : request'[r].order = request[r].order
    PROVE  OneLiveOrder'
BY DEF IInv, Ordering, OrderRecord, OneLiveOrder, GoingOn

\* A requirement without an order is given one that was not there.
LEMMA NewOrderLinked ==
    ASSUME IInv, OneLiveOrder, NEW r \in Requirements, NEW o \in OrderIds,
           request[r].order = Nil, order' = [order EXCEPT ![o] = NewOrder("reserved", r)],
           \A s \in Requirements \ {r} : request'[s].order = request[s].order,
           request'[r].order = o
    PROVE  OneLiveOrder'
<1>. SUFFICES ASSUME NEW p \in OrderIds, GoingOn(p)'
              PROVE  request'[order'[p].request].order = p
  BY DEF OneLiveOrder
<1>1. CASE p = o
  BY <1>1 DEF IInv, Ordering, NewOrder
<1>2. CASE p # o
  <2>1. order'[p] = order[p] /\ GoingOn(p)
    BY <1>2 DEF IInv, Ordering, GoingOn
  <2>2. request[order[p].request].order = p /\ order[p].request \in Requirements
    BY <2>1 DEF OneLiveOrder, IInv, Ordering, OrderRecord
  <2>3. order[p].request # r
    BY <2>2, DemandAssumption
  <2>. QED BY <2>1, <2>2, <2>3
<1>. QED BY <1>1, <1>2

LEMMA AdvanceLinked ==
    ASSUME IInv, OneLiveOrder, NEW o \in OrderIds,
           NEW target \in Underway \cup Closing \cup {"delivered", "completed"}, Advance(o, target)
    PROVE  OneLiveOrder'
<1>. DEFINE r == order[o].request
<1>1. r \in Requirements /\ request[r].order = o
  <2>1. GoingOn(o)
    BY DEF Advance, Transitions, GoingOn
  <2>. QED BY <2>1 DEF OneLiveOrder, IInv, Ordering, OrderRecord
<1>2. ASSUME NEW s \in Requirements
      PROVE  \/ request'[s].order = request[s].order
             \/ target = "cancelled" /\ s = r
  <2>1. CASE target = "cancelled" /\ GiveBack(r)
    BY <2>1 DEF GiveBack, IInv, Requested
  <2>2. CASE Follow(r, target)
    BY <2>2 DEF Follow, IInv, Requested, RequestRecord
  <2>3. CASE request' = [request EXCEPT ![r].status = "completed"]
    BY <2>3 DEF IInv, Requested, RequestRecord
  <2>4. CASE UNCHANGED request
    BY <2>4
  <2>. QED BY <2>1, <2>2, <2>3, <2>4 DEF Advance
<1>. SUFFICES ASSUME NEW p \in OrderIds, GoingOn(p)'
              PROVE  request'[order'[p].request].order = p
  BY DEF OneLiveOrder
<1>3. order'[p].request = order[p].request /\ GoingOn(p)
  <2>1. order' = [order EXCEPT ![o].status = IF target \in Closing THEN "cancelled" ELSE target]
    BY DEF Advance
  <2>2. GoingOn(o)
    BY DEF Advance, Transitions, GoingOn
  <2>. QED BY <2>1, <2>2 DEF GoingOn, IInv, Ordering, OrderRecord
<1>4. request[order[p].request].order = p /\ order[p].request \in Requirements
  BY <1>3 DEF OneLiveOrder, IInv, Ordering, OrderRecord
<1>5. CASE target = "cancelled" /\ order[p].request = r
  <2>1. p = o
    BY <1>1, <1>4, <1>5
  <2>2. order'[o].status = "cancelled"
    BY <1>5 DEF Advance, Closing, IInv, Ordering, OrderRecord
  <2>. QED BY <2>1, <2>2 DEF GoingOn
<1>6. CASE ~ (target = "cancelled" /\ order[p].request = r)
  BY <1>2, <1>3, <1>4, <1>6
<1>. QED BY <1>5, <1>6

LEMMA ReverseLinked ==
    ASSUME IInv, OneLiveOrder, NEW o \in OrderIds, NEW kind, ReverseDelivery(o, kind)
    PROVE  OneLiveOrder'
<1>1. \A s \in Requirements : request'[s].order = request[s].order
  BY DEF ReverseDelivery, IInv, Requested, RequestRecord
<1>2. \A p \in OrderIds : order'[p].request = order[p].request /\ (GoingOn(p)' => GoingOn(p))
  BY DEF ReverseDelivery, IInv, Ordering, OrderRecord, GoingOn
<1>. QED BY <1>1, <1>2 DEF OneLiveOrder, IInv, Ordering, OrderRecord

LEMMA LiveOrderStep == IInv /\ OneLiveOrder /\ [Next]_vars => OneLiveOrder'
<1>. SUFFICES ASSUME IInv, OneLiveOrder, [Next]_vars PROVE OneLiveOrder'
  OBVIOUS
<1>1. CASE BatchesNext /\ UNCHANGED <<request, allocation, order>>
  BY <1>1, OrdersAlike
<1>2. ASSUME NEW r \in Requirements, NEW q \in Needs, CreateRequirement(r, q) \/ EditRequest(r, q)
      PROVE  OneLiveOrder'
  BY <1>2, OrdersAlike DEF CreateRequirement, EditRequest, IInv, Requested, RequestRecord
<1>3. ASSUME NEW r \in Requirements, NEW status,
             SourceProgress(r, status) \/ UpdateRequirementProgress(r, status)
      PROVE  OneLiveOrder'
  BY <1>3, OrdersAlike DEF SourceProgress, UpdateRequirementProgress, IInv, Requested, RequestRecord
<1>4. ASSUME NEW r \in Requirements, CancelRequirement(r)
      PROVE  OneLiveOrder'
  BY <1>4, OrdersAlike DEF CancelRequirement, IInv, Requested, RequestRecord
<1>5. ASSUME NEW r \in Requirements, NEW o \in OrderIds, ConvertRequirement(r, o) \/ ConvertHold(r, o)
      PROVE  OneLiveOrder'
  <2>1. /\ request[r].order = Nil
        /\ order' = [order EXCEPT ![o] = NewOrder("reserved", r)]
        /\ \/ request' = [request EXCEPT ![r].status = "fulfilling", ![r].order = o]
           \/ request' = [request EXCEPT ![r].status = "converted", ![r].order = o]
    BY <1>5 DEF ConvertRequirement, ConvertHold
  <2>2. request'[r].order = o /\ \A s \in Requirements \ {r} : request'[s].order = request[s].order
    BY <2>1 DEF IInv, Requested, RequestRecord
  <2>. QED BY <2>1, <2>2, NewOrderLinked
<1>6. ASSUME NEW a \in Allocations,
             \/ \E r \in Requirements, b \in BatchIds, q \in Needs : AllocationCreate(a, r, b, q)
             \/ \E q \in Needs : AllocationReduce(a, q)
             \/ AllocationCancel(a)
      PROVE  OneLiveOrder'
  <2>1. allocation[a].request \in Requirements
    BY DEF IInv, Allocated, AllocationRecord
  <2>2. PICK r \in Requirements : \E x : request' = [request EXCEPT ![r] = Refreshed(@, x, r)]
    BY <1>6, <2>1 DEF AllocationCreate, AllocationReduce, AllocationCancel
  <2>3. \A s \in Requirements : request'[s].order = request[s].order
    BY <2>2, RefreshedKeeps DEF IInv, Requested
  <2>4. UNCHANGED order
    BY <1>6 DEF AllocationCreate, AllocationReduce, AllocationCancel
  <2>. QED BY <2>3, <2>4, OrdersAlike
<1>7. ASSUME NEW a \in Allocations, NEW q \in Quantities, ReceiveForAllocation(a, q)
      PROVE  OneLiveOrder'
  BY <1>7, OrdersAlike DEF ReceiveForAllocation
<1>8. CASE UNCHANGED vars
  BY <1>8, OrdersAlike DEF vars
<1>. QED
  BY <1>1, <1>2, <1>3, <1>4, <1>5, <1>6, <1>7, <1>8, AdvanceLinked, ReverseLinked DEF Next

(* A requirement has one order going on at most, and names it: a cancelled *)
(* order frees it to be converted again, and nothing converts it twice     *)
(* (main.convert_requirement_to_order, services.advance).                  *)
THEOREM OnlyOneLiveOrder == Spec => []OneLiveOrder
<1>1. Init => OneLiveOrder
  BY DEF Init, OneLiveOrder, GoingOn, NewOrder
<1>. QED BY <1>1, LiveOrderStep, InvHolds, PTL DEF Spec

-----------------------------------------------------------------------------
(* A requirement and what is secured for it.                               *)

\* What MatchedIsSecured says of the requirement q with n secured.
Matching(q, n) ==
    /\ q.status = "fully_matched" => n >= q.quantity
    /\ q.status = "partially_matched" => n > 0 /\ n < q.quantity

\* x and y secure the same for r.
Alike(x, y, r) ==
    \A a \in Allocations :
        /\ a \in Active(x, r) <=> a \in Active(y, r)
        /\ a \in Active(x, r) => x[a].quantity = y[a].quantity

LEMMA SecuredType ==
    ASSUME NEW x, NEW r
    PROVE  Secured(x, r) \in Nat
<1>1. Active(x, r) \in SUBSET Allocations
  BY DEF Active, Of
<1>. HIDE DEF Active
<1>. QED BY <1>1, QuantitySumType DEF Secured

LEMMA AlikeSecures ==
    ASSUME NEW x, NEW y, NEW r, Alike(x, y, r)
    PROVE  Secured(x, r) = Secured(y, r)
<1>. DEFINE n == [a \in Allocations |-> x[a].quantity]
            m == [a \in Allocations |-> y[a].quantity]
<1>1. Active(x, r) = Active(y, r)
  BY DEF Alike, Active, Of
<1>2. \A a \in Active(x, r) : n[a] = m[a]
  BY DEF Alike, Active, Of
<1>. HIDE DEF n, m
<1>3. Sum(Active(x, r), n) = Sum(Active(y, r), m)
  BY <1>1, <1>2 DEF Sum
<1>. QED BY <1>3 DEF Secured, n, m

LEMMA RefreshedMatches ==
    ASSUME NEW q \in RequestRecord, NEW x, NEW r
    PROVE  Matching(Refreshed(q, x, r), Secured(x, r))
<1>1. Secured(x, r) \in Nat /\ q.quantity \in Nat
  BY SecuredType, DemandAssumption DEF RequestRecord
<1>. DEFINE n == Secured(x, r)
            s == IF q.status \in {"cancelled", "completed"} THEN q.status
                 ELSE IF n = 0 THEN "open"
                 ELSE IF n < q.quantity THEN "partially_matched"
                 ELSE "fully_matched"
<1>2. Refreshed(q, x, r) = [q EXCEPT !.status = s]
  BY DEF Refreshed
<1>. HIDE DEF n
<1>3. /\ s = "fully_matched" => n >= q.quantity
      /\ s = "partially_matched" => n > 0 /\ n < q.quantity
  BY <1>1 DEF n
<1>. HIDE DEF s
<1>4. [q EXCEPT !.status = s].status = s /\ [q EXCEPT !.status = s].quantity = q.quantity
  BY DEF RequestRecord
<1>. QED BY <1>2, <1>3, <1>4 DEF Matching, n

\* Only allocations of r, or rows not there before, are written.
OnlyOf(r) ==
    \A a \in Allocations :
        \/ allocation'[a] = allocation[a]
        \/ /\ allocation[a].status = "none" \/ allocation[a].request = r
           /\ allocation'[a].request = r

\* One requirement is written, with the status that is due.
LEMMA WriteMatches ==
    ASSUME IInv, MatchedIsSecured, NEW r \in Requirements, NEW q, OnlyOf(r),
           request' = [request EXCEPT ![r] = q], Matching(q, Secured(allocation', r))
    PROVE  MatchedIsSecured'
<1>1. ASSUME NEW s \in Requirements
      PROVE  Matching(request'[s], Secured(allocation', s))
  <2>1. CASE s = r
    BY <2>1 DEF IInv, Requested
  <2>2. CASE s # r
    <3>1. request'[s] = request[s]
      BY <2>2 DEF IInv, Requested
    <3>2. Alike(allocation, allocation', s)
      BY <2>2 DEF OnlyOf, Alike, Active, Of
    <3>3. Matching(request[s], Secured(allocation, s))
      BY DEF MatchedIsSecured, Matching
    <3>4. Secured(allocation, s) = Secured(allocation', s)
      BY <3>2, AlikeSecures
    <3>. QED BY <3>1, <3>3, <3>4
  <2>. QED BY <2>1, <2>2
<1>. QED BY <1>1 DEF MatchedIsSecured, Matching

\* Nothing of what is secured or asked for changes.
LEMMA MatchesAlike ==
    ASSUME IInv, MatchedIsSecured, UNCHANGED request,
           \A r \in Requirements : Alike(allocation, allocation', r)
    PROVE  MatchedIsSecured'
<1>1. \A r \in Requirements : Secured(allocation, r) = Secured(allocation', r)
  BY AlikeSecures
<1>. QED BY <1>1 DEF MatchedIsSecured

\* A requirement that does not read as matched says nothing.
LEMMA UnmatchedMatches ==
    ASSUME NEW q, NEW n, q.status \notin {"fully_matched", "partially_matched"}
    PROVE  Matching(q, n)
BY DEF Matching

LEMMA CancelAllocationsOnly ==
    ASSUME IInv, NEW r, CancelAllocations(r) \/ UNCHANGED allocation
    PROVE  OnlyOf(r)
BY DEF CancelAllocations, OnlyOf, Active, Of, IInv, Allocated, AllocationRecord

LEMMA RequirementMatches ==
    ASSUME IInv, MatchedIsSecured, NEW r \in Requirements,
           \/ \E q \in Needs : CreateRequirement(r, q) \/ EditRequest(r, q)
           \/ \E status \in {"sourcing", "supply_found", "confirmed", "cancelled"} :
                 SourceProgress(r, status)
           \/ \E status \in {"confirmed", "fulfilling", "completed", "cancelled"} :
                 UpdateRequirementProgress(r, status)
           \/ CancelRequirement(r)
    PROVE  MatchedIsSecured'
<1>1. PICK q : /\ request' = [request EXCEPT ![r] = q]
               /\ q.status \notin {"fully_matched", "partially_matched"}
  <2>1. ASSUME NEW n \in Needs, CreateRequirement(r, n)
        PROVE  \E q : /\ request' = [request EXCEPT ![r] = q]
                      /\ q.status \notin {"fully_matched", "partially_matched"}
    <3>. DEFINE q == [request[r] EXCEPT !.status = "open", !.quantity = n]
    <3>1. request' = [request EXCEPT ![r] = q]
      BY <2>1 DEF CreateRequirement, IInv, Requested
    <3>2. q.status = "open"
      BY DEF IInv, Requested, RequestRecord
    <3>. QED BY <3>1, <3>2
  <2>2. ASSUME NEW n \in Needs, EditRequest(r, n)
        PROVE  \E q : /\ request' = [request EXCEPT ![r] = q]
                      /\ q.status \notin {"fully_matched", "partially_matched"}
    <3>. DEFINE q == [request[r] EXCEPT !.quantity = n]
    <3>1. request' = [request EXCEPT ![r] = q]
      BY <2>2 DEF EditRequest, IInv, Requested
    <3>2. q.status \in {"open", "sourcing"}
      BY <2>2 DEF EditRequest, IInv, Requested, RequestRecord
    <3>. QED BY <3>1, <3>2
  <2>3. ASSUME NEW status \in {"sourcing", "supply_found", "confirmed", "fulfilling", "completed", "cancelled"},
               request' = [request EXCEPT ![r].status = status]
        PROVE  \E q : /\ request' = [request EXCEPT ![r] = q]
                      /\ q.status \notin {"fully_matched", "partially_matched"}
    <3>. DEFINE q == [request[r] EXCEPT !.status = status]
    <3>1. request' = [request EXCEPT ![r] = q]
      BY <2>3 DEF IInv, Requested
    <3>2. q.status = status
      BY DEF IInv, Requested, RequestRecord
    <3>. QED BY <3>1, <3>2
  <2>. QED BY <2>1, <2>2, <2>3 DEF SourceProgress, UpdateRequirementProgress, CancelRequirement
<1>2. OnlyOf(r)
  BY CancelAllocationsOnly
     DEF CreateRequirement, EditRequest, SourceProgress, UpdateRequirementProgress, CancelRequirement
<1>. QED BY <1>1, <1>2, UnmatchedMatches, WriteMatches

LEMMA CreateMatches ==
    ASSUME IInv, MatchedIsSecured, NEW a \in Allocations, NEW r \in Requirements,
           NEW b \in BatchIds, NEW q \in Needs, AllocationCreate(a, r, b, q)
    PROVE  MatchedIsSecured'
<1>1. request' = [request EXCEPT ![r] = Refreshed(request[r], allocation', r)]
  BY DEF AllocationCreate
<1>2. OnlyOf(r)
  BY DEF AllocationCreate, NewAllocation, OnlyOf, IInv, Allocated
<1>3. request[r] \in RequestRecord
  BY DEF IInv, Requested
<1>. QED BY <1>1, <1>2, <1>3, RefreshedMatches, WriteMatches

LEMMA CancelMatches ==
    ASSUME IInv, MatchedIsSecured, NEW a \in Allocations, AllocationCancel(a)
    PROVE  MatchedIsSecured'
<1>. DEFINE r == allocation[a].request
<1>1. r \in Requirements
  BY DEF IInv, Allocated, AllocationRecord
<1>2. request' = [request EXCEPT ![r] = Refreshed(request[r], allocation', r)]
  BY DEF AllocationCancel
<1>3. OnlyOf(r)
  BY DEF AllocationCancel, OnlyOf, IInv, Allocated, AllocationRecord
<1>4. request[r] \in RequestRecord
  BY <1>1 DEF IInv, Requested
<1>. QED BY <1>1, <1>2, <1>3, <1>4, RefreshedMatches, WriteMatches

LEMMA ReduceMatches ==
    ASSUME IInv, MatchedIsSecured, NEW a \in Allocations, NEW q \in Needs, AllocationReduce(a, q)
    PROVE  MatchedIsSecured'
<1>. DEFINE r == allocation[a].request
<1>1. r \in Requirements
  BY DEF IInv, Allocated, AllocationRecord
<1>2. request' = [request EXCEPT ![r] = Refreshed(request[r], allocation', r)]
  BY DEF AllocationReduce
<1>3. OnlyOf(r)
  BY DEF AllocationReduce, OnlyOf, IInv, Allocated, AllocationRecord
<1>4. request[r] \in RequestRecord
  BY <1>1 DEF IInv, Requested
<1>. QED BY <1>1, <1>2, <1>3, <1>4, RefreshedMatches, WriteMatches

LEMMA ReceiveMatches ==
    ASSUME IInv, MatchedIsSecured, NEW a \in Allocations, NEW q \in Quantities,
           ReceiveForAllocation(a, q)
    PROVE  MatchedIsSecured'
<1>1. \A c \in Allocations : /\ allocation'[c].status = allocation[c].status
                             /\ allocation'[c].request = allocation[c].request
                             /\ allocation'[c].quantity = allocation[c].quantity
  BY DEF ReceiveForAllocation, IInv, Allocated, AllocationRecord
<1>2. UNCHANGED request
  BY DEF ReceiveForAllocation
<1>. QED BY <1>1, <1>2, MatchesAlike DEF Alike, Active, Of

LEMMA ConvertMatches ==
    ASSUME IInv, MatchedIsSecured, NEW r \in Requirements, NEW o \in OrderIds,
           ConvertRequirement(r, o) \/ ConvertHold(r, o)
    PROVE  MatchedIsSecured'
<1>1. PICK status \in {"fulfilling", "converted"} :
         request' = [request EXCEPT ![r].status = status, ![r].order = o]
  BY DEF ConvertRequirement, ConvertHold
<1>. DEFINE q == [request[r] EXCEPT !.status = status, !.order = o]
<1>2. request' = [request EXCEPT ![r] = q] /\ q.status = status
  BY <1>1 DEF IInv, Requested, RequestRecord
<1>3. OnlyOf(r)
  <2>1. CASE ConvertHold(r, o)
    BY <2>1 DEF ConvertHold, OnlyOf
  <2>2. CASE ConvertRequirement(r, o)
    <3>1. allocation' = [a \in Allocations |->
              IF a \in Ordered(r)
              THEN [allocation[a] EXCEPT !.status = "supplier_confirmed", !.listed = TRUE]
              ELSE allocation[a]]
      BY <2>2 DEF ConvertRequirement
    <3>2. ASSUME NEW a \in Allocations, a \in Ordered(r)
          PROVE  allocation[a].request = r /\ allocation'[a].request = r
      BY <3>1, <3>2 DEF Ordered, Of, IInv, Allocated, AllocationRecord
    <3>. QED BY <3>1, <3>2 DEF OnlyOf
  <2>. QED BY <2>1, <2>2
<1>. HIDE DEF q
<1>. QED BY <1>2, <1>3, UnmatchedMatches, WriteMatches

LEMMA AdvanceMatches ==
    ASSUME IInv, MatchedIsSecured, NEW o \in OrderIds,
           NEW target \in Underway \cup Closing \cup {"delivered", "completed"}, Advance(o, target)
    PROVE  MatchedIsSecured'
<1>. DEFINE r == order[o].request
<1>1. r \in Requirements /\ request[r] \in RequestRecord
  BY DEF IInv, Ordering, OrderRecord, Requested
<1>2. CASE GiveBack(r)
  <2>. DEFINE q == [request[r] EXCEPT !.order = Nil]
  <2>1. q \in RequestRecord
    BY <1>1 DEF RequestRecord
  <2>2. request' = [request EXCEPT ![r] = Refreshed(q, allocation', r)]
    BY <1>2 DEF GiveBack
  <2>3. OnlyOf(r)
    <3>1. allocation' = [a \in Allocations |->
              IF a \in Active(allocation, r) THEN [allocation[a] EXCEPT !.status = "cancelled"]
              ELSE allocation[a]]
      BY <1>2 DEF GiveBack
    <3>. QED BY <3>1 DEF OnlyOf, Active, Of, IInv, Allocated, AllocationRecord
  <2>. HIDE DEF q
  <2>. QED BY <1>1, <2>1, <2>2, <2>3, RefreshedMatches, WriteMatches
<1>3. CASE Follow(r, target)
  <2>. DEFINE q == [request[r] EXCEPT !.status = "fulfilling"]
  <2>1. request' = [request EXCEPT ![r] = q] /\ q.status = "fulfilling"
    BY <1>1, <1>3 DEF Follow, IInv, Requested, RequestRecord
  <2>2. OnlyOf(r)
    BY <1>3 DEF Follow, OnlyOf, Active, Of, IInv, Allocated, AllocationRecord
  <2>. HIDE DEF q
  <2>. QED BY <1>1, <2>1, <2>2, UnmatchedMatches, WriteMatches
<1>4. CASE request' = [request EXCEPT ![r].status = "completed"] /\ UNCHANGED <<batch, allocation>>
  <2>. DEFINE q == [request[r] EXCEPT !.status = "completed"]
  <2>1. request' = [request EXCEPT ![r] = q] /\ q.status = "completed"
    BY <1>1, <1>4 DEF IInv, Requested, RequestRecord
  <2>2. OnlyOf(r)
    BY <1>4 DEF OnlyOf
  <2>. HIDE DEF q
  <2>. QED BY <1>1, <2>1, <2>2, UnmatchedMatches, WriteMatches
<1>5. CASE UNCHANGED <<batch, allocation, request>>
  BY <1>5, MatchesAlike DEF Alike
<1>. QED BY <1>2, <1>3, <1>4, <1>5 DEF Advance

LEMMA ReverseMatches ==
    ASSUME IInv, MatchedIsSecured, NEW o \in OrderIds, NEW kind, ReverseDelivery(o, kind)
    PROVE  MatchedIsSecured'
<1>. DEFINE r == order[o].request
            q == [request[r] EXCEPT !.status = "fulfilling"]
<1>1. r \in Requirements
  BY DEF IInv, Ordering, OrderRecord
<1>2. OnlyOf(r) /\ UNCHANGED allocation
  BY DEF ReverseDelivery, OnlyOf
<1>3. CASE request' = [request EXCEPT ![r].status = "fulfilling"]
  <2>1. request' = [request EXCEPT ![r] = q] /\ q.status = "fulfilling"
    BY <1>1, <1>3 DEF IInv, Requested, RequestRecord
  <2>. HIDE DEF q
  <2>. QED BY <1>1, <1>2, <2>1, UnmatchedMatches, WriteMatches
<1>4. CASE UNCHANGED request
  BY <1>2, <1>4, MatchesAlike DEF Alike
<1>. QED BY <1>3, <1>4 DEF ReverseDelivery

LEMMA MatchedStep == IInv /\ MatchedIsSecured /\ [Next]_vars => MatchedIsSecured'
<1>. SUFFICES ASSUME IInv, MatchedIsSecured, [Next]_vars PROVE MatchedIsSecured'
  OBVIOUS
<1>1. CASE UNCHANGED <<request, allocation, order>>
  BY <1>1, MatchesAlike DEF Alike
<1>. QED
  BY <1>1, RequirementMatches, CreateMatches, CancelMatches, ReduceMatches, ReceiveMatches,
     ConvertMatches, AdvanceMatches, ReverseMatches DEF Next, vars

(* A requirement that reads as matched, wholly or in part, is secured as   *)
(* far as it says: every handler that changes what is secured for it       *)
(* refreshes its status or leaves it unmatched                             *)
(* (demand.refresh_demand_status).                                         *)
THEOREM MatchedIsAlwaysSecured == Spec => []MatchedIsSecured
<1>1. Init => MatchedIsSecured
  BY DEF Init, MatchedIsSecured
<1>. QED BY <1>1, MatchedStep, InvHolds, PTL DEF Spec

-----------------------------------------------------------------------------
(* Sums of birds.                                                          *)

Birds(S, n) == {u \in S \X Quantities : u[2] <= n[u[1]]}

LEMMA BirdsCount == ASSUME NEW S, NEW n PROVE Sum(S, n) = Cardinality(Birds(S, n))
BY DEF Sum, Birds

LEMMA BirdsFinite ==
    ASSUME NEW S, IsFiniteSet(S), NEW n
    PROVE  IsFiniteSet(Birds(S, n))
<1>1. IsFiniteSet(Quantities)
  BY FS_Interval, BatchesAssumption DEF Quantities
<1>2. IsFiniteSet(S \X Quantities)
  BY <1>1, FS_Product
<1>. QED BY <1>2, FS_Subset DEF Birds

\* A sum depends only on what its members have.
LEMMA SumSame ==
    ASSUME NEW S, NEW n, NEW m, \A x \in S : n[x] = m[x]
    PROVE  Sum(S, n) = Sum(S, m)
<1>1. Birds(S, n) = Birds(S, m)
  BY DEF Birds
<1>. QED BY <1>1, BirdsCount

\* Members that have nothing can be left out.
LEMMA SumWhere ==
    ASSUME NEW S, NEW T \in SUBSET S, NEW n, NEW m,
           \A x \in S : m[x] = IF x \in T THEN n[x] ELSE 0
    PROVE  Sum(T, n) = Sum(S, m)
<1>1. Birds(T, n) = Birds(S, m)
  <2>1. ASSUME NEW u \in S \X Quantities, u[2] <= m[u[1]]
        PROVE  u \in T \X Quantities /\ u[2] <= n[u[1]]
    <3>1. u[1] \in S /\ u[2] \in Nat /\ u[2] >= 1
      BY BatchesAssumption DEF Quantities
    <3>2. u[1] \in T
      BY <2>1, <3>1
    <3>. QED BY <2>1, <3>2
  <2>2. ASSUME NEW u \in T \X Quantities, u[2] <= n[u[1]]
        PROVE  u \in S \X Quantities /\ u[2] <= m[u[1]]
    BY <2>2
  <2>. QED BY <2>1, <2>2 DEF Birds
<1>. QED BY <1>1, BirdsCount

\* Disjoint sets add up.
LEMMA SumUnion ==
    ASSUME NEW A, IsFiniteSet(A), NEW B, IsFiniteSet(B), A \cap B = {}, NEW n
    PROVE  Sum(A \cup B, n) = Sum(A, n) + Sum(B, n)
<1>. DEFINE X == Birds(A, n)
            Y == Birds(B, n)
<1>1. Birds(A \cup B, n) = X \cup Y
  BY DEF Birds
<1>2. X \cap Y = {}
  <2>1. (\A u \in X : u[1] \in A) /\ (\A u \in Y : u[1] \in B)
    BY DEF Birds
  <2>. QED BY <2>1
<1>3. IsFiniteSet(X) /\ IsFiniteSet(Y) /\ Cardinality(X) \in Nat /\ Cardinality(Y) \in Nat
  BY BirdsFinite, FS_CardinalityType
<1>. HIDE DEF X, Y
<1>4. Cardinality(X \cup Y) = Cardinality(X) + Cardinality(Y) - Cardinality({})
  BY <1>2, <1>3, FS_Union
<1>5. Cardinality({}) = 0
  BY FS_EmptySet
<1>6. Cardinality(X \cup Y) = Cardinality(X) + Cardinality(Y)
  BY <1>3, <1>4, <1>5
<1>. QED BY <1>1, <1>6, BirdsCount DEF X, Y

\* One member has what it has.
LEMMA SumOne ==
    ASSUME NEW x, NEW n, n[x] \in 0..MaxBirds
    PROVE  Sum({x}, n) = n[x]
<1>. DEFINE c == n[x]
<1>1. c \in Nat /\ c <= MaxBirds
  BY BatchesAssumption
<1>2. Birds({x}, n) = {x} \X (1..c)
  <2>1. ASSUME NEW u \in {x} \X Quantities PROVE u[2] <= n[u[1]] <=> u \in {x} \X (1..c)
    <3>1. u[1] = x /\ u[2] \in Nat /\ u[2] >= 1 /\ u = <<u[1], u[2]>>
      BY BatchesAssumption DEF Quantities
    <3>. QED BY <1>1, <3>1
  <2>2. {x} \X (1..c) \subseteq {x} \X Quantities
    BY <1>1, BatchesAssumption DEF Quantities
  <2>. QED BY <2>1, <2>2 DEF Birds
<1>. HIDE DEF c
<1>3. IsFiniteSet(1..c) /\ Cardinality(1..c) = c
  <2>1. IsFiniteSet(1..c) /\ Cardinality(1..c) = IF 1 > c THEN 0 ELSE c - 1 + 1
    BY <1>1, FS_Interval
  <2>. QED BY <1>1, <2>1
<1>4. IsFiniteSet({x}) /\ Cardinality({x}) = 1
  BY FS_Singleton
<1>5. Cardinality({x} \X (1..c)) = 1 * c
  BY <1>3, <1>4, FS_Product
<1>6. 1 * c = c
  BY <1>1
<1>. QED BY <1>2, <1>5, <1>6, BirdsCount DEF c

\* Nothing is no birds.
LEMMA SumNothing ==
    ASSUME NEW S, NEW n, \A x \in S : n[x] = 0
    PROVE  Sum(S, n) = 0
<1>1. Birds(S, n) = {}
  BY BatchesAssumption DEF Birds, Quantities
<1>. QED BY <1>1, BirdsCount, FS_EmptySet

\* What some members have, and the sum without it.
LEMMA SumWithout ==
    ASSUME NEW S, IsFiniteSet(S), NEW T \in SUBSET S, NEW n, NEW m,
           \A x \in S : m[x] = IF x \in T THEN 0 ELSE n[x]
    PROVE  Sum(S, m) = Sum(S, n) - Sum(T, n) /\ Sum(S, n) \in Nat /\ Sum(T, n) \in Nat
<1>. DEFINE R == S \ T
<1>1. IsFiniteSet(R) /\ IsFiniteSet(T) /\ S = R \cup T /\ R \cap T = {}
  BY FS_Subset
<1>2. \A x \in R : m[x] = n[x]
  OBVIOUS
<1>3. \A x \in T : m[x] = 0
  OBVIOUS
<1>. HIDE DEF R
<1>4. Sum(S, n) = Sum(R, n) + Sum(T, n) /\ Sum(S, m) = Sum(R, m) + Sum(T, m)
  BY <1>1, SumUnion
<1>5. Sum(R, m) = Sum(R, n)
  BY <1>2, SumSame
<1>6. Sum(T, m) = 0
  BY <1>3, SumNothing
<1>7. Sum(R, n) \in Nat /\ Sum(T, n) \in Nat
  BY <1>1, SumType
<1>. QED BY <1>4, <1>5, <1>6, <1>7

\* One member's birds change.
LEMMA SumChange ==
    ASSUME NEW S, IsFiniteSet(S), NEW x \in S, NEW n, NEW m, \A y \in S \ {x} : m[y] = n[y],
           n[x] \in 0..MaxBirds, m[x] \in 0..MaxBirds
    PROVE  Sum(S, m) = Sum(S, n) + m[x] - n[x] /\ Sum(S, n) \in Nat
<1>. DEFINE R == S \ {x}
            T == {x}
<1>1. IsFiniteSet(R) /\ IsFiniteSet(T) /\ S = R \cup T /\ R \cap T = {}
  BY FS_Subset, FS_Singleton
<1>2. Sum(T, n) = n[x] /\ Sum(T, m) = m[x] /\ Sum(R, m) = Sum(R, n)
  BY SumOne, SumSame
<1>. HIDE DEF R, T
<1>3. Sum(S, n) = Sum(R, n) + Sum(T, n) /\ Sum(S, m) = Sum(R, m) + Sum(T, m)
  BY <1>1, SumUnion
<1>4. Sum(R, n) \in Nat /\ Sum(S, n) \in Nat
  BY <1>1, SumType, FS_Subset
<1>5. n[x] \in Nat /\ m[x] \in Nat
  BY BatchesAssumption
<1>. QED BY <1>2, <1>3, <1>4, <1>5
-----------------------------------------------------------------------------
(* What a batch has promised: to its allocations and to market days.       *)

OfAllocation(b, a) == IF allocation[a].batch = b THEN OutstandingAllocation(a) ELSE 0
OfMarket(b, k) == IF market[k].batch = b THEN Outstanding(k) ELSE 0

ToAllocations(b) == Sum(Allocations, [a \in Allocations |-> OfAllocation(b, a)])
ToMarket(b) == Sum(MarketIds, [k \in MarketIds |-> OfMarket(b, k)])

Promises(b) == ToAllocations(b) + ToMarket(b)

LEMMA PromisesAreOutstanding ==
    ASSUME NEW b
    PROVE  AllOutstanding(b) = Promises(b)
<1>. DEFINE T == {a \in Allocations : allocation[a].batch = b}
            n == [a \in Allocations |-> OutstandingAllocation(a)]
            m == [a \in Allocations |-> OfAllocation(b, a)]
            U == {k \in MarketIds : market[k].batch = b}
            i == [k \in MarketIds |-> Outstanding(k)]
            j == [k \in MarketIds |-> OfMarket(b, k)]
<1>1. /\ T \in SUBSET Allocations
      /\ \A a \in Allocations : m[a] = IF a \in T THEN n[a] ELSE 0
  BY DEF OfAllocation
<1>2. /\ U \in SUBSET MarketIds
      /\ \A k \in MarketIds : j[k] = IF k \in U THEN i[k] ELSE 0
  BY DEF OfMarket
<1>. HIDE DEF T, n, m, U, i, j
<1>3. Sum(T, n) = Sum(Allocations, m)
  BY <1>1, SumWhere
<1>4. Sum(U, i) = Sum(MarketIds, j)
  BY <1>2, SumWhere
<1>. QED
  BY <1>3, <1>4 DEF AllOutstanding, Held, Promises, ToAllocations, ToMarket, T, n, m, U, i, j

LEMMA OutstandingType ==
    ASSUME IInv, NEW a \in Allocations, NEW b
    PROVE  OutstandingAllocation(a) \in 0..MaxBirds /\ OfAllocation(b, a) \in 0..MaxBirds
<1>1. GoodAllocation(allocation[a])
  BY DEF IInv, Allocated
<1>. QED
  BY <1>1, DemandAssumption, BatchesAssumption
     DEF GoodAllocation, AllocationRecord, OutstandingAllocation, OfAllocation, Positive

LEMMA MarketOutstandingType ==
    ASSUME IInv, NEW k \in MarketIds, NEW b
    PROVE  Outstanding(k) \in 0..MaxBirds /\ OfMarket(b, k) \in 0..MaxBirds
<1>1. GoodMarket(market[k])
  BY DEF IInv, Marketed
<1>. QED
  BY <1>1, BatchesAssumption DEF GoodMarket, MarketRecord, Outstanding, OfMarket, Positive

LEMMA PromisesType ==
    ASSUME NEW b
    PROVE  ToAllocations(b) \in Nat /\ ToMarket(b) \in Nat /\ Promises(b) \in Nat
<1>1. ToAllocations(b) \in Nat /\ ToMarket(b) \in Nat
  BY SumType, DemandAssumption, BatchesAssumption DEF ToAllocations, ToMarket
<1>. QED BY <1>1 DEF Promises

\* One allocation is written.
LEMMA AllocationMoves ==
    ASSUME IInv, IInv', NEW a \in Allocations, UNCHANGED market,
           \A c \in Allocations \ {a} : allocation'[c] = allocation[c], NEW b
    PROVE  Promises(b)' = Promises(b) + OfAllocation(b, a)' - OfAllocation(b, a)
<1>1. PICK n : n = [c \in Allocations |-> OfAllocation(b, c)]
  OBVIOUS
<1>2. PICK m : m = [c \in Allocations |-> OfAllocation(b, c)']
  OBVIOUS
<1>3. \A c \in Allocations \ {a} : m[c] = n[c]
  BY <1>1, <1>2 DEF OfAllocation, OutstandingAllocation
<1>4. n[a] = OfAllocation(b, a) /\ n[a] \in 0..MaxBirds
  BY <1>1, OutstandingType
<1>5. m[a] = OfAllocation(b, a)' /\ m[a] \in 0..MaxBirds
  <2>1. GoodAllocation(allocation'[a])
    BY DEF IInv, Allocated
  <2>2. OfAllocation(b, a)' \in 0..MaxBirds
    BY <2>1, DemandAssumption, BatchesAssumption
       DEF GoodAllocation, AllocationRecord, OutstandingAllocation, OfAllocation, Positive
  <2>. QED BY <1>2, <2>2
<1>6. Sum(Allocations, m) = Sum(Allocations, n) + m[a] - n[a] /\ Sum(Allocations, n) \in Nat
  BY <1>3, <1>4, <1>5, SumChange, DemandAssumption
<1>7. ToAllocations(b) = Sum(Allocations, n) /\ ToAllocations(b)' = Sum(Allocations, m)
  BY <1>1, <1>2 DEF ToAllocations
<1>8. ToMarket(b)' = ToMarket(b) /\ ToMarket(b) \in Nat
  BY PromisesType DEF ToMarket, OfMarket, Outstanding
<1>9. n[a] \in Int /\ m[a] \in Int
  BY <1>4, <1>5, BatchesAssumption
<1>10. Promises(b)' = ToAllocations(b)' + ToMarket(b)'
  BY DEF Promises
<1>. HIDE DEF Promises
<1>. QED BY <1>4, <1>5, <1>6, <1>7, <1>8, <1>9, <1>10 DEF Promises

\* One reservation is written.
LEMMA MarketMoves ==
    ASSUME IInv, IInv', NEW k \in MarketIds, UNCHANGED allocation,
           \A c \in MarketIds \ {k} : market'[c] = market[c], NEW b
    PROVE  Promises(b)' = Promises(b) + OfMarket(b, k)' - OfMarket(b, k)
<1>1. PICK n : n = [c \in MarketIds |-> OfMarket(b, c)]
  OBVIOUS
<1>2. PICK m : m = [c \in MarketIds |-> OfMarket(b, c)']
  OBVIOUS
<1>3. \A c \in MarketIds \ {k} : m[c] = n[c]
  BY <1>1, <1>2 DEF OfMarket, Outstanding
<1>4. n[k] = OfMarket(b, k) /\ n[k] \in 0..MaxBirds
  BY <1>1, MarketOutstandingType
<1>5. m[k] = OfMarket(b, k)' /\ m[k] \in 0..MaxBirds
  <2>1. GoodMarket(market'[k])
    BY DEF IInv, Marketed
  <2>2. OfMarket(b, k)' \in 0..MaxBirds
    BY <2>1, BatchesAssumption DEF GoodMarket, MarketRecord, Outstanding, OfMarket, Positive
  <2>. QED BY <1>2, <2>2
<1>6. Sum(MarketIds, m) = Sum(MarketIds, n) + m[k] - n[k] /\ Sum(MarketIds, n) \in Nat
  BY <1>3, <1>4, <1>5, SumChange, BatchesAssumption
<1>7. ToMarket(b) = Sum(MarketIds, n) /\ ToMarket(b)' = Sum(MarketIds, m)
  BY <1>1, <1>2 DEF ToMarket
<1>8. ToAllocations(b)' = ToAllocations(b) /\ ToAllocations(b) \in Nat
  BY PromisesType DEF ToAllocations, OfAllocation, OutstandingAllocation
<1>9. n[k] \in Int /\ m[k] \in Int
  BY <1>4, <1>5, BatchesAssumption
<1>10. Promises(b)' = ToAllocations(b)' + ToMarket(b)'
  BY DEF Promises
<1>. QED BY <1>4, <1>5, <1>6, <1>7, <1>8, <1>9, <1>10 DEF Promises

\* No allocation of b is written.
LEMMA ElsewhereMoves ==
    ASSUME UNCHANGED market, NEW b,
           \A a \in Allocations :
              \/ allocation'[a] = allocation[a]
              \/ allocation'[a].batch # b /\ allocation[a].batch # b
    PROVE  Promises(b)' = Promises(b)
<1>1. \A a \in Allocations :
         (IF allocation'[a].batch = b
          THEN IF allocation'[a].status = "reserved" /\ ~ allocation'[a].listed
               THEN Positive(allocation'[a].quantity - allocation'[a].filled) ELSE 0
          ELSE 0) = OfAllocation(b, a)
  BY DEF OfAllocation, OutstandingAllocation
<1>2. ToAllocations(b)' = ToAllocations(b)
  BY <1>1 DEF ToAllocations, OfAllocation, OutstandingAllocation
<1>3. ToMarket(b)' = ToMarket(b)
  BY DEF ToMarket, OfMarket, Outstanding
<1>. QED BY <1>2, <1>3 DEF Promises

-----------------------------------------------------------------------------
(* The strengthening, and what no step undoes.                             *)

HasOrder(r) == \E o \in OrderIds : order[o].status # "none" /\ order[o].request = r
GetsOrder(r) == \E o \in OrderIds : order'[o].status # "none" /\ order'[o].request = r

\* A batch not registered holds nothing.
Empties == \A b \in BatchIds : batch[b].status = "none" => batch[b].reserved = 0

\* An allocation that is past being reserved has or had an order.
Followed ==
    \A a \in Allocations :
        allocation[a].listed \/ allocation[a].status \notin {"none", "reserved", "cancelled"} =>
            HasOrder(allocation[a].request)

\* Nothing was received for a reservation not approved yet.
Fresh == \A k \in MarketIds : market[k].status = "requested" => market[k].filled = 0

AsPromised(b) == Untouched(b) => batch[b].reserved = Promises(b)

RInv ==
    /\ Empties
    /\ Followed
    /\ Fresh
    /\ \A b \in BatchIds : AsPromised(b)

OrderStays(o) ==
    order[o].status # "none" =>
        order'[o].status # "none" /\ order'[o].request = order[o].request

AllocationStays(a) ==
    allocation[a].status # "none" =>
        /\ allocation'[a].status # "none"
        /\ allocation'[a].request = allocation[a].request
        /\ allocation'[a].batch = allocation[a].batch

LEMMA OrdersStay ==
    ASSUME IInv, [Next]_vars, NEW o \in OrderIds
    PROVE  OrderStays(o)
<1>0. order \in [OrderIds -> OrderRecord]
  BY DEF IInv, Ordering
<1>1. CASE UNCHANGED order
  BY <1>1 DEF OrderStays
<1>2. ASSUME NEW r \in Requirements, NEW p \in OrderIds, ConvertRequirement(r, p) \/ ConvertHold(r, p)
      PROVE  OrderStays(o)
  BY <1>0, <1>2 DEF ConvertRequirement, ConvertHold, OrderStays
<1>3. ASSUME NEW p \in OrderIds,
             NEW target \in Underway \cup Closing \cup {"delivered", "completed"}, Advance(p, target)
      PROVE  OrderStays(o)
  <2>. DEFINE s == IF target \in Closing THEN "cancelled" ELSE target
  <2>1. s # "none"
    BY DEF Underway, Closing
  <2>2. order' = [order EXCEPT ![p].status = s]
    BY <1>3 DEF Advance
  <2>. HIDE DEF s
  <2>. QED BY <1>0, <2>1, <2>2 DEF OrderStays, OrderRecord
<1>4. ASSUME NEW p \in OrderIds, NEW kind \in {"reopen", "return"}, ReverseDelivery(p, kind)
      PROVE  OrderStays(o)
  BY <1>0, <1>4 DEF ReverseDelivery, OrderStays, OrderRecord
<1>5. ASSUME NEW r \in Requirements,
             \/ \E q \in Needs : CreateRequirement(r, q) \/ EditRequest(r, q)
             \/ \E status \in {"sourcing", "supply_found", "confirmed", "cancelled"} :
                   SourceProgress(r, status)
             \/ \E status \in {"confirmed", "fulfilling", "completed", "cancelled"} :
                   UpdateRequirementProgress(r, status)
             \/ CancelRequirement(r)
      PROVE  UNCHANGED order
  BY <1>5 DEF CreateRequirement, EditRequest, SourceProgress, UpdateRequirementProgress,
              CancelRequirement
<1>6. ASSUME NEW a \in Allocations,
             \/ \E r \in Requirements, b \in BatchIds, q \in Needs : AllocationCreate(a, r, b, q)
             \/ \E q \in Needs : AllocationReduce(a, q)
             \/ \E q \in Quantities : ReceiveForAllocation(a, q)
             \/ AllocationCancel(a)
      PROVE  UNCHANGED order
  BY <1>6 DEF AllocationCreate, AllocationReduce, ReceiveForAllocation, AllocationCancel
<1>. QED BY <1>1, <1>2, <1>3, <1>4, <1>5, <1>6 DEF Next, vars

Past(a) == allocation[a].listed \/ allocation[a].status \notin {"none", "reserved", "cancelled"}

\* An allocation gets past being reserved only with an order.
AllocationFollows(a) ==
    Past(a)' => \/ Past(a) /\ allocation'[a].request = allocation[a].request
                \/ GetsOrder(allocation'[a].request)

LEMMA UnwrittenFollows ==
    ASSUME NEW a, allocation'[a] = allocation[a]
    PROVE  AllocationStays(a) /\ AllocationFollows(a)
BY DEF AllocationStays, AllocationFollows, Past

LEMMA CancelledFollows ==
    ASSUME IInv, NEW a \in Allocations, allocation'[a] = [allocation[a] EXCEPT !.status = "cancelled"]
    PROVE  AllocationStays(a) /\ AllocationFollows(a)
<1>1. allocation[a] \in AllocationRecord
  BY DEF IInv, Allocated
<1>. QED BY <1>1 DEF AllocationStays, AllocationFollows, Past, AllocationRecord

\* The same status, request and batch: a quantity is reduced, or some received.
LEMMA QuantityFollows ==
    ASSUME NEW a, allocation'[a].status = allocation[a].status,
           allocation'[a].request = allocation[a].request,
           allocation'[a].batch = allocation[a].batch,
           allocation'[a].listed = allocation[a].listed
    PROVE  AllocationStays(a) /\ AllocationFollows(a)
BY DEF AllocationStays, AllocationFollows, Past

\* A status is written into the allocations of a requirement with an order.
LEMMA OrderedFollows ==
    ASSUME IInv, NEW a \in Allocations, NEW z, z # "none", GetsOrder(allocation[a].request),
           \/ allocation'[a] = [allocation[a] EXCEPT !.status = z]
           \/ allocation'[a] = [allocation[a] EXCEPT !.status = z, !.listed = TRUE]
    PROVE  AllocationStays(a) /\ AllocationFollows(a)
<1>1. allocation[a] \in AllocationRecord
  BY DEF IInv, Allocated
<1>2. /\ allocation'[a].status = z
      /\ allocation'[a].request = allocation[a].request
      /\ allocation'[a].batch = allocation[a].batch
  BY <1>1 DEF AllocationRecord
<1>3. GetsOrder(allocation'[a].request)
  BY <1>2
<1>. QED BY <1>2, <1>3 DEF AllocationStays, AllocationFollows

LEMMA AllocationsFollow ==
    ASSUME IInv, [Next]_vars, NEW a \in Allocations
    PROVE  AllocationStays(a) /\ AllocationFollows(a)
<1>0. allocation \in [Allocations -> AllocationRecord] /\ order \in [OrderIds -> OrderRecord]
  BY DEF IInv, Allocated, Ordering
<1>1. CASE UNCHANGED allocation
  BY <1>1, UnwrittenFollows
<1>2. ASSUME NEW r \in Requirements,
             \/ \E q \in Needs : CreateRequirement(r, q) \/ EditRequest(r, q)
             \/ \E status \in {"sourcing", "supply_found", "confirmed", "cancelled"} :
                   SourceProgress(r, status)
             \/ \E status \in {"confirmed", "fulfilling", "completed", "cancelled"} :
                   UpdateRequirementProgress(r, status)
             \/ CancelRequirement(r)
      PROVE  AllocationStays(a) /\ AllocationFollows(a)
  <2>1. \/ UNCHANGED allocation
        \/ CancelAllocations(r)
    BY <1>2 DEF CreateRequirement, EditRequest, SourceProgress, UpdateRequirementProgress,
                CancelRequirement
  <2>2. \/ allocation'[a] = allocation[a]
        \/ allocation'[a] = [allocation[a] EXCEPT !.status = "cancelled"]
    BY <2>1 DEF CancelAllocations
  <2>. QED BY <2>2, UnwrittenFollows, CancelledFollows
<1>3. ASSUME NEW r \in Requirements, NEW o \in OrderIds, ConvertRequirement(r, o) \/ ConvertHold(r, o)
      PROVE  AllocationStays(a) /\ AllocationFollows(a)
  <2>1. CASE allocation'[a] = allocation[a]
    BY <2>1, UnwrittenFollows
  <2>2. CASE allocation'[a] # allocation[a]
    <3>1. ConvertRequirement(r, o) /\ a \in Ordered(r)
      BY <1>3, <2>2 DEF ConvertRequirement, ConvertHold
    <3>2. order'[o].status # "none" /\ order'[o].request = r
      BY <1>0, <3>1 DEF ConvertRequirement, NewOrder
    <3>3. allocation[a].request = r
      BY <3>1 DEF Ordered, Of
    <3>4. GetsOrder(allocation[a].request)
      BY <3>2, <3>3 DEF GetsOrder
    <3>5. allocation'[a] = [allocation[a] EXCEPT !.status = "supplier_confirmed", !.listed = TRUE]
      BY <3>1 DEF ConvertRequirement
    <3>. QED BY <3>4, <3>5, OrderedFollows
  <2>. QED BY <2>1, <2>2
<1>4. ASSUME NEW c \in Allocations, NEW r \in Requirements, NEW b \in BatchIds, NEW q \in Needs,
             AllocationCreate(c, r, b, q)
      PROVE  AllocationStays(a) /\ AllocationFollows(a)
  <2>1. CASE a # c
    BY <1>0, <1>4, <2>1, UnwrittenFollows DEF AllocationCreate
  <2>2. CASE a = c
    <3>1. allocation[a].status = "none" /\ allocation'[a] = NewAllocation("reserved", r, b, q)
      BY <1>0, <1>4, <2>2 DEF AllocationCreate
    <3>2. allocation'[a].status = "reserved" /\ ~ allocation'[a].listed
      BY <3>1 DEF NewAllocation
    <3>. QED BY <3>1, <3>2 DEF AllocationStays, AllocationFollows, Past
  <2>. QED BY <2>1, <2>2
<1>5. ASSUME NEW c \in Allocations,
             \/ \E q \in Needs : AllocationReduce(c, q)
             \/ \E q \in Quantities : ReceiveForAllocation(c, q)
      PROVE  AllocationStays(a) /\ AllocationFollows(a)
  <2>1. \/ \E q \in Needs : allocation' = [allocation EXCEPT ![c].quantity = q]
        \/ \E f : allocation' = [allocation EXCEPT ![c].filled = @ + f]
    BY <1>5 DEF AllocationReduce, ReceiveForAllocation
  <2>2. /\ allocation'[a].status = allocation[a].status
        /\ allocation'[a].request = allocation[a].request
        /\ allocation'[a].batch = allocation[a].batch
        /\ allocation'[a].listed = allocation[a].listed
    BY <1>0, <2>1 DEF AllocationRecord
  <2>. QED BY <2>2, QuantityFollows
<1>6. ASSUME NEW c \in Allocations, AllocationCancel(c)
      PROVE  AllocationStays(a) /\ AllocationFollows(a)
  <2>1. \/ allocation' = [allocation EXCEPT ![c].status = "cancelled"]
        \/ UNCHANGED allocation
    BY <1>6 DEF AllocationCancel
  <2>2. \/ allocation'[a] = allocation[a]
        \/ allocation'[a] = [allocation[a] EXCEPT !.status = "cancelled"]
    BY <1>0, <2>1
  <2>. QED BY <2>2, UnwrittenFollows, CancelledFollows
<1>7. ASSUME NEW o \in OrderIds,
             NEW target \in Underway \cup Closing \cup {"delivered", "completed"}, Advance(o, target)
      PROVE  AllocationStays(a) /\ AllocationFollows(a)
  <2>. DEFINE r == order[o].request
              z == IF target \in SecuredStates THEN target ELSE "passed"
  <2>1. CASE allocation'[a] = allocation[a]
    BY <2>1, UnwrittenFollows
  <2>2. CASE GiveBack(r)
    <3>1. \/ allocation'[a] = allocation[a]
          \/ allocation'[a] = [allocation[a] EXCEPT !.status = "cancelled"]
      BY <2>2 DEF GiveBack
    <3>. QED BY <3>1, UnwrittenFollows, CancelledFollows
  <2>3. CASE Follow(r, target) /\ allocation'[a] # allocation[a]
    <3>1. a \in Active(allocation, r) /\ allocation'[a] = [allocation[a] EXCEPT !.status = z]
      BY <2>3 DEF Follow
    <3>2. allocation[a].request = r
      BY <3>1 DEF Active, Of
    <3>3. order[o].status # "none"
      BY <1>7 DEF Advance, Transitions
    <3>4. OrderStays(o)
      BY OrdersStay
    <3>5. GetsOrder(allocation[a].request)
      BY <3>2, <3>3, <3>4 DEF OrderStays, GetsOrder
    <3>6. z # "none"
      BY DEF SecuredStates
    <3>. HIDE DEF z
    <3>. QED BY <3>1, <3>5, <3>6, OrderedFollows
  <2>. QED BY <1>1, <1>7, <2>1, <2>2, <2>3 DEF Advance
<1>8. ASSUME NEW o \in OrderIds, NEW kind \in {"reopen", "return"}, ReverseDelivery(o, kind)
      PROVE  UNCHANGED allocation
  BY <1>8 DEF ReverseDelivery
<1>. QED BY <1>1, <1>2, <1>3, <1>4, <1>5, <1>6, <1>7, <1>8 DEF Next, vars

LEMMA FollowedStep ==
    ASSUME IInv, Followed, [Next]_vars
    PROVE  Followed'
<1>1. ASSUME NEW a \in Allocations, Past(a)'
      PROVE  GetsOrder(allocation'[a].request)
  <2>1. CASE Past(a) /\ allocation'[a].request = allocation[a].request
    <3>1. PICK o \in OrderIds : order[o].status # "none" /\ order[o].request = allocation[a].request
      BY <2>1 DEF Followed, Past, HasOrder
    <3>2. OrderStays(o)
      BY OrdersStay
    <3>. QED BY <2>1, <3>1, <3>2 DEF OrderStays, GetsOrder
  <2>. QED BY <1>1, <2>1, AllocationsFollow DEF AllocationFollows
<1>. QED BY <1>1 DEF Followed, Past, HasOrder, GetsOrder

LEMMA UntouchedBefore ==
    ASSUME IInv, [Next]_vars, NEW b, Untouched(b)'
    PROVE  Untouched(b)
<1>1. ASSUME NEW a \in Allocations, NEW o \in OrderIds,
             allocation[a].status # "none", allocation[a].batch = b,
             order[o].status # "none", order[o].request = allocation[a].request
      PROVE  FALSE
  <2>1. AllocationStays(a) /\ OrderStays(o)
    BY AllocationsFollow, OrdersStay
  <2>. QED BY <1>1, <2>1 DEF AllocationStays, OrderStays, Untouched
<1>. QED BY <1>1 DEF Untouched

LEMMA FreshStep ==
    ASSUME IInv, Fresh, [Next]_vars
    PROVE  Fresh'
<1>0. market \in [MarketIds -> MarketRecord]
  BY DEF IInv, Marketed
<1>1. CASE UNCHANGED market
  BY <1>1 DEF Fresh
<1>2. ASSUME NEW k \in MarketIds, NEW b \in BatchIds, NEW q \in Quantities, RequestReservation(k, b, q)
      PROVE  Fresh'
  BY <1>0, <1>2 DEF RequestReservation, NewReservation, Fresh
<1>3. ASSUME NEW k \in MarketIds, NEW q \in Quantities, ApproveReservation(k, q)
      PROVE  Fresh'
  <2>. DEFINE y == [market[k] EXCEPT !.status = "approved", !.approved = q]
  <2>1. market' = [market EXCEPT ![k] = y]
    BY <1>3, <1>0 DEF ApproveReservation, MarketRecord
  <2>2. y.status = "approved"
    BY <1>0 DEF MarketRecord
  <2>. HIDE DEF y
  <2>. QED BY <1>0, <2>1, <2>2 DEF Fresh
<1>4. ASSUME NEW k \in MarketIds, NEW q \in Quantities, ReceiveForMarket(k, q)
      PROVE  Fresh'
  <2>1. market[k].status = "approved"
    BY <1>4 DEF ReceiveForMarket, Outstanding
  <2>2. PICK f : market' = [market EXCEPT ![k].filled = @ + f]
    BY <1>4 DEF ReceiveForMarket
  <2>3. market'[k].status = "approved" /\ \A c \in MarketIds \ {k} : market'[c] = market[c]
    BY <1>0, <2>1, <2>2 DEF MarketRecord
  <2>. QED BY <2>3 DEF Fresh
<1>5. ASSUME NEW k \in MarketIds, NEW status \in {"rejected", "cancelled"}, DropReservation(k, status)
      PROVE  Fresh'
  <2>. DEFINE y == [market[k] EXCEPT !.status = status,
                                    !.approved = IF status = "rejected" THEN 0 ELSE @]
  <2>1. market' = [market EXCEPT ![k] = y]
    BY <1>5, <1>0 DEF DropReservation, MarketRecord
  <2>2. y.status # "requested"
    BY <1>0 DEF MarketRecord
  <2>. HIDE DEF y
  <2>. QED BY <1>0, <2>1, <2>2 DEF Fresh
<1>6. ASSUME NEW b \in BatchIds, NEW q \in Quantities, NEW byStaff \in BOOLEAN,
             NEW rejected \in 0..MaxBirds, NEW complete \in BOOLEAN,
             \/ CreateBatch(b, byStaff)
             \/ VerifySupplierBatch(b, q, rejected, complete)
             \/ ExternalSale(b, q)
             \/ SoldElsewhere(b, q)
             \/ TakeFromBatch(b, q)
             \/ ReturnToBatch(b, q)
             \/ ReceiveUnreserved(b, q)
      PROVE  UNCHANGED market
  BY <1>6 DEF CreateBatch, VerifySupplierBatch, ExternalSale, SoldElsewhere, TakeFromBatch,
              ReturnToBatch, ReceiveUnreserved
<1>7. BatchesNext => Fresh'
  <2>. SUFFICES ASSUME BatchesNext PROVE Fresh'
    OBVIOUS
  <2>1. 1 \in Quantities /\ 0 \in 0..MaxBirds
    BY BatchesAssumption DEF Quantities
  <2>. QED BY <1>1, <1>2, <1>3, <1>4, <1>5, <1>6, <2>1 DEF BatchesNext
<1>8. ~ BatchesNext => UNCHANGED market
  BY DEF Next, vars, CreateRequirement, EditRequest, SourceProgress, UpdateRequirementProgress,
         CancelRequirement, ConvertRequirement, ConvertHold, AllocationCreate, AllocationReduce,
         ReceiveForAllocation, AllocationCancel, Advance, ReverseDelivery
<1>. QED BY <1>1, <1>7, <1>8

-----------------------------------------------------------------------------
(* Each action books in the batch what it promises or takes back.          *)

\* A batch not registered stays so with nothing more reserved; and reserved
\* and promised birds change alike, while no order touches the batch.
Booked(b) ==
    /\ batch'[b].status = "none" =>
          batch[b].status = "none" /\ batch'[b].reserved <= batch[b].reserved
    /\ Untouched(b)' =>
          batch'[b].reserved = batch[b].reserved + Promises(b)' - Promises(b)

LEMMA BatchType ==
    ASSUME IInv, NEW b \in BatchIds
    PROVE  batch[b] \in BatchRecord /\ batch[b].reserved \in Nat
BY DEF IInv, Batched, BatchRecord

\* The batch b is saved, with d more birds reserved.
LEMMA SaveBooks ==
    ASSUME IInv, NEW b \in BatchIds, NEW x, Save(b, x), NEW d \in Int,
           x.reserved = batch[b].reserved + d,
           x.status = "none" => batch[b].status = "none" /\ d <= 0,
           NEW c \in BatchIds,
           Untouched(c)' => Promises(c)' = Promises(c) + (IF c = b THEN d ELSE 0)
    PROVE  Booked(c)
<1>1. batch' = [batch EXCEPT ![b] = x] /\ batch \in [BatchIds -> BatchRecord]
  BY DEF Save, IInv, Batched
<1>2. batch[c].reserved \in Nat /\ batch[b].reserved \in Nat /\ Promises(c) \in Nat
  BY BatchType, PromisesType
<1>. HIDE DEF Promises
<1>3. CASE c = b
  <2>1. batch'[c] = x
    BY <1>1, <1>3
  <2>2. Untouched(c)' => Promises(c)' = Promises(c) + d
    BY <1>3
  <2>. QED BY <1>2, <1>3, <2>1, <2>2 DEF Booked
<1>4. CASE c # b
  <2>1. batch'[c] = batch[c]
    BY <1>1, <1>4
  <2>2. Untouched(c)' => Promises(c)' = Promises(c)
    BY <1>2, <1>4
  <2>. QED BY <1>2, <2>1, <2>2 DEF Booked
<1>. QED BY <1>3, <1>4

\* Nothing is reserved, released, promised or taken back.
LEMMA AlikeBooks ==
    ASSUME IInv, UNCHANGED <<allocation, market>>, NEW c \in BatchIds,
           batch'[c].reserved = batch[c].reserved,
           batch'[c].status = "none" => batch[c].status = "none"
    PROVE  Booked(c)
<1>1. Promises(c)' = Promises(c)
  BY DEF Promises, ToAllocations, ToMarket, OfAllocation, OfMarket, Outstanding, OutstandingAllocation
<1>2. batch[c].reserved \in Nat /\ Promises(c) \in Nat
  BY BatchType, PromisesType
<1>. HIDE DEF Promises
<1>. QED BY <1>1, <1>2 DEF Booked

\* Saved with as many birds reserved.
LEMMA SaveAlikeBooks ==
    ASSUME IInv, UNCHANGED <<allocation, market>>, NEW b \in BatchIds, NEW x, Save(b, x),
           x.reserved = batch[b].reserved, x.status = "none" => batch[b].status = "none",
           NEW c \in BatchIds
    PROVE  Booked(c)
<1>1. batch' = [batch EXCEPT ![b] = x] /\ batch \in [BatchIds -> BatchRecord]
  BY DEF Save, IInv, Batched
<1>2. /\ batch'[c].reserved = batch[c].reserved
      /\ batch'[c].status = "none" => batch[c].status = "none"
  BY <1>1
<1>. QED BY <1>2, AlikeBooks

LEMMA BatchBooks ==
    ASSUME IInv, Empties, UNCHANGED allocation, NEW b \in BatchIds, NEW c \in BatchIds,
           NEW q \in Quantities,
           \/ \E byStaff \in BOOLEAN : CreateBatch(b, byStaff)
           \/ \E rejected \in 0..MaxBirds, complete \in BOOLEAN :
                 VerifySupplierBatch(b, q, rejected, complete)
           \/ ExternalSale(b, q)
           \/ SoldElsewhere(b, q)
           \/ TakeFromBatch(b, q)
           \/ ReturnToBatch(b, q)
    PROVE  Booked(c)
<1>0. batch[b] \in BatchRecord
  BY BatchType
<1>1. ASSUME NEW byStaff \in BOOLEAN, CreateBatch(b, byStaff) PROVE Booked(c)
  <2>. DEFINE x == NewBatch("open", MaxBirds, byStaff)
  <2>1. x.reserved = batch[b].reserved /\ x.status # "none" /\ Save(b, x) /\ UNCHANGED market
    BY <1>1 DEF NewBatch, CreateBatch, Empties, Exists
  <2>. HIDE DEF x
  <2>. QED BY <2>1, SaveAlikeBooks
<1>2. ASSUME NEW rejected \in 0..MaxBirds, NEW complete \in BOOLEAN,
             VerifySupplierBatch(b, q, rejected, complete)
      PROVE  Booked(c)
  <2>. DEFINE x == [batch[b] EXCEPT !.approved = TRUE, !.cleared = complete,
                                    !.current = q, !.status = "open"]
  <2>1. Save(b, x) /\ UNCHANGED market
    BY <1>2 DEF VerifySupplierBatch
  <2>2. x.reserved = batch[b].reserved /\ x.status # "none"
    BY ONLY <1>0 DEF BatchRecord
  <2>. HIDE DEF x
  <2>. QED BY <2>1, <2>2, SaveAlikeBooks
<1>3. CASE ExternalSale(b, q)
  <2>. DEFINE y == [batch[b] EXCEPT !.elsewhere = @ + q]
              x == IF Available(y) <= 0 THEN [y EXCEPT !.status = "fully_reserved"] ELSE y
  <2>1. Save(b, x) /\ UNCHANGED market
    BY <1>3 DEF ExternalSale
  <2>2. y.reserved = batch[b].reserved /\ y.status = batch[b].status
        /\ DOMAIN y = DOMAIN batch[b]
    BY <1>0 DEF BatchRecord
  <2>3. x.reserved = batch[b].reserved /\ (x.status = "none" => batch[b].status = "none")
    <3>1. /\ y \in [DOMAIN batch[b] -> {y[i] : i \in DOMAIN batch[b]}]
          /\ "status" \in DOMAIN batch[b] /\ "reserved" \in DOMAIN batch[b]
      BY <1>0 DEF BatchRecord
    <3>. HIDE DEF y
    <3>. QED BY <2>2, <3>1
  <2>. HIDE DEF x
  <2>. QED BY <2>1, <2>3, SaveAlikeBooks
<1>4. ASSUME NEW y, y \in Loose, y.reserved = batch[b].reserved, Save(b, RefreshBatchStatus(y)),
             batch[b].status # "none", y.status = batch[b].status, UNCHANGED market
      PROVE  Booked(c)
  <2>. DEFINE x == RefreshBatchStatus(y)
  <2>1. x.reserved = batch[b].reserved /\ (x.status = "none" => batch[b].status = "none")
    BY <1>4 DEF RefreshBatchStatus, Loose
  <2>2. Save(b, x)
    BY <1>4
  <2>. HIDE DEF x
  <2>. QED BY <1>4, <2>1, <2>2, SaveAlikeBooks
<1>5. CASE SoldElsewhere(b, q)
  <2>. DEFINE y == [batch[b] EXCEPT !.elsewhere = @ + q]
  <2>1. y \in Loose /\ y.reserved = batch[b].reserved /\ y.status = batch[b].status
    BY <1>0 DEF BatchRecord, Loose, Quantities
  <2>2. Save(b, RefreshBatchStatus(y)) /\ batch[b].status # "none" /\ UNCHANGED market
    BY <1>5 DEF SoldElsewhere, Exists
  <2>. HIDE DEF y
  <2>. QED BY <1>4, <2>1, <2>2
<1>6. CASE TakeFromBatch(b, q)
  <2>. DEFINE y == [batch[b] EXCEPT !.sold = @ + q]
  <2>1. y \in Loose /\ y.reserved = batch[b].reserved /\ y.status = batch[b].status
    BY <1>0 DEF BatchRecord, Loose, Quantities
  <2>2. Save(b, RefreshBatchStatus(y)) /\ batch[b].status # "none" /\ UNCHANGED market
    BY <1>6 DEF TakeFromBatch, Exists
  <2>. HIDE DEF y
  <2>. QED BY <1>4, <2>1, <2>2
<1>7. CASE ReturnToBatch(b, q)
  <2>. DEFINE y == [batch[b] EXCEPT !.sold = Positive(@ - q)]
  <2>1. y \in Loose /\ y.reserved = batch[b].reserved /\ y.status = batch[b].status
    BY <1>0 DEF BatchRecord, Loose, Quantities, Positive
  <2>2. Save(b, RefreshBatchStatus(y)) /\ batch[b].status # "none" /\ UNCHANGED market
    BY <1>7 DEF ReturnToBatch, Exists
  <2>. HIDE DEF y
  <2>. QED BY <1>4, <2>1, <2>2
<1>. QED BY <1>1, <1>2, <1>3, <1>5, <1>6, <1>7

\* What a delivery note leaves reserved.
LEMMA ReceivedReserved ==
    ASSUME NEW x \in BatchRecord, NEW q \in Quantities, NEW f \in 0..q
    PROVE  /\ Received(x, q, f).reserved = x.reserved - f
           /\ Received(x, q, f).status = "none" => x.status = "none"
<1>. DEFINE y == [x EXCEPT !.reserved = @ - f, !.sold = @ + q]
<1>1. y.reserved = x.reserved - f /\ y.status = x.status /\ y = [i \in DOMAIN x |-> y[i]]
      /\ "status" \in DOMAIN x /\ "reserved" \in DOMAIN x
  BY DEF BatchRecord
<1>2. Received(x, q, f) = IF Left(y) <= 0 THEN [y EXCEPT !.status = "sold"]
                          ELSE IF Available(y) <= 0 THEN [y EXCEPT !.status = "fully_reserved"]
                          ELSE IF y.reserved > 0 THEN [y EXCEPT !.status = "open"]
                          ELSE y
  BY DEF Received
<1>. HIDE DEF y
<1>. QED BY <1>1, <1>2

LEMMA ReceiveUnreservedBooks ==
    ASSUME IInv, UNCHANGED allocation, NEW b \in BatchIds, NEW c \in BatchIds,
           NEW q \in Quantities, ReceiveUnreserved(b, q)
    PROVE  Booked(c)
<1>. DEFINE x == Received(batch[b], q, 0)
<1>1. batch[b] \in BatchRecord /\ batch[b].reserved \in Nat /\ 0 \in 0..q
  BY BatchType, BatchesAssumption DEF Quantities
<1>2. x.reserved = batch[b].reserved - 0 /\ (x.status = "none" => batch[b].status = "none")
  BY <1>1, ReceivedReserved
<1>3. Save(b, x) /\ UNCHANGED market
  BY DEF ReceiveUnreserved, ReceiveSupplierStock
<1>. HIDE DEF x
<1>. QED BY <1>1, <1>2, <1>3, SaveAlikeBooks

\* A delivery note fills a promise of f birds on b.
LEMMA ReceiveBooks ==
    ASSUME IInv, NEW b \in BatchIds, NEW q \in Quantities, NEW f \in 0..q,
           ReceiveSupplierStock(b, q, f), NEW c \in BatchIds,
           Promises(c)' = Promises(c) + (IF c = b THEN - f ELSE 0)
    PROVE  Booked(c)
<1>. DEFINE x == Received(batch[b], q, f)
            d == - f
<1>1. batch[b] \in BatchRecord /\ batch[b].reserved \in Nat /\ f \in Nat /\ d \in Int /\ d <= 0
  BY BatchType, BatchesAssumption DEF Quantities
<1>2. x.reserved = batch[b].reserved + d /\ (x.status = "none" => batch[b].status = "none" /\ d <= 0)
  BY <1>1, ReceivedReserved
<1>3. Save(b, x)
  BY DEF ReceiveSupplierStock
<1>4. Untouched(c)' => Promises(c)' = Promises(c) + (IF c = b THEN d ELSE 0)
  OBVIOUS
<1>. HIDE DEF x, d
<1>. QED BY <1>1, <1>2, <1>3, <1>4, SaveBooks

LEMMA ReceiveForMarketBooks ==
    ASSUME IInv, IInv', UNCHANGED allocation, NEW k \in MarketIds, NEW q \in Quantities,
           ReceiveForMarket(k, q), NEW c \in BatchIds
    PROVE  Booked(c)
<1>. DEFINE n == Outstanding(k)
            f == Least(q, n)
            b == market[k].batch
<1>1. GoodMarket(market[k]) /\ b \in BatchIds /\ market \in [MarketIds -> MarketRecord]
  BY DEF IInv, Marketed, GoodMarket, MarketRecord
<1>2. market[k].status = "approved" /\ n = market[k].approved - market[k].filled /\ n \in Nat
  BY <1>1 DEF ReceiveForMarket, Outstanding, Positive, GoodMarket, MarketRecord
<1>. HIDE DEF n
<1>3. f \in 0..q /\ f <= n /\ f \in Nat
  BY <1>2, FilledType, BatchesAssumption DEF Quantities
<1>4. ReceiveSupplierStock(b, q, f) /\ market' = [market EXCEPT ![k].filled = @ + f]
  BY DEF ReceiveForMarket, n
<1>. HIDE DEF f
<1>5. /\ market'[k].status = "approved" /\ market'[k].batch = b
      /\ market'[k].approved = market[k].approved /\ market'[k].filled = market[k].filled + f
  BY <1>1, <1>2, <1>4 DEF MarketRecord
<1>6. OfMarket(c, k) = IF c = b THEN n ELSE 0
  BY DEF OfMarket, n
<1>7. OfMarket(c, k)' = IF c = b THEN n - f ELSE 0
  BY <1>1, <1>2, <1>3, <1>5 DEF OfMarket, Outstanding, Positive, GoodMarket, MarketRecord
<1>8. Promises(c)' = Promises(c) + OfMarket(c, k)' - OfMarket(c, k)
  BY <1>1, <1>4, MarketMoves
<1>9. Promises(c) \in Nat
  BY PromisesType
<1>10. Promises(c)' = Promises(c) + (IF c = b THEN - f ELSE 0)
  <2>. HIDE DEF b
  <2>. QED BY <1>2, <1>3, <1>6, <1>7, <1>8, <1>9
<1>. QED BY <1>1, <1>3, <1>4, <1>10, ReceiveBooks

LEMMA RequestBooks ==
    ASSUME IInv, IInv', Empties, UNCHANGED allocation, NEW k \in MarketIds, NEW b \in BatchIds,
           NEW q \in Quantities, RequestReservation(k, b, q), NEW c \in BatchIds
    PROVE  Booked(c)
<1>1. market \in [MarketIds -> MarketRecord] /\ Promises(c) \in Nat
  BY PromisesType DEF IInv, Marketed
<1>2. /\ market[k].status = "none" /\ market'[k].status = "requested"
      /\ \A j \in MarketIds \ {k} : market'[j] = market[j]
  BY <1>1 DEF RequestReservation, NewReservation
<1>3. OfMarket(c, k) = 0 /\ OfMarket(c, k)' = 0
  BY <1>2 DEF OfMarket, Outstanding
<1>4. Promises(c)' = Promises(c) + OfMarket(c, k)' - OfMarket(c, k)
  BY <1>2, MarketMoves
<1>5. Promises(c)' = Promises(c)
  BY <1>1, <1>3, <1>4
<1>6. /\ batch'[c].reserved = batch[c].reserved
      /\ batch'[c].status = "none" => batch[c].status = "none"
  <2>. DEFINE x == NewBatch("open", q, FALSE)
  <2>1. x.reserved = 0 /\ x.status = "open"
    BY DEF NewBatch
  <2>2. UNCHANGED batch \/ (batch[b].status = "none" /\ batch' = [batch EXCEPT ![b] = x])
    BY DEF RequestReservation, Save, Exists
  <2>. HIDE DEF x
  <2>3. batch \in [BatchIds -> BatchRecord]
    BY DEF IInv, Batched
  <2>. QED BY <2>1, <2>2, <2>3 DEF Empties
<1>7. batch[c].reserved \in Nat
  BY BatchType
<1>. QED BY <1>1, <1>5, <1>6, <1>7 DEF Booked

LEMMA ApproveBooks ==
    ASSUME IInv, IInv', Fresh, UNCHANGED allocation, NEW k \in MarketIds, NEW q \in Quantities,
           ApproveReservation(k, q), NEW c \in BatchIds
    PROVE  Booked(c)
<1>. DEFINE b == market[k].batch
            old == IF market[k].status = "approved" THEN market[k].approved ELSE 0
            u == [batch[b] EXCEPT !.reserved = @ + q - old]
            x == [u EXCEPT !.status = IF Available(u) <= 0 THEN "fully_reserved" ELSE "open"]
            d == q - old
<1>1. GoodMarket(market[k]) /\ b \in BatchIds /\ market \in [MarketIds -> MarketRecord]
  BY DEF IInv, Marketed, GoodMarket, MarketRecord
<1>2. old \in Nat /\ q \in Nat /\ d \in Int
  BY <1>1, BatchesAssumption DEF GoodMarket, MarketRecord, Quantities
<1>3. batch[b] \in BatchRecord /\ batch[b].reserved \in Nat
  BY <1>1, BatchType
<1>4. x.reserved = batch[b].reserved + d /\ x.status # "none"
  <2>1. u \in Loose /\ u.reserved = batch[b].reserved + d
    BY <1>2, <1>3 DEF BatchRecord, Loose
  <2>. HIDE DEF u
  <2>. QED BY <2>1 DEF Loose
<1>5. Save(b, x)
  BY DEF ApproveReservation
<1>6. /\ market'[k].status = "approved" /\ market'[k].batch = b
      /\ market'[k].approved = q /\ market'[k].filled = market[k].filled
      /\ \A j \in MarketIds \ {k} : market'[j] = market[j]
  <2>. DEFINE v == [market[k] EXCEPT !.status = "approved"]
              w == [v EXCEPT !.approved = q]
  <2>1. v \in [DOMAIN market[k] -> UNION {{v[i]} : i \in DOMAIN market[k]}]
        /\ v.status = "approved" /\ v.batch = b /\ v.filled = market[k].filled
        /\ DOMAIN market[k] = {"status", "batch", "requested", "approved", "filled"}
    BY <1>1 DEF MarketRecord
  <2>2. w.status = "approved" /\ w.batch = b /\ w.filled = market[k].filled /\ w.approved = q
    <3>. HIDE DEF v, b
    <3>. QED BY <2>1
  <2>3. market' = [market EXCEPT ![k] = w]
    BY <1>1 DEF ApproveReservation, MarketRecord
  <2>. HIDE DEF w, b
  <2>. QED BY <1>1, <2>2, <2>3
<1>7. q >= market[k].filled /\ market[k].filled \in Nat
  BY <1>1, BatchesAssumption DEF ApproveReservation, MarketRecord
<1>8. OfMarket(c, k)' = IF c = b THEN q - market[k].filled ELSE 0
  BY <1>2, <1>6, <1>7 DEF OfMarket, Outstanding, Positive
<1>9. OfMarket(c, k) = IF c = b THEN old - market[k].filled ELSE 0
  <2>1. CASE market[k].status = "approved"
    BY <1>1, <1>7, <2>1, BatchesAssumption DEF OfMarket, Outstanding, Positive, GoodMarket, MarketRecord
  <2>2. CASE market[k].status # "approved"
    <3>1. market[k].filled = 0
      BY <2>2 DEF ApproveReservation, Fresh
    <3>. QED BY <2>2, <3>1 DEF OfMarket, Outstanding
  <2>. QED BY <2>1, <2>2
<1>10. Promises(c)' = Promises(c) + OfMarket(c, k)' - OfMarket(c, k)
  BY <1>6, MarketMoves
<1>11. Promises(c) \in Nat
  BY PromisesType
<1>. HIDE DEF b, old
<1>12. Promises(c)' = Promises(c) + (IF c = b THEN d ELSE 0)
  BY <1>2, <1>7, <1>8, <1>9, <1>10, <1>11
<1>. HIDE DEF x, d
<1>13. b \in BatchIds
  BY <1>1
<1>. QED BY <1>2, <1>4, <1>5, <1>12, <1>13, SaveBooks

LEMMA DropBooks ==
    ASSUME IInv, IInv', UNCHANGED allocation, NEW k \in MarketIds,
           NEW status \in {"rejected", "cancelled"}, DropReservation(k, status), NEW c \in BatchIds
    PROVE  Booked(c)
<1>. DEFINE b == market[k].batch
            n == Outstanding(k)
            x == [batch[b] EXCEPT !.reserved = @ - n,
                                  !.status = IF @ = "fully_reserved" THEN "open" ELSE @]
            d == - n
<1>1. b \in BatchIds /\ market \in [MarketIds -> MarketRecord]
  BY DEF IInv, Marketed, MarketRecord
<1>2. n \in Nat /\ d \in Int /\ d <= 0
  BY MarketOutstandingType, BatchesAssumption
<1>3. batch[b] \in BatchRecord /\ batch[b].reserved \in Nat
  BY <1>1, BatchType
<1>4. OfMarket(c, k) = IF c = b THEN n ELSE 0
  BY DEF OfMarket
<1>. HIDE DEF n
<1>5. x.reserved = batch[b].reserved + d /\ (x.status = "none" => batch[b].status = "none" /\ d <= 0)
  <2>. DEFINE u == [batch[b] EXCEPT !.reserved = @ - n]
              w == [u EXCEPT !.status = IF @ = "fully_reserved" THEN "open" ELSE @]
  <2>1. u \in Loose /\ u.reserved = batch[b].reserved + d /\ u.status = batch[b].status
    BY <1>2, <1>3 DEF BatchRecord, Loose
  <2>2. x = w
    BY <1>3 DEF BatchRecord
  <2>3. w.reserved = u.reserved /\ (w.status = "none" => u.status = "none")
    <3>. HIDE DEF u
    <3>. QED BY <2>1 DEF Loose
  <2>. QED BY <1>2, <2>1, <2>2, <2>3
<1>6. /\ market'[k].status \in {"rejected", "cancelled"}
      /\ \A j \in MarketIds \ {k} : market'[j] = market[j]
  <2>. DEFINE y == [market[k] EXCEPT !.status = status,
                                    !.approved = IF status = "rejected" THEN 0 ELSE @]
  <2>1. market' = [market EXCEPT ![k] = y]
    BY <1>1 DEF DropReservation, MarketRecord
  <2>2. y.status = status
    BY <1>1 DEF MarketRecord
  <2>. HIDE DEF y
  <2>. QED BY <1>1, <2>1, <2>2
<1>7. OfMarket(c, k)' = 0
  BY <1>6 DEF OfMarket, Outstanding
<1>8. Promises(c)' = Promises(c) + OfMarket(c, k)' - OfMarket(c, k)
  BY <1>6, MarketMoves
<1>9. Promises(c) \in Nat
  BY PromisesType
<1>10. CASE market[k].status = "approved"
  <2>1. Save(b, x)
    BY <1>10 DEF DropReservation, ReleaseBatch, n
  <2>. HIDE DEF b
  <2>2. Promises(c)' = Promises(c) + (IF c = b THEN d ELSE 0)
    BY <1>2, <1>4, <1>7, <1>8, <1>9
  <2>. HIDE DEF x, d
  <2>. QED BY <1>1, <1>2, <1>5, <2>1, <2>2, SaveBooks
<1>11. CASE market[k].status # "approved"
  <2>1. UNCHANGED batch
    BY <1>11 DEF DropReservation, ReleaseBatch
  <2>2. n = 0
    BY <1>11 DEF n, Outstanding
  <2>3. Promises(c)' = Promises(c)
    BY <1>4, <1>7, <1>8, <1>9, <2>2
  <2>4. batch[c].reserved \in Nat
    BY BatchType
  <2>. QED BY <1>9, <2>1, <2>3, <2>4 DEF Booked
<1>. QED BY <1>10, <1>11

LEMMA ReopenedReserved ==
    ASSUME NEW x \in BatchRecord, NEW m \in Int
    PROVE  LET y == Reopened([x EXCEPT !.reserved = m]) IN
           y.reserved = m /\ (y.status = "none" => x.status = "none")
<1>. DEFINE u == [x EXCEPT !.reserved = m]
<1>1. u \in Loose /\ u.reserved = m /\ u.status = x.status
  BY DEF BatchRecord, Loose
<1>2. Reopened(u).reserved = u.reserved /\ (Reopened(u).status = "none" => u.status = "none")
  <2>. HIDE DEF u
  <2>. QED BY <1>1 DEF Reopened, Loose
<1>. QED BY <1>1, <1>2

LEMMA CreateBooks ==
    ASSUME IInv, IInv', NEW a \in Allocations, NEW r \in Requirements, NEW b \in BatchIds,
           NEW q \in Needs, AllocationCreate(a, r, b, q), NEW c \in BatchIds
    PROVE  Booked(c)
<1>. DEFINE u == [batch[b] EXCEPT !.reserved = @ + q]
            x == [u EXCEPT !.status = IF Available(u) <= 0 THEN "fully_reserved" ELSE "open"]
<1>1. batch[b] \in BatchRecord /\ batch[b].reserved \in Nat /\ q \in Nat
  BY BatchType, DemandAssumption DEF Needs
<1>2. x.reserved = batch[b].reserved + q /\ x.status # "none"
  <2>1. u \in Loose /\ u.reserved = batch[b].reserved + q
    BY <1>1 DEF BatchRecord, Loose
  <2>. HIDE DEF u
  <2>. QED BY <2>1 DEF Loose
<1>3. Save(b, x) /\ UNCHANGED market
  BY DEF AllocationCreate
<1>4. /\ allocation[a].status = "none"
      /\ allocation' = [allocation EXCEPT ![a] = NewAllocation("reserved", r, b, q)]
  BY DEF AllocationCreate
<1>5. /\ allocation'[a] = NewAllocation("reserved", r, b, q)
      /\ \A e \in Allocations \ {a} : allocation'[e] = allocation[e]
  BY <1>4 DEF IInv, Allocated
<1>6. OfAllocation(c, a) = 0
  BY <1>4 DEF OfAllocation, OutstandingAllocation
<1>7. OfAllocation(c, a)' = IF c = b THEN q ELSE 0
  BY <1>1, <1>5 DEF OfAllocation, OutstandingAllocation, NewAllocation, Positive
<1>8. Promises(c)' = Promises(c) + OfAllocation(c, a)' - OfAllocation(c, a)
  BY <1>3, <1>5, AllocationMoves
<1>9. Promises(c) \in Nat
  BY PromisesType
<1>10. Promises(c)' = Promises(c) + (IF c = b THEN q ELSE 0)
  BY <1>1, <1>6, <1>7, <1>8, <1>9
<1>. HIDE DEF x
<1>. QED BY <1>1, <1>2, <1>3, <1>10, SaveBooks

LEMMA CancelBooks ==
    ASSUME IInv, IInv', NEW a \in Allocations, AllocationCancel(a), NEW c \in BatchIds
    PROVE  Booked(c)
<1>. DEFINE b == allocation[a].batch
            n == OutstandingAllocation(a)
<1>1. b \in BatchIds /\ allocation \in [Allocations -> AllocationRecord]
  BY DEF IInv, Allocated, AllocationRecord
<1>2. n \in Nat /\ UNCHANGED market
  BY OutstandingType, BatchesAssumption DEF AllocationCancel
<1>3. batch[b] \in BatchRecord /\ batch[b].reserved \in Nat
  BY <1>1, BatchType
<1>4. CASE allocation[a].status \notin SecuredStates
  <2>. DEFINE m == batch[b].reserved
              x == Reopened([batch[b] EXCEPT !.reserved = m])
  <2>1. Save(b, x) /\ UNCHANGED allocation
    BY <1>4 DEF AllocationCancel
  <2>2. x.reserved = m /\ (x.status = "none" => batch[b].status = "none")
    BY <1>3, ReopenedReserved
  <2>. HIDE DEF x, b
  <2>. QED BY <1>1, <1>2, <2>1, <2>2, SaveAlikeBooks
<1>5. CASE allocation[a].status \in SecuredStates
  <2>. DEFINE m == batch[b].reserved - n
              d == - n
              x == Reopened([batch[b] EXCEPT !.reserved = m])
  <2>1. /\ Save(b, x)
        /\ allocation' = [allocation EXCEPT ![a].status = "cancelled"]
    BY <1>5 DEF AllocationCancel
  <2>2. m \in Int /\ m = batch[b].reserved + d /\ d \in Int /\ d <= 0
    BY <1>2, <1>3
  <2>3. x.reserved = m /\ (x.status = "none" => batch[b].status = "none")
    <3>. HIDE DEF m, b
    <3>. QED BY <1>3, <2>2, ReopenedReserved
  <2>4. /\ allocation'[a].status = "cancelled"
        /\ \A e \in Allocations \ {a} : allocation'[e] = allocation[e]
    BY <1>1, <2>1 DEF AllocationRecord
  <2>5. OfAllocation(c, a)' = 0
    BY <2>4 DEF OfAllocation, OutstandingAllocation
  <2>6. OfAllocation(c, a) = IF c = b THEN n ELSE 0
    BY DEF OfAllocation
  <2>7. Promises(c)' = Promises(c) + OfAllocation(c, a)' - OfAllocation(c, a)
    BY <1>2, <2>4, AllocationMoves
  <2>8. Promises(c) \in Nat
    BY PromisesType
  <2>. HIDE DEF b, n
  <2>9. Promises(c)' = Promises(c) + (IF c = b THEN d ELSE 0)
    BY <1>2, <2>5, <2>6, <2>7, <2>8
  <2>. HIDE DEF x, m, d
  <2>. QED BY <1>1, <2>1, <2>2, <2>3, <2>9, SaveBooks
<1>. QED BY <1>4, <1>5

\* An allocation whose order has its birds touches its batch.
LEMMA PastTouches ==
    ASSUME Followed, NEW a \in Allocations, Past(a), UNCHANGED order,
           allocation'[a].status # "none", allocation'[a].request = allocation[a].request
    PROVE  ~ (Untouched(allocation[a].batch)' /\ allocation'[a].batch = allocation[a].batch)
<1>1. PICK o \in OrderIds : order[o].status # "none" /\ order[o].request = allocation[a].request
  BY DEF Followed, Past, HasOrder
<1>. QED BY <1>1 DEF Untouched

LEMMA ReduceBooks ==
    ASSUME IInv, IInv', Followed, NEW a \in Allocations, NEW q \in Needs, AllocationReduce(a, q),
           NEW c \in BatchIds
    PROVE  Booked(c)
<1>. DEFINE b == allocation[a].batch
            d == q - allocation[a].quantity
            m == batch[b].reserved + q - allocation[a].quantity
            x == Reopened([batch[b] EXCEPT !.reserved = m])
<1>1. GoodAllocation(allocation[a]) /\ b \in BatchIds /\ allocation \in [Allocations -> AllocationRecord]
  BY DEF IInv, Allocated, AllocationRecord
<1>2. batch[b] \in BatchRecord /\ batch[b].reserved \in Nat
  BY <1>1, BatchType
<1>3. d \in Int /\ m \in Int /\ m = batch[b].reserved + d /\ d <= 0
  BY <1>1, <1>2, DemandAssumption DEF AllocationReduce, AllocationRecord, Needs
<1>4. Save(b, x) /\ UNCHANGED <<market, order>> /\ allocation' = [allocation EXCEPT ![a].quantity = q]
  BY DEF AllocationReduce
<1>5. x.reserved = m /\ (x.status = "none" => batch[b].status = "none")
  <2>. HIDE DEF m, b
  <2>. QED BY <1>2, <1>3, ReopenedReserved
<1>6. /\ allocation'[a].status = allocation[a].status
      /\ allocation'[a].request = allocation[a].request
      /\ allocation'[a].batch = b
      /\ allocation'[a].quantity = q
      /\ allocation'[a].filled = allocation[a].filled
      /\ allocation'[a].listed = allocation[a].listed
      /\ \A e \in Allocations \ {a} : allocation'[e] = allocation[e]
  BY <1>1, <1>4 DEF AllocationRecord
<1>7. Promises(c)' = Promises(c) + OfAllocation(c, a)' - OfAllocation(c, a)
  BY <1>4, <1>6, AllocationMoves
<1>8. Promises(c) \in Nat
  BY PromisesType
<1>9. ASSUME Untouched(c)'
      PROVE  Promises(c)' = Promises(c) + (IF c = b THEN d ELSE 0)
  <2>1. CASE c # b
    <3>1. OfAllocation(c, a)' = 0 /\ OfAllocation(c, a) = 0
      BY <1>6, <2>1 DEF OfAllocation
    <3>. HIDE DEF b
    <3>. QED BY <1>7, <1>8, <2>1, <3>1
  <2>2. CASE c = b
    <3>1. allocation[a].status # "none"
      BY DEF AllocationReduce, SecuredStates
    <3>2. ~ Past(a)
      BY <1>4, <1>6, <1>9, <2>2, <3>1, PastTouches
    <3>3. allocation[a].status = "reserved" /\ ~ allocation[a].listed
      BY <3>2 DEF Past, AllocationReduce, SecuredStates
    <3>4. /\ q \in Nat /\ q >= allocation[a].filled /\ q <= allocation[a].quantity
          /\ allocation[a].filled \in Nat /\ allocation[a].quantity \in Nat
      BY <1>1, DemandAssumption DEF AllocationReduce, AllocationRecord, Needs
    <3>5. OfAllocation(c, a)' = q - allocation[a].filled
      BY <1>6, <2>2, <3>3, <3>4 DEF OfAllocation, OutstandingAllocation, Positive
    <3>6. OfAllocation(c, a) = allocation[a].quantity - allocation[a].filled
      BY <2>2, <3>3, <3>4 DEF OfAllocation, OutstandingAllocation, Positive
    <3>7. Promises(c)' = Promises(c) + d
      BY <1>7, <1>8, <3>4, <3>5, <3>6
    <3>. QED BY <2>2, <3>7
  <2>. QED BY <2>1, <2>2
<1>. HIDE DEF x, m, d, b
<1>. QED BY <1>1, <1>3, <1>4, <1>5, <1>9, SaveBooks

LEMMA ReceiveForAllocationBooks ==
    ASSUME IInv, IInv', NEW a \in Allocations, NEW q \in Quantities, ReceiveForAllocation(a, q),
           NEW c \in BatchIds
    PROVE  Booked(c)
<1>. DEFINE n == OutstandingAllocation(a)
            f == Least(q, n)
            b == allocation[a].batch
<1>1. GoodAllocation(allocation[a]) /\ b \in BatchIds /\ allocation \in [Allocations -> AllocationRecord]
  BY DEF IInv, Allocated, AllocationRecord
<1>2. /\ allocation[a].status = "reserved" /\ ~ allocation[a].listed
      /\ n = allocation[a].quantity - allocation[a].filled /\ n \in Nat
  BY <1>1 DEF ReceiveForAllocation, OutstandingAllocation, Positive, GoodAllocation, AllocationRecord
<1>. HIDE DEF n
<1>3. f \in 0..q /\ f <= n /\ f \in Nat
  BY <1>2, FilledType, BatchesAssumption DEF Quantities
<1>4. /\ ReceiveSupplierStock(b, q, f) /\ UNCHANGED market
      /\ allocation' = [allocation EXCEPT ![a].filled = @ + f]
  BY DEF ReceiveForAllocation, n
<1>. HIDE DEF f
<1>5. /\ allocation'[a].status = "reserved" /\ ~ allocation'[a].listed /\ allocation'[a].batch = b
      /\ allocation'[a].quantity = allocation[a].quantity
      /\ allocation'[a].filled = allocation[a].filled + f
      /\ \A e \in Allocations \ {a} : allocation'[e] = allocation[e]
  BY <1>1, <1>2, <1>4 DEF AllocationRecord
<1>6. OfAllocation(c, a) = IF c = b THEN n ELSE 0
  BY DEF OfAllocation, n
<1>7. OfAllocation(c, a)' = IF c = b THEN n - f ELSE 0
  BY <1>1, <1>2, <1>3, <1>5, DemandAssumption
     DEF OfAllocation, OutstandingAllocation, Positive, AllocationRecord
<1>8. Promises(c)' = Promises(c) + OfAllocation(c, a)' - OfAllocation(c, a)
  BY <1>4, <1>5, AllocationMoves
<1>9. Promises(c) \in Nat
  BY PromisesType
<1>10. Promises(c)' = Promises(c) + (IF c = b THEN - f ELSE 0)
  <2>. HIDE DEF b
  <2>. QED BY <1>2, <1>3, <1>6, <1>7, <1>8, <1>9
<1>. QED BY <1>1, <1>3, <1>4, <1>10, ReceiveBooks

LEMMA CancelAllocationsBooks ==
    ASSUME IInv, IInv', UNCHANGED market, NEW r, CancelAllocations(r), NEW c \in BatchIds
    PROVE  Booked(c)
<1>. DEFINE T == Active(allocation, r)
            h == Held(c, T)
<1>1. T \in SUBSET Allocations
  BY DEF Active, Of
<1>2. batch[c] \in BatchRecord /\ batch[c].reserved \in Nat /\ Promises(c) \in Nat
  BY BatchType, PromisesType
<1>3. \A a \in Allocations :
         allocation'[a] = IF a \in T THEN [allocation[a] EXCEPT !.status = "cancelled"]
                          ELSE allocation[a]
  BY DEF CancelAllocations
<1>4. PICK n : n = [a \in Allocations |-> OfAllocation(c, a)]
  OBVIOUS
<1>5. PICK m : m = [a \in Allocations |-> OfAllocation(c, a)']
  OBVIOUS
<1>6. \A a \in Allocations : m[a] = IF a \in T THEN 0 ELSE n[a]
  <2>1. ASSUME NEW a \in Allocations, a \in T PROVE m[a] = 0
    <3>1. allocation[a] \in AllocationRecord
      BY DEF IInv, Allocated
    <3>2. allocation'[a].status = "cancelled"
      BY <1>3, <2>1, <3>1 DEF AllocationRecord
    <3>. HIDE DEF T
    <3>. QED BY <1>5, <3>2 DEF OfAllocation, OutstandingAllocation
  <2>2. ASSUME NEW a \in Allocations, a \notin T PROVE m[a] = n[a]
    <3>1. allocation'[a] = allocation[a]
      BY <1>3, <2>2
    <3>. HIDE DEF T
    <3>. QED BY <1>4, <1>5, <3>1 DEF OfAllocation, OutstandingAllocation
  <2>. QED BY <2>1, <2>2
<1>. DEFINE S == {a \in T : allocation[a].batch = c}
            i == [a \in Allocations |-> OutstandingAllocation(a)]
<1>7. S \in SUBSET T /\ \A a \in T : n[a] = IF a \in S THEN i[a] ELSE 0
  BY <1>1, <1>4 DEF OfAllocation
<1>8. h = Sum(S, i)
  BY DEF Held
<1>. HIDE DEF T, S, i, h
<1>9. Sum(S, i) = Sum(T, n)
  BY <1>7, SumWhere
<1>10. Sum(Allocations, m) = Sum(Allocations, n) - Sum(T, n)
       /\ Sum(Allocations, n) \in Nat /\ Sum(T, n) \in Nat
  BY <1>1, <1>6, SumWithout, DemandAssumption
<1>11. ToAllocations(c) = Sum(Allocations, n) /\ ToAllocations(c)' = Sum(Allocations, m)
  BY <1>4, <1>5 DEF ToAllocations
<1>12. ToMarket(c)' = ToMarket(c) /\ ToMarket(c) \in Nat
  BY PromisesType DEF ToMarket, OfMarket, Outstanding
<1>13. /\ Promises(c)' = ToAllocations(c)' + ToMarket(c)'
       /\ Promises(c) = ToAllocations(c) + ToMarket(c)
  BY DEF Promises
<1>. HIDE DEF Promises
<1>14. Promises(c)' = Promises(c) - h /\ h \in Nat
  BY <1>8, <1>9, <1>10, <1>11, <1>12, <1>13
<1>15. CASE \E a \in T : allocation[a].batch = c
  <2>. DEFINE k == batch[c].reserved - h
  <2>1. batch'[c] = Reopened([batch[c] EXCEPT !.reserved = k])
    BY <1>15 DEF CancelAllocations, T, h
  <2>2. k \in Int /\ k <= batch[c].reserved
    BY <1>2, <1>14
  <2>3. batch'[c].reserved = k /\ (batch'[c].status = "none" => batch[c].status = "none")
    <3>. HIDE DEF k
    <3>. QED BY <1>2, <2>1, <2>2, ReopenedReserved
  <2>. QED BY <1>2, <1>14, <2>2, <2>3 DEF Booked
<1>16. CASE ~ \E a \in T : allocation[a].batch = c
  <2>1. batch'[c] = batch[c]
    BY <1>16 DEF CancelAllocations, T
  <2>2. \A a \in T : n[a] = 0
    BY <1>1, <1>4, <1>16 DEF OfAllocation
  <2>3. h = 0
    BY <1>8, <1>9, <2>2, SumNothing
  <2>. QED BY <1>2, <1>14, <2>1, <2>3 DEF Booked
<1>. QED BY <1>15, <1>16

\* An order that is made, or under way, touches the batches of the requirement.
LEMMA TouchedNow ==
    ASSUME NEW c, Untouched(c)', NEW a \in Allocations, NEW o \in OrderIds,
           allocation'[a].status # "none", order'[o].status # "none",
           order'[o].request = allocation'[a].request
    PROVE  allocation'[a].batch # c
BY DEF Untouched

LEMMA ConvertBooks ==
    ASSUME IInv, IInv', NEW r \in Requirements, NEW o \in OrderIds, ConvertRequirement(r, o),
           NEW c \in BatchIds
    PROVE  Booked(c)
<1>. DEFINE take == Ordered(r)
            n == Sum({a \in take : allocation[a].batch = c}, Quantity)
<1>1. batch[c] \in BatchRecord /\ batch[c].reserved \in Nat /\ Promises(c) \in Nat
  BY BatchType, PromisesType
<1>2. n \in Nat
  BY QuantitySumType DEF Ordered, Of
<1>3. batch'[c].reserved = batch[c].reserved - n /\ batch'[c].status = batch[c].status
  <2>1. batch'[c] = [batch[c] EXCEPT !.current = @ - n, !.reserved = @ - n]
    BY DEF ConvertRequirement
  <2>. HIDE DEF n
  <2>. QED BY <1>1, <2>1 DEF BatchRecord
<1>4. ASSUME Untouched(c)'
      PROVE  batch'[c].reserved = batch[c].reserved + Promises(c)' - Promises(c)
  <2>1. order'[o].status # "none" /\ order'[o].request = r
    BY DEF ConvertRequirement, NewOrder, IInv, Ordering
  <2>2. ASSUME NEW a \in take
        PROVE  a \in Allocations /\ allocation[a].batch # c /\ allocation'[a].batch # c
    <3>1. a \in Allocations /\ allocation[a].request = r /\ allocation[a] \in AllocationRecord
      BY DEF Ordered, Of, IInv, Allocated
    <3>2. allocation'[a] = [allocation[a] EXCEPT !.status = "supplier_confirmed", !.listed = TRUE]
      BY <3>1 DEF ConvertRequirement
    <3>3. /\ allocation'[a].status # "none" /\ allocation'[a].request = r
          /\ allocation'[a].batch = allocation[a].batch
      BY <3>1, <3>2 DEF AllocationRecord
    <3>. QED BY <1>4, <2>1, <3>1, <3>3, TouchedNow
  <2>3. \A a \in Allocations :
           \/ allocation'[a] = allocation[a]
           \/ allocation'[a].batch # c /\ allocation[a].batch # c
    BY <2>2 DEF ConvertRequirement
  <2>4. Promises(c)' = Promises(c)
    BY <2>3, ElsewhereMoves DEF ConvertRequirement
  <2>5. {a \in take : allocation[a].batch = c} = {}
    BY <2>2
  <2>6. n = 0
    BY <2>5, SumNothing
  <2>. QED BY <1>1, <1>3, <2>4, <2>6
<1>. QED BY <1>1, <1>2, <1>3, <1>4 DEF Booked

\* Only allocations of the order's requirement are written, and nothing reserved.
LEMMA OrderBooks ==
    ASSUME IInv, UNCHANGED market, NEW r, NEW o \in OrderIds,
           order'[o].status # "none", order'[o].request = r,
           \A a \in Allocations :
              \/ allocation'[a] = allocation[a]
              \/ /\ allocation'[a].status # "none"
                 /\ allocation'[a].request = r
                 /\ allocation'[a].batch = allocation[a].batch,
           NEW c \in BatchIds, batch'[c].reserved = batch[c].reserved,
           batch'[c].status = "none" => batch[c].status = "none"
    PROVE  Booked(c)
<1>1. batch[c].reserved \in Nat /\ Promises(c) \in Nat
  BY BatchType, PromisesType
<1>2. ASSUME Untouched(c)'
      PROVE  Promises(c)' = Promises(c)
  <2>1. ASSUME NEW a \in Allocations, allocation'[a] # allocation[a]
        PROVE  allocation'[a].batch # c /\ allocation[a].batch # c
    BY <1>2, <2>1, TouchedNow
  <2>. QED BY <2>1, ElsewhereMoves
<1>. HIDE DEF Promises
<1>. QED BY <1>1, <1>2 DEF Booked

LEMMA AdvanceBooks ==
    ASSUME IInv, IInv', [Next]_vars, NEW o \in OrderIds,
           NEW target \in Underway \cup Closing \cup {"delivered", "completed"}, Advance(o, target),
           NEW c \in BatchIds
    PROVE  Booked(c)
<1>. DEFINE r == order[o].request
<1>1. order'[o].status # "none" /\ order'[o].request = r
  <2>1. order[o].status # "none"
    BY DEF Advance, Transitions
  <2>. QED BY <2>1, OrdersStay DEF OrderStays
<1>2. batch[c] \in BatchRecord /\ UNCHANGED market
  BY BatchType DEF Advance
<1>3. ASSUME NEW a \in Allocations, NEW s, s # "none", a \in Active(allocation, r),
             allocation'[a] = [allocation[a] EXCEPT !.status = s]
      PROVE  /\ allocation'[a].status # "none"
             /\ allocation'[a].request = r
             /\ allocation'[a].batch = allocation[a].batch
  <2>1. allocation[a] \in AllocationRecord /\ allocation[a].request = r
    BY <1>3 DEF Active, Of, IInv, Allocated
  <2>. HIDE DEF r
  <2>. QED BY <1>3, <2>1 DEF AllocationRecord
<1>4. CASE GiveBack(r)
  <2>1. ASSUME NEW a \in Allocations, allocation'[a] # allocation[a]
        PROVE  /\ allocation'[a].status # "none"
               /\ allocation'[a].request = r
               /\ allocation'[a].batch = allocation[a].batch
    <3>1. a \in Active(allocation, r) /\ allocation'[a] = [allocation[a] EXCEPT !.status = "cancelled"]
      BY <1>4, <2>1 DEF GiveBack
    <3>. QED BY <1>3, <3>1
  <2>2. /\ batch'[c].reserved = batch[c].reserved
        /\ batch'[c].status = "none" => batch[c].status = "none"
    <3>1. \/ batch'[c] = batch[c]
          \/ \E n : batch'[c] = [batch[c] EXCEPT !.status = "open", !.current = @ + n]
      BY <1>4 DEF GiveBack
    <3>. QED BY <1>2, <3>1 DEF BatchRecord
  <2>. HIDE DEF r
  <2>. QED BY <1>1, <1>2, <2>1, <2>2, OrderBooks
<1>5. CASE Follow(r, target)
  <2>. DEFINE s == IF target \in SecuredStates THEN target ELSE "passed"
  <2>0. s # "none" /\ UNCHANGED batch
    BY <1>5 DEF SecuredStates, Follow
  <2>1. ASSUME NEW a \in Allocations, allocation'[a] # allocation[a]
        PROVE  /\ allocation'[a].status # "none"
               /\ allocation'[a].request = r
               /\ allocation'[a].batch = allocation[a].batch
    <3>1. a \in Active(allocation, r) /\ allocation'[a] = [allocation[a] EXCEPT !.status = s]
      BY <1>5, <2>1 DEF Follow
    <3>. HIDE DEF s
    <3>. QED BY <1>3, <2>0, <3>1
  <2>. HIDE DEF r
  <2>. QED BY <1>1, <1>2, <2>0, <2>1, OrderBooks
<1>6. CASE UNCHANGED <<batch, allocation>>
  BY <1>2, <1>6, AlikeBooks
<1>. QED BY <1>4, <1>5, <1>6 DEF Advance

-----------------------------------------------------------------------------
(* Every step books.                                                       *)

LEMMA BatchesBook ==
    ASSUME IInv, IInv', Empties, Fresh, BatchesNext, UNCHANGED allocation, NEW c \in BatchIds
    PROVE  Booked(c)
<1>1. ASSUME NEW b \in BatchIds, NEW byStaff \in BOOLEAN, CreateBatch(b, byStaff)
      PROVE  Booked(c)
  <2>1. 1 \in Quantities
    BY BatchesAssumption DEF Quantities
  <2>. QED BY <1>1, <2>1, BatchBooks
<1>. QED
  BY <1>1, BatchBooks, ReceiveUnreservedBooks, RequestBooks, ApproveBooks, ReceiveForMarketBooks,
     DropBooks DEF BatchesNext

LEMMA NextBooks ==
    ASSUME IInv, IInv', RInv, [Next]_vars, NEW c \in BatchIds
    PROVE  Booked(c)
<1>0. Empties /\ Fresh /\ Followed
  BY DEF RInv
<1>1. CASE UNCHANGED <<batch, market, allocation>>
  BY <1>1, AlikeBooks
<1>2. CASE BatchesNext /\ UNCHANGED <<request, allocation, order>>
  BY <1>0, <1>2, BatchesBook
<1>3. ASSUME NEW r \in Requirements,
             \/ \E q \in Needs : CreateRequirement(r, q) \/ EditRequest(r, q)
             \/ \E status \in {"sourcing", "supply_found", "confirmed", "cancelled"} :
                   SourceProgress(r, status)
             \/ \E status \in {"confirmed", "fulfilling", "completed", "cancelled"} :
                   UpdateRequirementProgress(r, status)
             \/ CancelRequirement(r)
      PROVE  Booked(c)
  <2>1. UNCHANGED market /\ (UNCHANGED <<batch, market, allocation>> \/ CancelAllocations(r))
    BY <1>3 DEF CreateRequirement, EditRequest, SourceProgress, UpdateRequirementProgress,
                CancelRequirement
  <2>. QED BY <1>1, <2>1, CancelAllocationsBooks
<1>4. ASSUME NEW r \in Requirements, NEW o \in OrderIds, ConvertRequirement(r, o) \/ ConvertHold(r, o)
      PROVE  Booked(c)
  <2>1. CASE ConvertHold(r, o)
    BY <1>1, <2>1 DEF ConvertHold
  <2>. QED BY <1>4, <2>1, ConvertBooks
<1>5. ASSUME NEW a \in Allocations,
             \/ \E r \in Requirements, b \in BatchIds, q \in Needs : AllocationCreate(a, r, b, q)
             \/ \E q \in Needs : AllocationReduce(a, q)
             \/ \E q \in Quantities : ReceiveForAllocation(a, q)
             \/ AllocationCancel(a)
      PROVE  Booked(c)
  BY <1>0, <1>5, CreateBooks, ReduceBooks, ReceiveForAllocationBooks, CancelBooks
<1>6. ASSUME NEW o \in OrderIds,
             NEW target \in Underway \cup Closing \cup {"delivered", "completed"}, Advance(o, target)
      PROVE  Booked(c)
  BY <1>6, AdvanceBooks
<1>7. ASSUME NEW o \in OrderIds, NEW kind \in {"reopen", "return"}, ReverseDelivery(o, kind)
      PROVE  Booked(c)
  BY <1>1, <1>7 DEF ReverseDelivery
<1>. QED BY <1>1, <1>2, <1>3, <1>4, <1>5, <1>6, <1>7 DEF Next, vars

LEMMA RInvStep == IInv /\ RInv /\ [Next]_vars => RInv'
<1>. SUFFICES ASSUME IInv, RInv, [Next]_vars PROVE RInv'
  OBVIOUS
<1>0. IInv' /\ Empties /\ Followed /\ Fresh
  BY NextKeeps DEF RInv
<1>1. Followed' /\ Fresh'
  BY <1>0, FollowedStep, FreshStep
<1>2. ASSUME NEW c \in BatchIds, batch'[c].status = "none"
      PROVE  batch'[c].reserved = 0
  <2>1. Booked(c)
    BY <1>0, NextBooks
  <2>2. batch[c].reserved = 0 /\ batch'[c].reserved <= 0
    BY <1>0, <1>2, <2>1 DEF Booked, Empties
  <2>3. batch'[c].reserved \in Nat
    BY <1>0 DEF IInv, Batched, BatchRecord
  <2>. QED BY <2>2, <2>3
<1>3. ASSUME NEW c \in BatchIds, Untouched(c)'
      PROVE  batch'[c].reserved = Promises(c)'
  <2>1. Booked(c)
    BY <1>0, NextBooks
  <2>2. Untouched(c)
    BY <1>3, UntouchedBefore
  <2>3. batch[c].reserved = Promises(c)
    BY <2>2 DEF RInv, AsPromised
  <2>4. batch'[c].reserved = batch[c].reserved + Promises(c)' - Promises(c)
    BY <1>3, <2>1 DEF Booked
  <2>5. Promises(c)' \in Int
    <3>1. ToAllocations(c)' \in Nat /\ ToMarket(c)' \in Nat
      BY SumType, DemandAssumption, BatchesAssumption DEF ToAllocations, ToMarket
    <3>. QED BY <3>1 DEF Promises
  <2>. QED BY <2>3, <2>4, <2>5, PromisesType
<1>. QED BY <1>1, <1>2, <1>3 DEF RInv, Empties, AsPromised

(* Until an order is made from it, what a batch reserves is exactly what   *)
(* its allocations and market days still hold, over every reduction,       *)
(* cancellation, delivery note and market day, for any number of them      *)
(* (demand.allocation_update, market_schedule._release_batch,              *)
(* batch_stock._fill_commitment).                                          *)
THEOREM BatchReservesWhatIsHeld == Spec => []ReservedUntilOrdered
<1>1. Init => RInv
  <2>. SUFFICES ASSUME Init PROVE RInv
    OBVIOUS
  <2>1. Empties /\ Followed /\ Fresh
    BY DEF Init, BatchesInit, NewBatch, NewReservation, NewAllocation, Empties, Followed, Fresh
  <2>2. ASSUME NEW b \in BatchIds
        PROVE  batch[b].reserved = Promises(b)
    <3>1. batch[b].reserved = 0
      BY DEF Init, BatchesInit, NewBatch
    <3>2. ToAllocations(b) = 0
      <4>. DEFINE n == [a \in Allocations |-> OfAllocation(b, a)]
      <4>1. \A a \in Allocations : n[a] = 0
        BY DEF Init, NewAllocation, OfAllocation, OutstandingAllocation
      <4>. HIDE DEF n
      <4>2. Sum(Allocations, n) = 0
        BY <4>1, SumNothing
      <4>. QED BY <4>2 DEF ToAllocations, n
    <3>3. ToMarket(b) = 0
      <4>. DEFINE n == [k \in MarketIds |-> OfMarket(b, k)]
      <4>1. \A k \in MarketIds : n[k] = 0
        BY DEF Init, BatchesInit, NewReservation, OfMarket, Outstanding
      <4>. HIDE DEF n
      <4>2. Sum(MarketIds, n) = 0
        BY <4>1, SumNothing
      <4>. QED BY <4>2 DEF ToMarket, n
    <3>. QED BY <3>1, <3>2, <3>3 DEF Promises
  <2>. QED BY <2>1, <2>2 DEF RInv, AsPromised
<1>2. RInv => ReservedUntilOrdered
  BY PromisesAreOutstanding DEF RInv, AsPromised, ReservedUntilOrdered
<1>. QED BY <1>1, <1>2, RInvStep, InvHolds, PTL DEF Spec
=============================================================================
