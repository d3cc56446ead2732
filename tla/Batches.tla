------------------------------ MODULE Batches -------------------------------
(***************************************************************************)
(* Supplier production batches: birds a supplier says are growing on the   *)
(* farm, what Omoterra has reserved of them, what it has taken and what    *)
(* the supplier sold to others (models.SupplierBatch, batch_stock.py), and *)
(* the reservations market days hold on them (market_schedule.py).  Demand *)
(* adds the reservations buyers' requirements hold.                        *)
(*                                                                         *)
(* A batch only counts what is reserved; which reservation holds it, and   *)
(* how much of that a delivery note has already filled, is with the        *)
(* reservations, and the two have to agree.  The database refuses a        *)
(* transaction that leaves a balance negative or more promised than there  *)
(* is (Stores).  Every handler runs under the commerce lock of its retry   *)
(* key.  The statuses growing, ready and partially_reserved, alike to      *)
(* every guard, are one ("open"); dates, prices and weights are left out.  *)
(***************************************************************************)
EXTENDS Integers, FiniteSets

CONSTANTS
    BatchIds,       \* SupplierBatch ids
    MarketIds,      \* MarketReservation ids, each on a slot of its own
    MaxBirds,       \* bound on a quantity, and the birds a batch is registered with
    MaxCurrent      \* bound on the birds a batch is given back to

ASSUME BatchesAssumption ==
    /\ IsFiniteSet(BatchIds) /\ BatchIds # {} /\ IsFiniteSet(MarketIds)
    /\ MaxBirds \in Nat \ {0} /\ MaxCurrent \in Nat

VARIABLES
    batch,          \* SupplierBatch
    market          \* MarketReservation and what delivery notes filled of it

Quantities == 1..MaxBirds

BatchRecord ==
    [status : {"none", "open", "fully_reserved", "sold"}, initial : Nat,
     current : Nat, reserved : Nat, sold : Nat, elsewhere : Nat,
     approved : BOOLEAN, cleared : BOOLEAN]

MarketRecord ==
    [status : {"none", "requested", "approved", "rejected", "cancelled"},
     batch : BatchIds, requested : 0..MaxBirds, approved : 0..MaxBirds,
     filled : 0..MaxBirds]

NewBatch(status, birds, approved) ==
    [status |-> status, initial |-> birds, current |-> birds, reserved |-> 0,
     sold |-> 0, elsewhere |-> 0, approved |-> approved, cleared |-> FALSE]

NewReservation(status, b, birds) ==
    [status |-> status, batch |-> b, requested |-> birds, approved |-> 0, filled |-> 0]

BatchesInit ==
    /\ batch = [b \in BatchIds |-> NewBatch("none", 0, FALSE)]
    /\ market = [k \in MarketIds |-> NewReservation("none", CHOOSE b \in BatchIds : TRUE, 0)]

-----------------------------------------------------------------------------
(* Figures of a batch x, and what a handler writes back.                   *)

Least(i, j) == IF i < j THEN i ELSE j
Positive(i) == IF i < 0 THEN 0 ELSE i

Left(x) == x.current - x.sold - x.elsewhere
Available(x) == Left(x) - x.reserved

\* The two CHECK constraints of the table.
Stores(x) ==
    /\ x.current >= 0 /\ x.reserved >= 0 /\ x.sold >= 0 /\ x.elsewhere >= 0
    /\ x.reserved + x.sold + x.elsewhere <= x.current

Save(b, x) ==
    /\ Stores(x)
    /\ batch' = [batch EXCEPT ![b] = x]

\* Nothing left to take is finished; a finished batch with stock is open again.
RefreshBatchStatus(x) ==
    [x EXCEPT !.status = IF Left(x) <= 0 THEN "sold"
                         ELSE IF x.status = "sold" THEN "open" ELSE x.status]

Exists(b) == batch[b].status # "none"

\* Still held on the batch: what a reservation holds less what notes filled.
Outstanding(k) ==
    IF market[k].status = "approved" THEN Positive(market[k].approved - market[k].filled) ELSE 0

-----------------------------------------------------------------------------
(* The batch.                                                              *)

\* Registered by its supplier, or by staff, who review it at once.
CreateBatch(b, byStaff) ==
    /\ ~ Exists(b)
    /\ Save(b, NewBatch("open", MaxBirds, byStaff))
    /\ UNCHANGED market

\* Staff saw the birds: the batch has what was verified, and a full visit clears it.
VerifySupplierBatch(b, verified, rejected, complete) ==
    LET x == batch[b] IN
    /\ Exists(b)
    /\ verified + rejected <= x.initial
    /\ verified >= x.reserved + x.sold + x.elsewhere
    /\ Save(b, [x EXCEPT !.approved = TRUE, !.cleared = complete,
                         !.current = verified, !.status = "open"])
    /\ UNCHANGED market

\* The supplier records a sale to somebody else.
ExternalSale(b, q) ==
    LET x == [batch[b] EXCEPT !.elsewhere = @ + q] IN
    /\ Exists(b) /\ q <= Available(batch[b])
    /\ Save(b, IF Available(x) <= 0 THEN [x EXCEPT !.status = "fully_reserved"] ELSE x)
    /\ UNCHANGED market

\* Staff record one, or close the batch with all that is available.
SoldElsewhere(b, q) ==
    /\ Exists(b) /\ q <= Available(batch[b])
    /\ Save(b, RefreshBatchStatus([batch[b] EXCEPT !.elsewhere = @ + q]))
    /\ UNCHANGED market

\* A direct sale takes birds from the batch.
TakeFromBatch(b, q) ==
    /\ Exists(b) /\ q <= Available(batch[b])
    /\ Save(b, RefreshBatchStatus([batch[b] EXCEPT !.sold = @ + q]))
    /\ UNCHANGED market

\* A sale is cancelled or edited, or a receipt corrected: some of what was taken
\* is not; never more than is counted as taken (the code clamps).
ReturnToBatch(b, q) ==
    /\ Exists(b)
    /\ Save(b, RefreshBatchStatus([batch[b] EXCEPT !.sold = Positive(@ - q)]))
    /\ UNCHANGED market

\* A delivery note accepts q > 0 birds of b, which fill f of a named reservation;
\* the rest must be birds no reservation holds.
Received(x, q, f) ==
    LET y == [x EXCEPT !.reserved = @ - f, !.sold = @ + q] IN
    IF Left(y) <= 0 THEN [y EXCEPT !.status = "sold"]
    ELSE IF Available(y) <= 0 THEN [y EXCEPT !.status = "fully_reserved"]
    ELSE IF y.reserved > 0 THEN [y EXCEPT !.status = "open"]
    ELSE y

ReceiveSupplierStock(b, q, f) ==
    /\ Exists(b)
    /\ q <= Left(batch[b])
    /\ q - f <= Positive(Available(batch[b]))
    /\ Save(b, Received(batch[b], q, f))

ReceiveUnreserved(b, q) ==
    /\ ReceiveSupplierStock(b, q, 0)
    /\ UNCHANGED market

ReceiveForMarket(k, q) ==
    LET f == Least(q, Outstanding(k)) IN
    /\ Outstanding(k) > 0
    /\ ReceiveSupplierStock(market[k].batch, q, f)
    /\ market' = [market EXCEPT ![k].filled = @ + f]

-----------------------------------------------------------------------------
(* A market day's reservation: on a batch the supplier already has, or on  *)
(* one planned for the day.                                                *)

RequestReservation(k, b, q) ==
    /\ market[k].status = "none"
    /\ \/ Exists(b) /\ q <= Available(batch[b]) /\ UNCHANGED batch
       \/ ~ Exists(b) /\ Save(b, NewBatch("open", q, FALSE))
    /\ market' = [market EXCEPT ![k] = NewReservation("requested", b, q)]

\* Approved for q, or approved again for another q.
ApproveReservation(k, q) ==
    LET b == market[k].batch
        old == IF market[k].status = "approved" THEN market[k].approved ELSE 0
        x == [batch[b] EXCEPT !.reserved = @ + q - old] IN
    /\ market[k].status \in {"requested", "approved"}
    /\ q <= market[k].requested
    /\ q >= market[k].filled
    /\ q <= Available(batch[b]) + old
    /\ Save(b, [x EXCEPT !.status = IF Available(x) <= 0 THEN "fully_reserved" ELSE "open"])
    /\ market' = [market EXCEPT ![k].status = "approved", ![k].approved = q]

\* Mutant: what notes filled is released too.
ReleaseAll(k) ==
    LET b == market[k].batch IN
    IF market[k].status = "approved"
    THEN Save(b, [batch[b] EXCEPT !.reserved = @ - market[k].approved,
                                  !.status = IF @ = "fully_reserved" THEN "open" ELSE @])
    ELSE UNCHANGED batch

ReleaseBatch(k) ==
    LET b == market[k].batch IN
    IF market[k].status = "approved"
    THEN Save(b, [batch[b] EXCEPT !.reserved = @ - Outstanding(k),
                                  !.status = IF @ = "fully_reserved" THEN "open" ELSE @])
    ELSE UNCHANGED batch

\* Rejected by staff, cancelled by the supplier or with the market day.
DropReservation(k, status) ==
    /\ market[k].status \in {"requested", "approved"}
    /\ ReleaseBatch(k)
    /\ market' = [market EXCEPT ![k].status = status,
                                ![k].approved = IF status = "rejected" THEN 0 ELSE @]

BatchesNext ==
    \/ \E b \in BatchIds, byStaff \in BOOLEAN : CreateBatch(b, byStaff)
    \/ \E b \in BatchIds, q \in Quantities :
          \/ \E rejected \in 0..MaxBirds, complete \in BOOLEAN :
                VerifySupplierBatch(b, q, rejected, complete)
          \/ ExternalSale(b, q)
          \/ SoldElsewhere(b, q)
          \/ TakeFromBatch(b, q)
          \/ ReturnToBatch(b, q)
          \/ ReceiveUnreserved(b, q)
    \/ \E k \in MarketIds, q \in Quantities :
          \/ \E b \in BatchIds : RequestReservation(k, b, q)
          \/ ApproveReservation(k, q)
          \/ ReceiveForMarket(k, q)
    \/ \E k \in MarketIds, status \in {"rejected", "cancelled"} : DropReservation(k, status)

BatchesTypeOK ==
    /\ batch \in [BatchIds -> BatchRecord]
    /\ market \in [MarketIds -> MarketRecord]

-----------------------------------------------------------------------------
(* A batch shown as sold has nothing left to reserve or take, whatever the *)
(* sales cancelled, the receipts corrected and the orders dropped since:   *)
(* staff choose sale lines and matches from the batches not sold, so birds *)
(* of one wrongly sold could no longer be found                            *)
(* (batch_stock.refresh_batch_status, open_batches).                       *)
SoldIsFinished ==
    \A b \in BatchIds : batch[b].status = "sold" => Available(batch[b]) = 0

(* Delivery notes never fill more of a market day's reservation than was   *)
(* approved for it, over every later approval of another quantity          *)
(* (batch_stock._fill_commitment, market_schedule.review_reservation).     *)
MarketFilledWithinApproval ==
    \A k \in MarketIds : market[k].status = "approved" => market[k].filled <= market[k].approved
=============================================================================
