------------------------------- MODULE Orders ------------------------------
(***************************************************************************)
(* Orders made from holds: services.checkout and advance,                  *)
(* recognition.reverse_delivery, the buyer's payment (main.reconcile) and  *)
(* the supplier's payout (Settlement).  Checkout makes one order of one    *)
(* hold, so the order, its item, its payment and its payout carry the      *)
(* hold's id here; orders made from a requirement, which have one hold per *)
(* allocation, are not in this module.  Attempts, refunds and credits of a *)
(* payout are reduced to its status.                                       *)
(***************************************************************************)
EXTENDS Stock

VARIABLES
    order,      \* Order, its item and its Payment
    payout,     \* Settlement of the order's item
    supplies    \* SupplierProfile.completed_supplies_count

orderVars == <<order, payout, supplies>>
vars == <<stockVars, orderVars>>

\* services.TRANSITIONS (its 'requested' belongs to the switched-off Pay Now).
Transitions ==
    [none             |-> {},
     reserved         |-> {"supply_confirmed", "pickup_scheduled", "cancelled", "payment_failed"},
     supply_confirmed |-> {"pickup_scheduled", "cancelled", "payment_failed"},
     pickup_scheduled |-> {"collected", "cancelled", "payment_failed"},
     collected        |-> {"quality_checked", "cancelled", "payment_failed"},
     quality_checked  |-> {"in_transit", "cancelled", "payment_failed"},
     in_transit       |-> {"delivered", "cancelled", "payment_failed"},
     delivered        |-> {"completed"},
     completed        |-> {},
     cancelled        |-> {},
     payment_failed   |-> {}]

OrderStatuses == DOMAIN Transitions
Recognised == {"delivered", "completed"}
Dropped == {"cancelled", "payment_failed"}
OnTheWay == OrderStatuses \ (Recognised \cup Dropped \cup {"none"})

PaymentStatuses == {"pending", "partial", "paid", "failed"}

OrderRecord ==
    [status : OrderStatuses, checked : BOOLEAN, accepted : 0..MaxTotal,
     due : 0..MaxTotal, received : 0..MaxTotal, payment : PaymentStatuses,
     sales : Nat, recognised : BOOLEAN]

PayoutRecord == [status : {"none", "pending", "paid", "cancelled"}, quantity : 0..MaxTotal]

TypeOK ==
    /\ StockTypeOK
    /\ order \in [Holds -> OrderRecord]
    /\ payout \in [Holds -> PayoutRecord]
    /\ supplies \in [Suppliers -> Nat]

NoOrder == [status |-> "none", checked |-> FALSE, accepted |-> 0, due |-> 0,
            received |-> 0, payment |-> "pending", sales |-> 0, recognised |-> FALSE]

Init ==
    /\ StockInit
    /\ order = [h \in Holds |-> NoOrder]
    /\ payout = [h \in Holds |-> [status |-> "none", quantity |-> 0]]
    /\ supplies = [u \in Suppliers |-> 0]

May(h, target) == target \in Transitions[order[h].status]

-----------------------------------------------------------------------------
(* Checkout.                                                               *)

Checkout(h) ==
    LET l == hold[h].listing
        x == Refreshed(l, listing[l])
    IN  /\ hold[h].status = "active" /\ h \notin Overdue(l) /\ Fresh(x)
        /\ listing' = [listing EXCEPT ![l] = x]
        /\ hold' = Ended(RefreshedHolds(l), {h}, "confirmed")
        /\ order' = [order EXCEPT ![h] = [NoOrder EXCEPT !.status = "reserved",
                                                         !.due = hold[h].quantity]]
        /\ UNCHANGED <<supplier, sale, standing, payout, supplies>>

\* The hold has expired or was used: the refresh is committed, then refused.
CheckoutLate(h) ==
    LET l == hold[h].listing
    IN  /\ hold[h].status # "none"
        /\ hold[h].status # "active" \/ h \in Overdue(l)
        /\ listing' = [listing EXCEPT ![l] = Refreshed(l, @)]
        /\ hold' = RefreshedHolds(l)
        /\ UNCHANGED <<supplier, sale, standing, orderVars>>

\* The listing is stale or off sale: the hold is released, then refused.
CheckoutStale(h) ==
    LET l == hold[h].listing
    IN  /\ hold[h].status = "active" /\ h \notin Overdue(l)
        /\ ~Fresh(Refreshed(l, listing[l]))
        /\ ReleaseAfterRefresh(h, l, "released")
        /\ UNCHANGED <<supplier, sale, standing, orderVars>>

-----------------------------------------------------------------------------
(* services.advance.                                                       *)

Progress(h, target) ==
    /\ May(h, target)
    /\ order' = [order EXCEPT ![h].status = target]
    /\ UNCHANGED <<stockVars, payout, supplies>>

\* Mutant: what was collected may be counted again on the way.
QualityCheckAgain(h, accepted) ==
    /\ order[h].status \in {"collected", "in_transit"}
    /\ accepted <= hold[h].quantity
    /\ order' = [order EXCEPT ![h] =
          [@ EXCEPT !.status = "quality_checked", !.checked = TRUE,
                    !.accepted = accepted, !.due = accepted]]
    /\ UNCHANGED <<stockVars, payout, supplies>>

\* Staff count what was collected; the buyer owes for what was accepted.
QualityCheck(h, accepted) ==
    /\ May(h, "quality_checked")
    /\ accepted <= hold[h].quantity
    /\ order' = [order EXCEPT ![h] =
          [@ EXCEPT !.status = "quality_checked", !.checked = TRUE,
                    !.accepted = accepted, !.due = accepted,
                    !.payment = IF accepted = 0 THEN "paid" ELSE order[h].payment]]
    /\ UNCHANGED <<stockVars, payout, supplies>>

Drop(h, target) ==
    LET l == hold[h].listing
        live == hold[h].status \in {"active", "confirmed"}
    IN  /\ May(h, target)
        /\ order[h].payment \notin {"paid", "partial"}
        /\ listing' = IF live THEN [listing EXCEPT ![l] = Freed(@, hold[h].quantity)] ELSE listing
        /\ hold' = IF live THEN Ended(hold, {h}, "cancelled") ELSE hold
        /\ order' = [order EXCEPT ![h] =
              [@ EXCEPT !.status = target,
                        !.payment = IF target = "payment_failed" THEN "failed"
                                    ELSE order[h].payment]]
        /\ UNCHANGED <<supplier, sale, standing, payout, supplies>>

\* main.cancel_order: the buyer may cancel until collection is arranged.
BuyerCancel(h) ==
    /\ order[h].status \in {"reserved", "supply_confirmed"}
    /\ Drop(h, "cancelled")

\* The hold ends, what was accepted is sold, and the payout is owed (again).
Deliver(h) ==
    LET l == hold[h].listing
        n == order[h].accepted
        x == [Freed(listing[l], hold[h].quantity) EXCEPT !.sold = @ + n]
        owed == n > 0
    IN  /\ May(h, "delivered") /\ order[h].checked
        /\ hold[h].status = "confirmed"
        /\ owed => payout[h].status \in {"none", "cancelled"}
        /\ listing' = [listing EXCEPT ![l] =
              IF Available(x) = 0 THEN [x EXCEPT !.status = "sold_out"] ELSE x]
        /\ hold' = Ended(hold, {h}, "released")
        /\ order' = [order EXCEPT ![h] =
              [@ EXCEPT !.status = "delivered", !.recognised = TRUE,
                        !.sales = IF owed THEN order[h].sales + 1 ELSE order[h].sales]]
        /\ payout' = IF owed THEN [payout EXCEPT ![h] = [status |-> "pending", quantity |-> n]]
                             ELSE payout
        /\ supplies' = IF owed THEN [supplies EXCEPT ![SupplierOf[l]] = @ + 1] ELSE supplies
        /\ UNCHANGED <<supplier, sale, standing>>

Complete(h) ==
    /\ May(h, "completed") /\ order[h].payment = "paid"
    /\ order' = [order EXCEPT ![h].status = "completed"]
    /\ UNCHANGED <<stockVars, payout, supplies>>

-----------------------------------------------------------------------------
(* recognition.reverse_delivery: "reopen" (not really delivered: the hold  *)
(* is live again) or "return" (the buyer sent the goods back).             *)

ReverseDelivery(h, kind) ==
    LET l == hold[h].listing
        sold == order[h].sales > 0
        back == IF sold THEN [listing[l] EXCEPT !.sold = @ - order[h].accepted] ELSE listing[l]
        x == IF kind = "reopen" THEN [back EXCEPT !.reserved = @ + hold[h].quantity] ELSE back
    IN  /\ order[h].status \in Recognised
        /\ payout[h].status # "paid"
        /\ kind = "return" => order[h].payment \notin {"paid", "partial"}
        /\ kind = "reopen" => Available(x) >= 0
        /\ listing' = [listing EXCEPT ![l] = Relisted(x)]
        /\ hold' = IF kind = "reopen" THEN Ended(hold, {h}, "confirmed") ELSE hold
        /\ order' = [order EXCEPT ![h] =
              [@ EXCEPT !.status = IF kind = "reopen" THEN "in_transit" ELSE "cancelled",
                        !.recognised = FALSE,
                        !.sales = IF sold THEN order[h].sales - 1 ELSE order[h].sales]]
        /\ payout' = IF payout[h].status = "pending"
                     THEN [payout EXCEPT ![h].status = "cancelled"] ELSE payout
        /\ supplies' = IF sold /\ supplies[SupplierOf[l]] > 0
                       THEN [supplies EXCEPT ![SupplierOf[l]] = @ - 1] ELSE supplies
        /\ UNCHANGED <<supplier, sale, standing>>

-----------------------------------------------------------------------------
(* Money.                                                                  *)

\* main.reconcile: a receipt of the buyer's money, never more than is owed.
Reconcile(h, amount) ==
    /\ order[h].status \in Recognised
    /\ order[h].payment # "paid" /\ amount <= order[h].due - order[h].received
    /\ LET total == order[h].received + amount
       IN  order' = [order EXCEPT ![h] =
              [@ EXCEPT !.received = total,
                        !.payment = IF total = order[h].due THEN "paid" ELSE "partial"]]
    /\ UNCHANGED <<stockVars, payout, supplies>>

\* main.pay_settlement of all that is owed.
PaySettlement(h) ==
    /\ payout[h].status = "pending"
    /\ payout' = [payout EXCEPT ![h].status = "paid"]
    /\ UNCHANGED <<stockVars, order, supplies>>

\* Mutant: a refund cancels the payout.
RefundSettlementCancels(h) ==
    /\ payout[h].status = "paid"
    /\ payout' = [payout EXCEPT ![h].status = "cancelled"]
    /\ UNCHANGED <<stockVars, order, supplies>>

\* payouts.record_refund of all that was sent: the payout is owed again.
RefundSettlement(h) ==
    /\ payout[h].status = "paid"
    /\ payout' = [payout EXCEPT ![h].status = "pending"]
    /\ UNCHANGED <<stockVars, order, supplies>>

OrderNext ==
    \E h \in Holds :
      \/ Checkout(h) \/ CheckoutLate(h) \/ CheckoutStale(h)
      \/ \E target \in {"supply_confirmed", "pickup_scheduled", "collected", "in_transit"} :
            Progress(h, target)
      \/ \E n \in 0..MaxTotal : QualityCheck(h, n)
      \/ \E target \in Dropped : Drop(h, target)
      \/ BuyerCancel(h) \/ Deliver(h) \/ Complete(h)
      \/ \E kind \in {"reopen", "return"} : ReverseDelivery(h, kind)
      \/ \E n \in 1..MaxTotal : Reconcile(h, n)
      \/ PaySettlement(h) \/ RefundSettlement(h)

Next == (StockNext /\ UNCHANGED orderVars) \/ OrderNext

Spec == Init /\ [][Next]_vars
-----------------------------------------------------------------------------
(* Properties.                                                             *)

HeldOn(l) == {h \in Holds : hold[h].listing = l /\ hold[h].status \in {"active", "confirmed"}}
SoldByOrder(l) == {h \in Holds : hold[h].listing = l /\ order[h].sales > 0}
SoldOutside(l) == {s \in Sales : sale[s].listing = l /\ sale[s].status = "recorded"}

AcceptedQuantity == [h \in Holds |-> order[h].accepted]
SaleQuantity == [s \in Sales |-> sale[s].quantity]

\* What a listing says is reserved is exactly what the open checkout holds
\* and the holds of orders on their way add up to: no handler forgets to
\* give units back, or gives them back twice.
ReservedIsHeld ==
    \A l \in Listings : listing[l].reserved = Sum(HeldOn(l), HoldQuantity)

\* What a listing says is sold is exactly its unreversed sales: deliveries
\* that stand (each once, however often the order was reopened) and the
\* supplier's own sales.
SoldIsSold ==
    \A l \in Listings :
        listing[l].sold = Sum(SoldByOrder(l), AcceptedQuantity) + Sum(SoldOutside(l), SaleQuantity)

\* models.Listing valid_inventory: whatever the order of holds, counts,
\* sales, deliveries and reversals, no listing promises more than it has, so
\* the database constraint never has to refuse a handler's update.
NoOversell ==
    \A l \in Listings :
        /\ listing[l].reserved >= 0 /\ listing[l].sold >= 0
        /\ listing[l].reserved + listing[l].sold <= listing[l].total
        /\ listing[l].status = "none" => listing[l].total = 0

\* An order keeps its hold for exactly as long as it is on its way, so that
\* a delivery is never refused for want of the hold (services.advance,
\* 'order_reservation_no_longer_confirmed') and no closed order keeps stock;
\* a hold not yet bought has no order, and no order accepts more than it held.
HoldFollowsOrder ==
    \A h \in Holds :
        /\ hold[h].status = "confirmed" <=> order[h].status \in OnTheWay
        /\ hold[h].status \in {"none", "active"} => order[h] = NoOrder
        /\ order[h].accepted <= hold[h].quantity

\* A delivery that stands is recognised, sold and owed to the supplier once,
\* for what was accepted; one taken back is none of these (advance,
\* delivery_settlement, reverse_delivery).
DeliveryCountsOnce ==
    \A h \in Holds :
        LET stands == order[h].status \in Recognised
            owed == stands /\ order[h].accepted > 0
        IN  /\ order[h].recognised <=> stands
            /\ order[h].sales = IF owed THEN 1 ELSE 0
            /\ payout[h].status \in {"pending", "paid"} <=> owed
            /\ owed => payout[h].quantity = order[h].accepted

\* Money received is never lost: an order that has some is neither cancelled
\* nor failed, returned or re-billed.
ReceivedMoneyStands ==
    [][\A h \in Holds : order[h].received > 0 =>
          /\ order'[h].status \notin Dropped
          /\ order'[h].due = order[h].due /\ order'[h].received >= order[h].received]_vars

\* A payout here is reduced to its status, which moves as PayoutLife says:
\* also the payouts of Payouts do, with all their attempts.
Life == INSTANCE PayoutLife
    WITH Payouts <- Holds, life <- [h \in Holds |-> payout[h].status]
PayoutsMoveAsPromised == Life!Spec

(* What the repository says of a listing's way back to sale; the code      *)
(* disagrees with each of these.                                           *)

\* main.update_stock_media: "Operations review every photo and video before
\* buyers see it".
LiveWasReviewed ==
    \A l \in Listings : listing[l].status = "live" => standing[l] # "unreviewed"

\* docs/implementation.md: "Supplier reconfirmation cannot approve
\* pending/rejected stock."
LiveWasNotRejected ==
    \A l \in Listings : listing[l].status = "live" => standing[l] # "rejected"
=============================================================================
