----------------------------- MODULE OrdersDesk -----------------------------
(* Orders and listings as people see them: what the pages of the operations
   site offer staff, and what the supplier's portal tells the supplier.  A page
   decides from the rows it was given; the backend decides again when the
   request comes.  A request is a record with its kind. *)
EXTENDS Orders

When(condition, requests) == IF condition THEN requests ELSE {}

-----------------------------------------------------------------------------
(* What the backend sends. *)

OrderDetail(h) ==
    [id |-> h, internal_status |-> order[h].status, payment_status |-> order[h].payment,
     total_amount |-> order[h].due, amount_received |-> order[h].received,
     expected_quantity |-> hold[h].quantity]

PaymentRow(h) == [order_id |-> h, balance |-> order[h].due - order[h].received,
                  status |-> order[h].payment, internal_status |-> order[h].status]

ListingDetail(l) ==
    [id |-> l, listing_status |-> listing[l].status, approved |-> listing[l].approved,
     due_passed |-> ~listing[l].confirmed]

-----------------------------------------------------------------------------
(* The order's pages. *)

\* Mutant: the table still has the pipeline without the check of what was collected.
OfferedMovesUnchecked ==
    [Transitions EXCEPT !.collected = {"in_transit", "cancelled", "payment_failed"}]
(* lib/format.TRANSITIONS, written out there a second time. *)
OfferedMoves ==
    [none             |-> {},
     reserved         |-> {"supply_confirmed", "pickup_scheduled", "cancelled", "payment_failed"},
     supply_confirmed |-> {"pickup_scheduled", "cancelled", "payment_failed"},
     pickup_scheduled |-> {"collected", "cancelled", "payment_failed"},
     collected        |-> {"quality_checked", "cancelled", "payment_failed"},
     quality_checked  |-> {"in_transit", "cancelled", "payment_failed"},
     in_transit       |-> {"delivered", "cancelled", "payment_failed"},
     delivered        |-> {"completed"},
     completed        |-> {},
     cancelled        |-> {},
     payment_failed   |-> {}]

(* lib/format.CUSTOMER_STATUS: what "the buyer sees". *)
CustomerStatus(v) ==
    CASE v.internal_status \in {"reserved", "supply_confirmed"} -> "Confirmed"
      [] v.internal_status \in {"pickup_scheduled", "collected", "quality_checked"} -> "Preparing"
      [] v.internal_status = "in_transit" -> "On the way"
      [] v.internal_status \in {"delivered", "completed"} -> "Delivered"
      [] v.internal_status \in {"cancelled", "payment_failed"} -> "Cancelled"

PaymentRecorded(v) == v.payment_status \in {"paid", "partial"}

(* ProgressForm: the moves of the table.  At the quality check what is accepted
   and what is rejected add up to what was reserved.  A drop is offered with
   money recorded too, under a warning. *)
ProgressForm(v) ==
    UNION {IF target = "quality_checked"
           THEN {[kind |-> "progress", order |-> v.id, to |-> target, accepted |-> n, warned |-> FALSE] :
                    n \in 0..v.expected_quantity}
           ELSE {[kind |-> "progress", order |-> v.id, to |-> target,
                  warned |-> target \in Dropped /\ PaymentRecorded(v)]} :
           target \in OfferedMoves[v.internal_status]}

(* reconcilePayment: an amount up to the balance. *)
Receipts(h, balance) == {[kind |-> "receipt", order |-> h, amount |-> n] : n \in 1..balance}

(* Sale recognition: "Reverse this delivery". *)
ReversalForm(v) == When(v.internal_status \in {"delivered", "completed"},
    {[kind |-> "reversal", order |-> v.id, what |-> k] : k \in {"reopen", "return"}})

(* The Payment card: a receipt while there is a balance, whatever the status. *)
PaymentCard(v) == Receipts(v.id, v.total_amount - v.amount_received)

OrderWorkspace(v) == ProgressForm(v) \cup ReversalForm(v) \cup PaymentCard(v)

(* The tabs of the orders page. *)
Tab(v) == IF v.internal_status \in {"delivered", "completed"} THEN "delivered"
          ELSE IF v.internal_status \in Dropped THEN "failed" ELSE "open"

(* PaymentsPage: "Record a receipt" for every payment still outstanding. *)
PaymentsPage(rows) ==
    UNION {Receipts(p.order_id, p.balance) :
        p \in {q \in rows : q.status \in {"pending", "partial"} /\ q.balance > 0}}

-----------------------------------------------------------------------------
(* The listing's pages. *)

(* "Approve & publish" with its two ways out. *)
ReviewCard(v) ==
    {[kind |-> "approve", listing |-> v.id]}
    \cup {[kind |-> "review", listing |-> v.id, status |-> st] : st \in {"rejected", "changes_requested"}}

\* Mutant: whatever is paused can be resumed, reviewed or not.
PricingCardUnreviewed(v) ==
    LET review(st) == {[kind |-> "review", listing |-> v.id, status |-> st]}
    IN When(v.listing_status = "paused", review("live"))
       \cup When(v.listing_status \notin {"paused", "changes_requested"}, review("paused"))
       \cup review("rejected")
(* The buttons under the prices of a listing that was reviewed. *)
PricingCard(v) ==
    LET review(st) == {[kind |-> "review", listing |-> v.id, status |-> st]}
    IN When(v.listing_status = "paused" /\ v.approved, review("live"))
       \cup When(v.listing_status \notin {"paused", "changes_requested"}, review("paused"))
       \cup review("rejected")

ListingReview(v) ==
    IF v.listing_status = "pending_review" THEN ReviewCard(v)
    ELSE When(v.listing_status # "rejected", PricingCard(v))

(* The supply list marks as "Needs confirmation" what has gone stale. *)
Stale(v) == v.listing_status = "needs_confirmation" \/ (v.listing_status = "live" /\ v.due_passed)

-----------------------------------------------------------------------------
(* What the handlers make of a request: each has the guard of its own. *)

Accepts(r) ==
    CASE r.kind = "progress" /\ r.to = "quality_checked" -> ENABLED QualityCheck(r.order, r.accepted)
      [] r.kind = "progress" /\ r.to \in Dropped -> ENABLED Drop(r.order, r.to)
      [] r.kind = "progress" /\ r.to = "delivered" -> ENABLED Deliver(r.order)
      [] r.kind = "progress" /\ r.to = "completed" -> ENABLED Complete(r.order)
      [] r.kind = "progress" /\ r.to \in OnTheWay \ {"quality_checked"} -> ENABLED Progress(r.order, r.to)
      [] r.kind = "receipt" -> ENABLED Reconcile(r.order, r.amount)
      [] r.kind = "reversal" -> ENABLED ReverseDelivery(r.order, r.what)
      [] r.kind = "approve" -> ENABLED Approve(r.listing)
      [] r.kind = "review" /\ r.status = "live" -> ENABLED Resume(r.listing)
      [] r.kind = "review" /\ r.status = "changes_requested" -> ENABLED RequestChanges(r.listing)
      [] r.kind = "review" -> ENABLED TakeDown(r.listing, r.status)

-----------------------------------------------------------------------------
(* The supplier's portal: main.supplier_hold, main.supplier_progress and
   components/portal.  The supplier's answers about a payout are in Payouts;
   here the stages after a payout was sent are one. *)

SupplierSteps == <<"ordered", "collection_scheduled", "collected", "in_transit",
                   "delivered", "buyer_paid", "payout_sent">>

(* How far order handling has got. *)
Handled(status) ==
    CASE status \in {"reserved", "supply_confirmed"} -> 1
      [] status = "pickup_scheduled" -> 2
      [] status \in {"collected", "quality_checked"} -> 3
      [] status = "in_transit" -> 4
      [] status \in {"delivered", "completed"} -> 5
      [] OTHER -> 0

\* Mutant: an order without a payout row counts as paid out.
StepDoneWithoutPayout(h, k) ==
    CASE k <= 5 -> k <= Handled(order[h].status)
      [] k = 6 -> order[h].payment = "paid"
      [] k = 7 -> payout[h].status # "pending"
StepDone(h, k) ==
    CASE k <= 5 -> k <= Handled(order[h].status)
      [] k = 6 -> order[h].payment = "paid"
      [] k = 7 -> payout[h].status = "paid"

(* The stage is named after the first step that is not done. *)
Waiting == <<"cancelled", "confirmed", "collection_scheduled", "collected", "in_transit",
             "awaiting_buyer_payment", "awaiting_payout">>

Stage(h) ==
    LET todo == {k \in DOMAIN SupplierSteps : ~StepDone(h, k)}
    IN CASE order[h].status = "none" -> IF hold[h].status = "active" THEN "reserved" ELSE "cancelled"
         [] order[h].status \in Dropped -> "cancelled"
         [] order[h].status \notin Dropped \cup {"none"} /\ todo = {} -> "payout_sent"
         [] OTHER -> Waiting[CHOOSE k \in todo : \A j \in todo : k <= j]

(* What StageBadge makes of a stage, as the supplier reads it. *)
Badge(stage) ==
    [on_the_way |-> stage \in {"confirmed", "collection_scheduled", "collected", "in_transit"},
     buyer_to_pay |-> stage = "awaiting_buyer_payment",
     payout_due |-> stage = "awaiting_payout",
     payout_gone |-> stage = "payout_sent",
     stopped |-> stage = "cancelled"]

(* SupplierPanel: what counts as an order (a buyer still at checkout is not one
   yet) and as one in progress. *)
Placed(u) == {h \in Holds : hold[h].status # "none" /\ SupplierOf[hold[h].listing] = u /\ Stage(h) # "reserved"}
InProgress(u) == {h \in Placed(u) : Stage(h) \notin {"payout_sent", "cancelled"}}

-----------------------------------------------------------------------------
(* Properties. *)

(* Where the backend says no to what the order's page offers: a drop it warns
   about, completing before the buyer has paid, a receipt before delivery. *)
ToldToWait(r) ==
    \/ r.kind = "progress" /\ r.warned
    \/ r.kind = "progress" /\ r.to = "completed" /\ order[r.order].payment # "paid"
    \/ r.kind = "receipt" /\ order[r.order].status \notin Recognised

(* The pages and the backend agree on what may happen to an order: it accepts
   every move and receipt offered but for those three; an order on its way is
   always offered a way on, a delivered one is offered its receipt on both
   pages until the buyer has paid and its completion then, so no order is
   stuck however often it was reopened (ProgressForm, orders/[id], payments;
   services.advance, main.reconcile). *)
OrdersMoveOn ==
    \A h \in {g \in Holds : order[g].status # "none"} :
        LET v == OrderDetail(h)
            forms == OrderWorkspace(v)
            able == {r \in forms : Accepts(r)}
            moves == {r.to : r \in {s \in able : s.kind = "progress"}} \ Dropped
            receipts == {r \in able : r.kind = "receipt"}
        IN  /\ \A r \in forms : r.kind # "reversal" => (Accepts(r) <=> ~ToldToWait(r))
            /\ Tab(v) = "open" => moves # {}
            /\ v.internal_status = "delivered" =>
                  IF v.payment_status = "paid" THEN moves = {"completed"}
                  ELSE /\ receipts = PaymentCard(v) /\ receipts # {}
                       /\ receipts \subseteq PaymentsPage({PaymentRow(g) : g \in Holds})
            /\ CustomerStatus(v) = "Delivered" <=> Tab(v) = "delivered"

(* What the portal tells a supplier of an order is so, through reopened
   deliveries, late receipts and refunded payouts: "waiting for buyer payment"
   only when goods of theirs are delivered and money is missing; "your payout is
   being prepared" only with all of the buyer's money in (and, if anything was
   accepted, a payout owed); a payout shown as sent stands for what was accepted;
   "Cancelled" only if no stock is held for it and none sold; and the orders
   counted as in progress are those with something left to happen
   (main.supplier_progress, StageBadge, SupplierPanel). *)
StageIsTrue ==
    \A h \in {g \in Holds : hold[g].status # "none"} :
        LET badge == Badge(Stage(h))
            delivered == order[h].status \in Recognised
            accepted == order[h].accepted
        IN  /\ badge.on_the_way <=> hold[h].status = "confirmed"
            /\ badge.buyer_to_pay <=> delivered /\ order[h].received < order[h].due
            /\ badge.payout_due =>
                  /\ delivered /\ order[h].received = order[h].due
                  /\ accepted > 0 => payout[h].status = "pending"
            /\ badge.payout_gone =>
                  delivered /\ accepted > 0 /\ payout[h] = [status |-> "paid", quantity |-> accepted]
            /\ badge.stopped <=>
                  hold[h].status \in {"expired", "released", "cancelled"} /\ ~order[h].recognised
            /\ h \in InProgress(SupplierOf[hold[h].listing]) <=>
                  \/ badge.on_the_way
                  \/ delivered /\ ~(payout[h].status = "paid" /\ order[h].received = order[h].due)

(* Staff can always move stock on: what is offered is accepted but for the
   supplier's approval that publishing needs, and what waits for review or was
   paused after a review is offered its way to buyers (supply/[id];
   main.approve, main.review). *)
ListingsMoveOn ==
    \A l \in {k \in Listings : listing[k].status # "none"} :
        LET v == ListingDetail(l)
            forms == ListingReview(v)
            publishing == {r \in forms : r.kind = "approve" \/ r.status = "live"}
            approvedSupplier == supplier[SupplierOf[l]] = "approved"
        IN  /\ \A r \in forms : Accepts(r) <=> (r \in publishing => approvedSupplier)
            /\ v.listing_status = "pending_review" \/ (v.listing_status = "paused" /\ v.approved)
                  => publishing # {}
            /\ Fresh(listing[l]) <=> v.listing_status = "live" /\ ~Stale(v)
=============================================================================
