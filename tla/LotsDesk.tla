------------------------------ MODULE LotsDesk ------------------------------
(* Received stock as staff see it: what the delivery note, LPO, stock, opening
   stock and sale pages of the operations site show, and the requests they
   offer to an admin on what they were given.  The backend decides again when
   the request comes. *)
EXTENDS Lots

When(condition, requests) == IF condition THEN requests ELSE {}

-----------------------------------------------------------------------------
(* What the pages are given. *)

(* LotFigures of a lot at the end of a day, from its dated movements: what was
   sold is net of what buyers brought back by then. *)
Figures(l, day) ==
    LET sold == {s \in Sales : sale[s].on <= day}
        left(s) == sale[s].takes[l] + All(sale[s].back[l])
        back(s) == UpTo(sale[s].back[l], day)
        gone(s) == sale[s].gone[l]
        row == lots[l]
    IN [received |-> UpTo(row.received, day), corrected |-> UpTo(row.corrected, day),
        sold |-> Sum(left, sold) - Sum(back, Sales), not_recovered |-> Sum(gone, sold),
        lost |-> UpTo(row.lost, day), returned_to_supplier |-> UpTo(row.sent, day),
        counted |-> UpTo(row.counted, day), on_hand |-> Closing(l, day, lots, sale)]

\* DeliveryNoteDetail, with the returns for which no credit note was recorded.
DeliveryNote(n) ==
    LET now == Figures(n, MaxDay)
    IN [on_hand |-> now.on_hand, received_on |-> ReceivedOn(n), cancelled |-> Accepted(n) = 0,
        awaiting |-> now.returned_to_supplier - credited[n]]

\* LpoDetail of an LPO of one line.
LpoDetail(p) ==
    [status |-> order[p], on_hand |-> Figures(p, MaxDay).on_hand,
     receipts |-> {day \in Days : lots[p].received[day] > 0},
     losses |-> {day \in Days : lots[p].lost[day] > 0}]

\* OpeningStock: an entry and what sales took from it.
OpeningEntry(o) ==
    LET now == Figures(o, MaxDay)
    IN [cancelled |-> o \in cancelled, sold |-> now.sold, not_recovered |-> now.not_recovered]

(* /ops/supplier-collections/stock, /ops/lpos/stock and
   /ops/opening-stock/available: the lots a sale line may be chosen from. *)
Pickers == {l \in LotIds : Takeable(l) /\ OnHand(l) > 0}

-----------------------------------------------------------------------------
(* supplier-collections/[id], as an admin sees it. *)

\* "Record supplier credit note", for each return that awaits one.
CreditForm(n) ==
    When(~DeliveryNote(n).cancelled /\ DeliveryNote(n).awaiting > 0, {[kind |-> "credit", lot |-> n]})

(* A loss can be cancelled wherever it is shown, also on a cancelled note. *)
DeliveryNotePage(n) ==
    LET note == DeliveryNote(n)
        since == note.received_on..today
    IN When(Received(n),
           {[kind |-> "cancel_loss", lot |-> n, day |-> day] : day \in {d \in Days : lots[n].lost[d] > 0}}
           \cup When(~note.cancelled /\ note.on_hand > 0,
                  {[kind |-> "loss", lot |-> n, day |-> day] : day \in since}
                  \cup {[kind |-> "return", lot |-> n, day |-> day] : day \in since}
                  \cup {[kind |-> "correct", lot |-> n, quantity |-> q] : q \in Quantities \cap (1..note.on_hand)})
           \cup CreditForm(n))

-----------------------------------------------------------------------------
(* lpos/new, lpos/[id]/edit and lpos/[id]. *)

LpoForm(p) == When(order[p] = "none", {[kind |-> "draft", lot |-> p]})

\* "Batches received": every receipt that was not cancelled.
BatchesReceived(p) ==
    {[kind |-> "cancel_receipt", lot |-> p, day |-> day] : day \in LpoDetail(p).receipts}

\* "Where the stock went".
LossesShown(p) == {[kind |-> "cancel_loss", lot |-> p, day |-> day] : day \in LpoDetail(p).losses}

\* "Record a batch received" and "Record stock lost"; a loss has no first day.
ReceiveForm(p) ==
    When(LpoDetail(p).status \in {"issued", "accepted"},
        {[kind |-> "receive", lot |-> p, day |-> day] : day \in (1..today) \ LpoDetail(p).receipts})
LossForm(p) ==
    When(LpoDetail(p).on_hand > 0, {[kind |-> "loss", lot |-> p, day |-> day] : day \in 1..today})

\* Mutant: offered while the LPO is open, whatever was received on it.
WindowAndClosingReceived(p) ==
    LET lpo == LpoDetail(p)
        open == lpo.status \in {"issued", "accepted"}
    IN When(lpo.status = "issued", {[kind |-> "accept", lot |-> p]})
       \cup When(open, {[kind |-> "close", lot |-> p]})
       \cup When(lpo.status = "draft" \/ open, {[kind |-> "cancel_order", lot |-> p]})
\* The acceptance, window and cancellation cards.
WindowAndClosing(p) ==
    LET lpo == LpoDetail(p)
        open == lpo.status \in {"issued", "accepted"}
    IN When(lpo.status = "issued", {[kind |-> "accept", lot |-> p]})
       \cup When(open, {[kind |-> "close", lot |-> p]})
       \cup When(lpo.status = "draft" \/ (open /\ lpo.receipts = {}), {[kind |-> "cancel_order", lot |-> p]})

LpoPage(p) ==
    When(order[p] # "none",
        BatchesReceived(p) \cup LossesShown(p) \cup ReceiveForm(p) \cup LossForm(p) \cup WindowAndClosing(p)
        \cup When(order[p] = "draft", {[kind |-> "issue", lot |-> p]}))

-----------------------------------------------------------------------------
(* stock and stock/[table]/[id]. *)

\* The lots listed for a day: what is on hand, less than nothing included.
StockPage(day) == {l \in LotIds : Figures(l, day).on_hand # 0}

\* The movements on the lot that are adjustments, by day.
AdjustmentDays(l) ==
    {day \in Days : lots[l].counted[day] # 0 \/ (l \in Openings /\ lots[l].lost[day] > 0)}

(* Every adjustment can be cancelled and a count recorded on any day so far; on
   opening stock a loss too. *)
LotPage(l) ==
    When(Received(l) \/ l \in StockPage(MaxDay),
        {[kind |-> "cancel_adjustment", lot |-> l, day |-> day] : day \in AdjustmentDays(l)}
        \cup {[kind |-> "count", lot |-> l, day |-> day, difference |-> d] :
                day \in {e \in 1..today : lots[l].counted[e] = 0}, d \in {1, -1}}
        \cup When(l \in Openings, {[kind |-> "loss", lot |-> l, day |-> day] : day \in 1..today}))

(* finance/opening-stock: an entry can be cancelled until it was sold from. *)
OpeningStockPage(o) ==
    LET row == OpeningEntry(o)
    IN When(~Received(o) /\ ~row.cancelled, {[kind |-> "open", lot |-> o]})
       \cup When(Received(o) /\ row.sold <= 0 /\ row.not_recovered <= 0, {[kind |-> "cancel_entry", lot |-> o]})

-----------------------------------------------------------------------------
(* The sale form. *)

\* Where a line's stock came from, and the line of a sale as the form takes it up.
Source(l) == CASE l \in Notes -> "collection" [] l \in Lines -> "lpo" [] l \in Openings -> "opening"
LinesOf(s) ==
    {[source |-> Source(l), lot |-> l, quantity |-> sale[s].takes[l]] : l \in Touched(sale[s].takes)}

(* "Stock came from" and the lot chosen there: what the pickers list and, on an
   edit, the lots the sale already sells from (sales/[id]/edit adds them). *)
StockChoices(lines) == Pickers \cup {line.lot : line \in lines}

\* The items of the request: the quantity of each lot.
Payload(lines) ==
    [l \in LotIds |-> IF \E line \in lines : line.lot = l
                      THEN (CHOOSE line \in lines : line.lot = l).quantity ELSE 0]

\* One line less, one fewer on a line, or the lines as they were.
FewerLines(s) ==
    {Payload({[line EXCEPT !.quantity = @ - gone[line.lot]] : line \in LinesOf(s)}) :
        gone \in {g \in [LotIds -> 0..1] : \A l \in LotIds : g[l] <= sale[s].takes[l]}}

\* "what happened to the rest?", asked of a sale of received goods.
GoodsField(s) == When(LinesOf(s) # {}, GoodsOutcomes)

\* "Why it is recorded late": asked when the sale is old and a line left on the
\* form is of received goods; who is asked gives it.
ReasonField(s, takes) == Touched(takes) # {} /\ Late(sale[s].on)

\* "The sale total cannot be less than money already received": not to be saved.
PaymentProblem(s, takes) == receivedAmount[s] > SaleTotal(takes)

\* An edit that leaves the day and takes goods off, from the lots the form shows.
FewerForm(s) ==
    {[kind |-> "edit", sale |-> s, on |-> sale[s].on, takes |-> takes, goods |-> goods,
      reason |-> ReasonField(s, takes)] :
        takes \in {f \in FewerLines(s) : /\ f # sale[s].takes /\ ~PaymentProblem(s, f)
                                         /\ Touched(f) \subseteq StockChoices(LinesOf(s))},
        goods \in GoodsField(s)}

\* A new sale today of one lot, up to what its picker says is on hand.
NewSaleForm(s) ==
    {[kind |-> "sell", sale |-> s, on |-> today, takes |-> [NoGoods EXCEPT ![l] = q]] :
        l \in StockChoices({}), q \in Quantities}

-----------------------------------------------------------------------------
(* What the handlers make of a request; a quantity that is typed is one here. *)

Accepts(r) ==
    CASE r.kind = "loss" /\ r.lot \in Notes -> ENABLED record_delivery_loss(r.lot, r.day)
      [] r.kind = "loss" /\ r.lot \in Lines -> ENABLED record_loss(r.lot, r.day)
      [] r.kind = "loss" /\ r.lot \in Openings -> ENABLED record_opening_loss(r.lot, r.day)
      [] r.kind = "cancel_loss" /\ r.lot \in Notes -> ENABLED cancel_delivery_loss(r.lot, r.day)
      [] r.kind = "cancel_loss" /\ r.lot \in Lines -> ENABLED cancel_loss(r.lot, r.day)
      [] r.kind = "return" -> ENABLED return_to_supplier(r.lot, r.day)
      [] r.kind = "correct" -> ENABLED correct_receipt(r.lot, r.quantity)
      [] r.kind = "credit" -> ENABLED record_credit_note(r.lot)
      [] r.kind = "draft" -> ENABLED create_lpo(r.lot)
      [] r.kind = "issue" -> ENABLED issue_lpo(r.lot)
      [] r.kind = "accept" -> ENABLED record_acceptance(r.lot)
      [] r.kind = "close" -> ENABLED close_lpo(r.lot)
      [] r.kind = "cancel_order" -> ENABLED cancel_lpo(r.lot)
      [] r.kind = "receive" -> ENABLED receive_batch(r.lot, r.day, 1)
      [] r.kind = "cancel_receipt" -> ENABLED cancel_receipt(r.lot, r.day)
      [] r.kind = "count" -> ENABLED record_count(r.lot, r.day, r.difference)
      [] r.kind = "cancel_adjustment" -> ENABLED cancel_adjustment(r.lot, r.day)
      [] r.kind = "open" -> ENABLED record_opening_stock(r.lot, today, 1)
      [] r.kind = "cancel_entry" -> ENABLED cancel_opening_stock(r.lot)
      [] r.kind = "edit" -> ENABLED update_sale_checks(r.sale, r.on, r.takes, r.goods, r.reason)
      [] r.kind = "sell" -> ENABLED record_sale(r.sale, r.on, r.takes, 0)

-----------------------------------------------------------------------------
(* Properties. *)

LotPages ==
    UNION {DeliveryNotePage(n) : n \in Notes} \cup UNION {LpoForm(p) \cup LpoPage(p) : p \in Lines}
    \cup UNION {OpeningStockPage(o) : o \in Openings} \cup UNION {LotPage(l) : l \in LotIds}

\* What the bounds of the model leave room for.
InBounds(r) ==
    CASE r.kind \in {"loss", "return", "count"} -> Recorded < MaxEvents
      [] r.kind = "correct" -> Recorded + r.quantity <= MaxEvents
      [] r.kind = "edit" -> Recorded + AllOff(r.sale, r.takes) <= MaxEvents
      [] r.kind = "receive" -> All(lots[r.lot].received) < MaxQuantity
      [] r.kind \in {"open", "draft"} -> MoreLots
      [] OTHER -> TRUE

\* The stock page would show less than nothing on some day from `day` on.
Short(l, day, change) == \E d \in day..MaxDay : Figures(l, d).on_hand + change < 0

(* What is offered and refused all the same: what some later day's stock does
   not allow; what belongs to a note corrected to nothing or a lot of which no
   receipt stands; a count from before the receipt; a credit when nothing is
   payable; a correction of more than was accepted, when a count found more; the
   cancellation of a receipt that was paid; an LPO issued with no stamp or no
   signature, or to a supplier who is not approved. *)
MayBeRefused(r) ==
    CASE r.kind = "loss" -> Short(r.lot, r.day, -1) \/ (r.lot \in Openings /\ ~Received(r.lot))
      [] r.kind = "return" -> Short(r.lot, r.day, -1)
      [] r.kind = "correct" -> Short(r.lot, today, -r.quantity) \/ r.quantity > Accepted(r.lot)
      [] r.kind = "cancel_loss" -> r.lot \in Notes /\ DeliveryNote(r.lot).cancelled
      [] r.kind = "issue" -> present # Needs
      [] r.kind = "cancel_receipt" -> \/ r.day \in paidReceipts[r.lot]
                                      \/ Short(r.lot, r.day, -lots[r.lot].received[r.day])
      [] r.kind = "count" -> \/ ~Received(r.lot) \/ r.day < ReceivedOn(r.lot)
                             \/ Short(r.lot, r.day, r.difference)
      [] r.kind = "cancel_adjustment" ->
            ~Received(r.lot) \/ Short(r.lot, r.day, IF lots[r.lot].counted[r.day] = 0 THEN 1 ELSE -lots[r.lot].counted[r.day])
      [] r.kind = "credit" -> owed[r.lot] = 0
      [] OTHER -> FALSE

(* Whatever was received, sold, brought back, lost, counted and corrected: with
   no edit of a sale under way, what the pages of a lot just read offer is
   refused only for the stock of some day or for one of the reasons above, and
   for these always (supplier-collections/[id]/page.tsx, lpos/[id]/page.tsx,
   stock/[table]/[id]/page.tsx, finance/opening-stock/page.tsx). *)
OfferedIsTaken ==
    (\A s \in Sales : ~edit[s].open) =>
        \A r \in LotPages : InBounds(r) => (Accepts(r) <=> ~MayBeRefused(r))

Withdrawn(l) == (l \in Notes /\ DeliveryNote(l).cancelled) \/ (l \in Lines /\ order[l] = "cancelled")

=============================================================================
