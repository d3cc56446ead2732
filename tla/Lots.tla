-------------------------------- MODULE Lots --------------------------------
(* Stock Omoterra holds, of backend/app/lots.py, batch_stock.py, purchasing.py,
   opening_stock.py and the sales of finance.py: delivery notes, lines of local
   purchase orders (LPOs) and opening stock.  What is on hand of a lot on a day
   is never stored: it is read from the dated records of what came in and what
   went out, and rule R8 (StockGuard) refuses a change that makes some day end
   below zero.  Records are entered late, so a change today can reach back.

   Nearly every handler runs under the commerce lock and is one step.
   update_sale does not take it: it locks its sale, the sale's debts and the
   lots the new version takes from, checks, and commits later (two steps here).
   Unit costs and prices are 1.  A record of a day long past needs an admin's
   reason (late_entry): requests carry it, but for the edit of a sale, whose
   form does not always ask for one. *)
EXTENDS Integers, FiniteSets, FiniteSetsExt, Functions

CONSTANTS
    Notes,          \* delivery notes (supplier_collections)
    Lines,          \* LPO lines, one to an LPO
    Openings,       \* opening stock entries
    Sales,
    MaxLots,        \* how many lots of the above may be in use
    LateDays,       \* after how many days a record is a late entry
    MaxDay, MaxQuantity,
    MaxEvents       \* how much may be recorded as corrected, lost, returned, counted or paid
ASSUME BoundsAssumption == MaxDay \in Nat \ {0} /\ MaxQuantity \in Nat \ {0}
                           /\ MaxEvents \in Nat /\ LateDays \in Nat
ASSUME KindsAssumption == /\ Notes \cap Lines = {} /\ Notes \cap Openings = {}
                          /\ Lines \cap Openings = {}
\* What went out of a lot is added up over the sales there are.
ASSUME SalesAssumption == IsFiniteSet(Sales)

VARIABLES today, lots, owed, credited, cancelled, order, sale, edit,
    receivedAmount,   \* what buyers paid of each sale: paid_amount of its receivable
    paidReceipts,     \* by line, the days of the receipts whose debt has a payment
    present           \* what there is of what issuing an LPO needs
papers == <<receivedAmount, paidReceipts, present>>
lotsVars == <<today, lots, owed, credited, cancelled, order, sale, edit, papers>>

LotIds == Notes \cup Lines \cup Openings
Days == 1..MaxDay
Quantities == 1..MaxQuantity
Never == [d \in Days |-> 0]
NoGoods == [l \in LotIds |-> 0]

(* The records of a lot but its sales, as sums by day: `lost` are losses not
   cancelled, `counted` the differences of counts. *)
LotRecord == [received: [Days -> Nat], corrected: [Days -> Nat], lost: [Days -> Nat],
    sent: [Days -> Nat], counted: [Days -> Int]]

(* A sale and what it takes; `back` and `gone` are its goods returned by the
   buyer (by day) and not recovered, for delivery notes and opening stock. *)
SaleRecord == [status: {"none", "active", "cancelled"}, on: Days, takes: [LotIds -> Nat],
    back: [LotIds -> [Days -> Nat]], gone: [LotIds -> Nat]]

\* What staff say happened to goods a sale no longer sells.
GoodsOutcomes == {"never_left", "buyer_return_accepted", "not_recovered"}
Edits == [open: BOOLEAN, on: Days, takes: [LotIds -> Nat], goods: GoodsOutcomes]
NoEdit == [open |-> FALSE, on |-> 1, takes |-> NoGoods, goods |-> "never_left"]
LpoStatus == {"none", "draft", "issued", "accepted", "closed", "cancelled"}

\* The company's stamp, the admin's signature, an approved supplier.
Needs == {"stamp", "signature", "approval"}

LotRowsOK ==
    /\ today \in Days
    /\ lots \in [LotIds -> LotRecord]
    /\ owed \in [Notes -> Nat] /\ credited \in [Notes -> Nat]
    /\ cancelled \in SUBSET Openings
    /\ order \in [Lines -> LpoStatus]
    /\ sale \in [Sales -> SaleRecord]
    /\ edit \in [Sales -> Edits]
PapersOK ==
    /\ receivedAmount \in [Sales -> Nat]
    /\ paidReceipts \in [Lines -> SUBSET Days]
    /\ present \in SUBSET Needs
LotsTypeOK == LotRowsOK /\ PapersOK

-----------------------------------------------------------------------------
(* lots.py *)

Sum(f(_), S) == MapThenSumSet(f, S)
UpTo(f, day) == SumFunctionOnSet(f, 1..day)
All(f) == UpTo(f, MaxDay)

(* _sale_outcomes: what the sale s of the books `ss` has out of l by a day.  A
   return counts as sold on the day of the sale and back on its own day; what
   was not recovered left on the day of the sale. *)
OutOn(s, l, day, ss) ==
    IF ss[s].on <= day
    THEN ss[s].takes[l] + All(ss[s].back[l]) + ss[s].gone[l] - UpTo(ss[s].back[l], day)
    ELSE - UpTo(ss[s].back[l], day)

(* movements, on_hand: the books `ls` and `ss` at the end of a day. *)
Closing(l, day, ls, ss) ==
    LET out == [s \in Sales |-> OutOn(s, l, day, ss)]
        row == ls[l]
    IN UpTo(row.received, day) - UpTo(row.corrected, day) - UpTo(row.lost, day)
       - UpTo(row.sent, day) + UpTo(row.counted, day) - SumFunction(out)
OnHand(l) == Closing(l, MaxDay, lots, sale)

(* StockGuard.check: no day of a watched lot ends below zero, or further below
   than it did. *)
Guarded(watched, ls, ss) ==
    \A l \in watched, day \in Days :
        LET after == Closing(l, day, ls, ss)
        IN after >= 0 \/ after >= Closing(l, day, lots, sale)

(* _never_negative, for counts and opening stock.  (The code looks at the days
   with a movement: the same but for a lot that was below zero before.) *)
NeverNegative(l, since, ls) == \A day \in since..MaxDay : Closing(l, day, ls, sale) >= 0

Received(l) == \E day \in Days : lots[l].received[day] > 0
ReceivedOn(l) == CHOOSE day \in Days : lots[l].received[day] > 0 /\ UpTo(lots[l].received, day - 1) = 0

\* SupplierCollection.accepted_quantity; a note corrected to nothing is cancelled.
Accepted(n) == All(lots[n].received) - All(lots[n].corrected)

(* take_collection_stock, take_stock and take_opening_stock but for the
   quantity: what a sale may still be made from. *)
Takeable(l) ==
    CASE l \in Notes -> Accepted(l) > 0
      [] l \in Lines -> order[l] \in {"issued", "accepted", "closed"}
      [] l \in Openings -> Received(l)

\* Mutant: an edit locks its sale only.
FreeOfEdits(l) == l \in LotIds
(* Row locks: an open edit holds its sale and the lots its new version takes
   from, and nothing of what the old version took. *)
Free(l) == \A s \in Sales : edit[s].takes[l] = 0

\* The lots in use, against MaxLots.
MoreLots ==
    LET used == {l \in LotIds : Received(l) \/ l \in cancelled \/ (l \in Lines /\ order[l] # "none")}
    IN Cardinality(used) < MaxLots

\* How much is recorded, against MaxEvents.
Recorded ==
    LET magnitude(x) == IF x < 0 THEN -x ELSE x
        ofLot(l) == LET counted(day) == magnitude(lots[l].counted[day])
                    IN All(lots[l].corrected) + All(lots[l].lost) + All(lots[l].sent) + Sum(counted, Days)
        ofSale(s) == LET off(l) == All(sale[s].back[l]) + sale[s].gone[l]
                     IN Sum(off, LotIds) + receivedAmount[s]
        ofLine(p) == Cardinality(paidReceipts[p])
    IN Sum(ofLot, LotIds) + Sum(ofSale, Sales) + Sum(ofLine, Lines)

\* The total of a sale; one left with no received goods sells one of other stock.
SaleTotal(takes) == IF takes = NoGoods THEN 1 ELSE SumFunction(takes)

\* late_entry.
Late(day) == today - day > LateDays

MayRecord(n) == n = 0 \/ Recorded + n <= MaxEvents

-----------------------------------------------------------------------------
LotsInit ==
    /\ today = 1
    /\ lots = [l \in LotIds |-> [received |-> Never, corrected |-> Never, lost |-> Never,
                                 sent |-> Never, counted |-> Never]]
    /\ owed = [n \in Notes |-> 0] /\ credited = [n \in Notes |-> 0]
    /\ cancelled = {}
    /\ order = [p \in Lines |-> "none"]
    /\ sale = [s \in Sales |-> [status |-> "none", on |-> 1, takes |-> NoGoods,
                                back |-> [l \in LotIds |-> Never], gone |-> NoGoods]]
    /\ edit = [s \in Sales |-> NoEdit]
    /\ receivedAmount = [s \in Sales |-> 0] /\ paidReceipts = [p \in Lines |-> {}] /\ present = {}

\* One day to the next, with no request under way.
Tomorrow ==
    /\ today < MaxDay /\ \A s \in Sales : ~edit[s].open
    /\ today' = today + 1
    /\ UNCHANGED <<lots, owed, credited, cancelled, order, sale, edit, papers>>

-----------------------------------------------------------------------------
(* Delivery notes. *)

\* record_note: the payable for what was accepted is the supplier's only one.
RecordNote(n, day, q) ==
    /\ ~Received(n) /\ MoreLots
    /\ lots' = [lots EXCEPT ![n].received[day] = q]
    /\ owed' = [owed EXCEPT ![n] = q]

receive_supplier_stock(n, day, q) ==
    /\ day <= today /\ RecordNote(n, day, q)
    /\ UNCHANGED <<today, credited, cancelled, order, sale, edit, papers>>

(* The supplier never delivered q: off the note and its payable. *)
correct_receipt(n, q) ==
    LET ls == [lots EXCEPT ![n].corrected[today] = @ + q]
    IN  /\ Accepted(n) >= q /\ Free(n) /\ q <= OnHand(n) /\ Recorded + q <= MaxEvents
        /\ Guarded({n}, ls, sale)
        /\ lots' = ls
        /\ owed' = [owed EXCEPT ![n] = Max({0, @ - q})]
        /\ UNCHANGED <<today, credited, cancelled, order, sale, edit, papers>>

\* Goods that leave a lot one at a time, as a loss or back to the supplier.
Leaves(l, ls) ==
    /\ Free(l) /\ OnHand(l) >= 1 /\ Recorded < MaxEvents
    /\ Guarded({l}, ls, sale)
    /\ lots' = ls
    /\ UNCHANGED <<today, owed, credited, cancelled, order, sale, edit, papers>>

record_delivery_loss(n, day) ==
    /\ Accepted(n) > 0 /\ day \in ReceivedOn(n)..today
    /\ Leaves(n, [lots EXCEPT ![n].lost[day] = @ + 1])

return_to_supplier(n, day) ==
    /\ Accepted(n) > 0 /\ day \in ReceivedOn(n)..today
    /\ Leaves(n, [lots EXCEPT ![n].sent[day] = @ + 1])

CancelLoss(l, day) ==
    /\ lots[l].lost[day] > 0
    /\ lots' = [lots EXCEPT ![l].lost[day] = @ - 1]
    /\ UNCHANGED <<today, owed, credited, cancelled, order, sale, edit, papers>>

cancel_delivery_loss(n, day) == Accepted(n) > 0 /\ Free(n) /\ CancelLoss(n, day)

\* Mutant: a return may be credited again.
record_credit_note_again(n) ==
    /\ Free(n) /\ All(lots[n].sent) > 0 /\ credited[n] < MaxQuantity
    /\ credited' = [credited EXCEPT ![n] = @ + 1]
    /\ owed' = [owed EXCEPT ![n] = @ - 1]
    /\ UNCHANGED <<today, lots, cancelled, order, sale, edit, papers>>
(* The supplier agrees a credit for one returned, once, and no more than is
   still payable. *)
record_credit_note(n) ==
    /\ Free(n) /\ credited[n] < All(lots[n].sent) /\ owed[n] >= 1
    /\ credited' = [credited EXCEPT ![n] = @ + 1]
    /\ owed' = [owed EXCEPT ![n] = @ - 1]
    /\ UNCHANGED <<today, lots, cancelled, order, sale, edit, papers>>

-----------------------------------------------------------------------------
(* purchasing.py.  The LPO's own row is never locked by a sale. *)

Active(p) == order[p] \in {"issued", "accepted"}
Live(p) == Received(p)
OrderBecomes(p, status) ==
    /\ order' = [order EXCEPT ![p] = status]
    /\ UNCHANGED <<today, lots, owed, credited, cancelled, sale, edit, papers>>

create_lpo(p) == order[p] = "none" /\ MoreLots /\ OrderBecomes(p, "draft")
issue_lpo(p) == order[p] = "draft" /\ present = Needs /\ OrderBecomes(p, "issued")
record_acceptance(p) == order[p] = "issued" /\ OrderBecomes(p, "accepted")
close_lpo(p) == Active(p) /\ OrderBecomes(p, "closed")
cancel_lpo(p) == (order[p] = "draft" \/ Active(p)) /\ ~Live(p) /\ OrderBecomes(p, "cancelled")

\* One receipt to a line and day; the window of delivery is every day.
receive_batch(p, day, q) ==
    /\ Active(p) /\ day <= today /\ lots[p].received[day] = 0
    /\ All(lots[p].received) + q <= MaxQuantity
    /\ lots' = [lots EXCEPT ![p].received[day] = q]
    /\ UNCHANGED <<today, owed, credited, cancelled, order, sale, edit, papers>>

(* The line is not locked, only the receipt and its debt. *)
cancel_receipt(p, day) ==
    LET ls == [lots EXCEPT ![p].received[day] = 0]
    IN  /\ lots[p].received[day] > 0 /\ day \notin paidReceipts[p] /\ OnHand(p) >= lots[p].received[day]
        /\ Guarded({p}, ls, sale)
        /\ lots' = ls
        /\ UNCHANGED <<today, owed, credited, cancelled, order, sale, edit, papers>>

record_loss(p, day) == day <= today /\ Leaves(p, [lots EXCEPT ![p].lost[day] = @ + 1])
cancel_loss(p, day) == CancelLoss(p, day)

-----------------------------------------------------------------------------
(* Opening stock and counts. *)

record_opening_stock(o, day, q) ==
    /\ ~Received(o) /\ o \notin cancelled /\ day <= today /\ MoreLots
    /\ lots' = [lots EXCEPT ![o].received[day] = q]
    /\ UNCHANGED <<today, owed, credited, cancelled, order, sale, edit, papers>>

record_opening_loss(o, day) ==
    LET ls == [lots EXCEPT ![o].lost[day] = @ + 1]
    IN  /\ Received(o) /\ Free(o) /\ day \in ReceivedOn(o)..today /\ Recorded < MaxEvents
        /\ NeverNegative(o, day, ls)
        /\ lots' = ls
        /\ UNCHANGED <<today, owed, credited, cancelled, order, sale, edit, papers>>

\* Sold from, or not recovered from a sale: summary's figures.
SoldFrom(o) == \E s \in Sales : sale[s].takes[o] > 0 \/ sale[s].gone[o] > 0

(* Only sales are looked for: losses and counts on the entry stay recorded. *)
cancel_opening_stock(o) ==
    /\ Received(o) /\ Free(o) /\ ~SoldFrom(o)
    /\ lots' = [lots EXCEPT ![o].received = Never]
    /\ cancelled' = cancelled \cup {o}
    /\ UNCHANGED <<today, owed, credited, order, sale, edit, papers>>

\* A count finds one more or one fewer than the records say; one count to a day.
record_count(l, day, difference) ==
    LET ls == [lots EXCEPT ![l].counted[day] = difference]
    IN  /\ Received(l) /\ Free(l) /\ day \in ReceivedOn(l)..today /\ lots[l].counted[day] = 0
        /\ Recorded < MaxEvents
        /\ NeverNegative(l, day, ls)
        /\ lots' = ls
        /\ UNCHANGED <<today, owed, credited, cancelled, order, sale, edit, papers>>

Adjusted(l, day) ==
    IF lots[l].counted[day] # 0
    THEN [lots EXCEPT ![l].counted[day] = 0]
    ELSE [lots EXCEPT ![l].lost[day] = @ - 1]
cancel_adjustment(l, day) ==
    /\ lots[l].counted[day] # 0 \/ (l \in Openings /\ lots[l].lost[day] > 0)
    /\ Received(l) /\ Free(l)
    /\ NeverNegative(l, day, Adjusted(l, day))
    /\ lots' = Adjusted(l, day)
    /\ UNCHANGED <<today, owed, credited, cancelled, order, sale, edit, papers>>

-----------------------------------------------------------------------------
(* Sales. *)

Touched(takes) == {l \in LotIds : takes[l] > 0}

(* record_sale, and a buyer order that is delivered, with the money received. *)
record_sale(s, day, takes, money) ==
    LET ss == [sale EXCEPT ![s].status = "active", ![s].on = day, ![s].takes = takes]
    IN  /\ sale[s].status = "none" /\ day <= today
        /\ \A l \in Touched(takes) : Takeable(l) /\ Free(l) /\ takes[l] <= OnHand(l)
        /\ Guarded(Touched(takes), lots, ss)
        /\ money <= SaleTotal(takes) /\ MayRecord(money)
        /\ sale' = ss
        /\ receivedAmount' = [receivedAmount EXCEPT ![s] = money]
        /\ UNCHANGED <<today, lots, owed, credited, cancelled, order, edit, paidReceipts, present>>

(* collect_for_sale: a line from a supplier's batch makes the delivery note it
   sells from, dated the day of the sale. *)
record_sale_collected(s, n, day, q, money) ==
    /\ sale[s].status = "none" /\ day <= today
    /\ RecordNote(n, day, q)
    /\ money <= q /\ MayRecord(money)
    /\ sale' = [sale EXCEPT ![s].status = "active", ![s].on = day, ![s].takes[n] = q]
    /\ receivedAmount' = [receivedAmount EXCEPT ![s] = money]
    /\ UNCHANGED <<today, credited, cancelled, order, edit, paidReceipts, present>>

(* _goods_taken_off: what s no longer sells when it takes `takes`. *)
Off(s, takes, l) == Max({0, sale[s].takes[l] - takes[l]})
AddedOn(f, day, n) == [f EXCEPT ![day] = @ + n]
TakenOff(s, takes, goods) ==
    LET off(l) == IF l \in Lines THEN 0 ELSE Off(s, takes, l)
    IN [sale[s] EXCEPT
          !.takes = takes,
          !.back = [l \in LotIds |-> IF goods = "buyer_return_accepted" THEN AddedOn(@[l], today, off(l)) ELSE @[l]],
          !.gone = [l \in LotIds |-> IF goods = "not_recovered" THEN @[l] + off(l) ELSE @[l]]]
LotsAfter(s, takes, goods) ==
    [l \in LotIds |-> IF l \in Lines /\ goods = "not_recovered"
                      THEN [lots[l] EXCEPT !.lost[today] = @ + Off(s, takes, l)]
                      ELSE lots[l]]
AllOff(s, takes) == LET off(l) == Off(s, takes, l) IN Sum(off, LotIds)

\* A sale that sells no fewer is given no outcome; "never_left" stands for none.
GoodsSaid(s, takes, goods) == goods # "never_left" => \E l \in LotIds : Off(s, takes, l) > 0

\* The older of the two days, and whether goods that were received are touched.
LateEdit(s, day, takes) ==
    /\ Touched(takes) \cup Touched(sale[s].takes) # {}
    /\ Late(Min({day, sale[s].on}))

(* update_sale up to guard.check: the whole sale, the day included; `reason` is
   whether it came with a late reason.  The lots of the old and the new items
   are watched; only those of the new are locked. *)
update_sale_checks(s, day, takes, goods, reason) ==
    LET ss == [sale EXCEPT ![s] = [TakenOff(s, takes, goods) EXCEPT !.on = day]]
    IN  /\ sale[s].status = "active" /\ ~edit[s].open /\ day <= today
        /\ <<day, takes>> # <<sale[s].on, sale[s].takes>>
        /\ GoodsSaid(s, takes, goods)
        /\ \A l \in Touched(takes) : Takeable(l) /\ Free(l) /\ takes[l] - sale[s].takes[l] <= OnHand(l)
        /\ LateEdit(s, day, takes) => reason
        /\ SaleTotal(takes) >= receivedAmount[s]
        /\ Recorded + AllOff(s, takes) <= MaxEvents
        /\ Guarded(Touched(takes) \cup Touched(sale[s].takes), LotsAfter(s, takes, goods), ss)
        /\ edit' = [edit EXCEPT ![s] = [open |-> TRUE, on |-> day, takes |-> takes, goods |-> goods]]
        /\ UNCHANGED <<today, lots, owed, credited, cancelled, order, sale, papers>>

update_sale_commits(s) ==
    /\ edit[s].open
    /\ sale' = [sale EXCEPT ![s] = [TakenOff(s, edit[s].takes, edit[s].goods) EXCEPT !.on = edit[s].on]]
    /\ lots' = LotsAfter(s, edit[s].takes, edit[s].goods)
    /\ edit' = [edit EXCEPT ![s] = NoEdit]
    /\ UNCHANGED <<today, owed, credited, cancelled, order, papers>>

(* Refused while a payment stands on the sale; the guard is not asked. *)
cancel_sale(s, goods) ==
    /\ sale[s].status = "active" /\ ~edit[s].open /\ receivedAmount[s] = 0
    /\ GoodsSaid(s, NoGoods, goods) /\ Recorded + AllOff(s, NoGoods) <= MaxEvents
    /\ sale' = [sale EXCEPT ![s] = [TakenOff(s, NoGoods, goods) EXCEPT !.status = "cancelled"]]
    /\ lots' = LotsAfter(s, NoGoods, goods)
    /\ UNCHANGED <<today, owed, credited, cancelled, order, edit, papers>>

-----------------------------------------------------------------------------
(* Payments, and what an LPO needs to be issued.  What becomes of the money is
   in the ledger's modules; a payment here is of one, or one to a receipt. *)

\* record_payment and reverse_payment on the sale's receivable, which an edit locks.
AmountBecomes(s, n) ==
    /\ receivedAmount' = [receivedAmount EXCEPT ![s] = n]
    /\ UNCHANGED <<today, lots, owed, credited, cancelled, order, sale, edit, paidReceipts, present>>
buyer_pays(s) ==
    /\ sale[s].status = "active" /\ ~edit[s].open
    /\ receivedAmount[s] < SaleTotal(sale[s].takes) /\ Recorded < MaxEvents
    /\ AmountBecomes(s, receivedAmount[s] + 1)
reverse_buyer_payment(s) ==
    /\ receivedAmount[s] > 0 /\ ~edit[s].open
    /\ AmountBecomes(s, receivedAmount[s] - 1)

\* The same on the debt of a receipt.
ReceiptsPaid(p, days) ==
    /\ paidReceipts' = [paidReceipts EXCEPT ![p] = days]
    /\ UNCHANGED <<today, lots, owed, credited, cancelled, order, sale, edit, receivedAmount, present>>
pay_receipt(p, day) ==
    /\ lots[p].received[day] > 0 /\ day \notin paidReceipts[p] /\ Recorded < MaxEvents
    /\ ReceiptsPaid(p, paidReceipts[p] \cup {day})
reverse_receipt_payment(p, day) ==
    /\ day \in paidReceipts[p]
    /\ ReceiptsPaid(p, paidReceipts[p] \ {day})

(* upload_mark (a mark is replaced, never taken away), and a supplier who is
   approved or no longer is.  Followed only while there is a draft: a bound. *)
Drafted == \E p \in Lines : order[p] = "draft"
PresentBecomes(needs) ==
    /\ Drafted /\ present' = needs
    /\ UNCHANGED <<today, lots, owed, credited, cancelled, order, sale, edit, receivedAmount, paidReceipts>>
upload_mark(kind) == PresentBecomes(present \cup {kind})
supplier_approved == PresentBecomes(present \cup {"approval"})
supplier_not_approved == PresentBecomes(present \ {"approval"})

-----------------------------------------------------------------------------
\* What a sale may take: a bound on its size.
Takings == {f \in [LotIds -> 0..MaxQuantity] : SumFunction(f) <= MaxQuantity}

LotsNext ==
    \/ Tomorrow
    \/ \E n \in Notes, day \in Days, q \in Quantities : receive_supplier_stock(n, day, q)
    \/ \E n \in Notes, q \in Quantities : correct_receipt(n, q)
    \/ \E n \in Notes, day \in Days :
          record_delivery_loss(n, day) \/ cancel_delivery_loss(n, day) \/ return_to_supplier(n, day)
    \/ \E n \in Notes : record_credit_note(n)
    \/ \E p \in Lines : create_lpo(p) \/ issue_lpo(p) \/ record_acceptance(p) \/ close_lpo(p) \/ cancel_lpo(p)
    \/ \E p \in Lines, day \in Days, q \in Quantities : receive_batch(p, day, q)
    \/ \E p \in Lines, day \in Days : cancel_receipt(p, day) \/ record_loss(p, day) \/ cancel_loss(p, day)
    \/ \E o \in Openings, day \in Days, q \in Quantities : record_opening_stock(o, day, q)
    \/ \E o \in Openings, day \in Days : record_opening_loss(o, day)
    \/ \E o \in Openings : cancel_opening_stock(o)
    \/ \E l \in LotIds, day \in Days : record_count(l, day, 1) \/ record_count(l, day, -1) \/ cancel_adjustment(l, day)
    \/ \E s \in Sales, day \in Days, takes \in Takings \ {NoGoods}, money \in 0..MaxQuantity : record_sale(s, day, takes, money)
    \/ \E s \in Sales, n \in Notes, day \in Days, q \in Quantities, money \in 0..MaxQuantity :
          record_sale_collected(s, n, day, q, money)
    \* With a reason: an edit with none does nothing that one with a reason does not.
    \/ \E s \in Sales, day \in Days, takes \in Takings, goods \in GoodsOutcomes :
          update_sale_checks(s, day, takes, goods, TRUE)
    \/ \E s \in Sales : update_sale_commits(s)
    \/ \E s \in Sales, goods \in GoodsOutcomes : cancel_sale(s, goods)
    \/ \E s \in Sales : buyer_pays(s) \/ reverse_buyer_payment(s)
    \/ \E p \in Lines, day \in Days : pay_receipt(p, day) \/ reverse_receipt_payment(p, day)
    \/ \E kind \in {"stamp", "signature"} : upload_mark(kind)
    \/ supplier_approved \/ supplier_not_approved

LotsSpec == LotsInit /\ [][LotsNext]_lotsVars

-----------------------------------------------------------------------------
(* Properties. *)

(* Whatever is sold, edited, returned, corrected or counted, in whatever order,
   also while an edit of a sale that has passed its checks is not yet committed:
   a delivery note, and an opening stock entry that stands, never has less than
   nothing on hand (take_collection_stock, take_opening_stock, update_sale). *)
NoLotIsShort == \A l \in Notes \cup (Openings \ cancelled) : OnHand(l) >= 0

(* What is owed on a delivery note is what was accepted and not credited: sales,
   edits, losses and returns never move it, a correction and a credit note each
   move it once ("the supplier's only liability for them", batch_stock.py:379). *)
PayableFollowsGoods ==
    \A n \in Notes : owed[n] = Max({0, Accepted(n) - credited[n]})

(* Rule R8: "on hand stays at or above zero at the end of every day"
   (lots.py:39), of every lot. *)
EveryDayHolds == \A l \in LotIds, day \in Days : Closing(l, day, lots, sale) >= 0
=============================================================================
