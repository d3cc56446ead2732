--------------------------- MODULE BuyerOrdersDesk ---------------------------
(* Buyer orders as staff see them: what the order page, the order form and the
   delivery form of the operations site offer on the order they were given.
   The backend decides again when the request comes. *)
EXTENDS BuyerOrders

When(condition, requests) == IF condition THEN requests ELSE {}

-----------------------------------------------------------------------------
(* order_view with _deposits_view: what the pages are given. *)

\* Deposits paid on the order or moved to it.
DepositsOf(o) ==
    {d \in Deposits : Known(d) /\ (deposits[d].order = o \/ \E p \in Orders : moved[d][p][o] > 0)}

(* BuyerOrderPayment.state: the first that fits. *)
State(d, o) ==
    CASE deposits[d].voided -> "voided"
      [] ~deposits[d].voided /\ Portion(d, o) > 0 -> "held"
      [] ~deposits[d].voided /\ Portion(d, o) = 0 ->
              IF applied[d][o] > 0 THEN "applied"
              ELSE IF given[d][o] = 0 /\ SumFunction(moved[d][o]) > 0 THEN "moved" ELSE "given_back"

(* BuyerOrderDetail: the other orders a deposit may be moved to, and the moves
   in and out of this one. *)
MoveTargets(o) ==
    IF IsOpen(o) THEN {p \in Orders \ {o} : IsOpen(p) /\ orders[p].buyer = orders[o].buyer} ELSE {}
MovesShown(d, o) == {p \in Orders : moved[d][o][p] > 0 \/ moved[d][p][o] > 0}

\* BuyerOrder.unpaid, "Due on delivery".
Due(o) == IF IsOpen(o) THEN orders[o].total - Held(o) ELSE 0

-----------------------------------------------------------------------------
(* sales/orders/[id] *)

\* Mutant: the moves are not looked at.
VoidableMovedBack(d, o) ==
    /\ State(d, o) = "held" /\ deposits[d].order = o
    /\ Portion(d, o) = deposits[d].amount
    /\ given[d][o] = 0
(* "Only a deposit still held whole on the order it was paid on." *)
Voidable(d, o) ==
    /\ State(d, o) = "held" /\ deposits[d].order = o
    /\ Portion(d, o) = deposits[d].amount
    /\ given[d][o] = 0
    /\ MovesShown(d, o) = {}

DepositCard(d, o) ==
    LET held == Portion(d, o)
    IN {[kind |-> "give_back", order |-> o, deposit |-> d, amount |-> a] : a \in 1..held}
       \cup {[kind |-> "move", order |-> o, deposit |-> d, to |-> p, amount |-> a] :
                p \in MoveTargets(o), a \in 1..held}
       \cup When(Voidable(d, o), {[kind |-> "void", order |-> o, deposit |-> d]})

(* The page offers nothing once the order is closed.  "Record a deposit" takes
   any amount; cancelling is offered also while a deposit is held, with a note
   to give it back first. *)
BuyerOrderPage(o) ==
    When(IsOpen(o),
        UNION {DepositCard(d, o) : d \in DepositsOf(o)}
        \cup {[kind |-> "record", order |-> o, deposit |-> d, amount |-> a] :
                d \in {e \in Deposits : ~Known(e)}, a \in Totals}
        \cup {[kind |-> "cancel", order |-> o]})

-----------------------------------------------------------------------------
(* components/finance/buyer-order-form and sale-form. *)

(* BuyerOrderForm, for a new order (held is 0) or an edit, which takes no
   deposit: it cannot be sent while the deposit is more than the total. *)
OrderForm(o, deposited, held) ==
    {[kind |-> "save", order |-> o, buyer |-> b, total |-> t, deposited |-> deposited] :
        b \in Buyers, t \in {n \in Totals : deposited + held <= n}}
NewOrderPage(o) ==
    When(orders[o].status = "none", UNION {OrderForm(o, deposited, 0) : deposited \in 0..MaxTotal})
EditOrderPage(o) == When(IsOpen(o), OrderForm(o, 0, Held(o)))

(* SaleForm "Mark delivered": the buyer is fixed; what is received now and the
   deposit may not be more than the sale comes to. *)
DeliveryForm(o) ==
    {[kind |-> "deliver", order |-> o, buyer |-> orders[o].buyer, total |-> n[1], paid |-> n[2]] :
        n \in {m \in Totals \X (0..MaxTotal) : m[2] + Held(o) <= m[1]}}
DeliveryPage(o) == When(IsOpen(o), DeliveryForm(o))

-----------------------------------------------------------------------------
(* What the handlers make of a request. *)

Accepts(r) ==
    CASE r.kind = "give_back" -> ENABLED refund_deposit(r.order, r.deposit, r.amount)
      [] r.kind = "move" -> ENABLED move_deposit(r.order, r.deposit, r.to, r.amount)
      [] r.kind = "void" -> ENABLED void_deposit(r.order, r.deposit)
      [] r.kind = "record" -> ENABLED record_deposit(r.order, r.deposit, r.amount)
      [] r.kind = "cancel" -> ENABLED cancel_buyer_order(r.order)
      [] r.kind = "deliver" -> ENABLED deliver_buyer_order(r.order, r.buyer, r.total, r.paid)
      [] r.kind = "save" /\ IsOpen(r.order) -> ENABLED update_buyer_order(r.order, r.buyer, r.total)
      [] r.kind = "save" /\ ~IsOpen(r.order) /\ r.deposited = 0 ->
            ENABLED create_buyer_order(r.order, r.buyer, r.total)
      [] r.kind = "save" /\ ~IsOpen(r.order) /\ r.deposited > 0 ->
            \E d \in Deposits : ENABLED create_with_deposit(r.order, r.buyer, r.total, d, r.deposited)

-----------------------------------------------------------------------------
(* Properties. *)

(* What a page offers and the backend refuses all the same: more than is due on
   the order or on the one it is moved to, to cancel while a deposit is held
   (the page says so), another buyer for an order with one. *)
MayBeRefused(r) ==
    CASE r.kind = "record" -> r.amount > Due(r.order)
      [] r.kind = "move" -> r.amount > Due(r.to)
      [] r.kind = "cancel" -> Held(r.order) > 0
      [] r.kind = "save" -> Held(r.order) > 0 /\ r.buyer # orders[r.order].buyer
      [] r.kind \in {"give_back", "void", "deliver"} -> FALSE

\* The deposits a request needs a free row for.
Room == \E d \in Deposits : ~Known(d)

(* However deposits were moved about, given back or applied and orders edited:
   a page just read offers nothing that the backend refuses but the requests
   above, and those are always refused; it offers to void exactly the deposits
   that may be voided; what an open order holds can be given back, and an order
   that holds nothing can be cancelled, so that no order stays open and no
   deposit stays held for want of a way out (sales/orders/[id]/page.tsx:112,
   buyer-order-form.tsx:69, sale-form.tsx:137, buyer_orders.py). *)
OrderMovesOn ==
    \A o \in Orders :
        LET offers == BuyerOrderPage(o) \cup EditOrderPage(o) \cup DeliveryPage(o)
        IN  /\ \A r \in offers : Accepts(r) <=> ~MayBeRefused(r)
            /\ Room => \A r \in NewOrderPage(o) : Accepts(r)
            /\ \A d \in Deposits : ENABLED void_deposit(o, d) => \E r \in offers : r.kind = "void" /\ r.deposit = d
            /\ IsOpen(o) =>
                 IF Held(o) = 0 THEN \E r \in offers : r.kind = "cancel" /\ Accepts(r)
                 ELSE \E r \in offers : r.kind = "give_back" /\ Accepts(r) /\ r.amount = Portion(r.deposit, o)
=============================================================================
