----------------------------- MODULE BuyerOrders -----------------------------
(* Orders staff take for a buyer by phone, of backend/app/buyer_orders.py, and
   the deposits paid on them before delivery.  A deposit is a row with its
   amount; what became of it is in rows that are only ever added: parts given
   back, parts moved to another order of the buyer, parts that became payments
   on the sale of a delivered order.  The sale is then edited, paid and
   cancelled like any other (finance.py), by handlers that know nothing of the
   deposits.  Every handler locks the order, or the sale or what is owed on it,
   before it reads, so each is one step.  Only the sums of the added rows are
   kept, and no goods, dates, methods or accounts. *)
EXTENDS Integers, FiniteSets, Functions

CONSTANTS
    Orders, Deposits, Buyers,
    MaxTotal,       \* what an order or its sale may come to
    MaxMoved        \* how much of a deposit may be moved in all
ASSUME SizesAssumption == MaxTotal \in Nat \ {0} /\ MaxMoved \in Nat
\* What is held is added up over the rows there are.
ASSUME RowsAssumption == IsFiniteSet(Orders) /\ IsFiniteSet(Deposits)

VARIABLES orders, deposits, given, moved, applied, taken, claims, sold
vars == <<orders, deposits, given, moved, applied, taken, claims, sold>>

Totals == 1..MaxTotal
OrderRecord == [status: {"none", "open", "delivered", "cancelled"}, buyer: Buyers, total: Nat]

(* `payer` is who the money came from: no column, but what the rule "the
   deposit belongs to whoever paid it" is about.  `whole` is
   applied_payment_id. *)
DepositRecord == [recorded: BOOLEAN, order: Orders, payer: Buyers, amount: Nat,
    voided: BOOLEAN, whole: BOOLEAN]

(* The sale of a delivered order, and with it what is owed on it.  Its total,
   which no edit takes below what was paid, and its other payments are in
   Ledger. *)
SoldRecord == [status: {"none", "active", "cancelled"}, buyer: Buyers]

(* Who holds the deposit's transaction reference: the deposit, the payment it
   became on the sale of an order, or nobody. *)
Holders == {"nobody", "deposit", "payment"}

RowsOK ==
    /\ orders \in [Orders -> OrderRecord]
    /\ deposits \in [Deposits -> DepositRecord]
    /\ given \in [Deposits -> [Orders -> Nat]]             \* refunds
    /\ moved \in [Deposits -> [Orders -> [Orders -> Nat]]] \* from, to
    /\ applied \in [Deposits -> [Orders -> Nat]]
    /\ taken \in SUBSET (Deposits \X Orders)            \* applied payments since reversed
    /\ claims \in [Deposits -> Holders]
TypeOK == RowsOK /\ sold \in [Orders -> SoldRecord]

-----------------------------------------------------------------------------
(* reporting.py *)

(* deposit_portions: what of d is held on o. *)
Portion(d, o) ==
    LET in == [p \in Orders |-> moved[d][p][o]]
        here == IF deposits[d].recorded /\ deposits[d].order = o /\ ~deposits[d].voided
                THEN deposits[d].amount ELSE 0
    IN here + SumFunction(in) - SumFunction(moved[d][o]) - given[d][o] - applied[d][o]

(* held_deposits *)
Held(o) == SumFunction([d \in Deposits |-> Portion(d, o)])

\* What of the deposits is paid on the sale of o: payments not reversed.
StandingOn(o) == SumFunction([d \in Deposits |-> IF <<d, o>> \in taken THEN 0 ELSE applied[d][o]])

(* _cash_movements: what the cash book still counts as money in from d, as a
   deposit and as the payments it became. *)
InCashBook(d) ==
    LET counted == [o \in Orders |-> IF <<d, o>> \in taken THEN 0 ELSE applied[d][o]]
        remaining == deposits[d].amount - SumFunction(applied[d])
        row == IF ~deposits[d].recorded \/ deposits[d].voided \/ deposits[d].whole THEN 0 ELSE remaining
    IN row + SumFunction(counted)

-----------------------------------------------------------------------------
(* buyer_orders.py *)

Init ==
    \E b \in Buyers, o \in Orders :
        /\ orders = [p \in Orders |-> [status |-> "none", buyer |-> b, total |-> 0]]
        /\ deposits = [d \in Deposits |-> [recorded |-> FALSE, order |-> o, payer |-> b, amount |-> 0,
                                           voided |-> FALSE, whole |-> FALSE]]
        /\ given = [d \in Deposits |-> [p \in Orders |-> 0]]
        /\ moved = [d \in Deposits |-> [p \in Orders |-> [q \in Orders |-> 0]]]
        /\ applied = [d \in Deposits |-> [p \in Orders |-> 0]]
        /\ taken = {}
        /\ claims = [d \in Deposits |-> "nobody"]
        /\ sold = [p \in Orders |-> [status |-> "none", buyer |-> b]]

IsOpen(o) == orders[o].status = "open"
Known(d) == deposits[d].recorded

(* _deposit_row: the deposit was paid on the order or moved to it, and some of
   it is held there. *)
Related(d, o) ==
    /\ Known(d)
    /\ deposits[d].order = o \/ \E p \in Orders : moved[d][p][o] > 0
    /\ Portion(d, o) > 0

(* _deposit: the money is in, and its reference is taken. *)
TakeDeposit(o, d, a, buyer, total, held) ==
    /\ ~Known(d)
    /\ a + held <= total
    /\ deposits' = [deposits EXCEPT ![d] = [recorded |-> TRUE, order |-> o, payer |-> buyer, amount |-> a,
                                            voided |-> FALSE, whole |-> FALSE]]
    /\ claims' = [claims EXCEPT ![d] = "deposit"]

CreateOrder(o, b, t) ==
    /\ orders[o].status = "none"
    /\ orders' = [orders EXCEPT ![o] = [status |-> "open", buyer |-> b, total |-> t]]
    /\ UNCHANGED <<given, moved, applied, taken, sold>>

create_buyer_order(o, b, t) == CreateOrder(o, b, t) /\ UNCHANGED <<deposits, claims>>
create_with_deposit(o, b, t, d, a) == CreateOrder(o, b, t) /\ TakeDeposit(o, d, a, b, t, 0)

\* Mutant: only deposits paid on this order keep its buyer.
update_buyer_order_moved_forgotten(o, b, t) ==
    /\ IsOpen(o)
    /\ \A d \in Deposits : deposits[d].order = o /\ Portion(d, o) > 0 => b = orders[o].buyer
    /\ t >= Held(o)
    /\ orders' = [orders EXCEPT ![o].buyer = b, ![o].total = t]
    /\ UNCHANGED <<deposits, given, moved, applied, taken, claims, sold>>
update_buyer_order(o, b, t) ==
    /\ IsOpen(o)
    /\ Held(o) > 0 => b = orders[o].buyer
    /\ t >= Held(o)
    /\ orders' = [orders EXCEPT ![o].buyer = b, ![o].total = t]
    /\ UNCHANGED <<deposits, given, moved, applied, taken, claims, sold>>

cancel_buyer_order(o) ==
    /\ IsOpen(o)
    /\ Held(o) = 0
    /\ orders' = [orders EXCEPT ![o].status = "cancelled"]
    /\ UNCHANGED <<deposits, given, moved, applied, taken, claims, sold>>

record_deposit(o, d, a) ==
    /\ IsOpen(o)
    /\ TakeDeposit(o, d, a, orders[o].buyer, orders[o].total, Held(o))
    /\ UNCHANGED <<orders, given, moved, applied, taken, sold>>

refund_deposit(o, d, a) ==
    /\ IsOpen(o)
    /\ Related(d, o)
    /\ a <= Portion(d, o)
    /\ given' = [given EXCEPT ![d][o] = @ + a]
    /\ UNCHANGED <<orders, deposits, moved, applied, taken, claims, sold>>

\* Mutant: what the other order already holds is not counted.
move_deposit_over_total(o, d, p, a) ==
    /\ IsOpen(o) /\ IsOpen(p) /\ o # p
    /\ orders[p].buyer = orders[o].buyer
    /\ Related(d, o)
    /\ a <= Portion(d, o)
    /\ a <= orders[p].total
    /\ moved' = [moved EXCEPT ![d][o][p] = @ + a]
    /\ UNCHANGED <<orders, deposits, given, applied, taken, claims, sold>>
move_deposit(o, d, p, a) ==
    /\ IsOpen(o) /\ IsOpen(p) /\ o # p
    /\ orders[p].buyer = orders[o].buyer
    /\ Related(d, o)
    /\ a <= Portion(d, o)
    /\ Held(p) + a <= orders[p].total
    /\ moved' = [moved EXCEPT ![d][o][p] = @ + a]
    /\ UNCHANGED <<orders, deposits, given, applied, taken, claims, sold>>

(* The deposit is as it was when it was paid: nothing given back or moved. *)
Untouched(d) ==
    /\ \A o, p \in Orders : moved[d][o][p] = 0
    /\ \A o \in Orders : given[d][o] = 0

void_deposit(o, d) ==
    /\ IsOpen(o)
    /\ Related(d, o)
    /\ deposits[d].order = o /\ Portion(d, o) = deposits[d].amount /\ Untouched(d)
    /\ deposits' = [deposits EXCEPT ![d].voided = TRUE]
    /\ claims' = [claims EXCEPT ![d] = "nobody"]
    /\ UNCHANGED <<orders, given, moved, applied, taken, sold>>

\* Mutant: what is held is compared with nothing but the order it was paid on.
WholeByOrder(d, o) == deposits[d].order = o
(* deliver: the deposit goes on the sale as one payment, with its reference. *)
Whole(d, o) == deposits[d].order = o /\ Portion(d, o) = deposits[d].amount /\ Untouched(d)

(* deliver: the sale of buyer b comes to t, of which `paid` is received now.
   Whatever is held on the order becomes payments on what the buyer owes. *)
deliver_buyer_order(o, b, t, paid) ==
    LET here == {d \in Deposits : Portion(d, o) > 0}
        whole == {d \in here : Whole(d, o)}
    IN
    /\ IsOpen(o)
    /\ b = orders[o].buyer
    /\ paid <= t
    /\ Held(o) <= t - paid
    /\ applied' = [d \in Deposits |->
                    IF d \in here THEN [applied[d] EXCEPT ![o] = Portion(d, o)] ELSE applied[d]]
    /\ deposits' = [d \in Deposits |-> IF d \in whole THEN [deposits[d] EXCEPT !.whole = TRUE] ELSE deposits[d]]
    /\ claims' = [d \in Deposits |-> IF d \in whole THEN "payment" ELSE claims[d]]
    /\ orders' = [orders EXCEPT ![o].status = "delivered"]
    /\ sold' = [sold EXCEPT ![o] = [status |-> "active", buyer |-> b]]
    /\ UNCHANGED <<given, moved, taken>>

(* finance.reverse_payment on a payment a deposit became: it was recorded in
   error and counts no more; the reference is released where the payment holds
   it. *)
reverse_payment(d, o) ==
    /\ applied[d][o] > 0
    /\ <<d, o>> \notin taken
    /\ taken' = taken \cup {<<d, o>>}
    /\ claims' = [claims EXCEPT ![d] = IF @ = "payment" THEN "nobody" ELSE @]
    /\ UNCHANGED <<orders, deposits, given, moved, applied, sold>>

-----------------------------------------------------------------------------
(* finance.py, on the sale of a delivered order. *)

SoldBecomes(o, row) ==
    /\ sold[o].status = "active"
    /\ sold' = [sold EXCEPT ![o] = row]
    /\ UNCHANGED <<orders, deposits, given, moved, applied, taken, claims>>

(* update_sale: the sale and what is owed on it get the buyer of the form.
   Whose money was paid on it is not asked. *)
update_sale(o, b) == SoldBecomes(o, [sold[o] EXCEPT !.buyer = b])

(* cancel_sale: refused while anything is paid on the sale, as a payment of its
   own may be too.  The order stays delivered. *)
cancel_delivered_sale(o) == StandingOn(o) = 0 /\ SoldBecomes(o, [sold[o] EXCEPT !.status = "cancelled"])

\* How much of d was moved in all.
MovedInAll(d) == SumFunction([p \in Orders \X Orders |-> moved[d][p[1]][p[2]]])

Next ==
    \/ \E o \in Orders, b \in Buyers, t \in Totals :
        \/ create_buyer_order(o, b, t)
        \/ update_buyer_order(o, b, t)
        \/ \E d \in Deposits, a \in 1..t : create_with_deposit(o, b, t, d, a)
        \/ \E paid \in 0..t : deliver_buyer_order(o, b, t, paid)
    \/ \E o \in Orders, b \in Buyers : update_sale(o, b)
    \/ \E o \in Orders : cancel_buyer_order(o) \/ cancel_delivered_sale(o)
    \/ \E o \in Orders, d \in Deposits :
        \/ void_deposit(o, d)
        \/ reverse_payment(d, o)
        \/ \E a \in Totals : record_deposit(o, d, a) \/ refund_deposit(o, d, a)
        \/ \E p \in Orders, a \in Totals :
            MovedInAll(d) + a <= MaxMoved /\ move_deposit(o, d, p, a)

Spec == Init /\ [][Next]_vars

-----------------------------------------------------------------------------
(* What must hold. *)

(* No move, delivery or refund changes what came in: the cash book counts every
   deposit once, less the payments reversed as entered in error
   (reporting.py:875-900, buyer_orders.py:512-526). *)
DepositCountsOnce ==
    \A d \in Deposits :
        LET lost == [o \in Orders |-> IF <<d, o>> \in taken THEN applied[d][o] ELSE 0]
        IN Known(d) => InCashBook(d) = IF deposits[d].voided THEN 0
                                       ELSE deposits[d].amount - SumFunction(lost)

(* An open order never holds more than it comes to, and a closed one holds
   nothing, however deposits were moved and the order edited
   (buyer_orders.py:205, 338, 356, 449). *)
HeldWithinOrder ==
    \A o \in Orders : Held(o) <= IF IsOpen(o) THEN orders[o].total ELSE 0

HeldForPayer ==
    \A d \in Deposits, o \in Orders :
        Portion(d, o) > 0 \/ applied[d][o] > 0 => orders[o].buyer = deposits[d].payer

(* Money of one buyer is never held on the order of another, and when it becomes
   a payment it does so on a sale to who paid it (buyer_orders.py:353, 446 and
   490: "the deposit belongs to whoever paid it").  That the sale stays theirs
   is not so: see PaidForPayer. *)
DepositsGoToTheirPayer ==
    [][/\ HeldForPayer'
       /\ \A d \in Deposits, o \in Orders :
             applied'[d][o] # applied[d][o] => sold'[o].buyer = deposits[d].payer]_vars

(* What the rule comes to on a sale.  It does not hold of the code, and no run
   claims it: update_sale gives the sale another buyer, the deposits paid on it
   included (finance.py:744-748). *)
PaidForPayer ==
    \A d \in Deposits, o \in Orders :
        applied[d][o] > 0 /\ <<d, o>> \notin taken => sold[o].buyer = deposits[d].payer

(* As long as any of a deposit counts as money in, its transaction reference
   cannot be entered again (duplicates.py:28: "a claim is released only when
   its record stops counting as money"). *)
CountedIsClaimed ==
    \A d \in Deposits : Known(d) /\ InCashBook(d) > 0 => claims[d] # "nobody"

(* "Recorded in error and no longer counted: its reference is free again"
   (finance.py:1198). *)
UncountedIsFree ==
    \A d \in Deposits : Known(d) /\ InCashBook(d) = 0 => claims[d] = "nobody"
=============================================================================
