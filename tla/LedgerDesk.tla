----------------------------- MODULE LedgerDesk -----------------------------
(* What the pages of the operations site offer on the ledger: the requests that
   the forms of a freshly read page can send.  A page decides from the rows it
   was given which buttons to show and what to fill in; the backend decides
   again when the request comes.  A request is a record with its kind. *)
EXTENDS Ledger

None == {}
When(condition, requests) == IF condition THEN requests ELSE None

-----------------------------------------------------------------------------
(* The forms of components/finance. *)

(* PaymentForm: an amount up to the balance of an open debt. *)
PaymentForm(d) == When(debts[d].status = "open",
    {[kind |-> "payment", debt |-> d, amount |-> a] : a \in 1..Balance(d)})

(* PaymentsTable: "Move to supplier credit" where the supplier keeps the money,
   "Reverse" where the payment just stops counting. *)
PaymentsTable(d, supplier) ==
    {[kind |-> "reversal", payment |-> p, keeps |-> supplier \/ payments[p].transfer # 0] :
        p \in Active(payments, d)}

CancelDebtForm(d) == {[kind |-> "cancel", debt |-> d]}

(* PaidMoneyChoice: asked only when something was paid. *)
PaidMoneyChoice(d) == IF debts[d].paid > 0 THEN {"credit", "unresolved"} ELSE {"unsaid"}

(* DebtCorrections: a typed name is not compared with the name on the debt, so
   only other names count as offered. *)
DebtCorrections(d) ==
    LET paid == debts[d].paid > 0
        unregisteredPaid == paid /\ debts[d].party \notin Suppliers
        others == Parties \ {debts[d].party}
    IN When(~unregisteredPaid,
            {[kind |-> "wrong_supplier", debt |-> d, party |-> p, how |-> h] :
                p \in others, h \in PaidMoneyChoice(d)}
            \cup {[kind |-> "duplicate_liability", debt |-> d, of |-> e, how |-> h] :
                e \in DuplicateCandidates(d), h \in PaidMoneyChoice(d)})
       \cup When(~paid, {[kind |-> "no_cost", debt |-> d]})

\* Mutant: all the credit they hold is offered, whatever is owed.
UseCreditFormUncapped(s, credit, owed, picked) ==
    {[kind |-> "credit", supplier |-> s, amount |-> a, picked |-> picked] : a \in 1..credit}
(* UseCreditForm: up to what is held and what is owed. *)
UseCreditForm(s, credit, owed, picked) ==
    {[kind |-> "credit", supplier |-> s, amount |-> a, picked |-> picked] : a \in 1..Lowest(credit, owed)}

(* TransferActions: refund and entry error, out of the transfer's credit. *)
TransferActions(t) ==
    {[kind |-> k, transfer |-> t, amount |-> a] :
        k \in {"refund", "entry_error"}, a \in 1..Buckets(payments, transfers, t).credit}

(* ReceivePaymentForm shows where the amount will go before it is sent. *)
Takes(b, amount) ==
    LET ids == InOrder(OpenBuyerDebts(b))
        left[k \in 0..Len(ids)] == IF k = 0 THEN amount ELSE left[k - 1] - Lowest(left[k - 1], Balance(ids[k]))
    IN [k \in DOMAIN ids |-> <<ids[k], Lowest(left[k - 1], Balance(ids[k]))>>]
ReceivePaymentForm(b) ==
    {[kind |-> "receive", buyer |-> b, amount |-> a, preview |-> Takes(b, a)] : a \in 1..Owed(OpenBuyerDebts(b))}

(* PaySupplierPanel, opened for a supplier or for one invoice: their credit
   first, and the rest filled in as new money; with nothing left to send,
   recordSupplierBatchPayment asks to use the credit instead. *)
UsableCredit(s, owed) == Lowest(CreditOf(s), owed)
PaySupplierPanel(s, picked) ==
    LET owed == Owed(OpenInvoices(s, picked))
        credits == {0, UsableCredit(s, owed)}
        paid == {[kind |-> "pay_supplier", supplier |-> s, amount |-> a, credit |-> c, picked |-> picked] :
                    a \in 1..owed, c \in credits}
    IN {r \in paid : r.amount <= owed - r.credit} \cup UseCreditForm(s, UsableCredit(s, owed), owed, picked)

-----------------------------------------------------------------------------
(* The pages. *)

(* finance/debts/[id], as an admin sees it. *)
DebtPage(d) ==
    LET registered == ToSupplier(debts[d])
        open == debts[d].status = "open"
        correctable == debts[d].source = "sale_cost" /\ debts[d].direction = "payable" /\ Live(d)
        byHand == debts[d].source \in {"manual", "expense"} /\ Live(d)
    IN PaymentsTable(d, registered)
       \cup PaymentForm(d)
       \cup When(registered /\ open, UseCreditForm(debts[d].party, CreditOf(debts[d].party), Balance(d), {d}))
       \cup When(correctable, DebtCorrections(d))
       \cup When(byHand /\ debts[d].paid = 0, CancelDebtForm(d))

(* sales/[id]: the debts of the sale with their payments. *)
SalePage(s) ==
    LET shown == {Receivable(s)} \cup Payables(s)
        active == sales[s].status = "active"
        anyPaid == \E d \in OfSale(s) : debts[d].paid > 0
    IN When(active /\ ~anyPaid, {[kind |-> "cancel_sale", sale |-> s]})
       \cup UNION {PaymentsTable(d, ToSupplier(debts[d])) : d \in shown}
       \cup When(active, UNION {PaymentForm(d) : d \in shown})

(* suppliers/[id]: the statement of a registered supplier. *)
SupplierStatement(s) ==
    LET owed == Owed(OpenInvoices(s, {}))
    IN UseCreditForm(s, CreditOf(s), owed, {})
       \cup UNION {TransferActions(t) : t \in {u \in DOMAIN transfers : transfers[u].supplier = s}}

(* finance/supplier-payments: the panel of a supplier with an open balance, or
   for the one invoice the link names. *)
SupplierPaymentsPage(s) == When(OpenInvoices(s, {}) # {}, PaySupplierPanel(s, {}))
PayInvoicePage(d) == When(debts[d].status = "open" /\ ToSupplier(debts[d]), PaySupplierPanel(debts[d].party, {d}))

(* finance/debts/receive. *)
ReceivePage(b) == ReceivePaymentForm(b)

(* finance/debts: "Record payment" leads to where the money is tracked. *)
PayHref(d) ==
    IF ToSupplier(debts[d]) THEN PayInvoicePage(d)
    ELSE IF debts[d].direction = "receivable" THEN ReceivePage(debts[d].party)
    ELSE PaymentForm(d)

(* Its tabs, and the row of a debt: an open one has "Record payment". *)
DebtTab(d) ==
    IF debts[d].status # "open" THEN debts[d].status
    ELSE IF debts[d].direction = "receivable" THEN "owed_to_me" ELSE "i_owe"
DebtsPage(d) == When(DebtTab(d) \in {"owed_to_me", "i_owe"}, PayHref(d))

(* The row of sales/: what the buyer owes, what suppliers of its stock are owed
   (sale_view), and its badge. *)
SalesPage(s) ==
    LET owes == IF Live(Receivable(s)) THEN Balance(Receivable(s)) ELSE 0
        costs == {d \in Payables(s) : debts[d].source = "sale_cost"}
    IN [owes |-> owes, supplier_owed |-> Owed(costs),
        status |-> IF sales[s].status = "cancelled" THEN "Cancelled" ELSE IF owes > 0 THEN "Owes" ELSE "Paid"]

Offered ==
    UNION {DebtPage(d) : d \in {e \in DOMAIN debts : debts[e].status # "deleted"}}
    \cup UNION {SalePage(s) : s \in DOMAIN sales}
    \cup UNION {SupplierStatement(s) \cup SupplierPaymentsPage(s) : s \in Suppliers}
    \cup UNION {ReceivePage(b) : b \in Buyers}

-----------------------------------------------------------------------------
(* What the handlers make of a request; each has the guard of its own. *)

KeepsMoney(p) == TakenOff(payments[p].debt, {p}, TRUE).payments[p].transfer # 0
Recorded(b, amount) ==
    LET new == Split(debts, InOrder(OpenBuyerDebts(b)), amount, 0, 1, NoRef)
    IN {<<new[k].debt, new[k].amount>> : k \in DOMAIN new}

Accepts(r) ==
    CASE r.kind = "payment" -> CanPay(r.debt, r.amount)
      [] r.kind = "reversal" -> ~payments[r.payment].reversed /\ r.keeps = KeepsMoney(r.payment)
      [] r.kind = "cancel" -> CanCancel(r.debt)
      [] r.kind = "cancel_sale" -> CanCancelSale(r.sale)
      [] r.kind = "wrong_supplier" -> CanMove(r.debt, r.party, r.how)
      [] r.kind = "duplicate_liability" -> IsDuplicate(r.debt, r.of, r.how)
      [] r.kind = "no_cost" -> CanClearCost(r.debt)
      [] r.kind = "credit" -> CanApplyCredit(r.supplier, r.amount, r.picked)
      [] r.kind = "pay_supplier" -> CanPaySupplier(r.supplier, r.amount, r.credit, r.picked)
      [] r.kind \in {"refund", "entry_error"} -> CanRefund(r.transfer, r.amount)
      [] r.kind = "receive" ->
            /\ CanPayBuyer(r.buyer, r.amount)
            /\ Recorded(r.buyer, r.amount) = {pair \in Range(r.preview) : pair[2] > 0}

(* The badge of a sale is "Owes" or "Paid" as its page takes the rest of the
   buyer's money, all of it at once, and what it says suppliers are owed is
   what its page takes for them. *)
SaysWhatItTakes(s) ==
    LET row == SalesPage(s)
        taken == {r \in SalePage(s) : r.kind = "payment"}
        forBuyer == {r.amount : r \in {t \in taken : t.debt = Receivable(s)}}
        forSupplier == {r.debt : r \in {t \in taken : debts[t.debt].source = "sale_cost"}}
    IN /\ forBuyer = IF row.status = "Owes" THEN 1..row.owes ELSE {}
       /\ Owed(forSupplier) = row.supplier_owed

(* A correction offered on a sale an expense was recorded on: an edit may have
   left the debt of a supplier its lines no longer name. *)
AfterExpense(r) == r.kind \in {"wrong_supplier", "duplicate_liability", "no_cost"} /\ Expensed(debts[r.debt].sale)

(* What a page just read offers, the backend accepts, and it does with the
   money what the button and the preview say, but for the corrections of a
   sale an expense was recorded on; every debt listed as owed is
   offered a payment where the list links to; and the list of sales says what
   the page of a sale takes (finance/debts, sales, ledger.tsx, supplier-payments). *)
OfferedIsAccepted ==
    /\ \A r \in Offered : Accepts(r) \/ AfterExpense(r)
    /\ \A d \in DOMAIN debts : debts[d].status = "open" => DebtsPage(d) # None
    /\ \A s \in DOMAIN sales : SaysWhatItTakes(s)
=============================================================================
