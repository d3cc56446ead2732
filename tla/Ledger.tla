------------------------------- MODULE Ledger -------------------------------
(* The money ledger of backend/app/finance.py and transfers.py: sales open a
   debt the buyer owes and one debt to every supplier of the stock; debts are
   paid by installments; money sent to a registered supplier is a transfer that
   is spread over their invoices; money taken off an invoice stays with the
   supplier as credit, is used again, refunded, or was never sent.  Every
   handler replays its key first, and services.replay takes the commerce lock,
   so each is one step here.  Dates are not kept: rows are as old as their
   place in their sequence. *)
EXTENDS Integers, Sequences, FiniteSets, FiniteSetsExt, SequencesExt, Functions

CONSTANTS
    Suppliers,      \* registered suppliers
    Names,          \* names typed for people who are not registered
    Buyers,
    Refs, NoRef,    \* transaction references
    Legacy,         \* "none", "active" or "reversed": a supplier payment from before transfers
    WrapsAnything,  \* BOOLEAN: staff wrap any row the dry run lists, not only old ones
    LineCosts,      \* what the lines of a sale may cost, per supplier: a set of [Parties -> Nat]
    Totals,         \* what a sale may come to
    Entries,        \* debts that may be recorded by hand or by a receipt
    MaxAmount, MaxSales, MaxDebts, MaxPayments, MaxTransfers, MaxRecords

Parties == Suppliers \cup Names
Amounts == 1..MaxAmount

(* Amounts the handlers take are above zero, a receipt makes a debt to a
   registered supplier, an expense is a payable, and an old payment is a part
   of its debt. *)
ASSUME LedgerAssumption ==
    /\ IsFiniteSet(Parties) /\ NoRef \notin Refs
    /\ Suppliers \cap Names = {} /\ Parties \cap Buyers = {}
    /\ MaxAmount \in Nat \ {0, 1}
    /\ LineCosts \subseteq [Parties -> Nat]
    /\ IsFiniteSet(Totals) /\ Totals # {} /\ Totals \subseteq Nat \ {0}
    /\ \A e \in Entries :
          /\ e.direction \in {"receivable", "payable"} /\ e.party \in Parties \cup Buyers
          /\ e.amount \in Nat \ {0} /\ e.source \in {"manual", "expense", "batch_receipt"}
          /\ e.source = "batch_receipt" => e.direction = "payable" /\ e.party \in Suppliers
          /\ e.source = "expense" => e.direction = "payable"
    /\ Legacy \in {"none", "active", "reversed"} /\ WrapsAnything \in BOOLEAN

VARIABLES sales, debts, payments, transfers, claims
vars == <<sales, debts, payments, transfers, claims>>

(* A sale keeps what its lines cost per supplier (0: nothing known or owed). *)
SaleRecord == [status: {"active", "cancelled"}, costs: [Parties -> Nat]]

(* `related` is the foreign key of financial_adjustments.related_debt_id, and
   `duplicate` the debt this one was cancelled as a copy of.  A deleted row
   keeps its place. *)
DebtRecord == [direction: {"receivable", "payable"}, party: Parties \cup Buyers,
    amount: Nat \ {0}, paid: Nat, status: {"open", "settled", "cancelled", "deleted"},
    source: {"sale", "sale_cost", "manual", "expense", "batch_receipt"},
    sale: Nat, related: BOOLEAN, duplicate: Nat]

(* `to` is who the money was with when it was recorded: no column, but what
   rule R1 of the build plan is about.  `decided` sums the events that classify
   the payment once it is off its invoice. *)
PaymentRecord == [debt: Nat \ {0}, amount: Nat \ {0}, transfer: Nat, group: Nat,
    ref: Refs \cup {NoRef}, reversed: BOOLEAN, decided: Nat, old: BOOLEAN, to: Parties \cup Buyers]

(* A transfer and the sums of its events: from a payment taken off its invoice
   (credited, refundedFrom, wrongFrom) or out of its credit (used, refunded,
   wrong). *)
TransferRecord == [supplier: Suppliers, amount: Nat \ {0}, ref: Refs \cup {NoRef},
    credited: Nat, used: Nat, refunded: Nat, wrong: Nat, refundedFrom: Nat, wrongFrom: Nat]

(* Which record holds a reference that may not be entered again. *)
Holders == {"payment", "transfer", "group", "refund"} \X Nat
NoHolder == <<"nothing", 0>>

TypeOK ==
    /\ sales \in Seq(SaleRecord)
    /\ debts \in Seq(DebtRecord)
    /\ payments \in Seq(PaymentRecord)
    /\ transfers \in Seq(TransferRecord)
    /\ claims \in [Refs -> Holders \cup {NoHolder}]

-----------------------------------------------------------------------------
(* Reading the ledger. *)

Worth(ps) == [p \in DOMAIN ps |-> ps[p].amount]
WorthOf(ps, S) == SumFunctionOnSet(Worth(ps), S)
Lowest(a, b) == IF a < b THEN a ELSE b
Highest(a, b) == IF a > b THEN a ELSE b
InOrder(S) == [k \in 1..Cardinality(S) |-> CHOOSE x \in S : Cardinality({y \in S : y <= x}) = k]
RowByRow(S) ==
    LET upTo(x) == {y \in S : y[1] < x[1] \/ (y[1] = x[1] /\ y[2] <= x[2])}
    IN [k \in 1..Cardinality(S) |-> CHOOSE x \in S : Cardinality(upTo(x)) = k]

Live(d) == debts[d].status \notin {"cancelled", "deleted"}
ToSupplier(debt) == debt.direction = "payable" /\ debt.party \in Suppliers
Balances(ds) == [d \in DOMAIN ds |-> ds[d].amount - ds[d].paid]
Balance(d) == Balances(debts)[d]
Active(ps, d) == {p \in DOMAIN ps : ps[p].debt = d /\ ~ps[p].reversed}
Owed(ids) == SumFunctionOnSet(Balances(debts), ids)

(* transfers.buckets: where the money of a transfer is now. *)
Buckets(ps, ts, t) ==
    LET on == {p \in DOMAIN ps : ps[p].transfer = t /\ ~ps[p].reversed}
        off == {p \in DOMAIN ps : ps[p].transfer = t /\ ps[p].reversed}
        row == ts[t]
    IN [allocated |-> WorthOf(ps, on),
        credit |-> row.credited - row.used - row.refunded - row.wrong,
        refunded |-> row.refunded + row.refundedFrom,
        entry_error |-> row.wrong + row.wrongFrom,
        unresolved |-> WorthOf(ps, off) - row.credited - row.refundedFrom - row.wrongFrom]
Credits(ts) == [t \in DOMAIN ts |-> ts[t].credited - ts[t].used - ts[t].refunded - ts[t].wrong]
Credit(ts, t) == Credits(ts)[t]

OpenInvoices(s, picked) ==
    {d \in DOMAIN debts : ToSupplier(debts[d]) /\ debts[d].party = s /\ debts[d].status = "open"
        /\ (picked = {} \/ d \in picked)}
OpenBuyerDebts(b) ==
    {d \in DOMAIN debts : debts[d].direction = "receivable" /\ debts[d].party = b /\ debts[d].status = "open"}

-----------------------------------------------------------------------------
(* Writing it. *)

NewDebt(direction, party, amount, source, sale) ==
    [direction |-> direction, party |-> party, amount |-> amount, paid |-> 0, status |-> "open",
     source |-> source, sale |-> sale, related |-> FALSE, duplicate |-> 0]
NewPayment(d, party, amount, transfer, group, ref) ==
    [debt |-> d, amount |-> amount, transfer |-> transfer, group |-> group, ref |-> ref,
     reversed |-> FALSE, decided |-> 0, old |-> FALSE, to |-> party]
NewTransfer(s, amount, ref) ==
    [supplier |-> s, amount |-> amount, ref |-> ref, credited |-> 0, used |-> 0, refunded |-> 0,
     wrong |-> 0, refundedFrom |-> 0, wrongFrom |-> 0]

(* record_payment: the payments `new` count on their debts. *)
Counted(ds, new) == [d \in DOMAIN ds |->
    LET here == {k \in DOMAIN new : new[k].debt = d}
        paid == ds[d].paid + WorthOf(new, here)
    IN IF here = {} THEN ds[d]
       ELSE [ds[d] EXCEPT !.paid = paid, !.status = IF paid = ds[d].amount THEN "settled" ELSE "open"]]

(* A loop that pays off one thing before the next gets anything: what falls on
   number k of `sizes` out of `amount`. *)
Before(sizes, k) == SumFunctionOnSet(sizes, 1..(k - 1))
Share(sizes, amount, k) == Lowest(sizes[k], Highest(0, amount - Before(sizes, k)))

(* One amount over the debts of a sequence, in its order, as payments. *)
Split(ds, ids, amount, transfer, group, ref) ==
    LET sizes == [k \in DOMAIN ids |-> Balances(ds)[ids[k]]]
        paid == InOrder({k \in DOMAIN ids : Share(sizes, amount, k) > 0})
    IN [n \in DOMAIN paid |-> LET d == ids[paid[n]]
        IN NewPayment(d, ds[d].party, Share(sizes, amount, paid[n]), transfer, group, ref)]

(* duplicates.claim: free, and then held by `holder`. *)
Unclaimed(ref) == ref \in Refs => claims[ref] = NoHolder
Claimed(ref, holder) == IF ref = NoRef THEN claims ELSE [claims EXCEPT ![ref] = holder]

(* record_payment with new money on distinct debts: a payment to a registered
   supplier is a transfer of its own. *)
NewMoney(ds, list, ref) ==
    LET wrapped(k) == {j \in 1..k : ToSupplier(ds[list[j][1]])}
        transfer(k) == IF k \in wrapped(k) THEN Len(transfers) + Cardinality(wrapped(k)) ELSE 0
        new == [k \in DOMAIN list |-> NewPayment(list[k][1], ds[list[k][1]].party, list[k][2], transfer(k), 0, ref)]
        order == InOrder(wrapped(Len(list)))
    IN [payments |-> new,
        transfers |-> [k \in DOMAIN order |-> NewTransfer(new[order[k]].to, new[order[k]].amount, ref)]]

(* The row that holds the reference of one payment of new money. *)
MoneyHolder(money) ==
    IF money.transfers = <<>> THEN <<"payment", Len(payments) + 1>> ELSE <<"transfer", Len(transfers) + 1>>

(* _apply_credit: the credit of the transfers of `ids`, oldest first, over
   the debts of `over`, oldest first.  The two loops meet where their stretches
   of the amount overlap. *)
Overlap(sizes, held, amount, i, j) ==
    Lowest(amount, Lowest(Before(sizes, i) + sizes[i], Before(held, j) + held[j]))
        - Highest(Before(sizes, i), Before(held, j))
CreditPieces(ds, ts, over, ids, amount) ==
    LET sizes == [k \in DOMAIN over |-> Balances(ds)[over[k]]]
        held == [k \in DOMAIN ids |-> Credit(ts, ids[k])]
        met == RowByRow({m \in (DOMAIN over) \X (DOMAIN ids) : Overlap(sizes, held, amount, m[1], m[2]) > 0})
    IN [k \in DOMAIN met |-> LET d == over[met[k][1]]
        IN NewPayment(d, ds[d].party, Overlap(sizes, held, amount, met[k][1], met[k][2]),
               ids[met[k][2]], 0, NoRef)]
\* Mutant: the payments of credit are written without their events.
CreditUsedUnrecorded(ts, pieces) == ts
CreditUsed(ts, pieces) == [t \in DOMAIN ts |->
    [ts[t] EXCEPT !.used = @ + WorthOf(pieces, {k \in DOMAIN pieces : pieces[k].transfer = t})]]
CreditHolders(ts, s) == InOrder({t \in DOMAIN ts : ts[t].supplier = s /\ Credit(ts, t) > 0})
CreditOf(s) ==
    SumFunctionOnSet(Credits(transfers), {t \in DOMAIN transfers : transfers[t].supplier = s /\ Credit(transfers, t) > 0})

(* _take_off_invoice for the payments P of debt d: what is left of the
   ledger.  A payment from before transfers gets its transfer now, and its
   reference goes with it; a payment that simply stops counting frees its
   reference, and a customer payment does once none of its parts counts. *)
TakenOff(d, P, credit) ==
    LET wrapped == InOrder({p \in P : payments[p].transfer = 0 /\ ToSupplier(debts[d])})
        new(p) == CHOOSE k \in DOMAIN wrapped : wrapped[k] = p
        transfer(p) == IF p \in Range(wrapped) THEN Len(transfers) + new(p) ELSE payments[p].transfer
        known == transfers \o [k \in DOMAIN wrapped |->
            NewTransfer(debts[d].party, payments[wrapped[k]].amount, payments[wrapped[k]].ref)]
        counts(g) == \E p \in (DOMAIN payments) \ P : payments[p].group = g /\ ~payments[p].reversed
        held(holder) ==
            IF \E p \in Range(wrapped) : holder = <<"payment", p>>
            THEN <<"transfer", transfer(holder[2])>>
            ELSE IF \E p \in P : \/ transfer(p) = 0 /\ payments[p].group = 0 /\ holder = <<"payment", p>>
                                 \/ /\ transfer(p) = 0 /\ payments[p].group # 0
                                    /\ holder = <<"group", payments[p].group>> /\ ~counts(payments[p].group)
                 THEN NoHolder
                 ELSE holder
    IN [debts |-> [debts EXCEPT ![d].paid = @ - WorthOf(payments, P)],
        payments |-> [p \in DOMAIN payments |->
            IF p \notin P THEN payments[p]
            ELSE [payments[p] EXCEPT !.reversed = TRUE, !.transfer = transfer(p),
                    !.decided = IF credit /\ transfer(p) # 0 THEN payments[p].amount ELSE 0]],
        transfers |-> [t \in DOMAIN known |->
            IF credit THEN [known[t] EXCEPT !.credited = @ + WorthOf(payments, {p \in P : transfer(p) = t})]
            ELSE known[t]],
        claims |-> [r \in Refs |-> held(claims[r])]]

-----------------------------------------------------------------------------
(* Sales and their debts. *)

CostDebts(sale, costs, parties) ==
    [k \in DOMAIN parties |-> NewDebt("payable", parties[k], costs[parties[k]], "sale_cost", sale)]

(* create_sale: the buyer owes the total, each supplier is owed their cost;
   some of it may be paid there and then.  Every payment may have a reference
   of its own; the instance types one only where a sale has one payment. *)
CreateSale(b, total, costs, received, paid, ref) ==
    LET s == Len(sales) + 1
        parties == SetToSeq({p \in Parties : costs[p] > 0})
        ds == debts \o <<NewDebt("receivable", b, total, "sale", s)>> \o CostDebts(s, costs, parties)
        now == {d \in (Len(debts) + 2)..Len(ds) : ds[d].party \in paid}
        list == [k \in 1..Cardinality(now) |-> <<InOrder(now)[k], ds[InOrder(now)[k]].amount>>]
            \o IF received > 0 THEN <<<<Len(debts) + 1, received>>>> ELSE <<>>
        money == NewMoney(ds, list, ref)
    IN /\ received <= total
       /\ ref # NoRef => Len(list) = 1
       /\ Unclaimed(ref)
       /\ sales' = Append(sales, [status |-> "active", costs |-> costs])
       /\ debts' = Counted(ds, money.payments)
       /\ payments' = payments \o money.payments
       /\ transfers' = transfers \o money.transfers
       /\ claims' = Claimed(ref, MoneyHolder(money))

OfSale(s) == {d \in DOMAIN debts : debts[d].sale = s /\ debts[d].status # "deleted"}
Receivable(s) == CHOOSE d \in OfSale(s) : debts[d].direction = "receivable"
Payables(s) == {d \in OfSale(s) : debts[d].direction = "payable" /\ Live(d)}
Covered(s) == {debts[d].party : d \in {e \in OfSale(s) : debts[e].status = "cancelled" /\ debts[e].duplicate # 0}}
HasHistory(d) == \E p \in DOMAIN payments : payments[p].debt = d

\* Mutant: money paid to a removed supplier is not asked about.
NothingPaidIgnored(existing, removed) == \A p \in removed : Live(existing[p])
(* A supplier nothing is bought from any more was not paid for it. *)
NothingPaid(existing, removed) == \A p \in removed : debts[existing[p]].paid = 0

(* update_sale: the lines are replaced, and each supplier's debt follows what
   their lines now cost.  One supplier taken off and one put on is a wrong
   name, and their debt changes hands.  `existing` names the debt of each
   supplier: the code keeps the last row it reads of each. *)
EditSale(s, b, total, costs, existing) ==
    LET keys == DOMAIN existing
        costed == {p \in Parties : costs[p] > 0}
        removed == keys \ costed
        added == (costed \ keys) \ Covered(s)
        swapped == Cardinality(removed) = 1 /\ Cardinality(added) = 1
        kept == IF swapped
                THEN [p \in (keys \ removed) \cup added |->
                        IF p \in keys THEN existing[p] ELSE existing[CHOOSE q \in removed : TRUE]]
                ELSE existing
        dropped == {kept[p] : p \in DOMAIN kept \ costed}
        following == {kept[p] : p \in DOMAIN kept \cap costed}
        heir(d) == CHOOSE p \in DOMAIN kept : kept[p] = d
        status(paid, amount) == IF paid = amount THEN "settled" ELSE "open"
        edited == [d \in DOMAIN debts |->
            IF d = Receivable(s)
            THEN [debts[d] EXCEPT !.party = b, !.amount = total, !.status = status(debts[d].paid, total)]
            ELSE IF d \in following
            THEN [debts[d] EXCEPT !.party = heir(d), !.amount = costs[heir(d)],
                     !.status = status(debts[d].paid, costs[heir(d)])]
            ELSE IF d \in dropped
            THEN [debts[d] EXCEPT !.status = IF HasHistory(d) THEN "cancelled" ELSE "deleted"]
            ELSE debts[d]]
        opened == SetToSeq((costed \ DOMAIN kept) \ Covered(s))
    IN /\ sales[s].status = "active"
       /\ total >= debts[Receivable(s)].paid
       /\ NothingPaid(existing, removed)
       /\ \A p \in DOMAIN kept \cap costed : costs[p] >= debts[kept[p]].paid
       /\ \A d \in dropped : HasHistory(d) \/ ~debts[d].related
       /\ sales' = [sales EXCEPT ![s].costs = costs]
       /\ debts' = edited \o CostDebts(s, costs, opened)
       /\ UNCHANGED <<payments, transfers, claims>>

CanCancelSale(s) == sales[s].status = "active" /\ \A d \in OfSale(s) : debts[d].paid = 0
CancelSale(s) ==
    /\ CanCancelSale(s)
    /\ sales' = [sales EXCEPT ![s].status = "cancelled"]
    /\ debts' = [d \in DOMAIN debts |->
            IF d \in OfSale(s) THEN [debts[d] EXCEPT !.status = "cancelled"] ELSE debts[d]]
    /\ UNCHANGED <<payments, transfers, claims>>

-----------------------------------------------------------------------------
(* Debts entered by hand, expenses, and the invoices of received goods. *)

CreateDebt(e, sale) ==
    /\ debts' = Append(debts, NewDebt(e.direction, e.party, e.amount, e.source, sale))
    /\ UNCHANGED <<sales, payments, transfers, claims>>

CanCancel(d) == debts[d].source \in {"manual", "expense"} /\ Live(d) /\ debts[d].paid = 0
CancelDebt(d) ==
    /\ CanCancel(d)
    /\ debts' = [debts EXCEPT ![d].status = "cancelled"]
    /\ UNCHANGED <<sales, payments, transfers, claims>>

(* shrink_payable, for a corrected receipt or an agreed credit note: the
   newest payments above the new amount come off, and what the last of them
   had too much goes back on the invoice. *)
Newest(d, excess) ==
    {p \in Active(payments, d) : WorthOf(payments, {q \in Active(payments, d) : q > p}) < excess}
ShrinkPayable(d, amount, how) ==
    LET excess == debts[d].paid - amount
        P == IF excess > 0 THEN Newest(d, excess) ELSE {}
        off == TakenOff(d, P, how = "credit")
        surplus == -(excess - (debts[d].paid - off.debts[d].paid))
        last == off.payments[CHOOSE p \in P : \A q \in P : p <= q].transfer
        less == [off.debts EXCEPT ![d].amount = amount]
        back == IF P # {} /\ how = "credit" /\ surplus > 0
                THEN CreditPieces(less, off.transfers, <<d>>, <<last>>, surplus) ELSE <<>>
    IN /\ debts[d].source = "batch_receipt" /\ Live(d)
       /\ excess > 0 => how # "unsaid"
       /\ IF amount = 0
          THEN /\ debts' = [off.debts EXCEPT ![d].status = "cancelled"]
               /\ payments' = off.payments
               /\ transfers' = off.transfers
          ELSE /\ debts' = [Counted(less, back) EXCEPT ![d].status =
                        IF Counted(less, back)[d].paid = amount THEN "settled" ELSE "open"]
               /\ payments' = off.payments \o back
               /\ transfers' = CreditUsed(off.transfers, back)
       /\ claims' = off.claims
       /\ UNCHANGED sales

-----------------------------------------------------------------------------
(* Payments. *)

CanPay(d, amount) == Live(d) /\ amount <= Balance(d)
AddPayment(d, amount, ref) ==
    LET money == NewMoney(debts, <<<<d, amount>>>>, ref)
    IN /\ CanPay(d, amount)
       /\ Unclaimed(ref)
       /\ debts' = Counted(debts, money.payments)
       /\ payments' = payments \o money.payments
       /\ transfers' = transfers \o money.transfers
       /\ claims' = Claimed(ref, MoneyHolder(money))
       /\ UNCHANGED sales

(* pay_supplier: credit they hold first, then one transfer over the rest. *)
CanPaySupplier(s, amount, credit, picked) ==
    /\ picked \subseteq OpenInvoices(s, {})
    /\ OpenInvoices(s, picked) # {}
    /\ amount + credit <= Owed(OpenInvoices(s, picked))
    /\ credit <= CreditOf(s)
PaySupplier(s, amount, credit, picked, ref) ==
    LET ids == InOrder(OpenInvoices(s, picked))
        used == CreditPieces(debts, transfers, ids, CreditHolders(transfers, s), credit)
        rest == Counted(debts, used)
        t == Len(transfers) + 1
        new == Split(rest, ids, amount, t, 0, NoRef)
    IN /\ CanPaySupplier(s, amount, credit, picked)
       /\ Unclaimed(ref)
       /\ debts' = Counted(rest, new)
       /\ payments' = payments \o used \o new
       /\ transfers' = Append(CreditUsed(transfers, used), NewTransfer(s, amount, ref))
       /\ claims' = Claimed(ref, <<"transfer", t>>)
       /\ UNCHANGED sales

(* apply_supplier_credit: no money moves. *)
CanApplyCredit(s, amount, picked) ==
    /\ picked \subseteq OpenInvoices(s, {})
    /\ amount <= CreditOf(s)
    /\ amount <= Owed(OpenInvoices(s, picked))
ApplyCredit(s, amount, picked) ==
    LET pieces == CreditPieces(debts, transfers, InOrder(OpenInvoices(s, picked)), CreditHolders(transfers, s), amount)
    IN /\ CanApplyCredit(s, amount, picked)
       /\ debts' = Counted(debts, pieces)
       /\ payments' = payments \o pieces
       /\ transfers' = CreditUsed(transfers, pieces)
       /\ UNCHANGED <<sales, claims>>

(* pay_buyer_debts: one amount a customer paid, over what they owe. *)
Groups == {payments[p].group : p \in DOMAIN payments} \cup {0}
CanPayBuyer(b, amount) == amount <= Owed(OpenBuyerDebts(b))
PayBuyer(b, amount, ref) ==
    LET g == Max(Groups) + 1
        new == Split(debts, InOrder(OpenBuyerDebts(b)), amount, 0, g, ref)
    IN /\ CanPayBuyer(b, amount)
       /\ Unclaimed(ref)
       /\ debts' = Counted(debts, new)
       /\ payments' = payments \o new
       /\ claims' = Claimed(ref, <<"group", g>>)
       /\ UNCHANGED <<sales, transfers>>

\* Mutant: a settled debt stays settled when a payment on it is reversed.
ReversePaymentStatusKept(p) ==
    LET off == TakenOff(payments[p].debt, {p}, TRUE)
    IN /\ ~payments[p].reversed
       /\ debts' = off.debts
       /\ payments' = off.payments
       /\ transfers' = off.transfers
       /\ claims' = off.claims
       /\ UNCHANGED sales
ReversePayment(p) ==
    LET d == payments[p].debt
        off == TakenOff(d, {p}, TRUE)
    IN /\ ~payments[p].reversed
       /\ debts' = [off.debts EXCEPT ![d].status = "open"]
       /\ payments' = off.payments
       /\ transfers' = off.transfers
       /\ claims' = off.claims
       /\ UNCHANGED sales

CanRefund(t, amount) == amount <= Credit(transfers, t)
RefundTransfer(t, amount, ref) ==
    /\ CanRefund(t, amount)
    /\ Unclaimed(ref)
    /\ transfers' = [transfers EXCEPT ![t].refunded = @ + amount]
    /\ claims' = Claimed(ref, <<"refund", t>>)
    /\ UNCHANGED <<sales, debts, payments>>

(* correct_transfer: this part never left the account. *)
CorrectTransfer(t, amount) ==
    /\ CanRefund(t, amount)
    /\ transfers' = [transfers EXCEPT ![t].wrong = @ + amount]
    /\ UNCHANGED <<sales, debts, payments, claims>>

-----------------------------------------------------------------------------
(* correct_debt: the four reasons a sale's supplier debt is wrong. *)

CanCorrect(d) ==
    /\ debts[d].source = "sale_cost" /\ Live(d)
    /\ sales[debts[d].sale].status = "active"
    /\ sales[debts[d].sale].costs[debts[d].party] > 0

(* Money paid on it stays with the supplier it was paid to. *)
CanRelease(d, how) ==
    Active(payments, d) # {} => debts[d].party \in Suppliers /\ how # "unsaid"
Released(d, how) == TakenOff(d, Active(payments, d), how = "credit")

\* Mutant: the debt it joins is overwritten.
JoinedOver(target, d) == [target EXCEPT !.amount = debts[d].amount, !.status = "open", !.related = TRUE]
(* The right supplier's debt on the same sale grows by what is moved. *)
Joined(target, d) == [target EXCEPT !.amount = @ + debts[d].amount, !.status = "open", !.related = TRUE]

CanMove(d, party, how) == CanCorrect(d) /\ CanRelease(d, how) /\ party # debts[d].party
WrongSupplier(d, party, how) ==
    LET s == debts[d].sale
        off == Released(d, how)
        cancelled == [off.debts EXCEPT ![d].status = "cancelled"]
        other == {e \in Payables(s) : debts[e].party = party}
        target == CHOOSE e \in other : TRUE
        moved == [sales[s].costs EXCEPT ![party] = @ + sales[s].costs[debts[d].party], ![debts[d].party] = 0]
    IN /\ CanMove(d, party, how)
       /\ debts' = IF other = {}
             THEN Append(cancelled, [NewDebt("payable", party, debts[d].amount, "sale_cost", s) EXCEPT !.related = TRUE])
             ELSE [cancelled EXCEPT ![target] = Joined(@, d)]
       /\ sales' = [sales EXCEPT ![s].costs = moved]
       /\ payments' = off.payments
       /\ transfers' = off.transfers
       /\ claims' = off.claims

DuplicateCandidates(d) ==
    {e \in DOMAIN debts : e # d /\ debts[e].direction = "payable" /\ Live(e) /\ debts[e].party = debts[d].party}
IsDuplicate(d, of, how) == CanCorrect(d) /\ CanRelease(d, how) /\ of \in DuplicateCandidates(d)
DuplicateLiability(d, of, how) ==
    LET off == Released(d, how)
    IN /\ IsDuplicate(d, of, how)
       /\ debts' = [off.debts EXCEPT ![d].status = "cancelled", ![d].duplicate = of, ![of].related = TRUE]
       /\ payments' = off.payments
       /\ transfers' = off.transfers
       /\ claims' = off.claims
       /\ UNCHANGED sales

(* free_stock and cost_never_existed: a known 0 or unknown, owed to no one. *)
CanClearCost(d) == CanCorrect(d) /\ debts[d].paid = 0
NoCost(d) ==
    /\ CanClearCost(d)
    /\ debts' = [debts EXCEPT ![d].status = "cancelled"]
    /\ sales' = [sales EXCEPT ![debts[d].sale].costs[debts[d].party] = 0]
    /\ UNCHANGED <<payments, transfers, claims>>

-----------------------------------------------------------------------------
(* classify_transfers.py: what history left undecided. *)

Undecided(p) == payments[p].amount - payments[p].decided
Classify(p, as, amount) ==
    LET t == payments[p].transfer
        sum == CASE as = "credit" -> "credited" [] as = "refund" -> "refundedFrom" [] OTHER -> "wrongFrom"
    IN /\ payments[p].reversed /\ t # 0
       /\ amount <= Undecided(p)
       /\ payments' = [payments EXCEPT ![p].decided = @ + amount]
       /\ transfers' = [transfers EXCEPT ![t][sum] = @ + amount]
       /\ UNCHANGED <<sales, debts, claims>>

\* Mutant: the reference stays with the payment.
WrapForgetsReference(p) ==
    LET d == debts[payments[p].debt]
    IN /\ payments[p].old \/ WrapsAnything
       /\ payments[p].transfer = 0 /\ ToSupplier(d)
       /\ payments' = [payments EXCEPT ![p].transfer = Len(transfers) + 1]
       /\ transfers' = Append(transfers, NewTransfer(d.party, payments[p].amount, payments[p].ref))
       /\ UNCHANGED <<sales, debts, claims>>
Wrap(p) ==
    LET d == debts[payments[p].debt]
        t == Len(transfers) + 1
    IN /\ payments[p].old \/ WrapsAnything
       /\ payments[p].transfer = 0 /\ ToSupplier(d)
       /\ payments' = [payments EXCEPT ![p].transfer = t]
       /\ transfers' = Append(transfers, NewTransfer(d.party, payments[p].amount, payments[p].ref))
       /\ claims' = [r \in Refs |-> IF claims[r] = <<"payment", p>> THEN <<"transfer", t>> ELSE claims[r]]
       /\ UNCHANGED <<sales, debts>>

-----------------------------------------------------------------------------
(* The ledger as a whole. *)

(* A sale recorded before transfers, with a payment to its supplier that still
   counts or was reversed then. *)
OldSale(s, b, ref) ==
    /\ sales = <<[status |-> "active", costs |-> [p \in Parties |-> IF p = s THEN MaxAmount ELSE 0]]>>
    /\ debts = <<NewDebt("receivable", b, Max(Totals), "sale", 1),
                 [NewDebt("payable", s, MaxAmount, "sale_cost", 1) EXCEPT !.paid = IF Legacy = "active" THEN 1 ELSE 0]>>
    /\ payments = <<[NewPayment(2, s, 1, 0, 0, ref) EXCEPT !.old = TRUE, !.reversed = (Legacy = "reversed")]>>
    /\ claims = [r \in Refs |-> IF r = ref /\ Legacy = "active" THEN <<"payment", 1>> ELSE NoHolder]
NoSale ==
    /\ sales = <<>> /\ debts = <<>> /\ payments = <<>>
    /\ claims = [r \in Refs |-> NoHolder]
AnyRef == Refs \cup {NoRef}
Init ==
    /\ transfers = <<>>
    /\ \/ NoSale
       \/ /\ Legacy # "none"
          /\ \E s \in Suppliers, b \in Buyers, ref \in AnyRef : OldSale(s, b, ref)

OnSale(e) == {0} \cup IF e.source = "expense" THEN DOMAIN sales ELSE {}
Hows == {"credit", "unresolved", "unsaid"}
(* The debt the code ends up with for each supplier of a sale. *)
Readings(s) == LET parties == {debts[d].party : d \in Payables(s)}
    IN {f \in [parties -> Payables(s)] : \A p \in parties : debts[f[p]].party = p}

(* The bounds of the instance, on every sequence that grows; a step that adds
   to the ledger needs room for it. *)
Records == 2 * Len(debts) + Len(payments) + Len(transfers)
Room == Records < MaxRecords
Within ==
    /\ Len(debts') <= MaxDebts
    /\ Len(payments') <= MaxPayments
    /\ Len(transfers') <= MaxTransfers
    /\ Records' <= MaxRecords

SaleSteps ==
    \/ /\ Room /\ Len(sales) < MaxSales
       /\ \E b \in Buyers, total \in Totals, costs \in LineCosts :
             \E received \in 0..total, paid \in SUBSET {p \in Parties : costs[p] > 0}, ref \in AnyRef :
                CreateSale(b, total, costs, received, paid, ref)
    \/ \E s \in DOMAIN sales, b \in Buyers, total \in Totals, costs \in LineCosts :
          \E existing \in Readings(s) : EditSale(s, b, total, costs, existing)
    \/ \E s \in DOMAIN sales : CancelSale(s)
DebtSteps ==
    \/ \E e \in Entries : \E s \in OnSale(e) : Room /\ CreateDebt(e, s)
    \/ \E d \in DOMAIN debts : CancelDebt(d)
    \/ \E d \in DOMAIN debts, amount \in 0..MaxAmount, how \in Hows :
          amount < debts[d].amount /\ ShrinkPayable(d, amount, how)
PaymentSteps ==
    \/ /\ Room /\ Len(payments) < MaxPayments
       /\ \/ \E d \in DOMAIN debts, amount \in Amounts, ref \in AnyRef : AddPayment(d, amount, ref)
          \/ \E s \in Suppliers, amount \in Amounts, credit \in 0..MaxAmount, ref \in AnyRef :
                \E picked \in SUBSET OpenInvoices(s, {}) : PaySupplier(s, amount, credit, picked, ref)
          \/ \E s \in Suppliers, amount \in Amounts :
                \E picked \in SUBSET OpenInvoices(s, {}) : ApplyCredit(s, amount, picked)
          \/ \E b \in Buyers, amount \in Amounts, ref \in AnyRef : PayBuyer(b, amount, ref)
    \/ \E p \in DOMAIN payments : ReversePayment(p)
    \/ \E t \in DOMAIN transfers, amount \in Amounts, ref \in AnyRef : RefundTransfer(t, amount, ref)
    \/ \E t \in DOMAIN transfers, amount \in Amounts : CorrectTransfer(t, amount)
CorrectionSteps ==
    \/ \E d \in DOMAIN debts, party \in Parties, how \in Hows : WrongSupplier(d, party, how)
    \/ \E d, of \in DOMAIN debts, how \in Hows : DuplicateLiability(d, of, how)
    \/ \E d \in DOMAIN debts : NoCost(d)
    \/ \E p \in DOMAIN payments, as \in {"credit", "refund", "entry_error"}, amount \in Amounts : Classify(p, as, amount)
    \/ \E p \in DOMAIN payments : Room /\ Wrap(p)

Next == (SaleSteps \/ DebtSteps \/ PaymentSteps \/ CorrectionSteps) /\ Within
Spec == Init /\ [][Next]_vars

-----------------------------------------------------------------------------
(* Properties. *)

(* transfers.balanced: every shilling of a transfer is on an invoice, credit,
   refunded, never sent or undecided, and in one of them only. *)
TransfersBalance ==
    \A t \in DOMAIN transfers :
        LET b == Buckets(payments, transfers, t)
        IN /\ b.allocated + b.credit + b.refunded + b.entry_error + b.unresolved = transfers[t].amount
           /\ \A bucket \in DOMAIN b : b[bucket] >= 0

(* What a debt says is paid is what its payments that count come to: it is
   settled exactly when they cover it, and nothing counts on a cancelled one. *)
PaidIsAllocated ==
    \A d \in DOMAIN debts :
        LET paid == WorthOf(payments, Active(payments, d))
        IN /\ debts[d].paid = paid
           /\ IF Live(d) THEN paid <= debts[d].amount /\ (debts[d].status = "settled" <=> paid = debts[d].amount)
              ELSE paid = 0

(* Rule R1: money paid to a registered supplier is on that supplier's
   transfers, whatever became of the debt it was paid on, and what counts on
   an invoice was received by the supplier who is owed it. *)
ReceiverKeepsMoney ==
    \A p \in DOMAIN payments :
        /\ payments[p].transfer # 0 => transfers[payments[p].transfer].supplier = payments[p].to
        /\ payments[p].to \in Suppliers /\ ~payments[p].reversed => debts[payments[p].debt].party = payments[p].to

(* The records that count as money under a reference. *)
Counting(r) ==
    {<<"payment", p>> : p \in {q \in DOMAIN payments : payments[q].ref = r /\ payments[q].transfer = 0
        /\ payments[q].group = 0 /\ ~payments[q].reversed}}
    \cup {<<"group", payments[p].group>> : p \in {q \in DOMAIN payments : payments[q].ref = r
        /\ payments[q].group # 0 /\ ~payments[q].reversed}}
    \cup {<<"transfer", t>> : t \in {u \in DOMAIN transfers : transfers[u].ref = r}}
(* A transaction reference is held by the record that counts as its money, for
   as long as it counts, and by one record only (duplicates.py). *)
ReferenceFollowsMoney ==
    \A r \in Refs :
        IF claims[r] # NoHolder /\ claims[r][1] = "refund" THEN Counting(r) = {}
        ELSE Counting(r) = IF claims[r] = NoHolder THEN {} ELSE {claims[r]}

(* An expense was recorded on the sale: a payable of the sale that update_sale
   and correct_debt take for a supplier's. *)
Expensed(s) == \E d \in DOMAIN debts : debts[d].sale = s /\ debts[d].source = "expense"
(* What the lines of an active sale cost is owed to their supplier on a debt of
   that sale, and nothing else is, whatever corrections, edits and payments it
   went through, for every sale no expense was ever recorded on.  Once a debt
   of the sale was cancelled as a copy of another, less may be owed on it,
   never more. *)
CostIsOwed ==
    \A s \in DOMAIN sales : sales[s].status = "active" /\ ~Expensed(s) =>
        \A p \in Parties :
            LET owed == WorthOf(debts, {d \in Payables(s) : debts[d].party = p})
            IN owed <= sales[s].costs[p] /\ (Covered(s) = {} => owed = sales[s].costs[p])

(* update_sale: what was cancelled as a copy is "Already owed on the debt it
   duplicated: an edit must not open it again" (finance.py:724): an edit that
   leaves every supplier's lines as they are owes nobody more. *)
NotOpenedAgain ==
    [][\A s \in DOMAIN sales, b \in Buyers, total \in Totals : \A existing \in Readings(s) :
          EditSale(s, b, total, sales[s].costs, existing) =>
              WorthOf(debts, Payables(s))' <= WorthOf(debts, Payables(s))]_vars

(* update_sale: a correction "preserving every money record".  An expense
   recorded on a sale stays owed to the person it was recorded for. *)
ExpenseStands ==
    \A d \in DOMAIN debts : debts[d].source = "expense" => debts[d].party \in Names /\ debts[d].status # "deleted"

=============================================================================
