-------------------------- MODULE LedgerRulesProofs --------------------------
(***************************************************************************)
(* Theorems about Ledger that need more of it than the sums of             *)
(* LedgerProofs: who money stays with, what each sale's stock costs whom,  *)
(* and which record holds a reference.  Each adds an invariant of its own  *)
(* to IInv, and follows it through the handlers.                           *)
(***************************************************************************)
EXTENDS LedgerProofs

-----------------------------------------------------------------------------
(* Rule R1: who the money was with. *)

\* Money that counts is with whom its debt is owed to, or is a customer's on the
\* debt of a sale that may since be another customer's.
Faces(row, pay) ==
    row.party = pay.to \/ (row.direction = "receivable" /\ row.party \in Buyers /\ pay.to \in Buyers)
Placed(ds, ps) == \A p \in DOMAIN ps : ~ps[p].reversed => Faces(ds[ps[p].debt], ps[p])
\* A payment out of a transfer was made to its supplier.
Sent(ps, ts) == \A p \in DOMAIN ps : ps[p].transfer # 0 => ts[ps[p].transfer].supplier = ps[p].to
\* A payment from before transfers that has none yet still counts.
Unwrapped(ds, ps) ==
    \A p \in DOMAIN ps : ps[p].old /\ ps[p].transfer = 0 =>
        ~ps[p].reversed /\ ds[ps[p].debt].direction = "payable" /\ ps[p].to \in Suppliers
\* What a sale's customer owes is owed by a customer.
SoldTo(row) == row.sale # 0 /\ row.direction = "receivable" => row.party \in Buyers
Sold(ds) == \A d \in DOMAIN ds : SoldTo(ds[d])
Faithful(ds, ps, ts) == Placed(ds, ps) /\ Sent(ps, ts) /\ Unwrapped(ds, ps) /\ Sold(ds)

\* Debts that keep whose they are, and new ones.
Alike(ds, ds2) ==
    /\ DOMAIN ds \subseteq DOMAIN ds2
    /\ \A d \in DOMAIN ds :
          ds2[d].party = ds[d].party /\ ds2[d].direction = ds[d].direction /\ ds2[d].sale = ds[d].sale
    /\ \A d \in DOMAIN ds2 : d \notin DOMAIN ds => SoldTo(ds2[d])
\* Transfers that keep their supplier.
Theirs(ts, ts2) == \A t \in DOMAIN ts : ts2[t].supplier = ts[t].supplier
\* New payments, to whom their debts are owed and out of their transfers.
PaidTo(new, ds, ts) ==
    \A k \in DOMAIN new :
        /\ ~new[k].old /\ new[k].to = ds[new[k].debt].party
        /\ new[k].transfer # 0 => ts[new[k].transfer].supplier = new[k].to

LEMMA SuppliersApart == ASSUME NEW s \in Suppliers PROVE s \in Parties /\ s \notin Buyers
  BY LedgerAssumption DEF Parties

LEMMA FaithfulAlike ==
    ASSUME NEW ds, NEW ps, NEW ts, Sound(ds, ps, ts), Faithful(ds, ps, ts),
           NEW ds2, Alike(ds, ds2), NEW ts2, Theirs(ts, ts2)
    PROVE  Faithful(ds2, ps, ts2)
<1>1. /\ Linked(ds, ps, ts) /\ DOMAIN ts = 1..Len(ts) /\ Len(ts) \in Nat
  BY LenProperties DEF Sound
<1>2. ASSUME NEW p \in DOMAIN ps
      PROVE  /\ ps[p].debt \in DOMAIN ds /\ ps[p].transfer \in 0..Len(ts)
             /\ ds2[ps[p].debt].party = ds[ps[p].debt].party /\ ds2[ps[p].debt].direction = ds[ps[p].debt].direction
             /\ ps[p].transfer # 0 => ts2[ps[p].transfer].supplier = ts[ps[p].transfer].supplier
  <2>1. ps[p].debt \in DOMAIN ds /\ ps[p].transfer \in 0..Len(ts)
    BY <1>1 DEF Linked
  <2>2. ps[p].transfer # 0 => ps[p].transfer \in DOMAIN ts
    BY <1>1, <2>1
  <2> QED
    BY <2>1, <2>2 DEF Alike, Theirs
<1>3. Placed(ds2, ps)
  BY <1>2 DEF Faithful, Placed, Faces
<1>4. Sent(ps, ts2)
  BY <1>2 DEF Faithful, Sent
<1>5. Unwrapped(ds2, ps)
  BY <1>2 DEF Faithful, Unwrapped
<1>6. ASSUME NEW d \in DOMAIN ds2 PROVE SoldTo(ds2[d])
  BY DEF Faithful, Sold, SoldTo, Alike
<1> QED
  BY <1>3, <1>4, <1>5, <1>6 DEF Faithful, Sold

LEMMA FaithfulJoined ==
    ASSUME NEW ds, NEW ps, NEW ts, Sound(ds, ps, ts), Faithful(ds, ps, ts),
           NEW ds2, Alike(ds, ds2), NEW ts2, Theirs(ts, ts2),
           NEW new \in Seq(PaymentRecord), PaidTo(new, ds2, ts2)
    PROVE  Faithful(ds2, ps \o new, ts2)
<1>1. Faithful(ds2, ps, ts2)
  BY FaithfulAlike
<1> DEFINE all == ps \o new
           n == Len(ps)
<1>2. /\ DOMAIN all = DOMAIN ps \cup After(n, DOMAIN new)
      /\ \A p \in DOMAIN ps : all[p] = ps[p]
      /\ \A k \in DOMAIN new : all[n + k] = new[k]
  BY JoinIs DEF Sound
<1> HIDE DEF all, n
<1>3. ASSUME NEW p \in DOMAIN all, p \notin DOMAIN ps
      PROVE  /\ ~all[p].old /\ all[p].to = ds2[all[p].debt].party
             /\ all[p].transfer # 0 => ts2[all[p].transfer].supplier = all[p].to
  <2>1. PICK k \in DOMAIN new : p = n + k
    BY <1>2, <1>3 DEF After
  <2>2. all[p] = new[k]
    BY <1>2, <2>1
  <2> QED
    BY <2>2 DEF PaidTo
<1>4. Placed(ds2, all)
  BY <1>1, <1>2, <1>3 DEF Faithful, Placed, Faces
<1>5. Sent(all, ts2)
  BY <1>1, <1>2, <1>3 DEF Faithful, Sent
<1>6. Unwrapped(ds2, all)
  BY <1>1, <1>2, <1>3 DEF Faithful, Unwrapped
<1> QED
  BY <1>1, <1>4, <1>5, <1>6 DEF Faithful, all

LEMMA AlikeRow ==
    ASSUME NEW ds, NEW d \in DOMAIN ds, NEW row,
           row.party = ds[d].party, row.direction = ds[d].direction, row.sale = ds[d].sale
    PROVE  Alike(ds, [ds EXCEPT ![d] = row])
  BY DEF Alike

LEMMA AlikeStatus ==
    ASSUME NEW ds \in Seq(DebtRecord), NEW d \in DOMAIN ds, NEW st
    PROVE  Alike(ds, [ds EXCEPT ![d].status = st])
<1> DEFINE row == [ds[d] EXCEPT !.status = st]
<1>1. ds[d] \in DebtRecord
  BY RowIs
<1>2. row.party = ds[d].party /\ row.direction = ds[d].direction /\ row.sale = ds[d].sale
  BY <1>1 DEF DebtRecord
<1> HIDE DEF row
<1>3. Alike(ds, [ds EXCEPT ![d] = row])
  BY <1>2, AlikeRow
<1> QED
  BY <1>3 DEF row

LEMMA CountedAlike ==
    ASSUME NEW ds \in Seq(DebtRecord), NEW new \in Seq(PaymentRecord)
    PROVE  Alike(ds, Counted(ds, new))
<1>1. DOMAIN Counted(ds, new) = DOMAIN ds
  BY CountedIs
<1>2. ASSUME NEW d \in DOMAIN ds
      PROVE  /\ Counted(ds, new)[d].party = ds[d].party /\ Counted(ds, new)[d].direction = ds[d].direction
             /\ Counted(ds, new)[d].sale = ds[d].sale
  BY CountedIs
<1> QED
  BY <1>1, <1>2 DEF Alike

LEMMA AlikeTrans ==
    ASSUME NEW ds, NEW ds2, Alike(ds, ds2), NEW ds3, Alike(ds2, ds3)
    PROVE  Alike(ds, ds3)
  BY DEF Alike, SoldTo

\* Payments taken off their invoice leave the money where it was: a transfer
\* made for one of them now is its supplier's.
LEMMA GivenTo ==
    ASSUME IInv, Faithful(debts, payments, transfers), NEW d \in DOMAIN debts,
           NEW P \in SUBSET Active(payments, d), NEW credit \in BOOLEAN, NEW p \in P, TransferOf(d, P, p) # 0
    PROVE  TakenOff(d, P, credit).transfers[TransferOf(d, P, p)].supplier = payments[p].to
<1> DEFINE us == TakenOff(d, P, credit).transfers
           ws == Wrappings(d, P)
           known == transfers \o ws
<1>1. /\ payments \in Seq(PaymentRecord) /\ transfers \in Seq(TransferRecord) /\ debts \in Seq(DebtRecord)
      /\ Linked(debts, payments, transfers) /\ DOMAIN transfers = 1..Len(transfers) /\ Len(transfers) \in Nat
      /\ P \in SUBSET DOMAIN payments
  BY LenProperties DEF IInv, Kept, Sound, Active
<1>2. PICK c \in Nat : \E order : WrapsIn(d, P, c, order)
  BY <1>1, TransferOfIs
<1>3. PICK order : WrapsIn(d, P, c, order)
  BY <1>2
<1>4. ws \in Seq(TransferRecord) /\ DOMAIN ws = 1..c
  BY <1>3 DEF WrapsIn
<1>5. TakenTransfers(us, d, P, credit)
  BY <1>1, TakenOffTransfers
<1> HIDE DEF us, ws
<1>6. /\ \A t \in DOMAIN transfers : known[t] = transfers[t] /\ t \in DOMAIN known
      /\ \A k \in 1..c : known[Len(transfers) + k] = ws[k] /\ Len(transfers) + k \in DOMAIN known
  <2>1. /\ DOMAIN known = DOMAIN transfers \cup After(Len(transfers), DOMAIN ws)
        /\ \A t \in DOMAIN transfers : known[t] = transfers[t]
        /\ \A k \in DOMAIN ws : known[Len(transfers) + k] = ws[k]
    BY <1>1, <1>4, JoinIs
  <2> HIDE DEF known
  <2> QED
    BY <1>4, <2>1 DEF After
<1>7. \A t \in DOMAIN known : us[t].supplier = known[t].supplier
  BY <1>5 DEF TakenTransfers, ws
<1> HIDE DEF known
<1>8. CASE payments[p].transfer # 0
  <2>1. TransferOf(d, P, p) = payments[p].transfer /\ payments[p].transfer \in 0..Len(transfers)
    BY <1>1, <1>8, TransferOfFits DEF Linked
  <2>2. TransferOf(d, P, p) \in DOMAIN transfers
    BY <1>1, <1>8, <2>1
  <2>3. transfers[payments[p].transfer].supplier = payments[p].to
    BY <1>1, <1>8 DEF Faithful, Sent
  <2> QED
    BY <1>6, <1>7, <2>1, <2>2, <2>3 DEF us
<1>9. CASE payments[p].transfer = 0
  <2>1. p \in Wrapped(d, P)
    BY <1>3, <1>9 DEF WrapsIn
  <2>2. PICK k \in 1..c : order[k] = p
    BY <1>3, <2>1 DEF WrapsIn
  <2>3. TransferOf(d, P, p) = Len(transfers) + k /\ ws[k].supplier = debts[d].party
    BY <1>3, <2>2 DEF WrapsIn, ws
  <2>4. debts[d].party = payments[p].to
    <3>1. payments[p].debt = d /\ ~payments[p].reversed /\ debts[d].direction = "payable"
      BY <2>1 DEF Wrapped, ToSupplier, Active
    <3> QED
      BY <1>1, <3>1 DEF Faithful, Placed, Faces
  <2> QED
    BY <1>6, <1>7, <2>3, <2>4 DEF us
<1> QED
  BY <1>8, <1>9

LEMMA FaithfulOff ==
    ASSUME IInv, Faithful(debts, payments, transfers), NEW d \in DOMAIN debts,
           NEW P \in SUBSET Active(payments, d), NEW credit \in BOOLEAN
    PROVE  LET off == TakenOff(d, P, credit)
           IN /\ Sound(off.debts, off.payments, off.transfers)
              /\ Faithful(off.debts, off.payments, off.transfers)
              /\ Alike(debts, off.debts)
<1> DEFINE off == TakenOff(d, P, credit)
           es == off.debts
           qs == off.payments
           us == off.transfers
<1>1. /\ payments \in Seq(PaymentRecord) /\ transfers \in Seq(TransferRecord) /\ debts \in Seq(DebtRecord)
      /\ Sound(debts, payments, transfers) /\ Booked(debts, payments)
      /\ Linked(debts, payments, transfers) /\ DOMAIN transfers = 1..Len(transfers) /\ Len(transfers) \in Nat
      /\ P \in SUBSET DOMAIN payments
  BY LenProperties DEF IInv, Kept, Sound, Active
<1>2. Sound(es, qs, us) /\ TakenDebts(off, d, P) /\ TakenRows(qs, d, P, credit) /\ TakenTransfers(us, d, P, credit)
  BY <1>1, TakenOffKeeps
<1>3. ASSUME NEW p \in P, TransferOf(d, P, p) # 0
      PROVE  us[TransferOf(d, P, p)].supplier = payments[p].to
  BY <1>3, GivenTo
<1> HIDE DEF off
<1>4. Alike(debts, es)
  BY <1>2 DEF TakenDebts, Alike
<1>5. ASSUME NEW t \in DOMAIN transfers PROVE us[t].supplier = transfers[t].supplier
  <2> DEFINE known == transfers \o Wrappings(d, P)
  <2>1. Wrappings(d, P) \in Seq(TransferRecord)
    BY <1>1, TransferOfIs DEF WrapsIn
  <2>2. t \in DOMAIN known /\ known[t] = transfers[t]
    BY <1>1, <2>1, JoinIs
  <2>3. \A u \in DOMAIN known : us[u].supplier = known[u].supplier
    BY <1>2 DEF TakenTransfers
  <2> HIDE DEF known
  <2> QED
    BY <2>2, <2>3
<1>6. /\ DOMAIN qs = DOMAIN payments
      /\ \A p \in DOMAIN payments : p \notin P => qs[p] = payments[p]
      /\ \A p \in P : /\ qs[p].debt = payments[p].debt /\ qs[p].to = payments[p].to /\ qs[p].old = payments[p].old
                      /\ qs[p].reversed /\ qs[p].transfer = TransferOf(d, P, p)
  BY <1>2 DEF TakenRows
<1>7. ASSUME NEW p \in DOMAIN payments
      PROVE  /\ payments[p].debt \in DOMAIN debts /\ payments[p].transfer \in 0..Len(transfers)
             /\ es[payments[p].debt].party = debts[payments[p].debt].party
             /\ es[payments[p].debt].direction = debts[payments[p].debt].direction
  BY <1>1, <1>4 DEF Linked, Alike
<1> HIDE DEF es, qs, us
<1>8. Placed(es, qs)
  BY <1>6, <1>7 DEF Faithful, Placed, Faces
<1>9. ASSUME NEW p \in DOMAIN qs, qs[p].transfer # 0 PROVE us[qs[p].transfer].supplier = qs[p].to
  <2>1. CASE p \in P
    BY <1>3, <1>6, <1>9, <2>1
  <2>2. CASE p \notin P
    <3>1. qs[p] = payments[p] /\ payments[p].transfer \in DOMAIN transfers
      BY <1>1, <1>6, <1>7, <1>9, <2>2
    <3> QED
      BY <1>5, <1>6, <1>9, <3>1 DEF Faithful, Sent
  <2> QED
    BY <2>1, <2>2
<1>10. ASSUME NEW p \in P, payments[p].old PROVE TransferOf(d, P, p) # 0
  <2>1. p \in DOMAIN payments /\ payments[p].debt = d /\ ~payments[p].reversed
    BY DEF Active
  <2>2. payments[p].transfer # 0 => TransferOf(d, P, p) = payments[p].transfer
    BY <1>1, TransferOfFits
  <2>3. ToSupplier(debts[d]) => TransferOf(d, P, p) # 0
    BY <1>1, TransferOfFits
  <2>4. ASSUME payments[p].transfer = 0 PROVE ToSupplier(debts[d])
    <3>1. debts[d].direction = "payable" /\ payments[p].to \in Suppliers
      BY <1>10, <2>1, <2>4 DEF Faithful, Unwrapped
    <3>2. Faces(debts[d], payments[p])
      BY <2>1 DEF Faithful, Placed
    <3> QED
      BY <3>1, <3>2 DEF Faces, ToSupplier
  <2> QED
    BY <2>2, <2>3, <2>4
<1>11. ASSUME NEW p \in DOMAIN qs, qs[p].old, qs[p].transfer = 0
       PROVE  ~qs[p].reversed /\ es[qs[p].debt].direction = "payable" /\ qs[p].to \in Suppliers
  <2>1. p \notin P
    BY <1>6, <1>10, <1>11
  <2>2. qs[p] = payments[p] /\ p \in DOMAIN payments
    BY <1>6, <2>1
  <2> QED
    BY <1>7, <1>11, <2>2 DEF Faithful, Unwrapped
<1>12. Sold(es)
  BY <1>4 DEF Faithful, Sold, SoldTo, Alike
<1>13. Sent(qs, us) /\ Unwrapped(es, qs)
  BY <1>9, <1>11 DEF Sent, Unwrapped
<1> QED
  BY <1>2, <1>4, <1>8, <1>12, <1>13 DEF Faithful, es, qs, us, off


\* Payments of a list, with transfers of their own for registered suppliers.
LEMMA MoneyFaithful ==
    ASSUME NEW ds, NEW ps, Sound(ds, ps, transfers), Faithful(ds, ps, transfers),
           NEW n \in Nat, NEW list, Due(list, n, ds), NEW ref \in Refs \cup {NoRef}
    PROVE  LET money == NewMoney(ds, list, ref)
           IN Faithful(Counted(ds, money.payments), ps \o money.payments, transfers \o money.transfers)
<1> DEFINE new == NewMoney(ds, list, ref).payments
           made == NewMoney(ds, list, ref).transfers
           old == Len(transfers)
           all == transfers \o made
           cs == Counted(ds, new)
<1>1. ds \in Seq(DebtRecord) /\ transfers \in Seq(TransferRecord)
  BY DEF Sound
<1>2. new \in Seq(PaymentRecord) /\ made \in Seq(TransferRecord)
  BY <1>1, NewMoneyIs
<1>3. \A k \in DOMAIN new :
         /\ new[k].debt = list[k][1] /\ new[k].to = ds[list[k][1]].party /\ ~new[k].old
         /\ IF ToSupplier(ds[list[k][1]])
            THEN \E r \in DOMAIN made : new[k].transfer = old + r /\ made[r].supplier = new[k].to
            ELSE new[k].transfer = 0
  BY <1>1, NewMoneyIs
<1>4. \A k \in DOMAIN new : list[k][1] \in DOMAIN ds
  <2>1. DOMAIN new = 1..n
    BY <1>1, NewMoneyIs
  <2> QED
    BY <2>1 DEF Due
<1> HIDE DEF new, made
<1>5. Alike(ds, cs)
  BY <1>1, <1>2, CountedAlike
<1>6. /\ \A t \in DOMAIN transfers : all[t] = transfers[t]
      /\ \A r \in DOMAIN made : all[old + r] = made[r]
  BY <1>1, <1>2, JoinIs
<1> HIDE DEF all, old
<1>7. Theirs(transfers, all)
  BY <1>6 DEF Theirs
<1>8. ASSUME NEW k \in DOMAIN new
      PROVE  /\ ~new[k].old /\ new[k].to = cs[new[k].debt].party
             /\ new[k].transfer # 0 => all[new[k].transfer].supplier = new[k].to
  <2>1. new[k].to = cs[new[k].debt].party
    BY <1>3, <1>4, <1>5 DEF Alike
  <2>2. ASSUME new[k].transfer # 0 PROVE all[new[k].transfer].supplier = new[k].to
    BY <1>3, <1>6, <2>2
  <2> QED
    BY <1>3, <2>1, <2>2
<1> HIDE DEF cs
<1>9. PaidTo(new, cs, all)
  BY <1>8 DEF PaidTo
<1>10. Faithful(cs, ps \o new, all)
  BY <1>2, <1>5, <1>7, <1>9, FaithfulJoined
<1> QED
  BY <1>10 DEF cs, new, all, made

\* Payments of one amount over debts, out of a transfer of who they are owed to.
LEMMA SplitFaithful ==
    ASSUME NEW ds, NEW ps, NEW ts, Sound(ds, ps, ts), Faithful(ds, ps, ts),
           NEW n \in Nat, NEW ids, Payable(ids, n, ds), NEW new \in Seq(PaymentRecord),
           NEW transfer, NEW group, NEW ref, OneMoney(new, ids, n, ds, transfer, group, ref),
           NEW ts2, Theirs(ts, ts2), transfer # 0 => \A k \in 1..n : ts2[transfer].supplier = ds[ids[k]].party
    PROVE  Faithful(Counted(ds, new), ps \o new, ts2)
<1> DEFINE cs == Counted(ds, new)
<1>1. ds \in Seq(DebtRecord)
  BY DEF Sound
<1>2. Alike(ds, cs)
  BY <1>1, CountedAlike
<1> HIDE DEF cs
<1>3. ASSUME NEW m \in DOMAIN new
      PROVE  /\ ~new[m].old /\ new[m].to = cs[new[m].debt].party
             /\ new[m].transfer # 0 => ts2[new[m].transfer].supplier = new[m].to
  <2>1. PICK k \in 1..n : new[m].debt = ids[k] /\ new[m].to = ds[ids[k]].party
    BY DEF OneMoney
  <2>2. new[m].transfer = transfer /\ ~new[m].old
    BY DEF OneMoney
  <2>3. ids[k] \in DOMAIN ds
    BY DEF Payable
  <2>4. cs[ids[k]].party = ds[ids[k]].party
    BY <1>2, <2>3 DEF Alike
  <2> QED
    BY <2>1, <2>2, <2>4
<1>4. PaidTo(new, cs, ts2)
  BY <1>3 DEF PaidTo
<1>5. Faithful(cs, ps \o new, ts2)
  BY <1>2, <1>4, FaithfulJoined
<1> QED
  BY <1>5 DEF cs

\* Credit of one supplier over invoices of that supplier.
LEMMA CreditFaithful ==
    ASSUME NEW ds, NEW ps, NEW ts, Sound(ds, ps, ts), Faithful(ds, ps, ts), NEW s,
           NEW n \in Nat, NEW over, Payable(over, n, ds), \A i \in 1..n : ds[over[i]].party = s,
           NEW m \in Nat, NEW ids, Holding(ids, m, ts), \A j \in 1..m : ts[ids[j]].supplier = s, NEW amount \in Nat
    PROVE  LET new == CreditPieces(ds, ts, over, ids, amount)
           IN Faithful(Counted(ds, new), ps \o new, CreditUsed(ts, new))
<1> DEFINE new == CreditPieces(ds, ts, over, ids, amount)
           cs == Counted(ds, new)
           us == CreditUsed(ts, new)
<1>1. ds \in Seq(DebtRecord) /\ ts \in Seq(TransferRecord)
  BY DEF Sound
<1>2. new \in Seq(PaymentRecord)
  BY <1>1, PiecesIs
<1>3. \A k \in DOMAIN new :
         /\ ~new[k].old
         /\ \E i \in 1..n : new[k].debt = over[i] /\ new[k].to = ds[over[i]].party
         /\ \E j \in 1..m : new[k].transfer = ids[j]
  BY <1>1, PiecesIs
<1> HIDE DEF new
<1>4. Alike(ds, cs)
  BY <1>1, <1>2, CountedAlike
<1>5. \A t \in DOMAIN ts : us[t].supplier = ts[t].supplier
  BY <1>1, <1>2, CreditUsedIs
<1> HIDE DEF cs, us
<1>6. ASSUME NEW k \in DOMAIN new
      PROVE  /\ ~new[k].old /\ new[k].to = cs[new[k].debt].party
             /\ us[new[k].transfer].supplier = new[k].to
  <2>1. PICK i \in 1..n : new[k].debt = over[i] /\ new[k].to = ds[over[i]].party
    BY <1>3
  <2>2. PICK j \in 1..m : new[k].transfer = ids[j]
    BY <1>3
  <2>3. over[i] \in DOMAIN ds /\ ids[j] \in DOMAIN ts
    BY DEF Payable, Holding
  <2>4. cs[over[i]].party = ds[over[i]].party
    BY <1>4, <2>3 DEF Alike
  <2>5. us[ids[j]].supplier = ts[ids[j]].supplier
    BY <1>5, <2>3
  <2> QED
    BY <1>3, <2>1, <2>2, <2>4, <2>5
<1>7. PaidTo(new, cs, us)
  BY <1>6 DEF PaidTo
<1>8. Theirs(ts, us)
  BY <1>5 DEF Theirs
<1>9. Faithful(cs, ps \o new, us)
  BY <1>2, <1>4, <1>7, <1>8, FaithfulJoined
<1> QED
  BY <1>9 DEF new, cs, us

LEMMA AddPaymentFaithful ==
    ASSUME IInv, Faithful(debts, payments, transfers),
           NEW d \in DOMAIN debts, NEW amount \in Amounts, NEW ref \in AnyRef, AddPayment(d, amount, ref)
    PROVE  Faithful(debts', payments', transfers')
<1> DEFINE list == <<<<d, amount>>>>
           money == NewMoney(debts, list, ref)
           new == money.payments
<1>1. Sound(debts, payments, transfers) /\ debts \in Seq(DebtRecord)
  BY DEF IInv, Kept, Sound
<1>2. amount \in Nat \ {0} /\ amount <= debts[d].amount - debts[d].paid
  <2>1. amount <= Balances(debts)[d]
    BY DEF AddPayment, CanPay, Balance
  <2> QED
    BY <1>1, <2>1, RowIs, LedgerAssumption DEF Amounts
<1>3. Due(list, 1, debts) /\ ref \in Refs \cup {NoRef}
  <2>1. ref \in Refs \cup {NoRef}
    BY DEF AnyRef
  <2>2. DOMAIN list = 1..1 /\ Len(list) = 1 /\ list[1] = <<d, amount>> /\ list[1][1] = d /\ list[1][2] = amount
    OBVIOUS
  <2>3. ASSUME NEW k \in 1..1 PROVE k = 1
    OBVIOUS
  <2> HIDE DEF list
  <2> QED
    BY <1>2, <2>1, <2>2, <2>3 DEF Due
<1>4. /\ debts' = Counted(debts, new) /\ payments' = payments \o new
      /\ transfers' = transfers \o money.transfers
  BY DEF AddPayment
<1> HIDE DEF list
<1>5. Faithful(Counted(debts, new), payments \o new, transfers \o money.transfers)
  BY <1>1, <1>3, MoneyFaithful
<1> HIDE DEF new, money
<1> QED
  BY <1>4, <1>5

LEMMA PayBuyerFaithful ==
    ASSUME IInv, Faithful(debts, payments, transfers),
           NEW b \in Buyers, NEW amount \in Amounts, NEW ref \in AnyRef, PayBuyer(b, amount, ref)
    PROVE  Faithful(debts', payments', transfers')
<1> DEFINE S == OpenBuyerDebts(b)
           g == Max(Groups) + 1
           new == Split(debts, InOrder(S), amount, 0, g, ref)
<1>1. /\ Sound(debts, payments, transfers) /\ Booked(debts, payments) /\ debts \in Seq(DebtRecord)
      /\ payments \in Seq(PaymentRecord)
  BY DEF IInv, Kept, Sound
<1>2. amount \in Nat /\ ref \in Refs \cup {NoRef} /\ g \in Nat
  BY <1>1, NextGroup, LedgerAssumption DEF Amounts, AnyRef
<1>3. debts' = Counted(debts, new) /\ payments' = payments \o new /\ transfers' = transfers
  BY DEF PayBuyer
<1> HIDE DEF g
<1>4. S \in SUBSET DOMAIN debts /\ \A d \in S : debts[d].status = "open"
  BY DEF OpenBuyerDebts
<1> HIDE DEF S
<1>5. PICK n \in Nat : Payable(InOrder(S), n, debts)
  BY <1>1, <1>4, OpenPayable
<1>6. PICK z \in Nat : z = 0
  OBVIOUS
<1> DEFINE one == Split(debts, InOrder(S), amount, z, g, ref)
<1>7. one \in Seq(PaymentRecord) /\ OneMoney(one, InOrder(S), n, debts, z, g, ref)
  BY <1>1, <1>2, <1>5, SplitIs
<1>8. one = new
  BY <1>6
<1> HIDE DEF one, new
<1>9. Theirs(transfers, transfers)
  BY DEF Theirs
<1>10. Faithful(Counted(debts, one), payments \o one, transfers)
  BY <1>1, <1>5, <1>6, <1>7, <1>9, SplitFaithful
<1> QED
  BY <1>3, <1>8, <1>10

\* Credit of a supplier, used on debts of S that are open and theirs.
LEMMA CreditStaysFaithful ==
    ASSUME IInv, Faithful(debts, payments, transfers), NEW s \in Suppliers, NEW S \in SUBSET DOMAIN debts,
           \A d \in S : debts[d].status = "open" /\ debts[d].party = s, NEW amount \in Nat
    PROVE  LET new == CreditPieces(debts, transfers, InOrder(S), CreditHolders(transfers, s), amount)
           IN Faithful(Counted(debts, new), payments \o new, CreditUsed(transfers, new))
<1> DEFINE o == InOrder(S)
           ids == CreditHolders(transfers, s)
<1>1. /\ Sound(debts, payments, transfers) /\ Booked(debts, payments) /\ debts \in Seq(DebtRecord)
      /\ transfers \in Seq(TransferRecord)
  BY DEF IInv, Kept, Sound
<1>2. PICK n \in Nat : n = Cardinality(S) /\ Payable(o, n, debts)
  BY <1>1, OpenPayable
<1>3. \A i \in 1..n : debts[o[i]].party = s
  BY <1>1, <1>2, OpenPayable
<1>4. PICK m \in Nat : /\ Holding(ids, m, transfers) /\ \A j \in 1..m : transfers[ids[j]].supplier = s
  BY <1>1, HoldersHold
<1> HIDE DEF o, ids
<1> DEFINE new == CreditPieces(debts, transfers, o, ids, amount)
<1>5. Faithful(Counted(debts, new), payments \o new, CreditUsed(transfers, new))
  BY <1>1, <1>2, <1>3, <1>4, CreditFaithful
<1> QED
  BY <1>5 DEF o, ids

LEMMA ApplyCreditFaithful ==
    ASSUME IInv, Faithful(debts, payments, transfers),
           NEW s \in Suppliers, NEW amount \in Amounts, NEW picked, ApplyCredit(s, amount, picked)
    PROVE  Faithful(debts', payments', transfers')
<1> DEFINE S == OpenInvoices(s, picked)
           new == CreditPieces(debts, transfers, InOrder(S), CreditHolders(transfers, s), amount)
<1>1. debts' = Counted(debts, new) /\ payments' = payments \o new /\ transfers' = CreditUsed(transfers, new)
  BY DEF ApplyCredit
<1>2. /\ S \in SUBSET DOMAIN debts /\ amount \in Nat
      /\ \A d \in S : debts[d].status = "open" /\ debts[d].party = s
  BY LedgerAssumption DEF OpenInvoices, Amounts
<1> HIDE DEF S
<1>3. Faithful(Counted(debts, new), payments \o new, CreditUsed(transfers, new))
  BY <1>2, CreditStaysFaithful
<1> HIDE DEF new
<1> QED
  BY <1>1, <1>3

LEMMA PaySupplierFaithful ==
    ASSUME IInv, Faithful(debts, payments, transfers),
           NEW s \in Suppliers, NEW amount \in Amounts, NEW credit \in 0..MaxAmount, NEW ref \in AnyRef,
           NEW picked, PaySupplier(s, amount, credit, picked, ref)
    PROVE  Faithful(debts', payments', transfers')
<1> DEFINE S == OpenInvoices(s, picked)
           ids == InOrder(S)
           used == CreditPieces(debts, transfers, ids, CreditHolders(transfers, s), credit)
           rest == Counted(debts, used)
           t == Len(transfers) + 1
           new == Split(rest, ids, amount, t, 0, NoRef)
           us == CreditUsed(transfers, used)
           row == NewTransfer(s, amount, ref)
           all == Append(us, row)
<1>1. /\ debts' = Counted(rest, new) /\ payments' = payments \o used \o new /\ transfers' = all
      /\ amount + credit <= Owed(S)
  BY DEF PaySupplier, CanPaySupplier
<1>2. /\ S \in SUBSET DOMAIN debts /\ (\A d \in S : debts[d].status = "open" /\ debts[d].party = s)
      /\ amount \in Nat \ {0} /\ credit \in Nat /\ ref \in Refs \cup {NoRef}
  BY LedgerAssumption DEF OpenInvoices, Amounts, AnyRef
<1>3. /\ Sound(debts, payments, transfers) /\ Booked(debts, payments) /\ debts \in Seq(DebtRecord)
      /\ transfers \in Seq(TransferRecord) /\ Len(transfers) \in Nat
  BY LenProperties DEF IInv, Kept, Sound
<1> HIDE DEF S
<1>4. PICK n \in Nat : n = Cardinality(S) /\ Payable(ids, n, debts) /\ SizeOfAll(ids, n, debts) = Owed(S)
  BY <1>2, <1>3, OpenPayable
<1>5. \A i \in 1..n : ids[i] \in S
  BY <1>2, <1>3, <1>4, OpenPayable
<1>6. used \in Seq(PaymentRecord)
  BY <1>2, CreditKeeps
<1>7. Sound(rest, payments \o used, us)
  BY <1>2, CreditKeeps
<1>8. \A i \in 1..n : WorthOf(used, On(used, ids[i])) <= Share(SizesOf(ids, debts), credit, i)
  BY <1>2, <1>4, CreditKeeps
<1>9. Faithful(rest, payments \o used, us)
  BY <1>2, CreditStaysFaithful
<1>10. amount \in Nat /\ amount + credit <= SizeOfAll(ids, n, debts)
  BY <1>1, <1>2, <1>4
<1> HIDE DEF ids, used
<1>11. Payable(ids, n, rest)
  BY <1>2, <1>3, <1>4, <1>6, <1>8, <1>10, RestPays
<1>12. us \in Seq(TransferRecord) /\ Len(us) = Len(transfers) /\ DOMAIN us = 1..Len(transfers)
  BY <1>3, <1>6, CreditUsedIs, LenProperties
<1>13. \A i \in 1..n : rest[ids[i]].party = s
  <2>1. \A d \in DOMAIN debts : rest[d].party = debts[d].party
    BY <1>3, <1>6, CountedIs
  <2> QED
    BY <1>2, <1>5, <2>1
<1> HIDE DEF rest, us
<1>14. row \in TransferRecord /\ row.supplier = s
  BY <1>2, NewTransferIs
<1> HIDE DEF row
<1>15. (\A u \in DOMAIN us : all[u] = us[u]) /\ all[t] = row
  BY <1>3, <1>12, <1>14, AppendProperties
<1> HIDE DEF all
<1>16. Theirs(us, all)
  BY <1>15 DEF Theirs
<1>17. PICK z \in Nat, u \in Nat, r \in Refs \cup {NoRef}, a \in Nat : z = 0 /\ u = t /\ r = NoRef /\ a = amount
  BY <1>2, <1>3
<1> DEFINE one == Split(rest, ids, a, u, z, r)
<1>18. one = new
  BY <1>17
<1>19. one \in Seq(PaymentRecord) /\ OneMoney(one, ids, n, rest, u, z, r)
  <2>1. rest \in Seq(DebtRecord)
    BY <1>7 DEF Sound
  <2> QED
    BY <1>11, <2>1, SplitIs
<1> HIDE DEF one, new
<1>20. \A i \in 1..n : all[u].supplier = rest[ids[i]].party
  BY <1>13, <1>14, <1>15, <1>17
<1>21. Faithful(Counted(rest, one), (payments \o used) \o one, all)
  BY <1>7, <1>9, <1>11, <1>16, <1>19, <1>20, SplitFaithful
<1> QED
  BY <1>1, <1>18, <1>21

LEMMA SupplierStays ==
    ASSUME NEW ts \in Seq(TransferRecord), NEW t \in DOMAIN ts,
           NEW field \in {"used", "credited", "refunded", "wrong", "refundedFrom", "wrongFrom"}, NEW sum
    PROVE  Theirs(ts, [ts EXCEPT ![t][field] = sum])
<1>1. ts[t] \in TransferRecord
  BY CreditIs
<1>2. [ts[t] EXCEPT ![field] = sum].supplier = ts[t].supplier
  BY <1>1 DEF TransferRecord
<1> QED
  BY <1>2 DEF Theirs

LEMMA RefundTransferFaithful ==
    ASSUME IInv, Faithful(debts, payments, transfers),
           NEW t \in DOMAIN transfers, NEW amount \in Amounts, NEW ref \in AnyRef,
           RefundTransfer(t, amount, ref) \/ CorrectTransfer(t, amount)
    PROVE  Faithful(debts', payments', transfers')
<1>1. Sound(debts, payments, transfers) /\ transfers \in Seq(TransferRecord)
  BY DEF IInv, Kept, Sound
<1>2. Alike(debts, debts)
  BY DEF Alike
<1>3. CASE RefundTransfer(t, amount, ref)
  <2>1. /\ transfers' = [transfers EXCEPT ![t]["refunded"] = transfers[t].refunded + amount]
        /\ debts' = debts /\ payments' = payments
    BY <1>3 DEF RefundTransfer
  <2>2. Theirs(transfers, transfers')
    BY <1>1, <2>1, SupplierStays
  <2> QED
    BY <1>1, <1>2, <2>1, <2>2, FaithfulAlike
<1>4. CASE CorrectTransfer(t, amount)
  <2>1. /\ transfers' = [transfers EXCEPT ![t]["wrong"] = transfers[t].wrong + amount]
        /\ debts' = debts /\ payments' = payments
    BY <1>4 DEF CorrectTransfer
  <2>2. Theirs(transfers, transfers')
    BY <1>1, <2>1, SupplierStays
  <2> QED
    BY <1>1, <1>2, <2>1, <2>2, FaithfulAlike
<1> QED
  BY <1>3, <1>4

LEMMA ClassifyFaithful ==
    ASSUME IInv, Faithful(debts, payments, transfers),
           NEW p \in DOMAIN payments, NEW as \in {"credit", "refund", "entry_error"}, NEW amount \in Amounts,
           Classify(p, as, amount)
    PROVE  Faithful(debts', payments', transfers')
<1> DEFINE t == payments[p].transfer
<1>1. /\ Sound(debts, payments, transfers) /\ transfers \in Seq(TransferRecord) /\ payments \in Seq(PaymentRecord)
      /\ Linked(debts, payments, transfers) /\ DOMAIN transfers = 1..Len(transfers) /\ Len(transfers) \in Nat
  BY LenProperties DEF IInv, Kept, Sound
<1>2. PICK sum \in {"credited", "refundedFrom", "wrongFrom"} :
         /\ transfers' = [transfers EXCEPT ![t][sum] = @ + amount]
         /\ payments' = [payments EXCEPT ![p].decided = @ + amount] /\ debts' = debts /\ t # 0
  BY DEF Classify
<1>3. t \in DOMAIN transfers
  BY <1>1, <1>2 DEF Linked
<1>4. Theirs(transfers, transfers')
  BY <1>1, <1>2, <1>3, SupplierStays
<1>5. Alike(debts, debts)
  BY DEF Alike
<1>6. Faithful(debts, payments, transfers')
  BY <1>1, <1>4, <1>5, FaithfulAlike
<1>7. DOMAIN payments' = DOMAIN payments
  BY <1>2
<1>8. ASSUME NEW q \in DOMAIN payments
      PROVE  /\ payments'[q].debt = payments[q].debt /\ payments'[q].to = payments[q].to
             /\ payments'[q].reversed = payments[q].reversed /\ payments'[q].old = payments[q].old
             /\ payments'[q].transfer = payments[q].transfer
  <2>1. payments[p] \in PaymentRecord
    BY <1>1, PaymentIs
  <2> QED
    BY <1>2, <2>1 DEF PaymentRecord
<1>9. Placed(debts, payments') /\ Sent(payments', transfers') /\ Unwrapped(debts, payments')
  <2>1. Placed(debts, payments')
    BY <1>6, <1>7, <1>8 DEF Faithful, Placed, Faces
  <2>2. Sent(payments', transfers')
    BY <1>6, <1>7, <1>8 DEF Faithful, Sent
  <2>3. Unwrapped(debts, payments')
    BY <1>6, <1>7, <1>8 DEF Faithful, Unwrapped
  <2> QED
    BY <2>1, <2>2, <2>3
<1> QED
  BY <1>2, <1>6, <1>9 DEF Faithful

\* An old payment is still with the supplier its debt is owed to when it gets
\* its transfer.
LEMMA WrapFaithful ==
    ASSUME IInv, Faithful(debts, payments, transfers), ~WrapsAnything, NEW p \in DOMAIN payments, Wrap(p)
    PROVE  Faithful(debts', payments', transfers')
<1> DEFINE row == debts[payments[p].debt]
           t == Len(transfers) + 1
           made == NewTransfer(row.party, payments[p].amount, payments[p].ref)
<1>1. /\ Sound(debts, payments, transfers) /\ transfers \in Seq(TransferRecord) /\ payments \in Seq(PaymentRecord)
      /\ Linked(debts, payments, transfers) /\ DOMAIN transfers = 1..Len(transfers) /\ Len(transfers) \in Nat
  BY LenProperties DEF IInv, Kept, Sound
<1>2. /\ payments' = [payments EXCEPT ![p].transfer = t] /\ transfers' = Append(transfers, made) /\ debts' = debts
      /\ payments[p].old /\ payments[p].transfer = 0 /\ ToSupplier(row)
  BY DEF Wrap
<1>3. row.party = payments[p].to
  <2>1. ~payments[p].reversed
    BY <1>2 DEF Faithful, Unwrapped
  <2> QED
    BY <1>2, <2>1 DEF Faithful, Placed, Faces, ToSupplier
<1>4. made \in TransferRecord /\ made.supplier = row.party
  <2>1. row.party \in Suppliers /\ payments[p].amount \in Nat \ {0} /\ payments[p].ref \in Refs \cup {NoRef}
    BY <1>1, <1>2, PaymentIs DEF ToSupplier
  <2> QED
    BY <2>1, NewTransferIs
<1> HIDE DEF made, row
<1>5. (\A u \in DOMAIN transfers : transfers'[u] = transfers[u]) /\ transfers'[t] = made
  BY <1>1, <1>2, <1>4, AppendProperties
<1>6. DOMAIN payments' = DOMAIN payments
  BY <1>2
<1>7. ASSUME NEW q \in DOMAIN payments
      PROVE  /\ payments'[q].debt = payments[q].debt /\ payments'[q].to = payments[q].to
             /\ payments'[q].reversed = payments[q].reversed /\ payments'[q].old = payments[q].old
             /\ payments'[q].transfer = IF q = p THEN t ELSE payments[q].transfer
  <2>1. payments[p] \in PaymentRecord
    BY <1>1, PaymentIs
  <2> HIDE DEF t
  <2> QED
    BY <1>2, <2>1 DEF PaymentRecord
<1>8. Placed(debts, payments')
  BY <1>6, <1>7 DEF Faithful, Placed, Faces
<1>9. ASSUME NEW q \in DOMAIN payments', payments'[q].transfer # 0
      PROVE  transfers'[payments'[q].transfer].supplier = payments'[q].to
  <2>1. CASE q = p
    BY <1>3, <1>4, <1>5, <1>6, <1>7, <2>1
  <2>2. CASE q # p
    <3>1. payments'[q].transfer = payments[q].transfer /\ payments[q].transfer \in DOMAIN transfers
      BY <1>1, <1>6, <1>7, <1>9, <2>2 DEF Linked
    <3> QED
      BY <1>5, <1>6, <1>7, <1>9, <3>1 DEF Faithful, Sent
  <2> QED
    BY <2>1, <2>2
<1>10. ASSUME NEW q \in DOMAIN payments', payments'[q].old, payments'[q].transfer = 0
       PROVE  ~payments'[q].reversed /\ debts[payments'[q].debt].direction = "payable" /\ payments'[q].to \in Suppliers
  <2>1. payments[q].transfer = 0
    BY <1>1, <1>6, <1>7, <1>10
  <2> QED
    BY <1>6, <1>7, <1>10, <2>1 DEF Faithful, Unwrapped
<1>11. Sent(payments', transfers') /\ Unwrapped(debts, payments')
  BY <1>9, <1>10 DEF Sent, Unwrapped
<1> QED
  BY <1>2, <1>8, <1>11 DEF Faithful

\* Who a payment is with does not depend on the debts nothing changes hands on.
LEMMA DebtsFaithful ==
    ASSUME IInv, Faithful(debts, payments, transfers), NEW ds2, Alike(debts, ds2)
    PROVE  Faithful(ds2, payments, transfers)
<1>1. Sound(debts, payments, transfers)
  BY DEF IInv, Kept
<1>2. Theirs(transfers, transfers)
  BY DEF Theirs
<1> QED
  BY <1>1, <1>2, FaithfulAlike

LEMMA CreateDebtFaithful ==
    ASSUME IInv, Faithful(debts, payments, transfers), NEW e \in Entries, NEW s \in OnSale(e), CreateDebt(e, s)
    PROVE  Faithful(debts', payments', transfers')
<1> DEFINE row == NewDebt(e.direction, e.party, e.amount, e.source, s)
           ds2 == Append(debts, row)
<1>1. debts \in Seq(DebtRecord) /\ DOMAIN debts = 1..Len(debts) /\ Len(debts) \in Nat /\ sales \in Seq(SaleRecord)
  BY LenProperties DEF IInv, Kept, Sound
<1>2. s \in Nat
  <2>1. DOMAIN sales \subseteq Nat
    BY <1>1, LenProperties
  <2> QED
    BY <2>1 DEF OnSale
<1>3. /\ e.direction \in {"receivable", "payable"} /\ e.party \in Parties \cup Buyers
      /\ e.amount \in Nat \ {0} /\ e.source \in {"manual", "expense", "batch_receipt"}
      /\ e.source = "expense" => e.direction = "payable"
  BY LedgerAssumption
<1>4. row \in DebtRecord /\ row.direction = e.direction /\ row.sale = s
  BY <1>2, <1>3, NewDebtIs
<1>5. debts' = ds2 /\ payments' = payments /\ transfers' = transfers
  BY DEF CreateDebt
<1> HIDE DEF row
<1>6. SoldTo(row)
  <2>1. s # 0 => e.source = "expense"
    BY DEF OnSale
  <2> QED
    BY <1>3, <1>4, <2>1 DEF SoldTo
<1>7. /\ ds2 \in Seq(DebtRecord) /\ Len(ds2) = Len(debts) + 1
      /\ \A i \in 1..Len(debts) : ds2[i] = debts[i]
      /\ ds2[Len(debts) + 1] = row
  BY <1>1, <1>4, AppendProperties
<1>8. DOMAIN ds2 = 1..(Len(debts) + 1)
  BY <1>7, LenProperties
<1> HIDE DEF ds2
<1>9. ASSUME NEW d \in DOMAIN ds2, d \notin DOMAIN debts PROVE ds2[d] = row
  BY <1>1, <1>7, <1>8, <1>9
<1>10. Alike(debts, ds2)
  BY <1>1, <1>6, <1>7, <1>8, <1>9 DEF Alike
<1>11. Faithful(ds2, payments, transfers)
  BY <1>10, DebtsFaithful
<1> QED
  BY <1>5, <1>11

LEMMA ClosedFaithful ==
    ASSUME IInv, Faithful(debts, payments, transfers), NEW S,
           debts' = [d \in DOMAIN debts |-> IF d \in S THEN [debts[d] EXCEPT !.status = "cancelled"] ELSE debts[d]],
           payments' = payments, transfers' = transfers
    PROVE  Faithful(debts', payments', transfers')
<1>1. debts \in Seq(DebtRecord)
  BY DEF IInv, Kept, Sound
<1>2. ASSUME NEW d \in DOMAIN debts
      PROVE  /\ debts'[d].party = debts[d].party /\ debts'[d].direction = debts[d].direction
             /\ debts'[d].sale = debts[d].sale
  <2>1. debts[d] \in DebtRecord
    BY <1>1, RowIs
  <2>2. debts'[d] = debts[d] \/ debts'[d] = [debts[d] EXCEPT !.status = "cancelled"]
    OBVIOUS
  <2> QED
    BY ONLY <2>1, <2>2 DEF DebtRecord
<1>3. DOMAIN debts' = DOMAIN debts
  OBVIOUS
<1>4. Alike(debts, debts')
  BY <1>2, <1>3 DEF Alike
<1> QED
  BY <1>4, DebtsFaithful

LEMMA ReversePaymentFaithful ==
    ASSUME IInv, Faithful(debts, payments, transfers), NEW p \in DOMAIN payments, ReversePayment(p)
    PROVE  Faithful(debts', payments', transfers')
<1> DEFINE d == payments[p].debt
           P == {p}
           credit == TRUE
           off == TakenOff(d, P, credit)
<1>1. /\ debts' = [off.debts EXCEPT ![d].status = "open"] /\ payments' = off.payments
      /\ transfers' = off.transfers /\ ~payments[p].reversed
  BY DEF ReversePayment
<1>2. d \in DOMAIN debts /\ P \in SUBSET Active(payments, d)
  BY <1>1 DEF IInv, Kept, Sound, Linked, Active
<1>3. credit \in BOOLEAN
  OBVIOUS
<1> HIDE DEF d, P, credit
<1>4. /\ Sound(off.debts, off.payments, off.transfers) /\ Faithful(off.debts, off.payments, off.transfers)
      /\ Alike(debts, off.debts)
  BY <1>2, <1>3, FaithfulOff
<1> HIDE DEF off
<1>5. off.debts \in Seq(DebtRecord) /\ d \in DOMAIN off.debts
  BY <1>2, <1>4 DEF Sound, Alike
<1>6. Alike(off.debts, debts')
  BY <1>1, <1>5, AlikeStatus
<1>7. Theirs(off.transfers, off.transfers)
  BY DEF Theirs
<1>8. Faithful(debts', off.payments, off.transfers)
  BY <1>4, <1>6, <1>7, FaithfulAlike
<1> QED
  BY <1>1, <1>8

\* The corrections release a debt first, and then write the rows of others.
LEMMA ReleasedFaithful ==
    ASSUME IInv, Faithful(debts, payments, transfers), NEW d \in DOMAIN debts, NEW how, NEW ds2,
           Alike(Released(d, how).debts, ds2)
    PROVE  Faithful(ds2, Released(d, how).payments, Released(d, how).transfers)
<1> DEFINE P == Active(payments, d)
           credit == how = "credit"
           off == TakenOff(d, P, credit)
<1>1. P \in SUBSET Active(payments, d) /\ credit \in BOOLEAN /\ Released(d, how) = off
  BY DEF Released
<1> HIDE DEF P, credit
<1>2. Sound(off.debts, off.payments, off.transfers) /\ Faithful(off.debts, off.payments, off.transfers)
  BY <1>1, FaithfulOff
<1> HIDE DEF off
<1>3. Theirs(off.transfers, off.transfers)
  BY DEF Theirs
<1> QED
  BY <1>1, <1>2, <1>3, FaithfulAlike

\* The rows a release leaves.
LEMMA ReleasedRows ==
    ASSUME IInv, NEW d \in DOMAIN debts, NEW how
    PROVE  /\ Released(d, how).debts \in Seq(DebtRecord) /\ DOMAIN Released(d, how).debts = DOMAIN debts
<1> DEFINE P == Active(payments, d)
           credit == how = "credit"
           off == TakenOff(d, P, credit)
<1>1. P \in SUBSET Active(payments, d) /\ credit \in BOOLEAN /\ Released(d, how) = off
  BY DEF Released
<1> HIDE DEF P, credit
<1>2. TakenDebts(off, d, P) /\ off.debts \in Seq(DebtRecord)
  BY <1>1, PaidLess
<1> HIDE DEF off
<1> QED
  BY <1>1, <1>2 DEF TakenDebts

LEMMA DuplicateLiabilityFaithful ==
    ASSUME IInv, Faithful(debts, payments, transfers),
           NEW d \in DOMAIN debts, NEW of \in DOMAIN debts, NEW how \in Hows, DuplicateLiability(d, of, how)
    PROVE  Faithful(debts', payments', transfers')
<1> DEFINE es == Released(d, how).debts
<1>1. /\ debts' = [es EXCEPT ![d].status = "cancelled", ![d].duplicate = of, ![of].related = TRUE]
      /\ payments' = Released(d, how).payments /\ transfers' = Released(d, how).transfers /\ of # d
  BY DEF DuplicateLiability, IsDuplicate, DuplicateCandidates
<1>2. es \in Seq(DebtRecord) /\ DOMAIN es = DOMAIN debts
  BY ReleasedRows
<1> HIDE DEF es
<1>3. DOMAIN debts' = DOMAIN es
  BY <1>1
<1>4. ASSUME NEW e \in DOMAIN es
      PROVE  /\ debts'[e].party = es[e].party /\ debts'[e].direction = es[e].direction /\ debts'[e].sale = es[e].sale
  <2>1. es[e] \in DebtRecord
    BY <1>2, RowIs
  <2>2. \/ debts'[e] = es[e]
        \/ debts'[e] = [es[e] EXCEPT !.status = "cancelled", !.duplicate = of]
        \/ debts'[e] = [es[e] EXCEPT !.related = TRUE]
    BY <1>1, <1>2
  <2> QED
    BY ONLY <2>1, <2>2 DEF DebtRecord
<1>5. Alike(es, debts')
  BY <1>3, <1>4 DEF Alike
<1> QED
  BY <1>1, <1>5, ReleasedFaithful DEF es

LEMMA WrongSupplierFaithful ==
    ASSUME IInv, Faithful(debts, payments, transfers),
           NEW d \in DOMAIN debts, NEW party \in Parties, NEW how \in Hows, WrongSupplier(d, party, how)
    PROVE  Faithful(debts', payments', transfers')
<1> DEFINE s == debts[d].sale
           es == Released(d, how).debts
           ds2 == [es EXCEPT ![d].status = "cancelled"]
           other == {e \in Payables(s) : debts[e].party = party}
           target == CHOOSE e \in other : TRUE
           new == [NewDebt("payable", party, debts[d].amount, "sale_cost", s) EXCEPT !.related = TRUE]
<1>1. /\ debts' = IF other = {} THEN Append(ds2, new) ELSE [ds2 EXCEPT ![target] = Joined(ds2[target], d)]
      /\ payments' = Released(d, how).payments /\ transfers' = Released(d, how).transfers
  BY DEF WrongSupplier
<1>2. es \in Seq(DebtRecord) /\ DOMAIN es = DOMAIN debts
  BY ReleasedRows
<1>3. debts \in Seq(DebtRecord) /\ DOMAIN debts = 1..Len(debts) /\ Len(debts) \in Nat
  BY LenProperties DEF IInv, Kept, Sound
<1>4. debts[d].amount \in Nat \ {0} /\ s \in Nat
  BY <1>3, RowIs DEF DebtRecord
<1> HIDE DEF es
<1>5. Alike(es, ds2)
  BY <1>2, AlikeStatus
<1>6. ds2 \in Seq(DebtRecord) /\ DOMAIN ds2 = DOMAIN debts
  <2> DEFINE row == [es[d] EXCEPT !.status = "cancelled"]
  <2>1. es[d] \in DebtRecord
    BY <1>2, RowIs
  <2>2. row \in DebtRecord
    BY ONLY <2>1 DEF DebtRecord
  <2> HIDE DEF row
  <2>3. [es EXCEPT ![d] = row] \in Seq(DebtRecord) /\ DOMAIN [es EXCEPT ![d] = row] = DOMAIN es
    BY <1>2, <2>2, RowChanged
  <2> QED
    BY <1>2, <2>3 DEF row
<1> HIDE DEF ds2
<1>7. CASE other = {}
  <2>1. PICK fresh \in DebtRecord :
           fresh = NewDebt("payable", party, debts[d].amount, "sale_cost", s) /\ fresh.direction = "payable"
    BY <1>4, NewDebtIs
  <2>2. new \in DebtRecord /\ new.direction = "payable"
    <3>1. new = [fresh EXCEPT !.related = TRUE]
      BY <2>1
    <3> HIDE DEF new
    <3> QED
      BY ONLY <2>1, <3>1 DEF DebtRecord
  <2> HIDE DEF new
  <2>3. debts' = Append(ds2, new)
    BY <1>1, <1>7
  <2>4. /\ debts' \in Seq(DebtRecord) /\ Len(debts') = Len(ds2) + 1
        /\ \A i \in 1..Len(ds2) : debts'[i] = ds2[i]
        /\ debts'[Len(ds2) + 1] = new
    BY <1>6, <2>2, <2>3, AppendProperties
  <2>5. DOMAIN ds2 = 1..Len(ds2) /\ Len(ds2) \in Nat /\ DOMAIN debts' = 1..(Len(ds2) + 1)
    BY <1>6, <2>4, LenProperties
  <2>6. ASSUME NEW e \in DOMAIN debts', e \notin DOMAIN ds2 PROVE debts'[e] = new
    BY <2>4, <2>5, <2>6
  <2>7. Alike(ds2, debts')
    BY <2>2, <2>4, <2>5, <2>6 DEF Alike, SoldTo
  <2>8. Alike(es, debts')
    BY <1>5, <2>7, AlikeTrans
  <2> QED
    BY <1>1, <2>8, ReleasedFaithful DEF es
<1>8. CASE other # {}
  <2>1. target \in other
    BY <1>8
  <2>2. target \in DOMAIN debts
    BY <2>1 DEF Payables, OfSale
  <2>3. debts' = [ds2 EXCEPT ![target] = Joined(ds2[target], d)]
    BY <1>1, <1>8
  <2> HIDE DEF target
  <2> DEFINE row == Joined(ds2[target], d)
  <2>4. ds2[target] \in DebtRecord
    BY <1>6, <2>2, RowIs
  <2>5. row.party = ds2[target].party /\ row.direction = ds2[target].direction /\ row.sale = ds2[target].sale
    BY ONLY <2>4 DEF DebtRecord, Joined
  <2> HIDE DEF row
  <2>6. Alike(ds2, [ds2 EXCEPT ![target] = row])
    BY <1>6, <2>2, <2>5, AlikeRow
  <2>7. Alike(es, debts')
    BY <1>5, <2>3, <2>6, AlikeTrans DEF row
  <2> QED
    BY <1>1, <2>7, ReleasedFaithful DEF es
<1> QED
  BY <1>7, <1>8

\* What the last payment had too much goes back on the invoice of the supplier
\* it was made to.
LEMMA ShrinkPayableFaithful ==
    ASSUME IInv, Faithful(debts, payments, transfers),
           NEW d \in DOMAIN debts, NEW amount \in 0..MaxAmount, NEW how \in Hows, ShrinkPayable(d, amount, how)
    PROVE  Faithful(debts', payments', transfers')
<1> DEFINE excess == debts[d].paid - amount
           P == IF excess > 0 THEN Newest(d, excess) ELSE {}
           credit == how = "credit"
           off == TakenOff(d, P, credit)
           surplus == -(excess - (debts[d].paid - off.debts[d].paid))
           last == off.payments[CHOOSE p \in P : \A q \in P : p <= q].transfer
           less == [off.debts EXCEPT ![d].amount = amount]
           back == IF P # {} /\ how = "credit" /\ surplus > 0
                   THEN CreditPieces(less, off.transfers, <<d>>, <<last>>, surplus) ELSE <<>>
           cs == Counted(less, back)
<1>0. debts[d].source = "batch_receipt"
  BY Zenon DEF ShrinkPayable
<1>1. IF amount = 0
      THEN /\ debts' = [off.debts EXCEPT ![d].status = "cancelled"]
           /\ payments' = off.payments
           /\ transfers' = off.transfers
      ELSE /\ debts' = [cs EXCEPT ![d].status = IF cs[d].paid = amount THEN "settled" ELSE "open"]
           /\ payments' = off.payments \o back
           /\ transfers' = CreditUsed(off.transfers, back)
  <2>1. ShrinkPayable(d, amount, how)
    OBVIOUS
  <2> QED
    BY ONLY <2>1, Zenon DEF ShrinkPayable
<1>2. /\ debts \in Seq(DebtRecord) /\ payments \in Seq(PaymentRecord) /\ transfers \in Seq(TransferRecord)
      /\ Linked(debts, payments, transfers)
      /\ Sound(debts, payments, transfers) /\ Booked(debts, payments) /\ Received(debts)
      /\ amount \in Nat /\ credit \in BOOLEAN
  BY LedgerAssumption DEF IInv, Kept, Sound
<1>3. /\ debts[d].paid \in Nat /\ ToSupplier(debts[d])
      /\ debts[d].paid = WorthOf(payments, Active(payments, d)) /\ excess \in Int
  <2>1. debts[d].paid \in Nat /\ Allocated(debts, payments, d)
    BY <1>2, RowIs DEF Booked
  <2>2. ToSupplier(debts[d])
    BY <1>0, <1>2 DEF Received, ToSupplier
  <2>3. debts[d].paid = WorthOf(payments, Active(payments, d))
    BY <2>1 DEF Allocated
  <2>4. excess \in Int
    BY <1>2, <2>1
  <2> HIDE DEF excess
  <2> QED
    BY <2>1, <2>2, <2>3, <2>4
<1>4. P \in SUBSET Active(payments, d) /\ (P # {} => \E p \in P : \A q \in P : p <= q)
  <2>1. CASE excess > 0
    <3>1. PICK x \in Nat \ {0} : x = excess
      BY <1>3, <2>1
    <3>2. x <= WorthOf(payments, Active(payments, d))
      BY <1>2, <1>3, <3>1
    <3>3. /\ Newest(d, x) \in SUBSET Active(payments, d)
          /\ \E p \in Newest(d, x) : \A q \in Newest(d, x) : p <= q
      BY <1>2, <3>2, NewestIs
    <3> QED
      BY <2>1, <3>1, <3>3
  <2>2. CASE ~(excess > 0)
    BY <2>2
  <2> QED
    BY <2>1, <2>2
<1>5. /\ TakenDebts(off, d, P) /\ TakenRows(off.payments, d, P, credit) /\ TakenTransfers(off.transfers, d, P, credit)
  <2> HIDE DEF P, credit
  <2> QED
    BY <1>2, <1>4, TakenOffKeeps
<1>6. /\ Sound(off.debts, off.payments, off.transfers) /\ Faithful(off.debts, off.payments, off.transfers)
  <2> HIDE DEF P, credit
  <2> QED
    BY <1>2, <1>4, FaithfulOff
<1>7. off.debts \in Seq(DebtRecord) /\ off.transfers \in Seq(TransferRecord) /\ off.payments \in Seq(PaymentRecord)
  <2> HIDE DEF off
  <2> QED
    BY <1>6 DEF Sound
<1>8. /\ off.debts[d].paid \in Nat /\ d \in DOMAIN off.debts /\ off.debts[d] \in DebtRecord
      /\ DOMAIN off.debts = DOMAIN debts /\ off.debts[d].party = debts[d].party
  <2> HIDE DEF off, P
  <2> QED
    BY <1>5, <1>7, RowIs DEF TakenDebts
<1>9. CASE amount = 0
  <2> HIDE DEF off
  <2>1. /\ debts' = [off.debts EXCEPT ![d].status = "cancelled"] /\ payments' = off.payments
        /\ transfers' = off.transfers
    BY <1>1, <1>9
  <2>2. Alike(off.debts, [off.debts EXCEPT ![d].status = "cancelled"])
    BY ONLY <1>7, <1>8, AlikeStatus
  <2>3. Theirs(off.transfers, off.transfers)
    BY DEF Theirs
  <2>4. Alike(off.debts, debts')
    BY <2>1, <2>2
  <2> QED
    BY <1>6, <2>1, <2>3, <2>4, FaithfulAlike
<1>10. CASE amount # 0
  <2>1. /\ less \in Seq(DebtRecord) /\ DOMAIN less = DOMAIN debts /\ Alike(off.debts, less)
        /\ less[d].amount = amount /\ less[d].paid = off.debts[d].paid /\ less[d].party = debts[d].party
    <3> DEFINE row == [off.debts[d] EXCEPT !.amount = amount]
    <3> HIDE DEF off
    <3>1. amount \in Nat \ {0}
      BY <1>2, <1>10
    <3>2. /\ row \in DebtRecord /\ row.amount = amount /\ row.paid = off.debts[d].paid /\ row.party = off.debts[d].party
          /\ row.direction = off.debts[d].direction /\ row.sale = off.debts[d].sale
      BY ONLY <1>8, <3>1 DEF DebtRecord
    <3>3. less = [off.debts EXCEPT ![d] = row]
      OBVIOUS
    <3> HIDE DEF row, less
    <3>4. less \in Seq(DebtRecord) /\ DOMAIN less = DOMAIN off.debts /\ less[d] = row
      BY <1>7, <1>8, <3>2, <3>3, RowChanged
    <3>5. Alike(off.debts, less)
      BY <1>8, <3>2, <3>3, AlikeRow
    <3> QED
      BY <1>8, <3>2, <3>4, <3>5
  <2> HIDE DEF less
  <2>2. ASSUME back \in Seq(PaymentRecord)
        PROVE  Alike(less, debts') /\ debts'[d].party = debts[d].party
    <3> HIDE DEF back, off
    <3>1. cs \in Seq(DebtRecord) /\ DOMAIN cs = DOMAIN less
      BY <2>1, <2>2, CountedIs
    <3>2. Alike(less, cs)
      BY <2>1, <2>2, CountedAlike
    <3>3. PICK st : debts' = [cs EXCEPT ![d].status = st]
      BY <1>1, <1>10
    <3> HIDE DEF cs
    <3>4. Alike(cs, debts')
      BY <2>1, <3>1, <3>3, AlikeStatus
    <3>5. Alike(less, debts')
      BY <3>2, <3>4, AlikeTrans
    <3> QED
      BY <2>1, <3>5 DEF Alike
  <2>3. ASSUME back \in Seq(PaymentRecord),
               \A k \in DOMAIN back :
                  /\ ~back[k].old /\ back[k].debt = d /\ back[k].to = debts[d].party
                  /\ off.transfers[back[k].transfer].supplier = debts[d].party
                  /\ back[k].transfer \in DOMAIN off.transfers
        PROVE  Faithful(debts', payments', transfers')
    <3> DEFINE us == CreditUsed(off.transfers, back)
    <3> HIDE DEF back, off
    <3>1. Alike(off.debts, debts') /\ debts'[d].party = debts[d].party
      BY <2>1, <2>2, <2>3, AlikeTrans
    <3>2. \A t \in DOMAIN off.transfers : us[t].supplier = off.transfers[t].supplier
      BY <1>7, <2>3, CreditUsedIs
    <3> HIDE DEF us
    <3>3. Theirs(off.transfers, us)
      BY <3>2 DEF Theirs
    <3>4. PaidTo(back, debts', us)
      BY <2>3, <3>1, <3>2 DEF PaidTo
    <3>5. Faithful(debts', off.payments \o back, us)
      BY <1>6, <2>3, <3>1, <3>3, <3>4, FaithfulJoined
    <3> QED
      BY <1>1, <1>10, <3>5 DEF us
  <2>4. CASE back = <<>>
    <3> HIDE DEF back, off
    <3>1. <<>> \in Seq(PaymentRecord)
      BY <1>2, NothingCounted
    <3> QED
      BY <2>3, <2>4, <3>1
  <2>5. CASE back # <<>>
    <3>1. P # {} /\ surplus > 0 /\ credit /\ back = CreditPieces(less, off.transfers, <<d>>, <<last>>, surplus)
      BY <2>5
    <3>2. PICK w \in Nat : w = surplus
      <4> HIDE DEF off
      <4>1. PICK x \in Nat, y \in Nat, z \in Nat : x = off.debts[d].paid /\ y = debts[d].paid /\ z = amount
        BY <1>2, <1>3, <1>8
      <4>2. surplus = -((y - z) - (y - x))
        BY <4>1
      <4> HIDE DEF surplus
      <4>3. surplus \in Int
        BY ONLY <4>1, <4>2
      <4> QED
        BY <3>1, <4>3
    <3>3. off.debts[d].paid <= amount
      <4> HIDE DEF off, P
      <4>1. PICK x \in Nat, y \in Nat, z \in Nat : x = off.debts[d].paid /\ y = debts[d].paid /\ z = amount
        BY <1>2, <1>3, <1>8
      <4>2. surplus = -((y - z) - (y - x)) /\ surplus > 0
        BY <3>1, <4>1
      <4> HIDE DEF surplus, excess
      <4>3. x <= z
        BY ONLY <4>1, <4>2
      <4> QED
        BY <4>1, <4>3
    <3> HIDE DEF surplus, back
    <3>4. /\ last \in DOMAIN off.transfers /\ Credit(off.transfers, last) \in Nat
          /\ off.transfers[last].supplier = debts[d].party
      <4> DEFINE p == CHOOSE p \in P : \A q \in P : p <= q
      <4>1. p \in P
        BY <1>4, <3>1
      <4>2. last = off.payments[p].transfer
        OBVIOUS
      <4> HIDE DEF p, P, last, credit
      <4>3. P \in SUBSET DOMAIN payments /\ payments[p].debt = d /\ ~payments[p].reversed
        BY <1>4, <4>1 DEF Active
      <4>4. TransferOf(d, P, p) \in 0..(Len(transfers) + Len(Wrappings(d, P))) /\ TransferOf(d, P, p) # 0
        BY <1>2, <1>3, <4>1, <4>3, TransferOfFits
      <4>5. off.transfers[TransferOf(d, P, p)].supplier = payments[p].to
        BY <1>2, <1>4, <4>1, <4>4, GivenTo
      <4>6. payments[p].to = debts[d].party
        BY <1>3, <4>1, <4>3 DEF Faithful, Placed, Faces, ToSupplier
      <4> HIDE DEF off
      <4>7. last = TransferOf(d, P, p)
        BY <1>5, <4>1, <4>2 DEF TakenRows
      <4>8. Len(off.transfers) = Len(transfers) + Len(Wrappings(d, P))
        BY <1>5 DEF TakenTransfers
      <4>9. DOMAIN off.transfers = 1..Len(off.transfers) /\ Len(off.transfers) \in Nat
        BY <1>7, LenProperties
      <4>10. last \in DOMAIN off.transfers
        BY <4>4, <4>7, <4>8, <4>9
      <4>11. Spent(off.payments, off.transfers, last)
        BY <1>6, <4>10 DEF Sound
      <4>12. /\ Credit(off.transfers, last) = off.transfers[last].credited - off.transfers[last].used
                    - off.transfers[last].refunded - off.transfers[last].wrong
             /\ off.transfers[last].credited \in Nat /\ off.transfers[last].used \in Nat
             /\ off.transfers[last].refunded \in Nat /\ off.transfers[last].wrong \in Nat
        BY <1>7, <4>10, CreditIs
      <4>13. off.transfers[last].used + off.transfers[last].refunded + off.transfers[last].wrong
               <= off.transfers[last].credited
        BY <4>11 DEF Spent
      <4>14. Credit(off.transfers, last) \in Nat
        BY <4>12, <4>13
      <4> QED
        BY <4>5, <4>6, <4>7, <4>10, <4>14
    <3> HIDE DEF last, P, credit
    <3>5. PICK one \in Nat : one = 1
      OBVIOUS
    <3> DEFINE over == <<d>>
               ids == <<last>>
    <3>6. DOMAIN over = 1..one /\ DOMAIN ids = 1..one /\ over[1] = d /\ ids[1] = last
      BY <3>5
    <3>7. back = CreditPieces(less, off.transfers, over, ids, w)
      BY <3>1, <3>2
    <3> HIDE DEF over, ids, off
    <3>8. Payable(over, one, less)
      <4>1. Balances(less)[d] = less[d].amount - less[d].paid
        BY <2>1, RowIs
      <4>2. PICK x \in Nat, z \in Nat : x = off.debts[d].paid /\ z = amount
        BY <1>2, <1>8
      <4>3. less[d].amount = z /\ less[d].paid = x /\ x <= z
        BY <2>1, <3>3, <4>2
      <4> HIDE DEF less
      <4>4. Balances(less)[d] \in Nat
        BY ONLY <4>1, <4>2, <4>3
      <4> QED
        BY <2>1, <3>5, <3>6, <4>4 DEF Payable
    <3>9. Holding(ids, one, off.transfers)
      BY <3>4, <3>5, <3>6 DEF Holding
    <3> DEFINE pieces == CreditPieces(less, off.transfers, over, ids, w)
    <3>10. pieces \in Seq(PaymentRecord)
      BY <1>7, <2>1, <3>8, <3>9, PiecesIs
    <3>11. \A k \in DOMAIN pieces :
              /\ ~pieces[k].old
              /\ \E i \in 1..one : pieces[k].debt = over[i] /\ pieces[k].to = less[over[i]].party
              /\ \E j \in 1..one : pieces[k].transfer = ids[j]
      <4> HIDE DEF less, last, back
      <4>1. less \in Seq(DebtRecord) /\ off.transfers \in Seq(TransferRecord) /\ one \in Nat /\ w \in Nat
        BY <1>7, <2>1
      <4> QED
        BY ONLY <3>8, <3>9, <4>1, PiecesIs
    <3> HIDE DEF pieces
    <3>12. ASSUME NEW i \in 1..one PROVE i = 1
      BY <3>5
    <3>13. ASSUME NEW k \in DOMAIN back
           PROVE  /\ ~back[k].old /\ back[k].debt = d /\ back[k].to = debts[d].party
                  /\ off.transfers[back[k].transfer].supplier = debts[d].party
                  /\ back[k].transfer \in DOMAIN off.transfers
      <4>1. back = pieces
        BY <3>7 DEF pieces
      <4> QED
        BY <2>1, <3>4, <3>6, <3>12, <3>11, <4>1
    <3>14. back \in Seq(PaymentRecord)
      BY <3>7, <3>10 DEF pieces
    <3> QED
      BY <2>3, <3>13, <3>14 DEF off
  <2> QED
    BY <2>4, <2>5
<1> QED
  BY <1>9, <1>10

\* Nothing counts on a debt nothing is paid on.
LEMMA NothingActive ==
    ASSUME IInv, NEW d \in DOMAIN debts, debts[d].paid = 0
    PROVE  Active(payments, d) = {}
<1>1. payments \in Seq(PaymentRecord) /\ debts[d].paid = WorthOf(payments, Active(payments, d))
  BY DEF IInv, Kept, Sound, Booked, Allocated
<1> SUFFICES ASSUME NEW p \in Active(payments, d) PROVE FALSE
  OBVIOUS
<1> DEFINE f == Worth(payments)
           A == Active(payments, d)
<1>2. IsFiniteSet(A) /\ \A q \in A : f[q] \in Nat /\ f[q] = payments[q].amount /\ payments[q].amount \in Nat \ {0}
  <2>1. A \in SUBSET DOMAIN payments
    BY DEF Active
  <2> HIDE DEF A
  <2> QED
    BY <1>1, <2>1, WorthIs
<1>3. SumFunctionOnSet(f, A) = 0
  BY <1>1 DEF WorthOf
<1> HIDE DEF f
<1>4. p \in A
  OBVIOUS
<1> HIDE DEF A
<1>5. f[p] <= SumFunctionOnSet(f, A)
  BY <1>2, <1>4, SumAtLeast
<1> QED
  BY <1>2, <1>3, <1>4, <1>5

\* An edited sale's debt is of the supplier it was of, or of one taken off the
\* sale.
RemovedFrom(costs, existing) == DOMAIN existing \ {p \in Parties : costs[p] > 0}
KeptDebts(s, costs, existing) ==
    LET keys == DOMAIN existing
        costed == {p \in Parties : costs[p] > 0}
        removed == keys \ costed
        added == (costed \ keys) \ Covered(s)
        swapped == Cardinality(removed) = 1 /\ Cardinality(added) = 1
    IN IF swapped
       THEN [p \in (keys \ removed) \cup added |->
               IF p \in keys THEN existing[p] ELSE existing[CHOOSE q \in removed : TRUE]]
       ELSE existing
LEMMA KeptOwed ==
    ASSUME NEW s, NEW costs, NEW existing \in Readings(s), NEW p \in DOMAIN KeptDebts(s, costs, existing)
    PROVE  \/ debts[KeptDebts(s, costs, existing)[p]].party = p
           \/ \E q \in RemovedFrom(costs, existing) : KeptDebts(s, costs, existing)[p] = existing[q]
<1> DEFINE keys == DOMAIN existing
           costed == {q \in Parties : costs[q] > 0}
           removed == keys \ costed
           added == (costed \ keys) \ Covered(s)
           swapped == Cardinality(removed) = 1 /\ Cardinality(added) = 1
           one == CHOOSE q \in removed : TRUE
           swap == [q \in (keys \ removed) \cup added |-> IF q \in keys THEN existing[q] ELSE existing[one]]
<1>1. KeptDebts(s, costs, existing) = IF swapped THEN swap ELSE existing
  BY DEF KeptDebts
<1>2. RemovedFrom(costs, existing) = removed
  BY DEF RemovedFrom
<1>3. \A q \in keys : debts[existing[q]].party = q
  BY DEF Readings
<1>4. ASSUME swapped PROVE one \in removed
  <2>1. Cardinality(removed) = 1 /\ Cardinality({}) = 0
    BY <1>4, FS_EmptySet
  <2> HIDE DEF removed
  <2>2. ASSUME removed = {} PROVE Cardinality(removed) = 0
    BY ONLY <2>1, <2>2, Zenon
  <2>3. 0 # 1
    OBVIOUS
  <2>4. removed # {}
    BY ONLY <2>1, <2>2, <2>3, Zenon
  <2> QED
    BY <2>4
<1>5. CASE swapped
  <2>1. p \in DOMAIN swap /\ KeptDebts(s, costs, existing) = swap
    BY <1>1, <1>5
  <2>2. (swap[p] = existing[p] /\ p \in keys) \/ swap[p] = existing[one]
    BY <2>1
  <2> HIDE DEF swap, removed
  <2> QED
    BY <1>2, <1>3, <1>4, <1>5, <2>1, <2>2
<1>6. CASE ~swapped
  <2>1. KeptDebts(s, costs, existing) = existing
    BY <1>1, <1>6
  <2> QED
    BY <1>3, <2>1
<1> QED
  BY <1>5, <1>6

\* A sale that is edited: its customer may change, and a debt that changes
\* hands is one nothing was paid on.
LEMMA EditSaleFaithful ==
    ASSUME IInv, Faithful(debts, payments, transfers),
           NEW s \in DOMAIN sales, NEW b \in Buyers, NEW total \in Totals, NEW costs \in LineCosts,
           NEW existing \in Readings(s), EditSale(s, b, total, costs, existing)
    PROVE  Faithful(debts', payments', transfers')
<1> DEFINE keys == DOMAIN existing
           costed == {p \in Parties : costs[p] > 0}
           removed == keys \ costed
           added == (costed \ keys) \ Covered(s)
           swapped == Cardinality(removed) = 1 /\ Cardinality(added) = 1
           kept == IF swapped
                   THEN [p \in (keys \ removed) \cup added |->
                           IF p \in keys THEN existing[p] ELSE existing[CHOOSE q \in removed : TRUE]]
                   ELSE existing
           dropped == {kept[p] : p \in DOMAIN kept \ costed}
           following == {kept[p] : p \in DOMAIN kept \cap costed}
           heir(d) == CHOOSE p \in DOMAIN kept : kept[p] = d
           status(paid, amount) == IF paid = amount THEN "settled" ELSE "open"
           edited == [d \in DOMAIN debts |->
            IF d = Receivable(s)
            THEN [debts[d] EXCEPT !.party = b, !.amount = total, !.status = status(debts[d].paid, total)]
            ELSE IF d \in following
            THEN [debts[d] EXCEPT !.party = heir(d), !.amount = costs[heir(d)],
                     !.status = status(debts[d].paid, costs[heir(d)])]
            ELSE IF d \in dropped
            THEN [debts[d] EXCEPT !.status = IF HasHistory(d) THEN "cancelled" ELSE "deleted"]
            ELSE debts[d]]
           S == (costed \ DOMAIN kept) \ Covered(s)
           more == CostDebts(s, costs, SetToSeq(S))
           r == Receivable(s)
<1>1. /\ debts' = edited \o more /\ payments' = payments /\ transfers' = transfers
      /\ \A p \in removed : debts[existing[p]].paid = 0
  BY DEF EditSale, NothingPaid
<1>2. costs \in [Parties -> Nat]
  BY LedgerAssumption
<1>3. /\ sales \in Seq(SaleRecord) /\ debts \in Seq(DebtRecord) /\ Billed(sales, debts)
      /\ Linked(debts, payments, transfers) /\ s \in Nat \ {0}
  <2>1. sales \in Seq(SaleRecord)
    BY DEF IInv, Kept
  <2> QED
    BY <2>1, LenProperties DEF IInv, Kept, Sound
<1>4. /\ \A p \in DOMAIN kept : kept[p] \in Payables(s)
      /\ \A p, q \in DOMAIN kept : kept[p] = kept[q] => p = q
  BY <1>2, <1>3, KeptIs
<1>5. \A p \in DOMAIN kept : debts[kept[p]].party = p \/ \E q \in removed : kept[p] = existing[q]
  <2>1. kept = KeptDebts(s, costs, existing)
    BY DEF KeptDebts
  <2>2. removed = RemovedFrom(costs, existing)
    BY DEF RemovedFrom
  <2> HIDE DEF kept, removed
  <2> QED
    BY <2>1, <2>2, KeptOwed
<1>6. S \in SUBSET Parties /\ \A p \in S : costs[p] > 0
  OBVIOUS
<1> HIDE DEF kept, S, removed, costed
<1>7. r \in OfSale(s) /\ debts[r].direction = "receivable"
  <2>1. \E d \in OfSale(s) : debts[d].direction = "receivable"
    BY <1>3 DEF Billed, OfSale
  <2> QED
    BY <2>1 DEF Receivable
<1>8. ASSUME NEW d \in following
      PROVE  /\ heir(d) = debts[d].party \/ debts[d].paid = 0
             /\ debts[d].direction = "payable"
  <2>1. PICK p \in DOMAIN kept \cap costed : d = kept[p]
    OBVIOUS
  <2>2. heir(d) = p
    <3>1. kept[p] = d /\ p \in DOMAIN kept /\ \A q \in DOMAIN kept : kept[q] = d => q = p
      BY <1>4, <2>1
    <3> QED
      BY <3>1
  <2>3. debts[d].direction = "payable"
    BY <1>4, <2>1 DEF Payables
  <2> HIDE DEF heir
  <2> QED
    BY <1>1, <1>5, <2>1, <2>2, <2>3
<1>9. DOMAIN edited = DOMAIN debts
  OBVIOUS
<1>10. ASSUME NEW d \in DOMAIN debts
       PROVE  /\ edited[d].direction = debts[d].direction /\ edited[d].sale = debts[d].sale
              /\ d = r => edited[d].party = b
              /\ d # r => edited[d].party = debts[d].party \/ (debts[d].paid = 0 /\ debts[d].direction = "payable")
  <2>1. debts[d] \in DebtRecord
    BY <1>3, RowIs
  <2>2. CASE d = r
    <3>1. edited[d] = [debts[d] EXCEPT !.party = b, !.amount = total, !.status = status(debts[d].paid, total)]
      BY <2>2
    <3> HIDE DEF edited, status, r
    <3> QED
      BY ONLY <2>1, <2>2, <3>1 DEF DebtRecord
  <2>3. CASE d # r /\ d \in following
    <3>1. edited[d] = [debts[d] EXCEPT !.party = heir(d), !.amount = costs[heir(d)],
                     !.status = status(debts[d].paid, costs[heir(d)])]
      BY <2>3
    <3>2. (heir(d) = debts[d].party \/ debts[d].paid = 0) /\ debts[d].direction = "payable"
      BY <1>8, <2>3
    <3> HIDE DEF edited, status, heir, r, following
    <3>3. edited[d].direction = debts[d].direction /\ edited[d].sale = debts[d].sale /\ edited[d].party = heir(d)
      BY ONLY <2>1, <3>1 DEF DebtRecord
    <3> QED
      BY <2>3, <3>2, <3>3
  <2>4. CASE d # r /\ d \notin following
    <3>1. \/ edited[d] = [debts[d] EXCEPT !.status = IF HasHistory(d) THEN "cancelled" ELSE "deleted"]
          \/ edited[d] = debts[d]
      BY <2>4
    <3> HIDE DEF edited, r, following
    <3> QED
      BY ONLY <2>1, <2>4, <3>1 DEF DebtRecord
  <2> QED
    BY <2>2, <2>3, <2>4
<1> HIDE DEF r
<1> HIDE DEF edited, more
<1>11. more \in Seq(DebtRecord) /\ \A k \in DOMAIN more : CostRow(more[k], s)
  BY <1>2, <1>3, <1>6, CostDebtsIs DEF more
<1> DEFINE ds2 == edited \o more
           n == Len(debts)
           R == DebtRecord \cup {edited[d] : d \in 1..n}
<1>12. /\ DOMAIN ds2 = DOMAIN edited \cup After(Len(edited), DOMAIN more)
       /\ \A d \in DOMAIN edited : ds2[d] = edited[d]
       /\ \A k \in DOMAIN more : ds2[Len(edited) + k] = more[k]
  <2>1. n \in Nat /\ DOMAIN edited = 1..n /\ edited = [d \in 1..n |-> edited[d]]
    BY <1>3, <1>9, LenProperties DEF edited
  <2>2. \A d \in 1..n : edited[d] \in R
    OBVIOUS
  <2>3. Len(more) \in Nat /\ DOMAIN more = 1..Len(more) /\ more = [k \in 1..Len(more) |-> more[k]]
    BY <1>11, LenProperties
  <2>4. \A k \in 1..Len(more) : more[k] \in R
    BY <1>11, <2>3 DEF CostRow
  <2> HIDE DEF R, n
  <2>5. edited \in Seq(R)
    BY <2>1, <2>2, RowIsSeq
  <2>6. more \in Seq(R)
    BY <2>3, <2>4, RowIsSeq
  <2> QED
    BY <2>5, <2>6, JoinIs
<1> HIDE DEF ds2, R, n
<1>13. ASSUME NEW p \in DOMAIN payments
       PROVE  payments[p].debt \in DOMAIN debts /\ ds2[payments[p].debt] = edited[payments[p].debt]
  BY <1>3, <1>9, <1>12 DEF Linked
<1>14. ASSUME NEW p \in DOMAIN payments, ~payments[p].reversed
       PROVE  Faces(ds2[payments[p].debt], payments[p])
  <2> DEFINE d == payments[p].debt
  <2> SUFFICES Faces(ds2[d], payments[p])
    OBVIOUS
  <2>1. d \in DOMAIN debts /\ ds2[d] = edited[d]
    BY <1>13
  <2>2. Faces(debts[d], payments[p])
    BY <1>14 DEF Faithful, Placed
  <2>3. p \in Active(payments, d)
    BY <1>14 DEF Active
  <2> HIDE DEF d
  <2>4. debts[d].paid # 0
    BY <2>1, <2>3, NothingActive
  <2>5. CASE d = r
    <3>1. debts[d].party \in Buyers
      BY <1>3, <1>7, <2>1, <2>5 DEF Faithful, Sold, SoldTo, OfSale
    <3>2. payments[p].to \in Buyers
      BY <2>2, <3>1 DEF Faces
    <3>3. ds2[d].party = b /\ ds2[d].direction = "receivable"
      BY <1>7, <1>10, <2>1, <2>5
    <3> QED
      BY <3>2, <3>3 DEF Faces
  <2>6. CASE d # r
    <3>1. ds2[d].party = debts[d].party /\ ds2[d].direction = debts[d].direction
      BY <1>10, <2>1, <2>4, <2>6
    <3> QED
      BY <2>2, <3>1 DEF Faces
  <2> QED
    BY <2>5, <2>6
<1>15. Placed(ds2, payments)
  BY <1>14 DEF Placed
<1>16. Unwrapped(ds2, payments)
  BY <1>10, <1>13 DEF Faithful, Unwrapped
<1>17. ASSUME NEW d \in DOMAIN ds2 PROVE SoldTo(ds2[d])
  <2>1. CASE d \in DOMAIN edited
    <3>1. ds2[d] = edited[d] /\ d \in DOMAIN debts /\ SoldTo(debts[d])
      BY <1>9, <1>12, <2>1 DEF Faithful, Sold
    <3>2. CASE d = r
      BY <1>10, <3>1, <3>2 DEF SoldTo
    <3>3. CASE d # r
      BY <1>10, <3>1, <3>3 DEF SoldTo
    <3> QED
      BY <3>2, <3>3
  <2>2. CASE d \notin DOMAIN edited
    <3>1. PICK k \in DOMAIN more : d = Len(edited) + k
      BY <1>12, <2>2 DEF After
    <3>2. ds2[d].direction = "payable"
      BY <1>11, <1>12, <3>1 DEF CostRow
    <3> QED
      BY <3>2 DEF SoldTo
  <2> QED
    BY <2>1, <2>2
<1>18. Faithful(ds2, payments, transfers)
  BY <1>15, <1>16, <1>17 DEF Faithful, Sold
<1> QED
  BY <1>1, <1>18 DEF ds2

LEMMA CreateSaleFaithful ==
    ASSUME IInv, Faithful(debts, payments, transfers),
           NEW b \in Buyers, NEW total \in Totals, NEW costs \in LineCosts, NEW received \in 0..total, NEW paid,
           NEW ref \in AnyRef, CreateSale(b, total, costs, received, paid, ref)
    PROVE  Faithful(debts', payments', transfers')
<1>1. PICK ds, list, n : Opens(ds, list, n, ref)
  BY CreateSaleOpens
<1> DEFINE new == NewMoney(ds, list, ref).payments
           all == transfers \o NewMoney(ds, list, ref).transfers
<1>2. n \in Nat /\ ref \in Refs \cup {NoRef} /\ Due(list, n, ds) /\ Kept(sales', ds, payments, transfers, claims)
  BY <1>1 DEF Opens
<1>3. debts' = Counted(ds, new) /\ payments' = payments \o new /\ transfers' = all
  BY <1>1 DEF Opens
<1>4. /\ DOMAIN debts \subseteq DOMAIN ds /\ \A d \in DOMAIN debts : ds[d] = debts[d]
      /\ \A d \in DOMAIN ds : d \notin DOMAIN debts => OpenRow(ds[d])
  BY <1>1 DEF Opens
<1>5. Alike(debts, ds)
  BY <1>4 DEF Alike, OpenRow, SoldTo
<1>6. Sound(ds, payments, transfers)
  BY <1>2 DEF Kept
<1>7. Faithful(ds, payments, transfers)
  BY <1>5, DebtsFaithful
<1>8. Faithful(Counted(ds, new), payments \o new, all)
  BY <1>2, <1>6, <1>7, MoneyFaithful
<1> QED
  BY <1>3, <1>8

LEMMA CancelledFaithful ==
    ASSUME IInv, Faithful(debts, payments, transfers), NEW d \in DOMAIN debts, CancelDebt(d) \/ NoCost(d)
    PROVE  Faithful(debts', payments', transfers')
<1>1. debts' = [debts EXCEPT ![d].status = "cancelled"] /\ payments' = payments /\ transfers' = transfers
  BY DEF CancelDebt, NoCost
<1>2. debts \in Seq(DebtRecord)
  BY DEF IInv, Kept, Sound
<1>3. Alike(debts, debts')
  BY <1>1, <1>2, AlikeStatus
<1> QED
  BY <1>1, <1>3, DebtsFaithful

LEMMA InitFaithful ==
    ASSUME Init, Legacy # "reversed"
    PROVE  Faithful(debts, payments, transfers)
<1>1. CASE NoSale
  <2>1. DOMAIN debts = {} /\ DOMAIN payments = {}
    BY <1>1 DEF NoSale
  <2> QED
    BY <2>1 DEF Faithful, Placed, Sent, Unwrapped, Sold
<1>2. CASE ~NoSale
  <2>1. transfers = <<>> /\ Legacy # "none" /\ \E s \in Suppliers, b \in Buyers, ref \in AnyRef : OldSale(s, b, ref)
    BY <1>2 DEF Init
  <2>2. Legacy = "active"
    BY <2>1, LedgerAssumption
  <2>3. PICK s \in Suppliers, b \in Buyers, ref \in AnyRef : OldSale(s, b, ref)
    BY <2>1
  <2> DEFINE total == Max(Totals)
             owed == NewDebt("receivable", b, total, "sale", 1)
             cost == [NewDebt("payable", s, MaxAmount, "sale_cost", 1) EXCEPT !.paid = 1]
             old == [NewPayment(2, s, 1, 0, 0, ref) EXCEPT !.old = TRUE, !.reversed = FALSE]
  <2>4. debts = <<owed, cost>> /\ payments = <<old>>
    BY <2>2, <2>3 DEF OldSale
  <2>5. owed.party = b /\ owed.direction = "receivable"
    BY DEF NewDebt
  <2>6. cost.party = s /\ cost.direction = "payable"
    BY DEF NewDebt
  <2>7. old.debt = 2 /\ old.to = s /\ old.transfer = 0 /\ old.old /\ ~old.reversed
    BY DEF NewPayment
  <2> HIDE DEF owed, cost, old
  <2>8. DOMAIN debts = {1, 2} /\ debts[1] = owed /\ debts[2] = cost /\ DOMAIN payments = {1} /\ payments[1] = old
    BY <2>4
  <2>9. Placed(debts, payments) /\ Sent(payments, transfers)
    BY <2>6, <2>7, <2>8 DEF Placed, Sent, Faces
  <2>10. Unwrapped(debts, payments)
    BY <2>6, <2>7, <2>8 DEF Unwrapped
  <2>11. Sold(debts)
    BY <2>5, <2>6, <2>8 DEF Sold, SoldTo
  <2> QED
    BY <2>9, <2>10, <2>11 DEF Faithful
<1> QED
  BY <1>1, <1>2

LEMMA StepFaithful ==
    ASSUME IInv, Faithful(debts, payments, transfers), [Next]_vars, ~WrapsAnything
    PROVE  Faithful(debts', payments', transfers')
<1>1. CASE UNCHANGED vars
  BY <1>1 DEF vars
<1>2. CASE SaleSteps
  <2>1. ASSUME NEW b \in Buyers, NEW total \in Totals, NEW costs \in LineCosts,
               NEW received \in 0..total, NEW paid \in SUBSET {p \in Parties : costs[p] > 0},
               NEW ref \in AnyRef, CreateSale(b, total, costs, received, paid, ref)
        PROVE  Faithful(debts', payments', transfers')
    BY <2>1, CreateSaleFaithful
  <2>2. ASSUME NEW s \in DOMAIN sales, NEW b \in Buyers, NEW total \in Totals, NEW costs \in LineCosts,
               NEW existing \in Readings(s), EditSale(s, b, total, costs, existing)
        PROVE  Faithful(debts', payments', transfers')
    BY <2>2, EditSaleFaithful
  <2>3. ASSUME NEW s \in DOMAIN sales, CancelSale(s) PROVE Faithful(debts', payments', transfers')
    BY <2>3, ClosedFaithful DEF CancelSale
  <2> QED
    BY <1>2, <2>1, <2>2, <2>3 DEF SaleSteps
<1>3. CASE DebtSteps
  <2>1. ASSUME NEW e \in Entries, NEW s \in OnSale(e), CreateDebt(e, s) PROVE Faithful(debts', payments', transfers')
    BY <2>1, CreateDebtFaithful
  <2>2. ASSUME NEW d \in DOMAIN debts, CancelDebt(d) PROVE Faithful(debts', payments', transfers')
    BY <2>2, CancelledFaithful
  <2>3. ASSUME NEW d \in DOMAIN debts, NEW amount \in 0..MaxAmount, NEW how \in Hows, ShrinkPayable(d, amount, how)
        PROVE  Faithful(debts', payments', transfers')
    BY <2>3, ShrinkPayableFaithful
  <2> QED
    BY <1>3, <2>1, <2>2, <2>3 DEF DebtSteps
<1>4. CASE PaymentSteps
  <2>1. ASSUME NEW d \in DOMAIN debts, NEW amount \in Amounts, NEW ref \in AnyRef, AddPayment(d, amount, ref)
        PROVE  Faithful(debts', payments', transfers')
    BY <2>1, AddPaymentFaithful
  <2>2. ASSUME NEW s \in Suppliers, NEW amount \in Amounts, NEW credit \in 0..MaxAmount, NEW ref \in AnyRef,
               NEW picked \in SUBSET OpenInvoices(s, {}), PaySupplier(s, amount, credit, picked, ref)
        PROVE  Faithful(debts', payments', transfers')
    BY <2>2, PaySupplierFaithful
  <2>3. ASSUME NEW s \in Suppliers, NEW amount \in Amounts, NEW picked \in SUBSET OpenInvoices(s, {}),
               ApplyCredit(s, amount, picked)
        PROVE  Faithful(debts', payments', transfers')
    BY <2>3, ApplyCreditFaithful
  <2>4. ASSUME NEW b \in Buyers, NEW amount \in Amounts, NEW ref \in AnyRef, PayBuyer(b, amount, ref)
        PROVE  Faithful(debts', payments', transfers')
    BY <2>4, PayBuyerFaithful
  <2>5. ASSUME NEW p \in DOMAIN payments, ReversePayment(p) PROVE Faithful(debts', payments', transfers')
    BY <2>5, ReversePaymentFaithful
  <2>6. ASSUME NEW t \in DOMAIN transfers, NEW amount \in Amounts, NEW ref \in AnyRef, RefundTransfer(t, amount, ref)
        PROVE  Faithful(debts', payments', transfers')
    BY <2>6, RefundTransferFaithful
  <2>7. ASSUME NEW t \in DOMAIN transfers, NEW amount \in Amounts, CorrectTransfer(t, amount)
        PROVE  Faithful(debts', payments', transfers')
    <3>1. PICK ref \in AnyRef : ref = NoRef
      BY DEF AnyRef
    <3> QED
      BY <2>7, RefundTransferFaithful
  <2> QED
    BY <1>4, <2>1, <2>2, <2>3, <2>4, <2>5, <2>6, <2>7 DEF PaymentSteps
<1>5. CASE CorrectionSteps
  <2>1. ASSUME NEW d \in DOMAIN debts, NEW party \in Parties, NEW how \in Hows, WrongSupplier(d, party, how)
        PROVE  Faithful(debts', payments', transfers')
    BY <2>1, WrongSupplierFaithful
  <2>2. ASSUME NEW d \in DOMAIN debts, NEW of \in DOMAIN debts, NEW how \in Hows, DuplicateLiability(d, of, how)
        PROVE  Faithful(debts', payments', transfers')
    BY <2>2, DuplicateLiabilityFaithful
  <2>3. ASSUME NEW d \in DOMAIN debts, NoCost(d) PROVE Faithful(debts', payments', transfers')
    BY <2>3, CancelledFaithful
  <2>4. ASSUME NEW p \in DOMAIN payments, NEW as \in {"credit", "refund", "entry_error"}, NEW amount \in Amounts,
               Classify(p, as, amount)
        PROVE  Faithful(debts', payments', transfers')
    BY <2>4, ClassifyFaithful
  <2>5. ASSUME NEW p \in DOMAIN payments, Wrap(p) PROVE Faithful(debts', payments', transfers')
    BY <2>5, WrapFaithful
  <2> QED
    BY <1>5, <2>1, <2>2, <2>3, <2>4, <2>5 DEF CorrectionSteps
<1> QED
  BY <1>1, <1>2, <1>3, <1>4, <1>5 DEF Next

(* Rule R1, as finance.py and transfers.py keep it: as long as staff wrap only
   rows from before transfers (WrapsAnything), and no such payment was
   reversed before the company kept transfers (Legacy), money paid to a
   registered supplier is on that supplier's own transfers for good, whatever
   becomes of the debt it was paid on, of its sale and of its sale's supplier;
   and an invoice counts only what the supplier who is owed it received. *)
THEOREM ReceiverAlwaysKeepsMoney ==
    ASSUME ~WrapsAnything, Legacy # "reversed"
    PROVE  Spec => []ReceiverKeepsMoney
<1> DEFINE Fair == Faithful(debts, payments, transfers)
<1>1. Init => Fair
  BY InitFaithful
<1>2. IInv /\ Fair /\ [Next]_vars => Fair'
  BY StepFaithful
<1>3. Fair => ReceiverKeepsMoney
  <2>1. ASSUME Fair, NEW p \in DOMAIN payments, payments[p].to \in Suppliers, ~payments[p].reversed
        PROVE  debts[payments[p].debt].party = payments[p].to
    <3>1. Faces(debts[payments[p].debt], payments[p])
      BY <2>1 DEF Faithful, Placed
    <3> QED
      BY <2>1, <3>1, SuppliersApart DEF Faces
  <2> QED
    BY <2>1 DEF Faithful, Sent, ReceiverKeepsMoney
<1> HIDE DEF Fair
<1> QED
  BY <1>1, <1>2, <1>3, AlwaysKept, PTL DEF Spec

-----------------------------------------------------------------------------
(* What a sale's lines cost. *)

\* The debts of sales name one, an expense may, and no other debt does; a copy
\* was a supplier's.
Filed(ss, ds) ==
    \A d \in DOMAIN ds :
        /\ ds[d].source \in {"sale", "sale_cost"} => ds[d].sale \in DOMAIN ss
        /\ ds[d].sale # 0 => ds[d].sale \in DOMAIN ss /\ ds[d].source \in {"sale", "sale_cost", "expense"}
        /\ ds[d].source = "sale" => ds[d].direction = "receivable"
        /\ ds[d].duplicate # 0 => ds[d].source = "sale_cost"
\* What stands of a supplier's debts on a sale, and whether one of the sale was
\* cancelled as a copy.
Standing(ds, s, p) ==
    {d \in DOMAIN ds : ds[d].sale = s /\ ds[d].party = p /\ ds[d].direction = "payable"
        /\ ds[d].status \notin {"cancelled", "deleted"}}
\* No expense was recorded on the sale.
Plain(ds, s) == \A d \in DOMAIN ds : ds[d].sale = s => ds[d].source # "expense"
Copied(ds, s) == \E d \in DOMAIN ds : ds[d].sale = s /\ ds[d].status = "cancelled" /\ ds[d].duplicate # 0
\* A supplier has one debt on a sale, for what their lines cost.
Charged(ds, s, p, cost) ==
    /\ \A d \in Standing(ds, s, p) : ds[d].amount <= cost /\ (Copied(ds, s) \/ ds[d].amount = cost)
    /\ \A d, e \in Standing(ds, s, p) : d = e
    /\ cost > 0 => Copied(ds, s) \/ Standing(ds, s, p) # {}
AllCharged(ss, ds) ==
    /\ Filed(ss, ds)
    /\ \A s \in DOMAIN ss : ss[s].status = "active" /\ Plain(ds, s) => \A p \in Parties : Charged(ds, s, p, ss[s].costs[p])

\* A debt that is owed as before, to the same party.
Follows(row, next) ==
    /\ next.source = row.source /\ next.sale = row.sale /\ next.direction = row.direction
    /\ next.party = row.party /\ next.amount = row.amount /\ next.duplicate = row.duplicate
    /\ next.status = row.status \/ (row.status \in {"open", "settled"} /\ next.status \in {"open", "settled"})
\* A debt that is not a sale's own.
Apart(row, next) ==
    /\ row.sale # 0 => row.source = "expense"
    /\ row.source \notin {"sale", "sale_cost"} /\ next.sale = row.sale /\ next.source = row.source
    /\ next.duplicate = row.duplicate /\ next.direction = row.direction
Outside(row) == row.sale = 0 /\ row.source \notin {"sale", "sale_cost"} /\ row.duplicate = 0

LEMMA ChargedKept ==
    ASSUME NEW ds, NEW ds2, NEW s, NEW p, NEW cost, Charged(ds, s, p, cost), DOMAIN ds \subseteq DOMAIN ds2,
           \A d \in DOMAIN ds : Follows(ds[d], ds2[d]) \/ (ds[d].sale # s /\ ds2[d].sale # s),
           \A d \in DOMAIN ds2 : d \notin DOMAIN ds => ds2[d].sale # s
    PROVE  Charged(ds2, s, p, cost)
<1>1. ASSUME NEW d \in DOMAIN ds2, ds2[d].sale = s PROVE d \in DOMAIN ds /\ ds[d].sale = s /\ Follows(ds[d], ds2[d])
  BY <1>1 DEF Follows
<1>2. Standing(ds2, s, p) = Standing(ds, s, p)
  <2>1. ASSUME NEW d \in Standing(ds2, s, p) PROVE d \in Standing(ds, s, p)
    BY <1>1 DEF Standing, Follows
  <2>2. ASSUME NEW d \in Standing(ds, s, p) PROVE d \in Standing(ds2, s, p)
    BY DEF Standing, Follows
  <2> QED
    BY <2>1, <2>2
<1>3. Copied(ds, s) => Copied(ds2, s)
  BY DEF Copied, Follows
<1>4. Copied(ds2, s) => Copied(ds, s)
  BY <1>1 DEF Copied, Follows
<1>5. \A d \in Standing(ds, s, p) : ds2[d].amount = ds[d].amount
  BY DEF Standing, Follows
<1> QED
  BY <1>2, <1>3, <1>4, <1>5 DEF Charged

\* A step that leaves the debts of the sales as they are.
SalesStay(ds, ds2) ==
    /\ DOMAIN ds \subseteq DOMAIN ds2
    /\ \A d \in DOMAIN ds : Follows(ds[d], ds2[d]) \/ Apart(ds[d], ds2[d])
    /\ \A d \in DOMAIN ds2 : d \notin DOMAIN ds => Outside(ds2[d])
LEMMA SalesKept ==
    ASSUME NEW ss \in Seq(SaleRecord), NEW ds, AllCharged(ss, ds), NEW ds2, SalesStay(ds, ds2)
    PROVE  AllCharged(ss, ds2)
<1>1. 0 \notin DOMAIN ss
  BY LenProperties
<1>2. Filed(ss, ds2)
  <2> SUFFICES ASSUME NEW d \in DOMAIN ds2
               PROVE  /\ ds2[d].source \in {"sale", "sale_cost"} => ds2[d].sale \in DOMAIN ss
                      /\ ds2[d].sale # 0 =>
                            ds2[d].sale \in DOMAIN ss /\ ds2[d].source \in {"sale", "sale_cost", "expense"}
                      /\ ds2[d].source = "sale" => ds2[d].direction = "receivable"
                      /\ ds2[d].duplicate # 0 => ds2[d].source = "sale_cost"
    BY DEF Filed
  <2>1. CASE d \in DOMAIN ds
    BY <2>1 DEF AllCharged, Filed, SalesStay, Follows, Apart
  <2>2. CASE d \notin DOMAIN ds
    BY <2>2 DEF SalesStay, Outside
  <2> QED
    BY <2>1, <2>2
<1>3. ASSUME NEW s \in DOMAIN ss, ss[s].status = "active", Plain(ds2, s), NEW p \in Parties
      PROVE  Charged(ds2, s, p, ss[s].costs[p])
  <2>5. Plain(ds, s)
    BY <1>3 DEF Plain, SalesStay, Follows, Apart
  <2>1. Charged(ds, s, p, ss[s].costs[p])
    BY <1>3, <2>5 DEF AllCharged
  <2>2. \A d \in DOMAIN ds : Follows(ds[d], ds2[d]) \/ (ds[d].sale # s /\ ds2[d].sale # s)
    BY <1>1, <1>3 DEF SalesStay, Apart, Plain
  <2>3. \A d \in DOMAIN ds2 : d \notin DOMAIN ds => ds2[d].sale # s
    BY <1>1 DEF SalesStay, Outside
  <2>4. DOMAIN ds \subseteq DOMAIN ds2
    BY DEF SalesStay
  <2> QED
    BY <2>1, <2>2, <2>3, <2>4, ChargedKept
<1> QED
  BY <1>2, <1>3 DEF AllCharged

\* A step that rewrites the debts of one sale.
Stays(row, next) ==
    /\ next.sale = row.sale /\ next.source = row.source /\ next.direction = row.direction
    /\ next.duplicate = row.duplicate \/ row.source = "sale_cost"
OneSale(ss, ds, s, ss2, ds2) ==
    /\ s \in DOMAIN ss /\ DOMAIN ss2 = DOMAIN ss /\ \A u \in DOMAIN ss : u # s => ss2[u] = ss[u]
    /\ DOMAIN ds \subseteq DOMAIN ds2
    /\ \A d \in DOMAIN ds : Follows(ds[d], ds2[d]) \/ (ds[d].sale = s /\ Stays(ds[d], ds2[d]))
    /\ \A d \in DOMAIN ds2 : d \notin DOMAIN ds =>
          ds2[d].sale = s /\ ds2[d].source = "sale_cost" /\ ds2[d].duplicate = 0
    /\ ss2[s].status = "active" /\ Plain(ds2, s) => \A p \in Parties : Charged(ds2, s, p, ss2[s].costs[p])
LEMMA SaleRewritten ==
    ASSUME NEW ss, NEW ds, AllCharged(ss, ds), NEW s, NEW ss2, NEW ds2, OneSale(ss, ds, s, ss2, ds2)
    PROVE  AllCharged(ss2, ds2)
<1>0. /\ s \in DOMAIN ss /\ DOMAIN ss2 = DOMAIN ss /\ \A u \in DOMAIN ss : u # s => ss2[u] = ss[u]
      /\ DOMAIN ds \subseteq DOMAIN ds2
      /\ \A d \in DOMAIN ds : Follows(ds[d], ds2[d]) \/ (ds[d].sale = s /\ Stays(ds[d], ds2[d]))
      /\ \A d \in DOMAIN ds2 : d \notin DOMAIN ds =>
            ds2[d].sale = s /\ ds2[d].source = "sale_cost" /\ ds2[d].duplicate = 0
      /\ ss2[s].status = "active" /\ Plain(ds2, s) => \A p \in Parties : Charged(ds2, s, p, ss2[s].costs[p])
  BY DEF OneSale
<1>1. Filed(ss2, ds2)
  <2> SUFFICES ASSUME NEW d \in DOMAIN ds2
               PROVE  /\ ds2[d].source \in {"sale", "sale_cost"} => ds2[d].sale \in DOMAIN ss2
                      /\ ds2[d].sale # 0 =>
                            ds2[d].sale \in DOMAIN ss2 /\ ds2[d].source \in {"sale", "sale_cost", "expense"}
                      /\ ds2[d].source = "sale" => ds2[d].direction = "receivable"
                      /\ ds2[d].duplicate # 0 => ds2[d].source = "sale_cost"
    BY DEF Filed
  <2>1. CASE d \in DOMAIN ds
    <3>1. Follows(ds[d], ds2[d]) \/ Stays(ds[d], ds2[d])
      BY <1>0, <2>1
    <3> QED
      BY <1>0, <2>1, <3>1 DEF AllCharged, Filed, Follows, Stays
  <2>2. CASE d \notin DOMAIN ds
    BY <1>0, <2>2
  <2> QED
    BY <2>1, <2>2
<1>2. ASSUME NEW u \in DOMAIN ss2, ss2[u].status = "active", Plain(ds2, u), NEW p \in Parties
      PROVE  Charged(ds2, u, p, ss2[u].costs[p])
  <2>1. CASE u = s
    BY <1>0, <1>2, <2>1
  <2>2. CASE u # s
    <3>1. ss2[u] = ss[u]
      BY <1>0, <2>2
    <3>6. Plain(ds, u)
      BY <1>0, <1>2 DEF Plain, Follows, Stays
    <3>2. Charged(ds, u, p, ss[u].costs[p])
      BY <1>0, <1>2, <3>1, <3>6 DEF AllCharged
    <3>3. \A d \in DOMAIN ds : Follows(ds[d], ds2[d]) \/ (ds[d].sale # u /\ ds2[d].sale # u)
      BY <1>0, <2>2 DEF Stays
    <3>4. \A d \in DOMAIN ds2 : d \notin DOMAIN ds => ds2[d].sale # u
      BY <1>0, <2>2
    <3>5. Charged(ds2, u, p, ss[u].costs[p])
      BY <1>0, <3>2, <3>3, <3>4, ChargedKept
    <3> QED
      BY <3>1, <3>5
  <2> QED
    BY <2>1, <2>2
<1> QED
  BY <1>1, <1>2 DEF AllCharged

\* Payments leave the debts they count on owed as before, as long as they are
\* on debts that are owed.
OnLive(ds, new) == \A k \in DOMAIN new : ds[new[k].debt].status \in {"open", "settled"}
LEMMA CountedFollows ==
    ASSUME NEW ds \in Seq(DebtRecord), NEW new, OnLive(ds, new), NEW d \in DOMAIN ds
    PROVE  Follows(ds[d], Counted(ds, new)[d])
<1> DEFINE here == {k \in DOMAIN new : new[k].debt = d}
           paid == ds[d].paid + WorthOf(new, here)
           row == Counted(ds, new)[d]
<1>1. row = IF here = {} THEN ds[d]
            ELSE [ds[d] EXCEPT !.paid = paid, !.status = IF paid = ds[d].amount THEN "settled" ELSE "open"]
  BY DEF Counted
<1>2. here # {} => ds[d].status \in {"open", "settled"}
  BY DEF OnLive
<1>3. ds[d] \in DebtRecord
  BY RowIs
<1> HIDE DEF here, paid, row
<1>4. CASE here = {}
  BY <1>1, <1>4 DEF Follows, row
<1>5. CASE here # {}
  <2>1. PICK st \in {"open", "settled"} : row = [ds[d] EXCEPT !.paid = paid, !.status = st]
    <3>1. row = [ds[d] EXCEPT !.paid = paid, !.status = IF paid = ds[d].amount THEN "settled" ELSE "open"]
      BY <1>1, <1>5
    <3> QED
      BY <3>1
  <2>2. /\ row.source = ds[d].source /\ row.sale = ds[d].sale /\ row.direction = ds[d].direction
        /\ row.party = ds[d].party /\ row.amount = ds[d].amount /\ row.duplicate = ds[d].duplicate
        /\ row.status = st
    BY ONLY <1>3, <2>1 DEF DebtRecord
  <2> QED
    BY <1>2, <1>5, <2>2 DEF Follows, row
<1> QED
  BY <1>4, <1>5

LEMMA CountedStays ==
    ASSUME NEW ds \in Seq(DebtRecord), NEW new, OnLive(ds, new)
    PROVE  SalesStay(ds, Counted(ds, new))
<1>1. DOMAIN Counted(ds, new) = DOMAIN ds
  BY DEF Counted
<1> QED
  BY <1>1, CountedFollows DEF SalesStay

\* Payments that come off a debt leave it owed as before.
LEMMA OffFollows ==
    ASSUME debts \in Seq(DebtRecord), NEW d \in DOMAIN debts, NEW P, NEW credit, NEW e \in DOMAIN debts
    PROVE  /\ DOMAIN TakenOff(d, P, credit).debts = DOMAIN debts
           /\ Follows(debts[e], TakenOff(d, P, credit).debts[e])
<1> DEFINE es == TakenOff(d, P, credit).debts
<1>1. es = [debts EXCEPT ![d].paid = debts[d].paid - WorthOf(payments, P)]
  BY DEF TakenOff
<1>2. debts[e] \in DebtRecord
  BY RowIs
<1> HIDE DEF es
<1>3. PICK w : es[e] = debts[e] \/ es[e] = [debts[e] EXCEPT !.paid = w]
  BY <1>1
<1>4. /\ es[e].source = debts[e].source /\ es[e].sale = debts[e].sale /\ es[e].direction = debts[e].direction
      /\ es[e].party = debts[e].party /\ es[e].amount = debts[e].amount /\ es[e].duplicate = debts[e].duplicate
      /\ es[e].status = debts[e].status
  BY ONLY <1>2, <1>3 DEF DebtRecord
<1> QED
  BY <1>1, <1>4 DEF Follows, es

LEMMA CreateDebtCharged ==
    ASSUME IInv, AllCharged(sales, debts), NEW e \in Entries, NEW s \in OnSale(e), CreateDebt(e, s)
    PROVE  AllCharged(sales', debts')
<1> DEFINE row == NewDebt(e.direction, e.party, e.amount, e.source, s)
           ds2 == Append(debts, row)
<1>1. debts \in Seq(DebtRecord) /\ DOMAIN debts = 1..Len(debts) /\ Len(debts) \in Nat /\ sales \in Seq(SaleRecord)
  BY LenProperties DEF IInv, Kept, Sound
<1>2. s # 0 => s \in DOMAIN sales /\ e.source = "expense"
  BY DEF OnSale
<1>3. e.source \in {"manual", "expense", "batch_receipt"}
  BY LedgerAssumption
<1>4. row.sale = s /\ row.source = e.source /\ row.duplicate = 0
  BY DEF NewDebt
<1>5. debts' = ds2 /\ sales' = sales
  BY DEF CreateDebt
<1> HIDE DEF row
<1>6. /\ DOMAIN ds2 = 1..(Len(debts) + 1) /\ ds2[Len(debts) + 1] = row
      /\ \A d \in 1..Len(debts) : ds2[d] = debts[d]
  BY <1>1
<1> HIDE DEF ds2
<1>7. ASSUME NEW d \in DOMAIN ds2, d \notin DOMAIN debts PROVE ds2[d] = row
  BY <1>1, <1>6, <1>7
<1>8. /\ DOMAIN debts \subseteq DOMAIN ds2 /\ \A d \in DOMAIN debts : ds2[d] = debts[d]
      /\ Len(debts) + 1 \in DOMAIN ds2
  BY <1>1, <1>6
<1>9. Filed(sales, ds2)
  <2>1. ASSUME NEW d \in DOMAIN ds2, d \notin DOMAIN debts
        PROVE  ds2[d].sale = s /\ ds2[d].source = e.source /\ ds2[d].duplicate = 0
    BY <1>4, <1>7, <2>1
  <2>2. Filed(sales, debts)
    BY DEF AllCharged
  <2> QED
    BY <1>2, <1>3, <1>8, <2>1, <2>2 DEF Filed
<1>10. ASSUME NEW u \in DOMAIN sales, sales[u].status = "active", Plain(ds2, u), NEW p \in Parties
       PROVE  Charged(ds2, u, p, sales[u].costs[p])
  <2>1. 0 \notin DOMAIN sales
    BY <1>1, LenProperties
  <2>2. s # u
    BY <1>2, <1>4, <1>6, <1>8, <1>10, <2>1 DEF Plain
  <2>3. Plain(debts, u)
    BY <1>8, <1>10 DEF Plain
  <2>4. Charged(debts, u, p, sales[u].costs[p])
    BY <1>10, <2>3 DEF AllCharged
  <2>5. \A d \in DOMAIN debts : Follows(debts[d], ds2[d])
    BY <1>8 DEF Follows
  <2>6. \A d \in DOMAIN ds2 : d \notin DOMAIN debts => ds2[d].sale # u
    BY <1>4, <1>7, <2>2
  <2> QED
    BY <1>8, <2>4, <2>5, <2>6, ChargedKept
<1> QED
  BY <1>5, <1>9, <1>10 DEF AllCharged

\* A row that is not a sale's own is written anew.
LEMMA ApartStays ==
    ASSUME NEW ds, NEW d \in DOMAIN ds, NEW ds2, DOMAIN ds2 = DOMAIN ds, Apart(ds[d], ds2[d]),
           \A e \in DOMAIN ds : e # d => ds2[e] = ds[e]
    PROVE  SalesStay(ds, ds2)
  BY DEF SalesStay, Follows

LEMMA CancelDebtCharged ==
    ASSUME IInv, AllCharged(sales, debts), NEW d \in DOMAIN debts, CancelDebt(d)
    PROVE  AllCharged(sales', debts')
<1>1. /\ sales \in Seq(SaleRecord) /\ debts \in Seq(DebtRecord)
      /\ debts' = [debts EXCEPT ![d].status = "cancelled"] /\ sales' = sales
      /\ debts[d].source \in {"manual", "expense"}
  BY DEF CancelDebt, CanCancel, IInv, Kept, Sound
<1>2. debts[d].sale # 0 => debts[d].source = "expense"
  BY <1>1 DEF AllCharged, Filed
<1>3. Apart(debts[d], debts'[d])
  <2>1. debts[d] \in DebtRecord /\ debts'[d] = [debts[d] EXCEPT !.status = "cancelled"]
    BY <1>1, RowIs
  <2>2. /\ debts'[d].sale = debts[d].sale /\ debts'[d].source = debts[d].source
        /\ debts'[d].duplicate = debts[d].duplicate /\ debts'[d].direction = debts[d].direction
    BY ONLY <2>1 DEF DebtRecord
  <2> QED
    BY <1>1, <1>2, <2>2 DEF Apart
<1>4. SalesStay(debts, debts')
  <2>1. DOMAIN debts' = DOMAIN debts /\ \A e \in DOMAIN debts : e # d => debts'[e] = debts[e]
    BY <1>1
  <2> QED
    BY ONLY <1>3, <2>1, d \in DOMAIN debts, ApartStays
<1> QED
  BY <1>1, <1>4, SalesKept

LEMMA AddPaymentCharged ==
    ASSUME IInv, AllCharged(sales, debts),
           NEW d \in DOMAIN debts, NEW amount \in Amounts, NEW ref \in AnyRef, AddPayment(d, amount, ref)
    PROVE  AllCharged(sales', debts')
<1> DEFINE new == NewMoney(debts, <<<<d, amount>>>>, ref).payments
<1>1. /\ sales \in Seq(SaleRecord) /\ debts \in Seq(DebtRecord)
      /\ debts' = Counted(debts, new) /\ sales' = sales /\ Live(d)
  BY DEF AddPayment, CanPay, IInv, Kept, Sound
<1>2. ASSUME NEW k \in DOMAIN new PROVE new[k].debt = d
  BY DEF NewMoney, NewPayment
<1> HIDE DEF new
<1>3. OnLive(debts, new)
  BY <1>1, <1>2, RowIs DEF OnLive, Live
<1>4. SalesStay(debts, Counted(debts, new))
  BY <1>1, <1>3, CountedStays
<1> QED
  BY <1>1, <1>4, SalesKept

\* Payments on open debts.
LEMMA PiecesLive ==
    ASSUME IInv, NEW s \in Suppliers, NEW S \in SUBSET DOMAIN debts, \A d \in S : debts[d].status = "open",
           NEW amount \in Nat
    PROVE  OnLive(debts, CreditPieces(debts, transfers, InOrder(S), CreditHolders(transfers, s), amount))
<1> DEFINE o == InOrder(S)
           ids == CreditHolders(transfers, s)
           new == CreditPieces(debts, transfers, o, ids, amount)
<1>1. Booked(debts, payments) /\ debts \in Seq(DebtRecord) /\ transfers \in Seq(TransferRecord)
  BY DEF IInv, Kept, Sound
<1>2. PICK n \in Nat : n = Cardinality(S) /\ Payable(o, n, debts) /\ \A i \in 1..n : o[i] \in S
  BY <1>1, OpenPayable
<1>3. PICK m \in Nat : Holding(ids, m, transfers)
  BY <1>1, HoldersHold
<1> HIDE DEF o, ids
<1>4. \A k \in DOMAIN new : \E i \in 1..n : new[k].debt = o[i] /\ new[k].to = debts[o[i]].party
  BY <1>1, <1>2, <1>3, PiecesIs
<1> HIDE DEF new
<1>5. OnLive(debts, new)
  BY <1>2, <1>4 DEF OnLive
<1> QED
  BY <1>5 DEF new, o, ids

LEMMA ApplyCreditCharged ==
    ASSUME IInv, AllCharged(sales, debts),
           NEW s \in Suppliers, NEW amount \in Amounts, NEW picked, ApplyCredit(s, amount, picked)
    PROVE  AllCharged(sales', debts')
<1> DEFINE S == OpenInvoices(s, picked)
           new == CreditPieces(debts, transfers, InOrder(S), CreditHolders(transfers, s), amount)
<1>1. sales \in Seq(SaleRecord) /\ debts \in Seq(DebtRecord) /\ debts' = Counted(debts, new) /\ sales' = sales
  BY DEF ApplyCredit, IInv, Kept, Sound
<1>2. S \in SUBSET DOMAIN debts /\ amount \in Nat /\ \A d \in S : debts[d].status = "open"
  BY LedgerAssumption DEF OpenInvoices, Amounts
<1> HIDE DEF S
<1>3. OnLive(debts, new)
  BY <1>2, PiecesLive
<1> HIDE DEF new
<1>4. SalesStay(debts, Counted(debts, new))
  BY <1>1, <1>3, CountedStays
<1> QED
  BY <1>1, <1>4, SalesKept

LEMMA PayBuyerCharged ==
    ASSUME IInv, AllCharged(sales, debts),
           NEW b \in Buyers, NEW amount \in Amounts, NEW ref \in AnyRef, PayBuyer(b, amount, ref)
    PROVE  AllCharged(sales', debts')
<1> DEFINE S == OpenBuyerDebts(b)
           g == Max(Groups) + 1
           new == Split(debts, InOrder(S), amount, 0, g, ref)
<1>1. /\ Booked(debts, payments) /\ debts \in Seq(DebtRecord) /\ payments \in Seq(PaymentRecord)
      /\ sales \in Seq(SaleRecord) /\ debts' = Counted(debts, new) /\ sales' = sales
  BY DEF PayBuyer, IInv, Kept, Sound
<1>2. amount \in Nat /\ ref \in Refs \cup {NoRef} /\ g \in Nat
  BY <1>1, NextGroup, LedgerAssumption DEF Amounts, AnyRef
<1> HIDE DEF g
<1>3. S \in SUBSET DOMAIN debts /\ \A d \in S : debts[d].status = "open"
  BY DEF OpenBuyerDebts
<1> HIDE DEF S
<1>4. PICK n \in Nat : Payable(InOrder(S), n, debts) /\ \A i \in 1..n : InOrder(S)[i] \in S
  BY <1>1, <1>3, OpenPayable
<1>5. PICK z \in Nat : z = 0
  OBVIOUS
<1> DEFINE one == Split(debts, InOrder(S), amount, z, g, ref)
<1>6. OneMoney(one, InOrder(S), n, debts, z, g, ref)
  BY <1>1, <1>2, <1>4, SplitIs
<1>7. one = new
  BY <1>5
<1> HIDE DEF one, new
<1>8. OnLive(debts, new)
  BY <1>3, <1>4, <1>6, <1>7 DEF OnLive, OneMoney
<1>9. SalesStay(debts, Counted(debts, new))
  BY <1>1, <1>8, CountedStays
<1> QED
  BY <1>1, <1>9, SalesKept

LEMMA PaySupplierCharged ==
    ASSUME IInv, AllCharged(sales, debts),
           NEW s \in Suppliers, NEW amount \in Amounts, NEW credit \in 0..MaxAmount, NEW ref \in AnyRef,
           NEW picked, PaySupplier(s, amount, credit, picked, ref)
    PROVE  AllCharged(sales', debts')
<1> DEFINE S == OpenInvoices(s, picked)
           ids == InOrder(S)
           used == CreditPieces(debts, transfers, ids, CreditHolders(transfers, s), credit)
           rest == Counted(debts, used)
           t == Len(transfers) + 1
           new == Split(rest, ids, amount, t, 0, NoRef)
<1>1. debts' = Counted(rest, new) /\ sales' = sales /\ amount + credit <= Owed(S)
  BY DEF PaySupplier, CanPaySupplier
<1>2. /\ S \in SUBSET DOMAIN debts /\ (\A d \in S : debts[d].status = "open")
      /\ amount \in Nat \ {0} /\ credit \in Nat
  BY LedgerAssumption DEF OpenInvoices, Amounts
<1>3. /\ Booked(debts, payments) /\ debts \in Seq(DebtRecord) /\ sales \in Seq(SaleRecord)
      /\ transfers \in Seq(TransferRecord) /\ Len(transfers) \in Nat
  BY LenProperties DEF IInv, Kept, Sound
<1> HIDE DEF S
<1>4. PICK n \in Nat : n = Cardinality(S) /\ Payable(ids, n, debts) /\ SizeOfAll(ids, n, debts) = Owed(S)
  BY <1>2, <1>3, OpenPayable
<1>5. \A i \in 1..n : ids[i] \in S
  BY <1>2, <1>3, <1>4, OpenPayable
<1>6. used \in Seq(PaymentRecord)
  BY <1>2, CreditKeeps
<1>7. \A i \in 1..n : WorthOf(used, On(used, ids[i])) <= Share(SizesOf(ids, debts), credit, i)
  BY <1>2, <1>4, CreditKeeps
<1>8. OnLive(debts, used)
  BY <1>2, PiecesLive
<1>9. amount \in Nat /\ amount + credit <= SizeOfAll(ids, n, debts)
  BY <1>1, <1>2, <1>4
<1> HIDE DEF ids, used
<1>10. Payable(ids, n, rest)
  BY <1>2, <1>3, <1>4, <1>6, <1>7, <1>9, RestPays
<1>11. rest \in Seq(DebtRecord) /\ SalesStay(debts, rest) /\ \A d \in DOMAIN debts : Follows(debts[d], rest[d])
  <2>1. rest \in Seq(DebtRecord)
    BY <1>3, <1>6, CountedIs
  <2>2. SalesStay(debts, rest)
    BY <1>3, <1>8, CountedStays
  <2>3. ASSUME NEW d \in DOMAIN debts PROVE Follows(debts[d], rest[d])
    BY <1>3, <1>8, CountedFollows
  <2> QED
    BY <2>1, <2>2, <2>3
<1>12. AllCharged(sales, rest)
  BY <1>3, <1>11, SalesKept
<1> HIDE DEF rest
<1>13. \A i \in 1..n : rest[ids[i]].status \in {"open", "settled"}
  BY <1>2, <1>5, <1>11 DEF Follows
<1>14. PICK z \in Nat, u \in Nat, r \in Refs \cup {NoRef}, a \in Nat : z = 0 /\ u = t /\ r = NoRef /\ a = amount
  BY <1>2, <1>3
<1> DEFINE one == Split(rest, ids, a, u, z, r)
<1>15. one = new
  BY <1>14
<1>16. OneMoney(one, ids, n, rest, u, z, r)
  BY <1>10, <1>11, SplitIs
<1> HIDE DEF one, new
<1>17. OnLive(rest, new)
  BY <1>13, <1>15, <1>16 DEF OnLive, OneMoney
<1>18. SalesStay(rest, Counted(rest, new))
  BY <1>11, <1>17, CountedStays
<1> QED
  BY <1>1, <1>3, <1>12, <1>18, SalesKept

LEMMA ReversePaymentCharged ==
    ASSUME IInv, AllCharged(sales, debts), NEW p \in DOMAIN payments, ReversePayment(p)
    PROVE  AllCharged(sales', debts')
<1> DEFINE d == payments[p].debt
           es == TakenOff(d, {p}, TRUE).debts
<1>1. debts' = [es EXCEPT ![d].status = "open"] /\ sales' = sales /\ ~payments[p].reversed
  BY DEF ReversePayment
<1>2. /\ debts \in Seq(DebtRecord) /\ sales \in Seq(SaleRecord) /\ d \in DOMAIN debts
  BY DEF IInv, Kept, Sound, Linked
<1>3. debts[d].status \in {"open", "settled"}
  <2>1. p \in Active(payments, d)
    BY <1>1 DEF Active
  <2>2. debts[d].paid # 0
    BY <1>2, <2>1, NothingActive
  <2> QED
    BY <1>2, <2>2, RowIs DEF IInv, Kept, Booked, Allocated
<1>4. DOMAIN es = DOMAIN debts /\ \A e \in DOMAIN debts : Follows(debts[e], es[e])
  BY <1>2, OffFollows
<1>5. es[d] = [debts[d] EXCEPT !.paid = debts[d].paid - WorthOf(payments, {p})]
  BY <1>2 DEF TakenOff
<1> HIDE DEF d, es
<1>6. Follows(debts[d], debts'[d])
  <2>1. debts[d] \in DebtRecord
    BY <1>2, RowIs
  <2>2. PICK w : debts'[d] = [debts[d] EXCEPT !.paid = w, !.status = "open"]
    BY <1>1, <1>2, <1>4, <1>5
  <2>3. /\ debts'[d].source = debts[d].source /\ debts'[d].sale = debts[d].sale
        /\ debts'[d].direction = debts[d].direction /\ debts'[d].party = debts[d].party
        /\ debts'[d].amount = debts[d].amount /\ debts'[d].duplicate = debts[d].duplicate
        /\ debts'[d].status = "open"
    BY ONLY <2>1, <2>2 DEF DebtRecord
  <2> QED
    BY <1>3, <2>3 DEF Follows
<1>7. SalesStay(debts, debts')
  <2>1. DOMAIN debts' = DOMAIN debts
    BY <1>1, <1>4
  <2>2. ASSUME NEW e \in DOMAIN debts, e # d PROVE debts'[e] = es[e]
    BY <1>1, <1>4, <2>2
  <2>3. ASSUME NEW e \in DOMAIN debts PROVE Follows(debts[e], debts'[e])
    BY <1>4, <1>6, <2>2
  <2> QED
    BY <2>1, <2>3 DEF SalesStay
<1> QED
  BY <1>1, <1>2, <1>7, SalesKept

\* What goes back on the one invoice goes back on it alone.
LEMMA PiecesBack ==
    ASSUME NEW ds, NEW ts, NEW d, NEW t, NEW amount, NEW k \in DOMAIN CreditPieces(ds, ts, <<d>>, <<t>>, amount)
    PROVE  CreditPieces(ds, ts, <<d>>, <<t>>, amount)[k].debt = d
<1> DEFINE over == <<d>>
           ids == <<t>>
           sizes == [i \in DOMAIN over |-> Balances(ds)[over[i]]]
           held == [i \in DOMAIN ids |-> Credit(ts, ids[i])]
           S == {m \in (DOMAIN over) \X (DOMAIN ids) : Overlap(sizes, held, amount, m[1], m[2]) > 0}
           met == RowByRow(S)
           new == CreditPieces(ds, ts, over, ids, amount)
<1>1. DOMAIN new = DOMAIN met /\ new[k].debt = over[met[k][1]]
  BY DEF CreditPieces, NewPayment
<1>2. S \in SUBSET (Int \X Int) /\ IsFiniteSet(S) /\ \A m \in S : m[1] = 1
  <2>1. DOMAIN over = {1} /\ DOMAIN ids = {1}
    OBVIOUS
  <2>2. S \subseteq {<<1, 1>>}
    BY <2>1
  <2> HIDE DEF S
  <2>3. IsFiniteSet({<<1, 1>>})
    BY FS_Singleton
  <2> QED
    BY <2>2, <2>3, FS_Subset
<1>3. k \in DOMAIN met
  BY <1>1
<1> HIDE DEF S
<1>4. met[k] \in S
  BY <1>2, <1>3, RowByRowIs DEF Matches
<1> HIDE DEF met, new
<1> QED
  BY <1>1, <1>2, <1>4 DEF new

LEMMA ShrinkPayableCharged ==
    ASSUME IInv, AllCharged(sales, debts),
           NEW d \in DOMAIN debts, NEW amount \in 0..MaxAmount, NEW how \in Hows, ShrinkPayable(d, amount, how)
    PROVE  AllCharged(sales', debts')
<1> DEFINE excess == debts[d].paid - amount
           P == IF excess > 0 THEN Newest(d, excess) ELSE {}
           off == TakenOff(d, P, how = "credit")
           surplus == -(excess - (debts[d].paid - off.debts[d].paid))
           last == off.payments[CHOOSE p \in P : \A q \in P : p <= q].transfer
           less == [off.debts EXCEPT ![d].amount = amount]
           back == IF P # {} /\ how = "credit" /\ surplus > 0
                   THEN CreditPieces(less, off.transfers, <<d>>, <<last>>, surplus) ELSE <<>>
           cs == Counted(less, back)
<1>1. /\ debts[d].source = "batch_receipt" /\ sales' = sales
      /\ IF amount = 0 THEN debts' = [off.debts EXCEPT ![d].status = "cancelled"]
         ELSE debts' = [cs EXCEPT ![d].status = IF cs[d].paid = amount THEN "settled" ELSE "open"]
  <2>1. ShrinkPayable(d, amount, how)
    OBVIOUS
  <2> QED
    BY ONLY <2>1, Zenon DEF ShrinkPayable
<1>2. sales \in Seq(SaleRecord) /\ debts \in Seq(DebtRecord) /\ debts[d].sale = 0
  BY <1>1 DEF IInv, Kept, Sound, Received
<1>3. \A k \in DOMAIN back : back[k].debt = d
  <2> HIDE DEF less, surplus, last, off, P
  <2> QED
    BY PiecesBack
<1> DEFINE es == off.debts
<1>4. es = [debts EXCEPT ![d].paid = debts[d].paid - WorthOf(payments, P)]
  <2> HIDE DEF P
  <2> QED
    BY DEF TakenOff
<1>5. less = [es EXCEPT ![d].amount = amount]
  OBVIOUS
<1> HIDE DEF es, less, back, off, P
<1>6. /\ DOMAIN cs = DOMAIN less
      /\ \A e \in DOMAIN less : e # d => cs[e] = less[e]
      /\ d \in DOMAIN less =>
            cs[d] = less[d] \/ \E w, st : cs[d] = [less[d] EXCEPT !.paid = w, !.status = st]
  <2>1. DOMAIN cs = DOMAIN less
    BY DEF Counted
  <2>2. ASSUME NEW e \in DOMAIN less, e # d PROVE cs[e] = less[e]
    <3>1. {k \in DOMAIN back : back[k].debt = e} = {}
      BY <1>3, <2>2
    <3> QED
      BY <3>1 DEF Counted
  <2>3. ASSUME d \in DOMAIN less
        PROVE  cs[d] = less[d] \/ \E w, st : cs[d] = [less[d] EXCEPT !.paid = w, !.status = st]
    <3> DEFINE here == {k \in DOMAIN back : back[k].debt = d}
               w == less[d].paid + WorthOf(back, here)
               st == IF w = less[d].amount THEN "settled" ELSE "open"
    <3>1. cs[d] = IF here = {} THEN less[d] ELSE [less[d] EXCEPT !.paid = w, !.status = st]
      BY <2>3 DEF Counted
    <3> HIDE DEF cs, here, w, st
    <3> QED
      BY <3>1, Zenon
  <2> QED
    BY <2>1, <2>2, <2>3
<1> HIDE DEF cs
<1>7. PICK row : /\ debts' = [debts EXCEPT ![d] = row]
                 /\ row.sale = debts[d].sale /\ row.source = debts[d].source
                 /\ row.duplicate = debts[d].duplicate /\ row.direction = debts[d].direction
  <2>1. debts[d] \in DebtRecord
    BY <1>2, RowIs
  <2>2. PICK w : es = [debts EXCEPT ![d] = [debts[d] EXCEPT !.paid = w]]
    BY <1>4
  <2>3. CASE amount = 0
    <3> DEFINE r == [[debts[d] EXCEPT !.paid = w] EXCEPT !.status = "cancelled"]
    <3>1. debts' = [debts EXCEPT ![d] = r]
      BY <1>1, <2>2, <2>3 DEF es
    <3>2. /\ r.sale = debts[d].sale /\ r.source = debts[d].source
          /\ r.duplicate = debts[d].duplicate /\ r.direction = debts[d].direction
      BY ONLY <2>1 DEF DebtRecord
    <3> QED
      BY <3>1, <3>2
  <2>4. CASE amount # 0
    <3> DEFINE r1 == [[debts[d] EXCEPT !.paid = w] EXCEPT !.amount = amount]
    <3>1. less = [debts EXCEPT ![d] = r1]
      BY <1>5, <2>2
    <3> HIDE DEF r1
    <3>2. DOMAIN less = DOMAIN debts /\ less[d] = r1 /\ \A e \in DOMAIN debts : e # d => less[e] = debts[e]
      BY <3>1
    <3>3. PICK w2, st2 : cs[d] = r1 \/ cs[d] = [r1 EXCEPT !.paid = w2, !.status = st2]
      BY <1>6, <3>2
    <3>4. PICK st : debts' = [cs EXCEPT ![d].status = st]
      BY <1>1, <2>4
    <3> DEFINE r == [cs[d] EXCEPT !.status = st]
    <3>5. debts' = [d2 \in DOMAIN debts |-> IF d2 = d THEN r ELSE debts[d2]]
      BY <1>6, <3>2, <3>4
    <3>6. debts' = [debts EXCEPT ![d] = r]
      BY <3>5
    <3>7. /\ r.sale = debts[d].sale /\ r.source = debts[d].source
          /\ r.duplicate = debts[d].duplicate /\ r.direction = debts[d].direction
      BY ONLY <2>1, <3>3 DEF DebtRecord, r1
    <3> QED
      BY <3>6, <3>7
  <2> QED
    BY <2>3, <2>4
<1>8. Apart(debts[d], row) /\ debts'[d] = row
  BY <1>1, <1>2, <1>7 DEF Apart
<1>9. DOMAIN debts' = DOMAIN debts /\ \A e \in DOMAIN debts : e # d => debts'[e] = debts[e]
  BY <1>7
<1>10. SalesStay(debts, debts')
  BY ONLY <1>8, <1>9, d \in DOMAIN debts, ApartStays
<1> QED
  BY <1>1, <1>2, <1>10, SalesKept

-----------------------------------------------------------------------------
(* Steps on the debts of one sale. *)

LEMMA PayablesStand ==
    ASSUME NEW s, NEW p
    PROVE  {d \in Payables(s) : debts[d].party = p} = Standing(debts, s, p)
  BY DEF Payables, OfSale, Live, Standing

LEMMA CoveredCopied == ASSUME NEW s PROVE Covered(s) # {} <=> Copied(debts, s)
<1>1. Covered(s) # {} <=> \E e \in OfSale(s) : debts[e].status = "cancelled" /\ debts[e].duplicate # 0
  BY DEF Covered
<1> QED
  BY <1>1 DEF OfSale, Copied

\* What keeps standing is owed as before.
LEMMA ChargedSame ==
    ASSUME NEW ds, NEW s, NEW p, NEW cost, Charged(ds, s, p, cost),
           NEW ds2, Standing(ds2, s, p) = Standing(ds, s, p),
           \A d \in Standing(ds, s, p) : ds2[d].amount = ds[d].amount,
           Copied(ds, s) => Copied(ds2, s)
    PROVE  Charged(ds2, s, p, cost)
  BY DEF Charged

\* One debt is cancelled and the others are owed as before.
Closed(ds, d, ds2) ==
    /\ DOMAIN ds2 = DOMAIN ds /\ ds2[d].status = "cancelled"
    /\ \A e \in DOMAIN ds : e # d => Follows(ds[e], ds2[e])
LEMMA RowClosed ==
    ASSUME NEW ds, NEW d \in DOMAIN ds, ds[d].status \notin {"cancelled", "deleted"}, NEW ds2, Closed(ds, d, ds2),
           NEW s, NEW p
    PROVE  /\ Standing(ds2, s, p) = Standing(ds, s, p) \ {d}
           /\ \A e \in Standing(ds2, s, p) : ds2[e].amount = ds[e].amount
           /\ Copied(ds, s) => Copied(ds2, s)
<1>1. ASSUME NEW e \in Standing(ds2, s, p) PROVE e \in Standing(ds, s, p) \ {d} /\ ds2[e].amount = ds[e].amount
  BY DEF Standing, Closed, Follows
<1>2. ASSUME NEW e \in Standing(ds, s, p), e # d PROVE e \in Standing(ds2, s, p)
  BY <1>2 DEF Standing, Closed, Follows
<1>3. ASSUME Copied(ds, s) PROVE Copied(ds2, s)
  <2>1. PICK e \in DOMAIN ds : ds[e].sale = s /\ ds[e].status = "cancelled" /\ ds[e].duplicate # 0
    BY <1>3 DEF Copied
  <2>2. e # d
    BY <2>1
  <2> QED
    BY <2>1, <2>2 DEF Closed, Follows, Copied
<1> QED
  BY <1>1, <1>2, <1>3

\* An expense stays recorded on the sale it was recorded on.
LEMMA PlainBefore ==
    ASSUME NEW ds, NEW ds2, NEW s, DOMAIN ds \subseteq DOMAIN ds2, Plain(ds2, s),
           \A d \in DOMAIN ds : Follows(ds[d], ds2[d]) \/ (ds[d].sale = s /\ Stays(ds[d], ds2[d]))
    PROVE  Plain(ds, s)
  BY DEF Plain, Follows, Stays

\* A correction is about a debt that stands on an active sale.
LEMMA CorrectedStands ==
    ASSUME IInv, AllCharged(sales, debts), NEW d \in DOMAIN debts, CanCorrect(d)
    PROVE  /\ debts[d].sale \in DOMAIN sales /\ sales[debts[d].sale].status = "active"
           /\ debts[d].party \in Parties /\ d \in Standing(debts, debts[d].sale, debts[d].party)
           /\ debts[d].source = "sale_cost" /\ debts[d].status \notin {"cancelled", "deleted"}
           /\ Plain(debts, debts[d].sale) =>
                 \A p \in Parties : Charged(debts, debts[d].sale, p, sales[debts[d].sale].costs[p])
<1>1. debts[d].source = "sale_cost" /\ debts[d].status \notin {"cancelled", "deleted"}
      /\ sales[debts[d].sale].status = "active"
  BY DEF CanCorrect, Live
<1>2. debts[d].sale \in DOMAIN sales
  BY <1>1 DEF AllCharged, Filed
<1>3. debts[d].direction = "payable" /\ debts[d].party \in Parties
  BY <1>1 DEF IInv, Kept, Costed
<1> QED
  BY <1>1, <1>2, <1>3 DEF AllCharged, Standing

LEMMA CancelSaleCharged ==
    ASSUME IInv, AllCharged(sales, debts), NEW s \in DOMAIN sales, CancelSale(s)
    PROVE  AllCharged(sales', debts')
<1>1. /\ sales \in Seq(SaleRecord) /\ debts \in Seq(DebtRecord)
      /\ sales' = [sales EXCEPT ![s].status = "cancelled"]
      /\ debts' = [d \in DOMAIN debts |->
            IF d \in OfSale(s) THEN [debts[d] EXCEPT !.status = "cancelled"] ELSE debts[d]]
  BY DEF CancelSale, IInv, Kept, Sound
<1>2. /\ DOMAIN sales' = DOMAIN sales /\ \A u \in DOMAIN sales : u # s => sales'[u] = sales[u]
      /\ sales'[s].status = "cancelled"
  <2>1. sales[s] \in SaleRecord /\ sales'[s] = [sales[s] EXCEPT !.status = "cancelled"]
    BY <1>1, ElementOfSeq, LenProperties
  <2>2. sales'[s].status = "cancelled"
    BY ONLY <2>1 DEF SaleRecord
  <2> QED
    BY <1>1, <2>2
<1>3. DOMAIN debts' = DOMAIN debts
  BY <1>1
<1>4. ASSUME NEW d \in DOMAIN debts
      PROVE  Follows(debts[d], debts'[d]) \/ (debts[d].sale = s /\ Stays(debts[d], debts'[d]))
  <2>1. debts[d] \in DebtRecord
    BY <1>1, RowIs
  <2>2. CASE d \in OfSale(s)
    <3>1. debts'[d] = [debts[d] EXCEPT !.status = "cancelled"]
      BY <1>1, <2>2
    <3>2. /\ debts'[d].sale = debts[d].sale /\ debts'[d].source = debts[d].source
          /\ debts'[d].direction = debts[d].direction /\ debts'[d].duplicate = debts[d].duplicate
      BY ONLY <2>1, <3>1 DEF DebtRecord
    <3> QED
      BY <2>2, <3>2 DEF Stays, OfSale
  <2>3. CASE d \notin OfSale(s)
    BY <1>1, <2>3 DEF Follows
  <2> QED
    BY <2>2, <2>3
<1>5. OneSale(sales, debts, s, sales', debts')
  BY <1>2, <1>3, <1>4 DEF OneSale
<1> QED
  BY <1>5, SaleRewritten

LEMMA NoCostCharged ==
    ASSUME IInv, AllCharged(sales, debts), NEW d \in DOMAIN debts, NoCost(d)
    PROVE  AllCharged(sales', debts')
<1> DEFINE s == debts[d].sale
           q == debts[d].party
<1>1. /\ sales \in Seq(SaleRecord) /\ debts \in Seq(DebtRecord) /\ CanCorrect(d)
      /\ debts' = [debts EXCEPT ![d].status = "cancelled"] /\ sales' = [sales EXCEPT ![s].costs[q] = 0]
  BY DEF NoCost, CanClearCost, IInv, Kept, Sound
<1>2. /\ s \in DOMAIN sales /\ q \in Parties /\ d \in Standing(debts, s, q) /\ sales[s].status = "active"
      /\ debts[d].source = "sale_cost" /\ debts[d].status \notin {"cancelled", "deleted"}
      /\ Plain(debts, s) => \A p \in Parties : Charged(debts, s, p, sales[s].costs[p])
  BY <1>1, CorrectedStands
<1>3. Closed(debts, d, debts') /\ Stays(debts[d], debts'[d])
  <2>1. debts[d] \in DebtRecord /\ debts'[d] = [debts[d] EXCEPT !.status = "cancelled"]
    BY <1>1, RowIs
  <2>2. /\ debts'[d].sale = debts[d].sale /\ debts'[d].source = debts[d].source
        /\ debts'[d].direction = debts[d].direction /\ debts'[d].duplicate = debts[d].duplicate
        /\ debts'[d].status = "cancelled"
    BY ONLY <2>1 DEF DebtRecord
  <2>3. DOMAIN debts' = DOMAIN debts /\ \A e \in DOMAIN debts : e # d => debts'[e] = debts[e]
    BY <1>1
  <2> QED
    BY <2>2, <2>3 DEF Closed, Stays, Follows
<1>4. /\ DOMAIN sales' = DOMAIN sales /\ \A u \in DOMAIN sales : u # s => sales'[u] = sales[u]
      /\ \A p \in Parties : sales'[s].costs[p] = IF p = q THEN 0 ELSE sales[s].costs[p]
  <2>1. sales[s] \in SaleRecord /\ sales'[s] = [sales[s] EXCEPT !.costs[q] = 0]
    BY <1>1, <1>2, ElementOfSeq, LenProperties
  <2>2. sales'[s].costs = [sales[s].costs EXCEPT ![q] = 0] /\ sales[s].costs \in [Parties -> Nat]
    BY ONLY <2>1 DEF SaleRecord
  <2>3. \A p \in Parties : sales'[s].costs[p] = IF p = q THEN 0 ELSE sales[s].costs[p]
    BY <2>2
  <2> QED
    BY <1>1, <2>3
<1> HIDE DEF s, q
<1>6. \A e \in DOMAIN debts : Follows(debts[e], debts'[e]) \/ (debts[e].sale = s /\ Stays(debts[e], debts'[e]))
  BY <1>3 DEF Closed, s
<1>7. DOMAIN debts' = DOMAIN debts
  BY <1>3 DEF Closed
<1>5. ASSUME Plain(debts', s), NEW p \in Parties PROVE Charged(debts', s, p, sales'[s].costs[p])
  <2>4. \A r \in Parties : Charged(debts, s, r, sales[s].costs[r])
    BY <1>2, <1>5, <1>6, <1>7, PlainBefore
  <2>1. /\ Standing(debts', s, p) = Standing(debts, s, p) \ {d}
        /\ \A e \in Standing(debts', s, p) : debts'[e].amount = debts[e].amount
        /\ Copied(debts, s) => Copied(debts', s)
    BY <1>2, <1>3, RowClosed
  <2>2. CASE p = q
    <3>1. Standing(debts', s, p) = {}
      BY <1>2, <2>1, <2>2, <2>4 DEF Charged
    <3> QED
      BY <1>4, <2>2, <3>1 DEF Charged
  <2>3. CASE p # q
    <3>1. d \notin Standing(debts, s, p)
      BY <2>3 DEF Standing, q
    <3>2. Standing(debts', s, p) = Standing(debts, s, p)
      BY <2>1, <3>1
    <3> QED
      BY <1>2, <1>4, <2>1, <2>3, <2>4, <3>2, ChargedSame
  <2> QED
    BY <2>2, <2>3
<1>8. OneSale(sales, debts, s, sales', debts')
  BY <1>2, <1>4, <1>5, <1>6, <1>7 DEF OneSale
<1> QED
  BY <1>8, SaleRewritten

\* A debt that is released and cancelled.
LEMMA ReleasedClosed ==
    ASSUME IInv, NEW d \in DOMAIN debts, NEW how
    PROVE  LET ds2 == [Released(d, how).debts EXCEPT ![d].status = "cancelled"]
           IN /\ ds2 \in Seq(DebtRecord) /\ DOMAIN ds2 = DOMAIN debts
              /\ Closed(debts, d, ds2) /\ Stays(debts[d], ds2[d])
<1> DEFINE P == Active(payments, d)
           credit == how = "credit"
           es == Released(d, how).debts
           row == [es[d] EXCEPT !.status = "cancelled"]
           ds2 == [es EXCEPT ![d].status = "cancelled"]
<1>1. debts \in Seq(DebtRecord)
  BY DEF IInv, Kept, Sound
<1>2. es \in Seq(DebtRecord) /\ DOMAIN es = DOMAIN debts
  BY ReleasedRows
<1>3. \A e \in DOMAIN debts : Follows(debts[e], es[e])
  <2>1. es = TakenOff(d, P, credit).debts
    BY DEF Released
  <2> HIDE DEF es, P, credit
  <2> QED
    BY <1>1, <2>1, OffFollows
<1> HIDE DEF es
<1>4. es[d] \in DebtRecord
  BY <1>2, RowIs
<1>5. /\ row \in DebtRecord /\ row.sale = es[d].sale /\ row.source = es[d].source
      /\ row.direction = es[d].direction /\ row.duplicate = es[d].duplicate /\ row.status = "cancelled"
  BY ONLY <1>4 DEF DebtRecord
<1>6. ds2 = [es EXCEPT ![d] = row]
  OBVIOUS
<1> HIDE DEF row, ds2
<1>7. ds2 \in Seq(DebtRecord) /\ DOMAIN ds2 = DOMAIN es
  BY <1>2, <1>5, <1>6, RowChanged
<1>8. ds2[d] = row /\ \A e \in DOMAIN debts : e # d => ds2[e] = es[e]
  BY <1>2, <1>6
<1>9. Closed(debts, d, ds2) /\ Stays(debts[d], ds2[d])
  BY <1>2, <1>3, <1>5, <1>7, <1>8 DEF Closed, Stays, Follows
<1> QED
  BY <1>2, <1>7, <1>9 DEF ds2, es

LEMMA DuplicateLiabilityCharged ==
    ASSUME IInv, AllCharged(sales, debts),
           NEW d \in DOMAIN debts, NEW of \in DOMAIN debts, NEW how \in Hows, DuplicateLiability(d, of, how)
    PROVE  AllCharged(sales', debts')
<1> DEFINE s == debts[d].sale
           es == Released(d, how).debts
           ds2 == [es EXCEPT ![d].status = "cancelled"]
<1>1. /\ sales' = sales /\ CanCorrect(d) /\ of # d
      /\ debts' = [es EXCEPT ![d].status = "cancelled", ![d].duplicate = of, ![of].related = TRUE]
  BY DEF DuplicateLiability, IsDuplicate, DuplicateCandidates
<1>2. /\ ds2 \in Seq(DebtRecord) /\ DOMAIN ds2 = DOMAIN debts
      /\ Closed(debts, d, ds2) /\ Stays(debts[d], ds2[d])
  BY ReleasedClosed
<1>3. /\ s \in DOMAIN sales /\ sales[s].status = "active"
      /\ debts[d].source = "sale_cost" /\ debts[d].status \notin {"cancelled", "deleted"}
      /\ Plain(debts, s) => \A p \in Parties : Charged(debts, s, p, sales[s].costs[p])
  BY <1>1, CorrectedStands
<1>4. of # 0
  BY LenProperties DEF IInv, Kept, Sound
<1>5. debts' = [ds2 EXCEPT ![d].duplicate = of, ![of].related = TRUE]
  BY <1>1
<1> HIDE DEF ds2
<1>6. /\ debts'[d] = [ds2[d] EXCEPT !.duplicate = of]
      /\ debts'[of] = [ds2[of] EXCEPT !.related = TRUE]
      /\ \A e \in DOMAIN debts : e # d /\ e # of => debts'[e] = ds2[e]
      /\ DOMAIN debts' = DOMAIN debts
  BY <1>1, <1>2, <1>5
<1>7. ds2[d] \in DebtRecord /\ ds2[of] \in DebtRecord
  BY <1>2, RowIs
<1>8. /\ debts'[d].sale = ds2[d].sale /\ debts'[d].source = ds2[d].source
      /\ debts'[d].direction = ds2[d].direction /\ debts'[d].status = ds2[d].status
      /\ debts'[d].duplicate = of
  BY ONLY <1>6, <1>7 DEF DebtRecord
<1>9. Follows(ds2[of], debts'[of])
  BY ONLY <1>6, <1>7 DEF DebtRecord, Follows
<1>10. Closed(debts, d, debts') /\ Stays(debts[d], debts'[d])
  <2>1. ASSUME NEW e \in DOMAIN debts, e # d PROVE Follows(debts[e], debts'[e])
    <3>1. Follows(debts[e], ds2[e])
      BY <1>2, <2>1 DEF Closed
    <3>2. CASE e = of
      BY <1>9, <3>1, <3>2 DEF Follows
    <3>3. CASE e # of
      BY <1>6, <2>1, <3>1, <3>3
    <3> QED
      BY <3>2, <3>3
  <2> QED
    BY <1>2, <1>3, <1>6, <1>8, <2>1 DEF Closed, Stays
<1>11. Copied(debts', s)
  BY <1>2, <1>4, <1>6, <1>8, <1>10 DEF Copied, Closed, Stays
<1> HIDE DEF s
<1>13. \A e \in DOMAIN debts : Follows(debts[e], debts'[e]) \/ (debts[e].sale = s /\ Stays(debts[e], debts'[e]))
  BY <1>10 DEF Closed, s
<1>12. ASSUME Plain(debts', s), NEW p \in Parties PROVE Charged(debts', s, p, sales'[s].costs[p])
  <2>2. \A r \in Parties : Charged(debts, s, r, sales[s].costs[r])
    BY <1>3, <1>6, <1>12, <1>13, PlainBefore
  <2>1. /\ Standing(debts', s, p) = Standing(debts, s, p) \ {d}
        /\ \A e \in Standing(debts', s, p) : debts'[e].amount = debts[e].amount
    BY <1>3, <1>10, RowClosed
  <2> QED
    BY <1>1, <1>3, <1>11, <2>1, <2>2 DEF Charged
<1>14. OneSale(sales, debts, s, sales', debts')
  BY <1>1, <1>3, <1>6, <1>12, <1>13 DEF OneSale
<1> QED
  BY <1>14, SaleRewritten

\* A debt moved to another supplier: theirs on the sale grows by it, or is new.
MovedTo(ds, s, d, party, ds2) ==
    /\ DOMAIN ds \subseteq DOMAIN ds2 /\ ds2[d].status = "cancelled" /\ Stays(ds[d], ds2[d])
    /\ \E t \in DOMAIN ds2 :
          /\ t # d /\ ds2[t].sale = s /\ ds2[t].party = party /\ ds2[t].direction = "payable" /\ ds2[t].status = "open"
          /\ \A e \in DOMAIN ds2 : e \in {d, t} \/ (e \in DOMAIN ds /\ Follows(ds[e], ds2[e]))
          /\ IF t \in DOMAIN ds
             THEN t \in Standing(ds, s, party) /\ Stays(ds[t], ds2[t]) /\ ds2[t].amount = ds[t].amount + ds[d].amount
             ELSE /\ Standing(ds, s, party) = {} /\ ds2[t].amount = ds[d].amount
                  /\ ds2[t].source = "sale_cost" /\ ds2[t].duplicate = 0
Shifted(costs, costs2, party, q) ==
    \A p \in Parties : costs2[p] = IF p = party THEN costs[party] + costs[q] ELSE IF p = q THEN 0 ELSE costs[p]
LEMMA MovedCharged ==
    ASSUME NEW ds \in Seq(DebtRecord), NEW s, NEW d \in DOMAIN ds, NEW q, NEW party, party # q, d \in Standing(ds, s, q),
           NEW ds2, MovedTo(ds, s, d, party, ds2), NEW costs \in [Parties -> Nat], q \in Parties, party \in Parties,
           NEW costs2, Shifted(costs, costs2, party, q),
           \A p \in Parties : Charged(ds, s, p, costs[p]),
           NEW p \in Parties
    PROVE  Charged(ds2, s, p, costs2[p])
<1>1. PICK t \in DOMAIN ds2 :
          /\ t # d /\ ds2[t].sale = s /\ ds2[t].party = party /\ ds2[t].direction = "payable" /\ ds2[t].status = "open"
          /\ \A e \in DOMAIN ds2 : e \in {d, t} \/ (e \in DOMAIN ds /\ Follows(ds[e], ds2[e]))
          /\ IF t \in DOMAIN ds
             THEN t \in Standing(ds, s, party) /\ ds2[t].amount = ds[t].amount + ds[d].amount
             ELSE Standing(ds, s, party) = {} /\ ds2[t].amount = ds[d].amount
  BY DEF MovedTo
<1>2. DOMAIN ds \subseteq DOMAIN ds2 /\ ds2[d].status = "cancelled"
  BY DEF MovedTo
<1>3. Copied(ds, s) => Copied(ds2, s)
  <2> SUFFICES ASSUME NEW e \in DOMAIN ds, ds[e].sale = s, ds[e].status = "cancelled", ds[e].duplicate # 0
               PROVE  Copied(ds2, s)
    BY DEF Copied
  <2>1. e # d /\ e # t
    BY <1>1 DEF Standing
  <2>2. Follows(ds[e], ds2[e]) /\ e \in DOMAIN ds2
    BY <1>1, <1>2, <2>1
  <2> QED
    BY <2>2 DEF Follows, Copied
<1>4. ASSUME NEW r, NEW e, e # d, e # t PROVE e \in Standing(ds2, s, r) <=> e \in Standing(ds, s, r)
  BY <1>1, <1>2, <1>4 DEF Standing, Follows
<1>5. ASSUME NEW e \in DOMAIN ds2, e # d, e # t PROVE ds2[e].amount = ds[e].amount
  BY <1>1, <1>5 DEF Follows
<1>6. d \notin Standing(ds2, s, p) /\ (t \in Standing(ds2, s, p) <=> p = party)
  BY <1>1, <1>2 DEF Standing
<1>7. Charged(ds, s, p, costs[p]) /\ Charged(ds, s, q, costs[q]) /\ Charged(ds, s, party, costs[party])
  OBVIOUS
<1>8. CASE p = party
  <2>1. Standing(ds2, s, p) = {t}
    <3>1. ASSUME NEW e \in Standing(ds2, s, p), e # t PROVE FALSE
      <4>1. e \in Standing(ds, s, party)
        BY <1>4, <1>6, <1>8, <3>1
      <4>2. t \in Standing(ds, s, party)
        BY <1>1, <4>1
      <4> QED
        BY <1>7, <3>1, <4>1, <4>2 DEF Charged
    <3> QED
      BY <1>6, <1>8, <3>1
  <2>2. PICK a \in Nat \ {0} : a = ds[d].amount
    BY RowIs
  <2>3. PICK c1 \in Nat, c2 \in Nat : c1 = costs[q] /\ c2 = costs[party]
    OBVIOUS
  <2>4. a <= c1 /\ (Copied(ds, s) \/ a = c1)
    BY <1>7, <2>2, <2>3 DEF Charged
  <2>5. costs2[p] = c2 + c1
    BY <1>8, <2>3 DEF Shifted
  <2>6. ds2[t].amount <= c2 + c1 /\ (Copied(ds, s) \/ ds2[t].amount = c2 + c1)
    <3>1. CASE t \in DOMAIN ds
      <4>1. t \in Standing(ds, s, party) /\ ds2[t].amount = ds[t].amount + a
        BY <1>1, <2>2, <3>1
      <4>2. PICK b \in Nat \ {0} : b = ds[t].amount
        BY <3>1, RowIs
      <4>3. b <= c2 /\ (Copied(ds, s) \/ b = c2)
        BY <1>7, <2>3, <4>1, <4>2 DEF Charged
      <4> QED
        BY <2>4, <4>1, <4>2, <4>3
    <3>2. CASE t \notin DOMAIN ds
      <4>1. Standing(ds, s, party) = {} /\ ds2[t].amount = a
        BY <1>1, <2>2, <3>2
      <4>2. Copied(ds, s) \/ c2 = 0
        BY <1>7, <2>3, <4>1 DEF Charged
      <4> QED
        BY <2>4, <4>1, <4>2
    <3> QED
      BY <3>1, <3>2
  <2> QED
    BY <1>3, <2>1, <2>5, <2>6 DEF Charged
<1>9. CASE p = q
  <2>1. Standing(ds2, s, p) = {}
    <3> SUFFICES ASSUME NEW e \in Standing(ds2, s, p) PROVE FALSE
      OBVIOUS
    <3>1. e # d /\ e # t
      BY <1>6, <1>9
    <3>2. e \in Standing(ds, s, q)
      BY <1>4, <1>9, <3>1
    <3> QED
      BY <1>7, <3>1, <3>2 DEF Charged
  <2>2. costs2[p] = 0
    BY <1>9 DEF Shifted
  <2> QED
    BY <2>1, <2>2 DEF Charged
<1>10. CASE p # party /\ p # q
  <2>1. d \notin Standing(ds, s, p) /\ t \notin Standing(ds, s, p)
    BY <1>1, <1>10 DEF Standing
  <2>2. Standing(ds2, s, p) = Standing(ds, s, p)
    <3>1. ASSUME NEW e PROVE e \in Standing(ds2, s, p) <=> e \in Standing(ds, s, p)
      <4>1. d \notin Standing(ds2, s, p) /\ t \notin Standing(ds2, s, p)
        BY <1>6, <1>10
      <4> QED
        BY <1>4, <2>1, <4>1
    <3> QED
      BY ONLY <3>1
  <2>3. \A e \in Standing(ds, s, p) : ds2[e].amount = ds[e].amount
    BY <1>2, <1>5, <2>1 DEF Standing
  <2>4. costs2[p] = costs[p]
    BY <1>10 DEF Shifted
  <2>5. Charged(ds2, s, p, costs[p])
    BY <1>3, <1>7, <2>2, <2>3, ChargedSame
  <2> QED
    BY <2>4, <2>5
<1> QED
  BY <1>8, <1>9, <1>10

LEMMA WrongSupplierCharged ==
    ASSUME IInv, AllCharged(sales, debts),
           NEW d \in DOMAIN debts, NEW party \in Parties, NEW how \in Hows, WrongSupplier(d, party, how)
    PROVE  AllCharged(sales', debts')
<1> DEFINE s == debts[d].sale
           q == debts[d].party
           ds2 == [Released(d, how).debts EXCEPT ![d].status = "cancelled"]
           other == {e \in Payables(s) : debts[e].party = party}
           target == CHOOSE e \in other : TRUE
           new == [NewDebt("payable", party, debts[d].amount, "sale_cost", s) EXCEPT !.related = TRUE]
           moved == [sales[s].costs EXCEPT ![party] = @ + sales[s].costs[q], ![q] = 0]
<1>1. /\ debts' = IF other = {} THEN Append(ds2, new) ELSE [ds2 EXCEPT ![target] = Joined(ds2[target], d)]
      /\ sales' = [sales EXCEPT ![s].costs = moved] /\ CanCorrect(d) /\ party # q
  BY DEF WrongSupplier, CanMove
<1>2. /\ ds2 \in Seq(DebtRecord) /\ DOMAIN ds2 = DOMAIN debts
      /\ Closed(debts, d, ds2) /\ Stays(debts[d], ds2[d])
  BY ReleasedClosed
<1>3. /\ s \in DOMAIN sales /\ q \in Parties /\ d \in Standing(debts, s, q) /\ sales[s].status = "active"
      /\ debts[d].source = "sale_cost" /\ debts[d].status \notin {"cancelled", "deleted"}
      /\ Plain(debts, s) => \A p \in Parties : Charged(debts, s, p, sales[s].costs[p])
  BY <1>1, CorrectedStands
<1>4. /\ sales \in Seq(SaleRecord) /\ debts \in Seq(DebtRecord)
      /\ DOMAIN debts = 1..Len(debts) /\ DOMAIN ds2 = 1..Len(ds2) /\ Len(ds2) \in Nat
  BY <1>2, LenProperties DEF IInv, Kept, Sound
<1>5. /\ DOMAIN sales' = DOMAIN sales /\ \A u \in DOMAIN sales : u # s => sales'[u] = sales[u]
      /\ sales[s].costs \in [Parties -> Nat]
      /\ \A p \in Parties : sales'[s].costs[p] =
            IF p = party THEN sales[s].costs[party] + sales[s].costs[q] ELSE IF p = q THEN 0 ELSE sales[s].costs[p]
  <2>1. sales[s] \in SaleRecord /\ sales'[s] = [sales[s] EXCEPT !.costs = moved]
    BY <1>1, <1>3, <1>4, ElementOfSeq
  <2> HIDE DEF moved
  <2>2. sales'[s].costs = moved /\ sales[s].costs \in [Parties -> Nat]
    BY ONLY <2>1 DEF SaleRecord
  <2>3. \A p \in Parties : moved[p] =
           IF p = party THEN sales[s].costs[party] + sales[s].costs[q] ELSE IF p = q THEN 0 ELSE sales[s].costs[p]
    BY <1>1, <1>3, <2>2 DEF moved
  <2> QED
    BY <1>1, <2>2, <2>3
<1>6. other = Standing(debts, s, party)
  BY PayablesStand
<1> HIDE DEF ds2, other, moved
<1>7. MovedTo(debts, s, d, party, debts') /\ \A e \in DOMAIN debts' : e \notin DOMAIN debts =>
         debts'[e].sale = s /\ debts'[e].source = "sale_cost" /\ debts'[e].duplicate = 0
  <2>1. CASE other = {}
    <3> DEFINE n == Len(ds2) + 1
    <3>1. /\ new.sale = s /\ new.party = party /\ new.direction = "payable" /\ new.status = "open"
          /\ new.amount = debts[d].amount /\ new.source = "sale_cost" /\ new.duplicate = 0
      BY DEF NewDebt
    <3>2. debts' = Append(ds2, new)
      BY <1>1, <2>1
    <3> HIDE DEF new
    <3>3. /\ DOMAIN debts' = 1..(Len(ds2) + 1) /\ debts'[n] = new /\ \A i \in 1..Len(ds2) : debts'[i] = ds2[i]
      BY <1>4, <3>2
    <3>4. n \notin DOMAIN debts /\ n \in DOMAIN debts' /\ DOMAIN debts \subseteq DOMAIN debts'
          /\ \A e \in DOMAIN debts' : e # n => e \in DOMAIN debts /\ debts'[e] = ds2[e]
      BY <1>2, <1>4, <3>3
    <3> HIDE DEF n
    <3>5. MovedTo(debts, s, d, party, debts')
      <4>1. debts'[d] = ds2[d] /\ n # d
        BY <1>4, <3>4
      <4>2. \A e \in DOMAIN debts' : e \in {d, n} \/ (e \in DOMAIN debts /\ Follows(debts[e], debts'[e]))
        BY <1>2, <3>4 DEF Closed
      <4> QED
        BY <1>2, <1>6, <2>1, <3>1, <3>3, <3>4, <4>1, <4>2 DEF MovedTo, Closed
    <3> QED
      BY <3>1, <3>3, <3>4, <3>5
  <2>2. CASE other # {}
    <3>1. target \in other
      BY <2>2
    <3>2. /\ target \in DOMAIN debts /\ target \in Standing(debts, s, party) /\ target # d
          /\ debts[target].sale = s /\ debts[target].party = party /\ debts[target].direction = "payable"
      BY <1>1, <1>6, <3>1 DEF Standing
    <3>3. debts' = [ds2 EXCEPT ![target] = Joined(ds2[target], d)]
      BY <1>1, <2>2
    <3> HIDE DEF target
    <3>4. ds2[target] \in DebtRecord
      BY <1>2, <3>2, RowIs
    <3> DEFINE row == Joined(ds2[target], d)
    <3>5. /\ row.sale = ds2[target].sale /\ row.party = ds2[target].party /\ row.direction = ds2[target].direction
          /\ row.source = ds2[target].source /\ row.duplicate = ds2[target].duplicate /\ row.status = "open"
          /\ row.amount = ds2[target].amount + debts[d].amount
      BY ONLY <3>4 DEF DebtRecord, Joined
    <3> HIDE DEF row
    <3>6. Follows(debts[target], ds2[target])
      BY <1>2, <3>2 DEF Closed
    <3>7. /\ DOMAIN debts' = DOMAIN debts /\ debts'[target] = row
          /\ \A e \in DOMAIN debts : e # target => debts'[e] = ds2[e]
      BY <1>2, <3>2, <3>3 DEF row
    <3>8. Stays(debts[target], debts'[target]) /\ debts'[target].amount = debts[target].amount + debts[d].amount
      BY <3>5, <3>6, <3>7 DEF Stays, Follows
    <3>9. \A e \in DOMAIN debts' : e \in {d, target} \/ (e \in DOMAIN debts /\ Follows(debts[e], debts'[e]))
      BY <1>2, <3>7 DEF Closed
    <3>10. debts'[d] = ds2[d]
      BY <3>2, <3>7
    <3>11. /\ debts'[target].sale = s /\ debts'[target].party = party /\ debts'[target].direction = "payable"
           /\ debts'[target].status = "open"
      BY <3>2, <3>5, <3>6, <3>7 DEF Follows
    <3>12. MovedTo(debts, s, d, party, debts')
      BY <1>2, <3>2, <3>7, <3>8, <3>9, <3>10, <3>11 DEF MovedTo, Closed
    <3> QED
      BY <3>7, <3>12
  <2> QED
    BY <2>1, <2>2
<1> HIDE DEF s, q
<1>9. DOMAIN debts \subseteq DOMAIN debts' /\ \A e \in DOMAIN debts :
         Follows(debts[e], debts'[e]) \/ (debts[e].sale = s /\ Stays(debts[e], debts'[e]))
  <2>1. DOMAIN debts \subseteq DOMAIN debts' /\ Stays(debts[d], debts'[d]) /\ debts[d].sale = s
    BY <1>7 DEF MovedTo, s
  <2>2. PICK t \in DOMAIN debts' :
           /\ \A e \in DOMAIN debts' : e \in {d, t} \/ (e \in DOMAIN debts /\ Follows(debts[e], debts'[e]))
           /\ t \in DOMAIN debts => t \in Standing(debts, s, party) /\ Stays(debts[t], debts'[t])
    BY <1>7 DEF MovedTo
  <2> QED
    BY <2>1, <2>2 DEF Standing
<1>8. ASSUME Plain(debts', s), NEW p \in Parties PROVE Charged(debts', s, p, sales'[s].costs[p])
  <2> DEFINE costs == sales[s].costs
             costs2 == sales'[s].costs
  <2>1. /\ \A r \in Parties : Charged(debts, s, r, costs[r])
        /\ costs \in [Parties -> Nat] /\ Shifted(costs, costs2, party, q)
    BY <1>3, <1>5, <1>8, <1>9, PlainBefore DEF Shifted
  <2> HIDE DEF costs, costs2
  <2>2. /\ party # q /\ d \in Standing(debts, s, q) /\ q \in Parties /\ debts \in Seq(DebtRecord)
        /\ MovedTo(debts, s, d, party, debts') /\ party \in Parties /\ d \in DOMAIN debts /\ p \in Parties
    BY <1>1, <1>3, <1>4, <1>7
  <2>3. Charged(debts', s, p, costs2[p])
    BY ONLY <2>1, <2>2, MovedCharged
  <2> QED
    BY <2>3 DEF costs2
<1>10. OneSale(sales, debts, s, sales', debts')
  BY <1>3, <1>5, <1>7, <1>8, <1>9 DEF OneSale
<1> QED
  BY <1>10, SaleRewritten

-----------------------------------------------------------------------------
(* A sale is edited. *)

\* A debt of a sale that stands is the one its supplier is found by.
LEMMA ReadingsAll ==
    ASSUME IInv, AllCharged(sales, debts), NEW s \in DOMAIN sales, sales[s].status = "active", Plain(debts, s),
           NEW existing \in Readings(s), NEW d \in Payables(s)
    PROVE  debts[d].party \in DOMAIN existing /\ existing[debts[d].party] = d /\ debts[d].source = "sale_cost"
<1>1. s # 0
  BY LenProperties DEF IInv, Kept
<1>2. d \in DOMAIN debts /\ debts[d].sale = s /\ debts[d].direction = "payable"
  BY DEF Payables, OfSale
<1>3. debts[d].source = "sale_cost"
  BY <1>1, <1>2 DEF AllCharged, Filed, Plain
<1>4. debts[d].party \in Parties
  BY <1>2, <1>3 DEF IInv, Kept, Costed
<1> DEFINE p == debts[d].party
<1>5. p \in DOMAIN existing /\ existing[p] \in Payables(s) /\ debts[existing[p]].party = p
  BY DEF Readings
<1>6. d \in Standing(debts, s, p) /\ existing[p] \in Standing(debts, s, p)
  BY <1>5, PayablesStand
<1>7. Charged(debts, s, p, sales[s].costs[p])
  BY <1>4 DEF AllCharged
<1> HIDE DEF p
<1>8. existing[p] = d
  BY <1>6, <1>7 DEF Charged
<1> QED
  BY <1>3, <1>5, <1>8 DEF p

LEMMA KeptAll ==
    ASSUME NEW s, NEW costs, NEW existing, DOMAIN existing \subseteq Parties, NEW x \in DOMAIN existing
    PROVE  \E p \in DOMAIN KeptDebts(s, costs, existing) : KeptDebts(s, costs, existing)[p] = existing[x]
<1> DEFINE keys == DOMAIN existing
           costed == {p \in Parties : costs[p] > 0}
           removed == keys \ costed
           added == (costed \ keys) \ Covered(s)
           swapped == Cardinality(removed) = 1 /\ Cardinality(added) = 1
           one == CHOOSE q \in removed : TRUE
           swap == [p \in (keys \ removed) \cup added |-> IF p \in keys THEN existing[p] ELSE existing[one]]
           kept == IF swapped THEN swap ELSE existing
<1>1. IsFiniteSet(added) /\ IsFiniteSet(removed)
  <2>1. added \subseteq Parties /\ removed \subseteq Parties
    OBVIOUS
  <2> HIDE DEF added, removed
  <2> QED
    BY <2>1, LedgerAssumption, FS_Subset
<1>2. ASSUME swapped PROVE \E p \in DOMAIN swap : swap[p] = existing[x]
  <2>1. PICK a : added = {a}
    <3>1. Cardinality(added) = 1
      BY <1>2
    <3> HIDE DEF added
    <3> QED
      BY <1>1, <3>1, FS_Singleton
  <2>2. PICK b : removed = {b}
    <3>1. Cardinality(removed) = 1
      BY <1>2
    <3> HIDE DEF removed
    <3> QED
      BY <1>1, <3>1, FS_Singleton
  <2>3. one = b
    <3> HIDE DEF removed
    <3> QED
      BY <2>2
  <2>4. /\ DOMAIN swap = (keys \ removed) \cup {a} /\ a \notin keys
        /\ \A p \in keys \ removed : swap[p] = existing[p]
        /\ swap[a] = existing[b]
    <3>1. a \notin keys
      BY <2>1
    <3> HIDE DEF added, one
    <3> QED
      BY <2>1, <2>3, <3>1
  <2> HIDE DEF swap, removed
  <2>5. CASE x \in removed
    BY <2>2, <2>4, <2>5
  <2>6. CASE x \notin removed
    BY <2>4, <2>6
  <2> QED
    BY <2>5, <2>6
<1>3. \E p \in DOMAIN kept : kept[p] = existing[x]
  <2>1. CASE swapped
    <3>1. kept = swap
      BY <2>1
    <3> HIDE DEF swap, kept
    <3> QED
      BY <1>2, <2>1, <3>1
  <2>2. CASE ~swapped
    <3>1. kept = existing
      BY <2>2
    <3> HIDE DEF kept
    <3> QED
      BY <3>1
  <2> QED
    BY <2>1, <2>2
<1> QED
  BY <1>3 DEF KeptDebts

\* The rows of a sale that was edited: what a kept debt names is T, and the new
\* rows name S.
EditedTo(s, costs, T, S, ds2) ==
    /\ DOMAIN debts \subseteq DOMAIN ds2
    /\ \A d \in DOMAIN debts :
          \/ ds2[d] = debts[d] /\ d \notin Payables(s)
          \/ /\ debts[d].sale = s /\ Stays(debts[d], ds2[d]) /\ ds2[d].duplicate = debts[d].duplicate
             /\ debts[d].status = "cancelled" => debts[d].duplicate = 0
             /\ \/ ds2[d].direction # "payable" \/ ds2[d].status \in {"cancelled", "deleted"}
                \/ /\ ds2[d].party \in DOMAIN T /\ T[ds2[d].party] = d /\ costs[ds2[d].party] > 0
                   /\ ds2[d].amount = costs[ds2[d].party]
    /\ \A p \in DOMAIN T : costs[p] > 0 =>
          T[p] \in DOMAIN debts /\ T[p] \in Standing(ds2, s, p)
    /\ \A d \in DOMAIN ds2 : d \notin DOMAIN debts =>
          /\ CostRow(ds2[d], s) /\ ds2[d].duplicate = 0
          /\ ds2[d].party \in S /\ ds2[d].amount = costs[ds2[d].party]
    /\ \A d, e \in DOMAIN ds2 :
          d \notin DOMAIN debts /\ e \notin DOMAIN debts /\ ds2[d].party = ds2[e].party => d = e
    /\ \A p \in S : \E d \in DOMAIN ds2 : d \notin DOMAIN debts /\ ds2[d].party = p
    /\ S = {p \in Parties : costs[p] > 0 /\ p \notin DOMAIN T /\ p \notin Covered(s)}

\* The debts of a sale that was edited, when an expense was recorded on it.
EditedOn(s, ds2) ==
    /\ DOMAIN debts \subseteq DOMAIN ds2
    /\ \A d \in DOMAIN debts : ds2[d] = debts[d] \/ (debts[d].sale = s /\ Stays(debts[d], ds2[d]))
    /\ \A d \in DOMAIN ds2 : d \notin DOMAIN debts => CostRow(ds2[d], s) /\ ds2[d].duplicate = 0

LEMMA EditedCharged ==
    ASSUME NEW s, NEW costs \in [Parties -> Nat], NEW T, NEW S, NEW ds2, EditedTo(s, costs, T, S, ds2), NEW p \in Parties
    PROVE  Charged(ds2, s, p, costs[p])
<1>1. ASSUME Copied(debts, s) PROVE Copied(ds2, s)
  <2>1. PICK d \in DOMAIN debts : debts[d].sale = s /\ debts[d].status = "cancelled" /\ debts[d].duplicate # 0
    BY <1>1 DEF Copied
  <2>2. ds2[d] = debts[d] /\ d \in DOMAIN ds2
    BY <2>1 DEF EditedTo
  <2> QED
    BY <2>1, <2>2 DEF Copied
<1>2. ASSUME NEW d \in Standing(ds2, s, p)
      PROVE  /\ ds2[d].amount = costs[p]
             /\ \/ d \in DOMAIN debts /\ p \in DOMAIN T /\ T[p] = d
                \/ d \notin DOMAIN debts /\ p \in S
  <2>1. /\ d \in DOMAIN ds2 /\ ds2[d].sale = s /\ ds2[d].party = p /\ ds2[d].direction = "payable"
        /\ ds2[d].status \notin {"cancelled", "deleted"}
    BY DEF Standing
  <2>2. CASE d \in DOMAIN debts
    <3>1. ASSUME ds2[d] = debts[d], d \notin Payables(s) PROVE FALSE
      BY <2>1, <2>2, <3>1 DEF Payables, OfSale, Live
    <3> QED
      BY <2>1, <2>2, <3>1 DEF EditedTo
  <2>3. CASE d \notin DOMAIN debts
    BY <2>1, <2>3 DEF EditedTo
  <2> QED
    BY <2>2, <2>3
<1>3. ASSUME NEW d \in Standing(ds2, s, p), NEW e \in Standing(ds2, s, p) PROVE d = e
  <2>1. p \in S => p \notin DOMAIN T
    BY DEF EditedTo
  <2>2. d \in DOMAIN ds2 /\ e \in DOMAIN ds2 /\ ds2[d].party = p /\ ds2[e].party = p
    BY DEF Standing
  <2>3. d \notin DOMAIN debts /\ e \notin DOMAIN debts => d = e
    BY <2>2 DEF EditedTo
  <2> QED
    BY <1>2, <2>1, <2>3
<1>4. ASSUME costs[p] > 0 PROVE Copied(ds2, s) \/ Standing(ds2, s, p) # {}
  <2>1. CASE p \in DOMAIN T
    BY <1>4, <2>1 DEF EditedTo
  <2>2. CASE p \in Covered(s)
    BY <1>1, <2>2, CoveredCopied
  <2>3. CASE p \notin DOMAIN T /\ p \notin Covered(s)
    <3>1. p \in S
      BY <1>4, <2>3 DEF EditedTo
    <3>2. PICK d \in DOMAIN ds2 : d \notin DOMAIN debts /\ ds2[d].party = p
      BY <3>1 DEF EditedTo
    <3>3. CostRow(ds2[d], s)
      BY <3>2 DEF EditedTo
    <3> QED
      BY <3>2, <3>3 DEF CostRow, Standing
  <2> QED
    BY <2>1, <2>2, <2>3
<1> QED
  BY <1>2, <1>3, <1>4 DEF Charged

LEMMA EditSaleRows ==
    ASSUME IInv, AllCharged(sales, debts),
           NEW s \in DOMAIN sales, NEW b \in Buyers, NEW total \in Totals, NEW costs \in LineCosts,
           NEW existing \in Readings(s), EditSale(s, b, total, costs, existing)
    PROVE  EditedOn(s, debts') /\ (Plain(debts, s) => \E T, S : EditedTo(s, costs, T, S, debts'))
<1> DEFINE keys == DOMAIN existing
           costed == {p \in Parties : costs[p] > 0}
           removed == keys \ costed
           added == (costed \ keys) \ Covered(s)
           swapped == Cardinality(removed) = 1 /\ Cardinality(added) = 1
           kept == IF swapped
                   THEN [p \in (keys \ removed) \cup added |->
                           IF p \in keys THEN existing[p] ELSE existing[CHOOSE q \in removed : TRUE]]
                   ELSE existing
           dropped == {kept[p] : p \in DOMAIN kept \ costed}
           following == {kept[p] : p \in DOMAIN kept \cap costed}
           heir(d) == CHOOSE p \in DOMAIN kept : kept[p] = d
           status(paid, amount) == IF paid = amount THEN "settled" ELSE "open"
           edited == [d \in DOMAIN debts |->
            IF d = Receivable(s)
            THEN [debts[d] EXCEPT !.party = b, !.amount = total, !.status = status(debts[d].paid, total)]
            ELSE IF d \in following
            THEN [debts[d] EXCEPT !.party = heir(d), !.amount = costs[heir(d)],
                     !.status = status(debts[d].paid, costs[heir(d)])]
            ELSE IF d \in dropped
            THEN [debts[d] EXCEPT !.status = IF HasHistory(d) THEN "cancelled" ELSE "deleted"]
            ELSE debts[d]]
           S == (costed \ DOMAIN kept) \ Covered(s)
           more == CostDebts(s, costs, SetToSeq(S))
           r == Receivable(s)
<1>1. debts' = edited \o more /\ sales[s].status = "active"
  BY DEF EditSale
<1>2. costs \in [Parties -> Nat]
  BY LedgerAssumption
<1>3. /\ sales \in Seq(SaleRecord) /\ debts \in Seq(DebtRecord) /\ Billed(sales, debts) /\ s \in Nat \ {0}
  <2>1. sales \in Seq(SaleRecord)
    BY DEF IInv, Kept
  <2> QED
    BY <2>1, LenProperties DEF IInv, Kept, Sound
<1>4. /\ \A p \in DOMAIN kept : kept[p] \in Payables(s)
      /\ \A p, q \in DOMAIN kept : kept[p] = kept[q] => p = q
  BY <1>2, <1>3, KeptIs
<1>5. ASSUME Plain(debts, s) PROVE DOMAIN existing \subseteq Parties
  <2>1. ASSUME NEW x \in DOMAIN existing PROVE x \in Parties
    <3>1. existing[x] \in Payables(s) /\ debts[existing[x]].party = x
      BY DEF Readings
    <3>2. debts[existing[x]].source = "sale_cost" /\ existing[x] \in DOMAIN debts
      BY <1>1, <1>5, <3>1, ReadingsAll DEF Payables, OfSale
    <3> QED
      BY <3>1, <3>2 DEF IInv, Kept, Costed
  <2> QED
    BY <2>1
<1>6. ASSUME Plain(debts, s) PROVE \A d \in Payables(s) : \E p \in DOMAIN kept : kept[p] = d
  <2>1. ASSUME NEW x \in DOMAIN existing PROVE \E p \in DOMAIN kept : kept[p] = existing[x]
    <3>1. kept = KeptDebts(s, costs, existing)
      BY DEF KeptDebts
    <3> HIDE DEF kept
    <3> QED
      BY <1>5, <1>6, <3>1, KeptAll
  <2> HIDE DEF kept
  <2>2. ASSUME NEW d \in Payables(s) PROVE \E p \in DOMAIN kept : kept[p] = d
    <3>1. debts[d].party \in DOMAIN existing /\ existing[debts[d].party] = d
      BY <1>1, <1>6, ReadingsAll
    <3>2. \E p \in DOMAIN kept : kept[p] = existing[debts[d].party]
      BY ONLY <2>1, <3>1
    <3> QED
      BY ONLY <3>1, <3>2
  <2> QED
    BY ONLY <2>2
<1>7. S \in SUBSET Parties /\ \A p \in S : costs[p] > 0
  OBVIOUS
<1>8. S = {p \in Parties : costs[p] > 0 /\ p \notin DOMAIN kept /\ p \notin Covered(s)}
  <2> HIDE DEF kept
  <2> QED
    OBVIOUS
<1>9. \A p : p \in costed <=> p \in Parties /\ costs[p] > 0
  OBVIOUS
<1>10. Plain(debts, s) => DOMAIN kept \subseteq Parties
  BY <1>5
<1> HIDE DEF kept, S, removed, costed
<1>11. r \in DOMAIN debts /\ debts[r].sale = s /\ debts[r].direction = "receivable" /\ debts[r].duplicate = 0
  <2>1. \E d \in OfSale(s) : debts[d].direction = "receivable"
    BY <1>3 DEF Billed, OfSale
  <2>2. r \in OfSale(s) /\ debts[r].direction = "receivable"
    BY <2>1 DEF Receivable
  <2>3. debts[r].source # "sale_cost"
    BY <2>2 DEF OfSale, IInv, Kept, Costed
  <2> QED
    BY <2>2, <2>3 DEF OfSale, AllCharged, Filed
<1>12. ASSUME NEW p \in DOMAIN kept \cap costed
       PROVE heir(kept[p]) = p
  <2>1. p \in DOMAIN kept /\ \A q \in DOMAIN kept : kept[q] = kept[p] => q = p
    BY <1>4
  <2> QED
    BY <2>1
<1>13. \A d \in following : heir(d) \in DOMAIN kept \cap costed /\ kept[heir(d)] = d /\ d \in Payables(s)
  <2> HIDE DEF heir
  <2> QED
    BY <1>4, <1>12
<1>14. \A d \in dropped : d \in Payables(s)
  BY <1>4
<1>15. ASSUME Plain(debts, s) PROVE \A d \in Payables(s) : d \in following \/ d \in dropped
  BY <1>6, <1>15
<1>16. \A d \in Payables(s) : /\ d \in DOMAIN debts /\ debts[d].sale = s /\ debts[d].direction = "payable"
                               /\ debts[d].status \notin {"cancelled", "deleted"} /\ d # r
  BY <1>11 DEF Payables, OfSale, Live
<1>17. DOMAIN edited = DOMAIN debts
  OBVIOUS
<1>18. Stays(debts[r], edited[r]) /\ edited[r].duplicate = 0 /\ edited[r].direction = "receivable"
  <2>1. edited[r] = [debts[r] EXCEPT !.party = b, !.amount = total, !.status = status(debts[r].paid, total)]
    BY <1>11
  <2>2. debts[r] \in DebtRecord
    BY <1>3, <1>11, RowIs
  <2> HIDE DEF edited, status, r
  <2>3. edited[r].sale = debts[r].sale /\ edited[r].source = debts[r].source
        /\ edited[r].direction = debts[r].direction /\ edited[r].duplicate = debts[r].duplicate
    BY ONLY <2>1, <2>2 DEF DebtRecord
  <2> QED
    BY <1>11, <2>3 DEF Stays
<1>19. ASSUME NEW d \in following
       PROVE  /\ Stays(debts[d], edited[d]) /\ edited[d].duplicate = debts[d].duplicate
              /\ edited[d].party = heir(d) /\ edited[d].amount = costs[heir(d)]
              /\ edited[d].status \notin {"cancelled", "deleted"}
              /\ edited[d].sale = s /\ edited[d].direction = "payable"
  <2>1. d \in DOMAIN debts /\ d # r /\ debts[d].sale = s /\ debts[d].direction = "payable"
    BY <1>13, <1>16
  <2>2. edited[d] = [debts[d] EXCEPT !.party = heir(d), !.amount = costs[heir(d)],
                        !.status = status(debts[d].paid, costs[heir(d)])]
    BY <2>1
  <2>3. PICK st \in {"open", "settled"} : st = status(debts[d].paid, costs[heir(d)])
    OBVIOUS
  <2>4. debts[d] \in DebtRecord
    BY <1>3, <2>1, RowIs
  <2> HIDE DEF edited, status, r, heir, following
  <2>5. edited[d] = [debts[d] EXCEPT !.party = heir(d), !.amount = costs[heir(d)], !.status = st]
    BY <2>2, <2>3
  <2>6. /\ edited[d].sale = debts[d].sale /\ edited[d].source = debts[d].source
        /\ edited[d].direction = debts[d].direction /\ edited[d].duplicate = debts[d].duplicate
        /\ edited[d].party = heir(d) /\ edited[d].amount = costs[heir(d)] /\ edited[d].status = st
    BY ONLY <2>4, <2>5 DEF DebtRecord
  <2> QED
    BY <2>1, <2>3, <2>6 DEF Stays
<1>20. ASSUME NEW d \in dropped, d \notin following
       PROVE  /\ Stays(debts[d], edited[d]) /\ edited[d].duplicate = debts[d].duplicate
              /\ edited[d].status \in {"cancelled", "deleted"}
  <2>1. d \in DOMAIN debts /\ d # r
    BY <1>14, <1>16
  <2>2. edited[d] = [debts[d] EXCEPT !.status = IF HasHistory(d) THEN "cancelled" ELSE "deleted"]
    BY <1>20, <2>1
  <2>3. PICK st \in {"cancelled", "deleted"} : st = IF HasHistory(d) THEN "cancelled" ELSE "deleted"
    OBVIOUS
  <2>4. debts[d] \in DebtRecord
    BY <1>3, <2>1, RowIs
  <2> HIDE DEF edited, r, dropped, following
  <2>5. edited[d] = [debts[d] EXCEPT !.status = st]
    BY <2>2, <2>3
  <2>6. /\ edited[d].sale = debts[d].sale /\ edited[d].source = debts[d].source
        /\ edited[d].direction = debts[d].direction /\ edited[d].duplicate = debts[d].duplicate
        /\ edited[d].status = st
    BY ONLY <2>4, <2>5 DEF DebtRecord
  <2> QED
    BY <2>3, <2>6 DEF Stays
<1>21. ASSUME NEW d \in DOMAIN debts, d # r, d \notin following, d \notin dropped
       PROVE  edited[d] = debts[d] /\ (Plain(debts, s) => d \notin Payables(s))
  BY <1>15, <1>21
<1> HIDE DEF r, edited, heir, following, dropped
<1>22. more \in Seq(DebtRecord) /\ RowEach(more, s, S, costs)
  <2>1. more \in Seq(DebtRecord)
    BY <1>2, <1>3, <1>7, CostDebtsIs
  <2>2. RowEach(more, s, S, costs)
    BY <1>2, <1>3, <1>7, CostDebtsEach
  <2> QED
    BY <2>1, <2>2
<1> HIDE DEF more
<1> DEFINE ds2 == edited \o more
           m == Len(debts)
           R == DebtRecord \cup {edited[d] : d \in 1..m}
<1>23. /\ DOMAIN ds2 = DOMAIN edited \cup After(Len(edited), DOMAIN more)
       /\ \A d \in DOMAIN edited : ds2[d] = edited[d]
       /\ \A k \in DOMAIN more : ds2[Len(edited) + k] = more[k]
      /\ DOMAIN edited = 1..Len(edited) /\ Len(edited) \in Nat
  <2>1. m \in Nat /\ DOMAIN edited = 1..m /\ edited = [d \in 1..m |-> edited[d]]
    BY <1>3, <1>17, LenProperties DEF edited
  <2>2. \A d \in 1..m : edited[d] \in R
    OBVIOUS
  <2>3. Len(more) \in Nat /\ DOMAIN more = 1..Len(more) /\ more = [k \in 1..Len(more) |-> more[k]]
    BY <1>22, LenProperties
  <2>4. \A k \in 1..Len(more) : more[k] \in R
    BY <1>22, <2>3 DEF RowEach, CostRow
  <2> HIDE DEF R, m
  <2>5. edited \in Seq(R)
    BY <2>1, <2>2, RowIsSeq
  <2>6. more \in Seq(R)
    BY <2>3, <2>4, RowIsSeq
  <2> QED
    BY <2>5, <2>6, JoinIs
<1> HIDE DEF ds2, R, m
<1>24. ASSUME NEW d \in DOMAIN debts PROVE d \in DOMAIN ds2 /\ ds2[d] = edited[d]
  BY <1>17, <1>23
<1>25. ASSUME NEW d \in DOMAIN ds2, d \notin DOMAIN debts
       PROVE  \E k \in DOMAIN more : d = Len(edited) + k /\ ds2[d] = more[k]
  <2>1. d \in After(Len(edited), DOMAIN more)
    BY <1>17, <1>23, <1>25
  <2> QED
    BY <1>23, <2>1 DEF After
<1>26. ASSUME NEW k \in DOMAIN more PROVE Len(edited) + k \in DOMAIN ds2 /\ Len(edited) + k \notin DOMAIN debts
  <2>1. DOMAIN more = 1..Len(more) /\ Len(more) \in Nat
    BY <1>22, LenProperties
  <2>2. DOMAIN debts = 1..Len(edited) /\ Len(edited) \in Nat
    BY <1>17, <1>23
  <2>3. Len(edited) + k \in After(Len(edited), DOMAIN more)
    BY DEF After
  <2>4. Len(edited) + k \in DOMAIN ds2
    BY <1>23, <2>3
  <2> QED
    BY <2>1, <2>2, <2>4
<1>27. ASSUME Plain(debts, s) PROVE EditedTo(s, costs, kept, S, ds2)
  <2>1. DOMAIN debts \subseteq DOMAIN ds2
    BY <1>24
  <2>2. ASSUME NEW d \in DOMAIN debts
        PROVE  \/ ds2[d] = debts[d] /\ d \notin Payables(s)
               \/ /\ debts[d].sale = s /\ Stays(debts[d], ds2[d]) /\ ds2[d].duplicate = debts[d].duplicate
                  /\ debts[d].status = "cancelled" => debts[d].duplicate = 0
                  /\ \/ ds2[d].direction # "payable" \/ ds2[d].status \in {"cancelled", "deleted"}
                     \/ /\ ds2[d].party \in DOMAIN kept /\ kept[ds2[d].party] = d /\ costs[ds2[d].party] > 0
                        /\ ds2[d].amount = costs[ds2[d].party]
    <3>1. ds2[d] = edited[d]
      BY <1>24
    <3>2. CASE d = r
      BY <1>11, <1>18, <3>1, <3>2
    <3>3. CASE d \in following
      BY <1>9, <1>13, <1>16, <1>19, <3>1, <3>3
    <3>4. CASE d \in dropped /\ d \notin following
      BY <1>14, <1>16, <1>20, <3>1, <3>4
    <3>5. CASE d # r /\ d \notin following /\ d \notin dropped
      BY <1>21, <1>27, <3>1, <3>5
    <3> QED
      BY <3>2, <3>3, <3>4, <3>5
  <2>3. ASSUME NEW p \in DOMAIN kept, costs[p] > 0
        PROVE  kept[p] \in DOMAIN debts /\ kept[p] \in Standing(ds2, s, p)
    <3>1. p \in DOMAIN kept \cap costed
      BY <1>9, <1>10, <1>27, <2>3
    <3>2. kept[p] \in following /\ heir(kept[p]) = p
      BY <1>12, <3>1 DEF following
    <3>3. kept[p] \in DOMAIN debts
      BY <1>13, <1>16, <3>2
    <3>4. ds2[kept[p]] = edited[kept[p]] /\ kept[p] \in DOMAIN ds2
      BY <1>24, <3>3
    <3> QED
      BY <1>19, <3>2, <3>3, <3>4 DEF Standing
  <2>4. ASSUME NEW d \in DOMAIN ds2, d \notin DOMAIN debts
        PROVE  /\ CostRow(ds2[d], s) /\ ds2[d].duplicate = 0
               /\ ds2[d].party \in S /\ ds2[d].amount = costs[ds2[d].party]
    BY <1>22, <1>25, <2>4 DEF RowEach
  <2>5. ASSUME NEW d \in DOMAIN ds2, NEW e \in DOMAIN ds2,
               d \notin DOMAIN debts, e \notin DOMAIN debts, ds2[d].party = ds2[e].party
        PROVE  d = e
    <3>1. PICK k \in DOMAIN more : d = Len(edited) + k /\ ds2[d] = more[k]
      BY <1>25, <2>5
    <3>2. PICK l \in DOMAIN more : e = Len(edited) + l /\ ds2[e] = more[l]
      BY <1>25, <2>5
    <3> QED
      BY <1>22, <2>5, <3>1, <3>2 DEF RowEach
  <2>6. ASSUME NEW p \in S PROVE \E d \in DOMAIN ds2 : d \notin DOMAIN debts /\ ds2[d].party = p
    <3>1. PICK k \in DOMAIN more : more[k].party = p
      BY <1>22 DEF RowEach
    <3>2. ds2[Len(edited) + k] = more[k]
      BY <1>23
    <3> QED
      BY <1>26, <3>1, <3>2
  <2> QED
    BY <1>8, <2>1, <2>2, <2>3, <2>4, <2>5, <2>6 DEF EditedTo
<1>28. EditedOn(s, ds2)
  <2>1. ASSUME NEW d \in DOMAIN debts PROVE ds2[d] = debts[d] \/ (debts[d].sale = s /\ Stays(debts[d], ds2[d]))
    <3>1. ds2[d] = edited[d]
      BY <1>24
    <3>2. CASE d = r
      BY <1>11, <1>18, <3>1, <3>2
    <3>3. CASE d \in following
      BY <1>13, <1>16, <1>19, <3>1, <3>3
    <3>4. CASE d \in dropped /\ d \notin following
      BY <1>14, <1>16, <1>20, <3>1, <3>4
    <3>5. CASE d # r /\ d \notin following /\ d \notin dropped
      BY <1>21, <3>1, <3>5
    <3> QED
      BY <3>2, <3>3, <3>4, <3>5
  <2>2. ASSUME NEW d \in DOMAIN ds2, d \notin DOMAIN debts PROVE CostRow(ds2[d], s) /\ ds2[d].duplicate = 0
    BY <1>22, <1>25, <2>2 DEF RowEach
  <2> QED
    BY <1>24, <2>1, <2>2 DEF EditedOn
<1> QED
  BY <1>1, <1>27, <1>28 DEF ds2

LEMMA EditSaleCharged ==
    ASSUME IInv, AllCharged(sales, debts),
           NEW s \in DOMAIN sales, NEW b \in Buyers, NEW total \in Totals, NEW costs \in LineCosts,
           NEW existing \in Readings(s), EditSale(s, b, total, costs, existing)
    PROVE  AllCharged(sales', debts')
<1>1. EditedOn(s, debts') /\ (Plain(debts, s) => \E T, S : EditedTo(s, costs, T, S, debts'))
  BY EditSaleRows
<1>2. costs \in [Parties -> Nat] /\ sales \in Seq(SaleRecord)
  BY LedgerAssumption DEF IInv, Kept
<1>3. DOMAIN sales' = DOMAIN sales /\ (\A u \in DOMAIN sales : u # s => sales'[u] = sales[u]) /\ sales'[s].costs = costs
  <2>1. sales' = [sales EXCEPT ![s].costs = costs]
    BY DEF EditSale
  <2>2. sales[s] \in SaleRecord /\ sales'[s] = [sales[s] EXCEPT !.costs = costs]
    BY <1>2, <2>1, ElementOfSeq, LenProperties
  <2>3. sales'[s].costs = costs
    BY ONLY <2>2 DEF SaleRecord
  <2> QED
    BY <2>1, <2>3
<1>5. ASSUME NEW d \in DOMAIN debts
      PROVE  Follows(debts[d], debts'[d]) \/ (debts[d].sale = s /\ Stays(debts[d], debts'[d]))
  BY <1>1 DEF EditedOn, Follows
<1>6. ASSUME NEW d \in DOMAIN debts', d \notin DOMAIN debts
      PROVE  debts'[d].sale = s /\ debts'[d].source = "sale_cost" /\ debts'[d].duplicate = 0
  BY <1>1, <1>6 DEF EditedOn, CostRow
<1>7. DOMAIN debts \subseteq DOMAIN debts'
  BY <1>1 DEF EditedOn
<1>4. ASSUME Plain(debts', s), NEW p \in Parties PROVE Charged(debts', s, p, sales'[s].costs[p])
  <2>1. Plain(debts, s)
    BY <1>4, <1>5, <1>7, PlainBefore
  <2>2. PICK T, S : EditedTo(s, costs, T, S, debts')
    BY <1>1, <2>1
  <2> QED
    BY <1>2, <1>3, <2>2, EditedCharged
<1>8. OneSale(sales, debts, s, sales', debts')
  BY <1>3, <1>4, <1>5, <1>6, <1>7 DEF OneSale
<1> QED
  BY <1>8, SaleRewritten

-----------------------------------------------------------------------------
(* A sale is recorded, and the initial state. *)

LEMMA NewSaleCharged ==
    ASSUME IInv, AllCharged(sales, debts), NEW costs \in [Parties -> Nat],
           NEW ds, DOMAIN debts \subseteq DOMAIN ds, \A d \in DOMAIN debts : ds[d] = debts[d],
           NewRows(ds, Len(sales) + 1, {p \in Parties : costs[p] > 0}, costs),
           NEW ss, DOMAIN ss = 1..(Len(sales) + 1), ss[Len(sales) + 1].costs = costs,
           \A u \in DOMAIN sales : ss[u] = sales[u]
    PROVE  AllCharged(ss, ds)
<1> DEFINE s == Len(sales) + 1
           S == {p \in Parties : costs[p] > 0}
<1>1. DOMAIN sales = 1..Len(sales) /\ Len(sales) \in Nat /\ sales \in Seq(SaleRecord)
  BY LenProperties DEF IInv, Kept
<1>2. s \notin DOMAIN sales /\ s # 0 /\ DOMAIN ss = DOMAIN sales \cup {s}
  BY <1>1
<1>3. NewRows(ds, s, S, costs) /\ ss[s].costs = costs
  OBVIOUS
<1>4. \A p \in Parties : p \in S <=> costs[p] > 0
  OBVIOUS
<1> HIDE DEF s, S
<1>5. \A d \in DOMAIN debts : debts[d].sale # s
  BY <1>2 DEF AllCharged, Filed
<1>6. ASSUME NEW d \in DOMAIN ds, d \notin DOMAIN debts
      PROVE  \/ BilledTo(ds[d], s)
             \/ CostRow(ds[d], s) /\ ds[d].duplicate = 0
  BY <1>3, <1>6 DEF NewRows
<1>7. Filed(ss, ds)
  <2> SUFFICES ASSUME NEW d \in DOMAIN ds
               PROVE  /\ ds[d].source \in {"sale", "sale_cost"} => ds[d].sale \in DOMAIN ss
                      /\ ds[d].sale # 0 =>
                            ds[d].sale \in DOMAIN ss /\ ds[d].source \in {"sale", "sale_cost", "expense"}
                      /\ ds[d].source = "sale" => ds[d].direction = "receivable"
                      /\ ds[d].duplicate # 0 => ds[d].source = "sale_cost"
    BY DEF Filed
  <2>1. CASE d \in DOMAIN debts
    BY <1>2, <2>1 DEF AllCharged, Filed
  <2>2. CASE d \notin DOMAIN debts
    BY <1>2, <1>6, <2>2 DEF BilledTo, CostRow
  <2> QED
    BY <2>1, <2>2
<1>8. ASSUME NEW u \in DOMAIN sales, sales[u].status = "active", Plain(ds, u), NEW p \in Parties
      PROVE  Charged(ds, u, p, sales[u].costs[p])
  <2>1. Charged(debts, u, p, sales[u].costs[p])
    BY <1>8 DEF AllCharged, Plain
  <2>2. \A d \in DOMAIN debts : Follows(debts[d], ds[d])
    BY DEF Follows
  <2>3. \A d \in DOMAIN ds : d \notin DOMAIN debts => ds[d].sale # u
    BY <1>2, <1>6 DEF BilledTo, CostRow
  <2> QED
    BY <2>1, <2>2, <2>3, ChargedKept
<1>9. ASSUME NEW p \in Parties PROVE Charged(ds, s, p, costs[p])
  <2> DEFINE rows == {d \in DOMAIN ds : d \notin DOMAIN debts /\ ~BilledTo(ds[d], s)}
  <2>1. ASSUME NEW d \in Standing(ds, s, p) PROVE d \in rows /\ ds[d].party = p
    BY <1>5 DEF Standing, BilledTo
  <2>2. /\ \A d \in rows : CostRow(ds[d], s) /\ ds[d].amount = costs[ds[d].party]
        /\ \A d, e \in rows : ds[d].party = ds[e].party => d = e
        /\ \A q \in S : \E d \in rows : ds[d].party = q
        /\ rows \subseteq DOMAIN ds
    BY <1>3 DEF NewRows
  <2> HIDE DEF rows
  <2>3. ASSUME costs[p] > 0 PROVE Standing(ds, s, p) # {}
    <3>1. PICK d \in rows : ds[d].party = p
      BY <1>4, <2>2, <2>3
    <3>2. CostRow(ds[d], s) /\ d \in DOMAIN ds
      BY <2>2
    <3>3. d \in Standing(ds, s, p)
      BY <3>1, <3>2 DEF CostRow, Standing
    <3> QED
      BY <3>3
  <2>4. costs[p] \in Nat
    OBVIOUS
  <2>5. \A d \in Standing(ds, s, p) : ds[d].amount = costs[p]
    BY <2>1, <2>2
  <2>6. \A d, e \in Standing(ds, s, p) : d = e
    BY <2>1, <2>2
  <2> QED
    BY <2>3, <2>4, <2>5, <2>6 DEF Charged
<1>10. ASSUME NEW u \in DOMAIN ss, ss[u].status = "active", Plain(ds, u), NEW p \in Parties
       PROVE  Charged(ds, u, p, ss[u].costs[p])
  <2>1. CASE u = s
    BY <1>3, <1>9, <2>1
  <2>2. CASE u # s
    BY <1>2, <1>8, <1>10, <2>2
  <2> QED
    BY <2>1, <2>2
<1> QED
  BY <1>7, <1>10 DEF AllCharged

LEMMA CreateSaleCharged ==
    ASSUME IInv, AllCharged(sales, debts),
           NEW b \in Buyers, NEW total \in Totals, NEW costs \in LineCosts, NEW received \in 0..total, NEW paid,
           NEW ref \in AnyRef, CreateSale(b, total, costs, received, paid, ref)
    PROVE  AllCharged(sales', debts')
<1>1. PICK ds, list, n :
         /\ Opens(ds, list, n, ref)
         /\ NewRows(ds, Len(sales) + 1, {p \in Parties : costs[p] > 0}, costs)
  BY CreateSaleOpens
<1> DEFINE new == NewMoney(ds, list, ref).payments
           sale == [status |-> "active", costs |-> costs]
<1>2. /\ ds \in Seq(DebtRecord) /\ debts' = Counted(ds, new) /\ DOMAIN debts \subseteq DOMAIN ds
      /\ \A d \in DOMAIN debts : ds[d] = debts[d]
      /\ \A k \in DOMAIN list : ds[list[k][1]].status = "open"
  BY <1>1 DEF Opens
<1>3. DOMAIN new = DOMAIN list /\ \A k \in DOMAIN new : new[k].debt = list[k][1]
  BY DEF NewMoney, NewPayment
<1> HIDE DEF new
<1>4. OnLive(ds, new)
  BY <1>2, <1>3 DEF OnLive
<1>5. sales' = Append(sales, sale) /\ costs \in [Parties -> Nat]
  BY LedgerAssumption DEF CreateSale
<1>6. /\ sales' \in Seq(SaleRecord) /\ DOMAIN sales' = 1..(Len(sales) + 1)
      /\ sales'[Len(sales) + 1].costs = costs /\ \A u \in DOMAIN sales : sales'[u] = sales[u]
  <2>1. sales \in Seq(SaleRecord) /\ sale \in SaleRecord
    BY <1>5 DEF IInv, Kept, SaleRecord
  <2>2. DOMAIN sales = 1..Len(sales) /\ Len(sales) \in Nat
    BY <2>1, LenProperties
  <2>3. sale.costs = costs
    OBVIOUS
  <2> HIDE DEF sale
  <2> QED
    BY <1>5, <2>1, <2>2, <2>3, AppendProperties, LenProperties
<1>7. AllCharged(sales', ds)
  BY <1>1, <1>2, <1>5, <1>6, NewSaleCharged
<1>8. SalesStay(ds, Counted(ds, new))
  BY <1>2, <1>4, CountedStays
<1>9. AllCharged(sales', Counted(ds, new))
  BY <1>6, <1>7, <1>8, SalesKept
<1> QED
  BY <1>2, <1>9

LEMMA InitCharged == Init => AllCharged(sales, debts)
<1> SUFFICES ASSUME Init PROVE AllCharged(sales, debts)
  OBVIOUS
<1>1. CASE NoSale
  <2>1. DOMAIN debts = {} /\ DOMAIN sales = {}
    BY <1>1 DEF NoSale
  <2> QED
    BY <2>1 DEF AllCharged, Filed
<1>2. CASE ~NoSale
  <2>1. PICK s \in Suppliers, b \in Buyers, ref \in AnyRef : OldSale(s, b, ref)
    BY <1>2 DEF Init
  <2> DEFINE costs == [p \in Parties |-> IF p = s THEN MaxAmount ELSE 0]
             sale == [status |-> "active", costs |-> costs]
             owed == NewDebt("receivable", b, Max(Totals), "sale", 1)
             cost == [NewDebt("payable", s, MaxAmount, "sale_cost", 1) EXCEPT !.paid = IF Legacy = "active" THEN 1 ELSE 0]
  <2>2. sales = <<sale>> /\ debts = <<owed, cost>>
    BY <2>1 DEF OldSale
  <2>3. owed.direction = "receivable" /\ owed.source = "sale" /\ owed.sale = 1 /\ owed.duplicate = 0
    BY DEF NewDebt
  <2>4. /\ cost.party = s /\ cost.direction = "payable" /\ cost.source = "sale_cost" /\ cost.sale = 1
        /\ cost.duplicate = 0 /\ cost.status = "open" /\ cost.amount = MaxAmount
    BY DEF NewDebt
  <2>5. sale.costs = costs
    OBVIOUS
  <2>6. \A p \in Parties : costs[p] = IF p = s THEN MaxAmount ELSE 0
    OBVIOUS
  <2> HIDE DEF sale, owed, cost, costs
  <2>7. /\ DOMAIN debts = {1, 2} /\ debts[1] = owed /\ debts[2] = cost
        /\ DOMAIN sales = {1} /\ sales[1].costs = costs
    BY <2>2, <2>5
  <2>8. Filed(sales, debts)
    BY <2>3, <2>4, <2>7 DEF Filed
  <2>9. ASSUME NEW p \in Parties PROVE Charged(debts, 1, p, costs[p])
    <3>1. Standing(debts, 1, p) = IF p = s THEN {2} ELSE {}
      BY <2>3, <2>4, <2>7 DEF Standing
    <3>2. MaxAmount \in Nat
      BY LedgerAssumption
    <3> QED
      BY <2>4, <2>6, <2>7, <3>1, <3>2 DEF Charged
  <2> QED
    BY <2>7, <2>8, <2>9 DEF AllCharged
<1> QED
  BY <1>1, <1>2

LEMMA StepCharged ==
    ASSUME IInv, AllCharged(sales, debts), [Next]_vars
    PROVE  AllCharged(sales', debts')
<1>1. CASE UNCHANGED vars
  BY <1>1 DEF vars
<1>2. CASE SaleSteps
  <2>1. ASSUME NEW b \in Buyers, NEW total \in Totals, NEW costs \in LineCosts,
               NEW received \in 0..total, NEW paid \in SUBSET {p \in Parties : costs[p] > 0},
               NEW ref \in AnyRef, CreateSale(b, total, costs, received, paid, ref)
        PROVE  AllCharged(sales', debts')
    BY <2>1, CreateSaleCharged
  <2>2. ASSUME NEW s \in DOMAIN sales, NEW b \in Buyers, NEW total \in Totals, NEW costs \in LineCosts,
               NEW existing \in Readings(s), EditSale(s, b, total, costs, existing)
        PROVE  AllCharged(sales', debts')
    BY <2>2, EditSaleCharged
  <2>3. ASSUME NEW s \in DOMAIN sales, CancelSale(s) PROVE AllCharged(sales', debts')
    BY <2>3, CancelSaleCharged
  <2> QED
    BY <1>2, <2>1, <2>2, <2>3 DEF SaleSteps
<1>3. CASE DebtSteps
  <2>1. ASSUME NEW e \in Entries, NEW s \in OnSale(e), CreateDebt(e, s) PROVE AllCharged(sales', debts')
    BY <2>1, CreateDebtCharged
  <2>2. ASSUME NEW d \in DOMAIN debts, CancelDebt(d) PROVE AllCharged(sales', debts')
    BY <2>2, CancelDebtCharged
  <2>3. ASSUME NEW d \in DOMAIN debts, NEW amount \in 0..MaxAmount, NEW how \in Hows, ShrinkPayable(d, amount, how)
        PROVE  AllCharged(sales', debts')
    BY <2>3, ShrinkPayableCharged
  <2> QED
    BY <1>3, <2>1, <2>2, <2>3 DEF DebtSteps
<1>4. CASE PaymentSteps
  <2>1. ASSUME NEW d \in DOMAIN debts, NEW amount \in Amounts, NEW ref \in AnyRef, AddPayment(d, amount, ref)
        PROVE  AllCharged(sales', debts')
    BY <2>1, AddPaymentCharged
  <2>2. ASSUME NEW s \in Suppliers, NEW amount \in Amounts, NEW credit \in 0..MaxAmount, NEW ref \in AnyRef,
               NEW picked \in SUBSET OpenInvoices(s, {}), PaySupplier(s, amount, credit, picked, ref)
        PROVE  AllCharged(sales', debts')
    BY <2>2, PaySupplierCharged
  <2>3. ASSUME NEW s \in Suppliers, NEW amount \in Amounts, NEW picked \in SUBSET OpenInvoices(s, {}),
               ApplyCredit(s, amount, picked)
        PROVE  AllCharged(sales', debts')
    BY <2>3, ApplyCreditCharged
  <2>4. ASSUME NEW b \in Buyers, NEW amount \in Amounts, NEW ref \in AnyRef, PayBuyer(b, amount, ref)
        PROVE  AllCharged(sales', debts')
    BY <2>4, PayBuyerCharged
  <2>5. ASSUME NEW p \in DOMAIN payments, ReversePayment(p) PROVE AllCharged(sales', debts')
    BY <2>5, ReversePaymentCharged
  <2>6. ASSUME NEW t \in DOMAIN transfers, NEW amount \in Amounts, NEW ref \in AnyRef, RefundTransfer(t, amount, ref)
        PROVE  AllCharged(sales', debts')
    BY <2>6 DEF RefundTransfer
  <2>7. ASSUME NEW t \in DOMAIN transfers, NEW amount \in Amounts, CorrectTransfer(t, amount)
        PROVE  AllCharged(sales', debts')
    BY <2>7 DEF CorrectTransfer, RefundTransfer
  <2> QED
    BY <1>4, <2>1, <2>2, <2>3, <2>4, <2>5, <2>6, <2>7 DEF PaymentSteps
<1>5. CASE CorrectionSteps
  <2>1. ASSUME NEW d \in DOMAIN debts, NEW party \in Parties, NEW how \in Hows, WrongSupplier(d, party, how)
        PROVE  AllCharged(sales', debts')
    BY <2>1, WrongSupplierCharged
  <2>2. ASSUME NEW d \in DOMAIN debts, NEW of \in DOMAIN debts, NEW how \in Hows, DuplicateLiability(d, of, how)
        PROVE  AllCharged(sales', debts')
    BY <2>2, DuplicateLiabilityCharged
  <2>3. ASSUME NEW d \in DOMAIN debts, NoCost(d) PROVE AllCharged(sales', debts')
    BY <2>3, NoCostCharged
  <2>4. ASSUME NEW p \in DOMAIN payments, NEW as \in {"credit", "refund", "entry_error"}, NEW amount \in Amounts,
               Classify(p, as, amount)
        PROVE  AllCharged(sales', debts')
    BY <2>4 DEF Classify
  <2>5. ASSUME NEW p \in DOMAIN payments, Wrap(p) PROVE AllCharged(sales', debts')
    BY <2>5 DEF Wrap
  <2> QED
    BY <1>5, <2>1, <2>2, <2>3, <2>4, <2>5 DEF CorrectionSteps
<1> QED
  BY <1>1, <1>2, <1>3, <1>4, <1>5 DEF Next

\* What is owed to each supplier of a sale is what their lines cost.
LEMMA ChargedOwed ==
    ASSUME debts \in Seq(DebtRecord), NEW s, NEW p, NEW cost \in Nat, Charged(debts, s, p, cost)
    PROVE  LET owed == WorthOf(debts, {d \in Payables(s) : debts[d].party = p})
           IN owed <= cost /\ (Covered(s) = {} => owed = cost)
<1> DEFINE S == {d \in Payables(s) : debts[d].party = p}
<1>1. S = Standing(debts, s, p) /\ (Covered(s) # {} <=> Copied(debts, s))
  BY PayablesStand, CoveredCopied
<1> HIDE DEF S
<1>2. CASE S = {}
  <2>1. WorthOf(debts, S) = 0
    BY <1>2, SumEmpty DEF WorthOf
  <2> QED
    BY <1>1, <1>2, <2>1 DEF Charged, S
<1>3. CASE S # {}
  <2>1. PICK d : d \in S
    BY <1>3
  <2>2. S = {d}
    BY <1>1, <2>1 DEF Charged
  <2>3. d \in DOMAIN debts /\ debts[d].amount \in Nat
    BY <1>1, <2>1, RowIs DEF Standing
  <2>4. Worth(debts)[d] = debts[d].amount
    BY <2>3 DEF Worth
  <2>5. WorthOf(debts, S) = debts[d].amount
    <3> DEFINE f == Worth(debts)
    <3>1. f[d] \in Int /\ f[d] = debts[d].amount
      BY <2>3, <2>4
    <3> HIDE DEF f
    <3>2. SumFunctionOnSet(f, {d}) = f[d]
      BY ONLY <3>1, SumOne
    <3> QED
      BY <2>2, <3>1, <3>2 DEF WorthOf, f
  <2> QED
    BY <1>1, <2>1, <2>5 DEF Charged, S
<1> QED
  BY <1>2, <1>3

(* The debts of an active sale, as sales.py, finance.py and
   payment_corrections.py leave them after any edits of the sale, payments,
   reversals, cancellations and corrections of its suppliers, its costs and
   its doubled debts, while expenses are recorded on other sales: each supplier
   is owed what their lines cost, and never more; less only where a doubled
   debt of the sale was cancelled.  It says nothing of a sale an expense was
   recorded on. *)
THEOREM CostIsAlwaysOwed == Spec => []CostIsOwed
<1> DEFINE Priced == AllCharged(sales, debts)
<1>1. Init => Priced
  BY InitCharged
<1>2. IInv /\ Priced /\ [Next]_vars => Priced'
  BY StepCharged
<1>3. IInv /\ Priced => CostIsOwed
  <2> SUFFICES ASSUME IInv, Priced, NEW s \in DOMAIN sales, sales[s].status = "active", ~Expensed(s),
                      NEW p \in Parties
               PROVE  LET owed == WorthOf(debts, {d \in Payables(s) : debts[d].party = p})
                      IN owed <= sales[s].costs[p] /\ (Covered(s) = {} => owed = sales[s].costs[p])
    BY DEF CostIsOwed
  <2>1. sales \in Seq(SaleRecord) /\ debts \in Seq(DebtRecord)
    BY DEF IInv, Kept, Sound
  <2>2. sales[s] \in SaleRecord
    BY <2>1, ElementOfSeq, LenProperties
  <2>3. sales[s].costs[p] \in Nat
    BY <2>2 DEF SaleRecord
  <2>5. Plain(debts, s)
    BY DEF Expensed, Plain
  <2>4. Charged(debts, s, p, sales[s].costs[p])
    BY <2>5 DEF AllCharged
  <2> HIDE DEF Priced
  <2> QED
    BY <2>1, <2>3, <2>4, ChargedOwed
<1> HIDE DEF Priced
<1> QED
  BY <1>1, <1>2, <1>3, AlwaysKept, PTL DEF Spec

-----------------------------------------------------------------------------
(* A reference is held by the money that counts under it. *)

\* What counts as money under r: a payment that stands by itself, what a
\* customer paid over several debts, a transfer.
Pays(row, r) == row.ref = r /\ row.transfer = 0 /\ row.group = 0 /\ ~row.reversed
PaysPart(row, r) == row.ref = r /\ row.group # 0 /\ ~row.reversed
IsMoney(ps, ts, h, r) ==
    \/ \E p \in DOMAIN ps : Pays(ps[p], r) /\ h = <<"payment", p>>
    \/ \E p \in DOMAIN ps : PaysPart(ps[p], r) /\ h = <<"group", ps[p].group>>
    \/ \E t \in DOMAIN ts : ts[t].ref = r /\ h = <<"transfer", t>>
\* A refund holds its reference without being money of the transfer's.
HolderIs(holder, h) == h = holder /\ h # NoHolder /\ h[1] # "refund"
\* The parts of what a customer paid are under one reference and no transfer's.
InParts(ps) ==
    /\ \A p \in DOMAIN ps : ps[p].group # 0 => ps[p].transfer = 0 /\ ps[p].to \in Buyers
    /\ \A p, q \in DOMAIN ps : ps[p].group # 0 /\ ps[p].group = ps[q].group => ps[p].ref = ps[q].ref
Referenced(cs, ps, ts) ==
    /\ InParts(ps)
    /\ \A r \in Refs : \A h : IsMoney(ps, ts, h, r) <=> HolderIs(cs[r], h)

LEMMA ReferencedFollows ==
    ASSUME Referenced(claims, payments, transfers)
    PROVE  ReferenceFollowsMoney
<1>1. ASSUME NEW r, NEW h PROVE h \in Counting(r) <=> IsMoney(payments, transfers, h, r)
  BY DEF Counting, IsMoney, Pays, PaysPart
<1>2. ASSUME NEW r \in Refs
      PROVE  IF claims[r] # NoHolder /\ claims[r][1] = "refund" THEN Counting(r) = {}
             ELSE Counting(r) = IF claims[r] = NoHolder THEN {} ELSE {claims[r]}
  <2>1. \A h : h \in Counting(r) <=> HolderIs(claims[r], h)
    BY <1>1 DEF Referenced
  <2> QED
    BY <2>1 DEF HolderIs
<1> QED
  BY <1>2 DEF ReferenceFollowsMoney

\* Rows that stand as before, and rows added under one reference or none.
Stands(ps, ps2) ==
    /\ DOMAIN ps \subseteq DOMAIN ps2
    /\ \A p \in DOMAIN ps :
          /\ ps2[p].ref = ps[p].ref /\ ps2[p].transfer = ps[p].transfer /\ ps2[p].group = ps[p].group
          /\ ps2[p].reversed = ps[p].reversed /\ ps2[p].to = ps[p].to
StandsAs(ts, ts2) == DOMAIN ts \subseteq DOMAIN ts2 /\ \A t \in DOMAIN ts : ts2[t].ref = ts[t].ref
AddedUnder(ps, ts, ps2, ts2, ref, holder) ==
    /\ \A p \in DOMAIN ps2 : p \notin DOMAIN ps =>
          /\ ps2[p].ref \in {ref, NoRef}
          /\ ps2[p].group # 0 =>
                /\ ps2[p].transfer = 0 /\ ps2[p].to \in Buyers /\ ps2[p].ref = ref
                /\ \A q \in DOMAIN ps : ps[q].group # ps2[p].group
    /\ \A t \in DOMAIN ts2 : t \notin DOMAIN ts => ts2[t].ref \in {ref, NoRef}
    /\ ref \in Refs => \A h : IsMoney(ps2, ts2, h, ref) <=> IsMoney(ps, ts, h, ref) \/ HolderIs(holder, h)
LEMMA ReferenceTaken ==
    ASSUME NEW cs, ClaimsTyped(cs), NEW ps, NEW ts, Referenced(cs, ps, ts), NEW ref \in Refs \cup {NoRef},
           ref \in Refs => cs[ref] = NoHolder, NEW holder, NEW ps2, NEW ts2,
           Stands(ps, ps2), StandsAs(ts, ts2), AddedUnder(ps, ts, ps2, ts2, ref, holder)
    PROVE  Referenced(IF ref = NoRef THEN cs ELSE [cs EXCEPT ![ref] = holder], ps2, ts2)
<1> DEFINE cs2 == IF ref = NoRef THEN cs ELSE [cs EXCEPT ![ref] = holder]
<1>1. NoRef \notin Refs
  BY LedgerAssumption
<1>2. InParts(ps2)
  <2>1. ASSUME NEW p \in DOMAIN ps2, ps2[p].group # 0 PROVE ps2[p].transfer = 0 /\ ps2[p].to \in Buyers
    BY <2>1 DEF Referenced, InParts, Stands, AddedUnder
  <2>2. ASSUME NEW p \in DOMAIN ps2, NEW q \in DOMAIN ps2, ps2[p].group # 0, ps2[p].group = ps2[q].group
        PROVE  ps2[p].ref = ps2[q].ref
    <3>1. CASE p \in DOMAIN ps /\ q \in DOMAIN ps
      BY <2>2, <3>1 DEF Referenced, InParts, Stands
    <3>2. CASE p \notin DOMAIN ps /\ q \notin DOMAIN ps
      BY <2>2, <3>2 DEF AddedUnder
    <3>3. CASE p \in DOMAIN ps /\ q \notin DOMAIN ps
      BY <2>2, <3>3 DEF AddedUnder, Stands
    <3>4. CASE p \notin DOMAIN ps /\ q \in DOMAIN ps
      BY <2>2, <3>4 DEF AddedUnder, Stands
    <3> QED
      BY <3>1, <3>2, <3>3, <3>4
  <2> QED
    BY <2>1, <2>2 DEF InParts
<1>3. ASSUME NEW r \in Refs, r # ref, NEW h PROVE IsMoney(ps2, ts2, h, r) <=> IsMoney(ps, ts, h, r)
  <2>1. r # NoRef
    BY <1>1
  <2>2. ASSUME NEW p \in DOMAIN ps PROVE p \in DOMAIN ps2 /\ (Pays(ps2[p], r) <=> Pays(ps[p], r))
                                          /\ (PaysPart(ps2[p], r) <=> PaysPart(ps[p], r)) /\ ps2[p].group = ps[p].group
    BY DEF Stands, Pays, PaysPart
  <2>3. ASSUME NEW p \in DOMAIN ps2, p \notin DOMAIN ps PROVE ~Pays(ps2[p], r) /\ ~PaysPart(ps2[p], r)
    BY <1>3, <2>1, <2>3 DEF AddedUnder, Pays, PaysPart
  <2>4. ASSUME NEW t \in DOMAIN ts2, t \notin DOMAIN ts PROVE ts2[t].ref # r
    BY <1>3, <2>1, <2>4 DEF AddedUnder
  <2>5. \A t \in DOMAIN ts : t \in DOMAIN ts2 /\ ts2[t].ref = ts[t].ref
    BY DEF StandsAs
  <2> QED
    BY <2>2, <2>3, <2>4, <2>5 DEF IsMoney
<1>4. ASSUME NEW r \in Refs, NEW h PROVE IsMoney(ps2, ts2, h, r) <=> HolderIs(cs2[r], h)
  <2>1. CASE r = ref
    <3>1. cs[r] = NoHolder /\ cs2[r] = holder
      BY <1>1, <2>1 DEF ClaimsTyped
    <3>2. ~IsMoney(ps, ts, h, r)
      BY <3>1 DEF Referenced, HolderIs
    <3> QED
      BY <2>1, <3>1, <3>2 DEF AddedUnder
  <2>2. CASE r # ref
    <3>1. cs2[r] = cs[r]
      BY <2>2 DEF ClaimsTyped
    <3> QED
      BY <1>3, <2>2, <3>1 DEF Referenced
  <2> QED
    BY <2>1, <2>2
<1> HIDE DEF cs2
<1>5. Referenced(cs2, ps2, ts2)
  BY <1>2, <1>4 DEF Referenced
<1> QED
  BY <1>5 DEF cs2

\* Rows added under no reference say nothing.
Silent(ps, ts, ps2, ts2) ==
    /\ \A p \in DOMAIN ps2 : p \notin DOMAIN ps => ps2[p].ref = NoRef /\ ps2[p].group = 0
    /\ \A t \in DOMAIN ts2 : t \notin DOMAIN ts => ts2[t].ref = NoRef
LEMMA ReferencesStay ==
    ASSUME NEW cs, ClaimsTyped(cs), NEW ps, NEW ts, Referenced(cs, ps, ts), NEW ps2, NEW ts2,
           Stands(ps, ps2), StandsAs(ts, ts2), Silent(ps, ts, ps2, ts2)
    PROVE  Referenced(cs, ps2, ts2)
<1>1. PICK ref \in Refs \cup {NoRef} : ref = NoRef
  OBVIOUS
<1>2. NoRef \notin Refs
  BY LedgerAssumption
<1>3. AddedUnder(ps, ts, ps2, ts2, ref, NoHolder)
  BY <1>1, <1>2 DEF AddedUnder, Silent
<1>4. Referenced(IF ref = NoRef THEN cs ELSE [cs EXCEPT ![ref] = NoHolder], ps2, ts2)
  BY <1>1, <1>2, <1>3, ReferenceTaken
<1> QED
  BY <1>1, <1>4

\* What becomes of the holder of a reference when the payments P come off d.
Gone(d, P, h) ==
    \E p \in P : TransferOf(d, P, p) = 0 /\
        \/ payments[p].group = 0 /\ h = <<"payment", p>>
        \/ /\ payments[p].group # 0 /\ h = <<"group", payments[p].group>>
           /\ ~(\E q \in (DOMAIN payments) \ P : payments[q].group = payments[p].group /\ ~payments[q].reversed)
HolderOff(d, P, h) ==
    IF \E p \in Wrapped(d, P) : h = <<"payment", p>> THEN <<"transfer", TransferOf(d, P, h[2])>>
    ELSE IF Gone(d, P, h) THEN NoHolder ELSE h
LEMMA ClaimsOffAre ==
    ASSUME payments \in Seq(PaymentRecord), transfers \in Seq(TransferRecord), debts \in Seq(DebtRecord),
           NEW d \in DOMAIN debts, NEW P \in SUBSET DOMAIN payments, NEW credit
    PROVE  TakenOff(d, P, credit).claims = [r \in Refs |-> HolderOff(d, P, claims[r])]
<1> DEFINE o == InOrder(Wrapped(d, P))
           gone(holder) == \E p \in P : \/ TransferOf(d, P, p) = 0 /\ payments[p].group = 0 /\ holder = <<"payment", p>>
                                 \/ /\ TransferOf(d, P, p) = 0 /\ payments[p].group # 0
                                    /\ holder = <<"group", payments[p].group>>
                                    /\ ~(\E q \in (DOMAIN payments) \ P : payments[q].group = payments[p].group /\ ~payments[q].reversed)
<1>1. TakenOff(d, P, credit).claims
        = [r \in Refs |-> IF \E p \in Range(o) : claims[r] = <<"payment", p>>
                          THEN <<"transfer", TransferOf(d, P, claims[r][2])>>
                          ELSE IF gone(claims[r]) THEN NoHolder ELSE claims[r]]
  BY DEF TakenOff, Wrapped, PlaceOf, TransferOf
<1>2. ASSUME NEW h PROVE gone(h) <=> Gone(d, P, h)
  BY DEF Gone
<1> HIDE DEF gone
<1>3. Range(o) = Wrapped(d, P)
  <2>1. PICK c \in Nat : \E order : WrapsIn(d, P, c, order)
    BY TransferOfIs
  <2>2. IsFiniteSet(Wrapped(d, P)) /\ Wrapped(d, P) \in SUBSET Int
    <3>1. Wrapped(d, P) \in SUBSET DOMAIN payments
      BY DEF Wrapped
    <3>2. IsFiniteSet(DOMAIN payments) /\ DOMAIN payments \subseteq Int
      BY LenProperties, FS_Interval
    <3> QED
      BY <3>1, <3>2, FS_Subset
  <2>3. DOMAIN o = 1..Cardinality(Wrapped(d, P)) /\ Matches(o, 1..Cardinality(Wrapped(d, P)), Wrapped(d, P))
    BY <2>2, InOrderIs
  <2> HIDE DEF o
  <2> QED
    BY <2>3 DEF Range, Matches
<1> HIDE DEF o
<1>4. ASSUME NEW h
      PROVE  (IF \E p \in Range(o) : h = <<"payment", p>> THEN <<"transfer", TransferOf(d, P, h[2])>>
              ELSE IF gone(h) THEN NoHolder ELSE h) = HolderOff(d, P, h)
  BY ONLY <1>2, <1>3 DEF HolderOff
<1> QED
  BY ONLY <1>1, <1>4

\* Money under r that stays, when the payments P come off.
Remains(P, h, r) ==
    \/ \E p \in DOMAIN payments : p \notin P /\ Pays(payments[p], r) /\ h = <<"payment", p>>
    \/ \E p \in DOMAIN payments : p \notin P /\ PaysPart(payments[p], r) /\ h = <<"group", payments[p].group>>
    \/ \E t \in DOMAIN transfers : transfers[t].ref = r /\ h = <<"transfer", t>>
Becomes(d, P, h, r) == \E p \in Wrapped(d, P) : payments[p].ref = r /\ h = <<"transfer", TransferOf(d, P, p)>>

\* A payment that is wrapped stood by itself.
LEMMA WrappedStood ==
    ASSUME IInv, Faithful(debts, payments, transfers), InParts(payments), NEW d \in DOMAIN debts,
           NEW P \in SUBSET Active(payments, d), NEW p \in Wrapped(d, P)
    PROVE  /\ p \in DOMAIN payments /\ p \in P /\ payments[p].transfer = 0 /\ payments[p].group = 0
           /\ ~payments[p].reversed
<1>1. /\ p \in P /\ p \in DOMAIN payments /\ payments[p].transfer = 0 /\ ToSupplier(debts[d])
      /\ payments[p].debt = d /\ ~payments[p].reversed
  BY DEF Wrapped, Active
<1>2. payments[p].to \notin Buyers
  <2>1. Faces(debts[d], payments[p])
    BY <1>1 DEF Faithful, Placed
  <2>2. debts[d].party \in Suppliers /\ debts[d].direction = "payable"
    BY <1>1 DEF ToSupplier
  <2> QED
    BY <2>1, <2>2, SuppliersApart DEF Faces
<1> QED
  BY <1>1, <1>2 DEF InParts

LEMMA ReferencedOff ==
    ASSUME IInv, Faithful(debts, payments, transfers), Referenced(claims, payments, transfers),
           NEW d \in DOMAIN debts, NEW P \in SUBSET Active(payments, d), NEW credit \in BOOLEAN
    PROVE  LET off == TakenOff(d, P, credit)
           IN Referenced(off.claims, off.payments, off.transfers) /\ ClaimsTyped(off.claims)
<1> DEFINE off == TakenOff(d, P, credit)
           qs == off.payments
           us == off.transfers
<1>1. /\ payments \in Seq(PaymentRecord) /\ transfers \in Seq(TransferRecord) /\ debts \in Seq(DebtRecord)
      /\ Sound(debts, payments, transfers) /\ Booked(debts, payments) /\ ClaimsTyped(claims)
      /\ Linked(debts, payments, transfers) /\ DOMAIN transfers = 1..Len(transfers) /\ Len(transfers) \in Nat
      /\ P \in SUBSET DOMAIN payments
  BY LenProperties DEF IInv, Kept, Sound, Active
<1>2. TakenRows(qs, d, P, credit) /\ TakenTransfers(us, d, P, credit)
  BY <1>1, TakenOffKeeps
<1>3. PICK c, order : c \in Nat /\ WrapsIn(d, P, c, order)
  BY <1>1, TransferOfIs
<1>4. off.claims = [r \in Refs |-> HolderOff(d, P, claims[r])]
  BY <1>1, ClaimsOffAre
<1>5. ClaimsTyped(off.claims)
  BY <1>1, TakenOffClaims
<1> HIDE DEF off
<1>6. ASSUME NEW p \in Wrapped(d, P)
      PROVE  /\ p \in DOMAIN payments /\ p \in P /\ payments[p].transfer = 0 /\ payments[p].group = 0
             /\ ~payments[p].reversed
  BY <1>6, WrappedStood DEF Referenced
<1>7. /\ DOMAIN qs = DOMAIN payments
      /\ \A p \in DOMAIN payments : p \notin P => qs[p] = payments[p]
      /\ \A p \in P : /\ qs[p].to = payments[p].to /\ qs[p].ref = payments[p].ref /\ qs[p].group = payments[p].group
                      /\ qs[p].reversed /\ qs[p].transfer = TransferOf(d, P, p)
  BY <1>2 DEF TakenRows
<1>8. /\ \A t \in DOMAIN transfers : t \in DOMAIN us /\ us[t].ref = transfers[t].ref
      /\ \A k \in 1..c : Len(transfers) + k \in DOMAIN us /\ us[Len(transfers) + k].ref = payments[order[k]].ref
      /\ \A t \in DOMAIN us : t \in DOMAIN transfers \/ \E k \in 1..c : t = Len(transfers) + k
  <2> DEFINE ws == Wrappings(d, P)
             known == transfers \o ws
  <2>1. ws \in Seq(TransferRecord) /\ DOMAIN ws = 1..c /\ \A k \in 1..c : ws[k].ref = payments[order[k]].ref
    BY <1>3 DEF WrapsIn
  <2>2. DOMAIN us = DOMAIN known /\ \A t \in DOMAIN known : us[t].ref = known[t].ref
    BY <1>2 DEF TakenTransfers
  <2> HIDE DEF ws
  <2>3. /\ DOMAIN known = DOMAIN transfers \cup After(Len(transfers), DOMAIN ws)
        /\ \A t \in DOMAIN transfers : known[t] = transfers[t]
        /\ \A k \in DOMAIN ws : known[Len(transfers) + k] = ws[k]
    <3>1. transfers \in Seq(TransferRecord) /\ ws \in Seq(TransferRecord)
      BY <1>1, <2>1
    <3> QED
      BY ONLY <3>1, JoinIs
  <2>4. \A t : t \in DOMAIN us <=> t \in DOMAIN known
    BY <2>2
  <2> HIDE DEF known
  <2>5. ASSUME NEW t \in DOMAIN transfers PROVE t \in DOMAIN us /\ us[t].ref = transfers[t].ref
    <3>1. t \in DOMAIN known /\ known[t] = transfers[t]
      BY <2>3
    <3> QED
      BY <2>2, <2>4, <3>1
  <2>6. ASSUME NEW k \in 1..c
        PROVE  Len(transfers) + k \in DOMAIN us /\ us[Len(transfers) + k].ref = payments[order[k]].ref
    <3>1. k \in DOMAIN ws
      BY <2>1
    <3>2. Len(transfers) + k \in DOMAIN known /\ known[Len(transfers) + k] = ws[k]
      BY <2>3, <3>1 DEF After
    <3> QED
      BY <2>1, <2>2, <2>4, <3>1, <3>2
  <2>7. ASSUME NEW t \in DOMAIN us, t \notin DOMAIN transfers PROVE \E k \in 1..c : t = Len(transfers) + k
    <3>1. t \in After(Len(transfers), DOMAIN ws)
      BY <2>3, <2>4, <2>7
    <3> QED
      BY <2>1, <3>1 DEF After
  <2> QED
    BY <2>5, <2>6, <2>7
<1>9. \A p \in P : p \notin Wrapped(d, P) => TransferOf(d, P, p) = payments[p].transfer
  BY <1>3 DEF WrapsIn
<1>10. /\ \A p \in Wrapped(d, P) : \E k \in 1..c : order[k] = p
       /\ \A k \in 1..c : order[k] \in Wrapped(d, P) /\ TransferOf(d, P, order[k]) = Len(transfers) + k
  BY <1>3 DEF WrapsIn, Matches
<1> HIDE DEF qs, us
<1>11. InParts(qs)
  <2>1. ASSUME NEW p \in DOMAIN qs
        PROVE  qs[p].to = payments[p].to /\ qs[p].ref = payments[p].ref /\ qs[p].group = payments[p].group
    BY <1>7
  <2>2. ASSUME NEW p \in DOMAIN qs, qs[p].group # 0 PROVE qs[p].transfer = 0 /\ qs[p].to \in Buyers
    <3>1. payments[p].transfer = 0 /\ payments[p].to \in Buyers
      BY <1>7, <2>1, <2>2 DEF Referenced, InParts
    <3>2. p \notin Wrapped(d, P)
      BY <1>6, <2>1, <2>2
    <3> QED
      BY <1>7, <1>9, <2>1, <3>1, <3>2
  <2> QED
    BY <1>7, <2>1, <2>2 DEF Referenced, InParts
<1>12. ASSUME NEW r \in Refs, NEW h
       PROVE  IsMoney(qs, us, h, r) <=> Remains(P, h, r) \/ Becomes(d, P, h, r)
  <2>1. ASSUME NEW p \in P PROVE ~Pays(qs[p], r) /\ ~PaysPart(qs[p], r)
    BY <1>7 DEF Pays, PaysPart
  <2>2. (\E p \in DOMAIN qs : Pays(qs[p], r) /\ h = <<"payment", p>>)
          <=> \E p \in DOMAIN payments : p \notin P /\ Pays(payments[p], r) /\ h = <<"payment", p>>
    BY <1>7, <2>1
  <2>3. (\E p \in DOMAIN qs : PaysPart(qs[p], r) /\ h = <<"group", qs[p].group>>)
          <=> \E p \in DOMAIN payments : p \notin P /\ PaysPart(payments[p], r) /\ h = <<"group", payments[p].group>>
    BY <1>7, <2>1
  <2>4. (\E t \in DOMAIN us : us[t].ref = r /\ h = <<"transfer", t>>)
          <=> (\E t \in DOMAIN transfers : transfers[t].ref = r /\ h = <<"transfer", t>>) \/ Becomes(d, P, h, r)
    <3>1. ASSUME NEW t \in DOMAIN us, us[t].ref = r, h = <<"transfer", t>>, t \notin DOMAIN transfers
          PROVE  Becomes(d, P, h, r)
      <4>1. PICK k \in 1..c : t = Len(transfers) + k
        BY <1>8, <3>1
      <4> QED
        BY <1>8, <1>10, <3>1, <4>1 DEF Becomes
    <3>2. ASSUME Becomes(d, P, h, r) PROVE \E t \in DOMAIN us : us[t].ref = r /\ h = <<"transfer", t>>
      <4>1. PICK p \in Wrapped(d, P) : payments[p].ref = r /\ h = <<"transfer", TransferOf(d, P, p)>>
        BY <3>2 DEF Becomes
      <4>2. PICK k \in 1..c : order[k] = p
        BY <1>10
      <4> QED
        BY <1>8, <1>10, <4>1, <4>2
    <3> QED
      BY <1>8, <3>1, <3>2
  <2> QED
    BY <2>2, <2>3, <2>4 DEF IsMoney, Remains
<1>13. ASSUME NEW r \in Refs, NEW h
       PROVE  Remains(P, h, r) \/ Becomes(d, P, h, r) <=> HolderIs(HolderOff(d, P, claims[r]), h)
  <2> DEFINE old == claims[r]
  <2>1. \A x : IsMoney(payments, transfers, x, r) <=> HolderIs(old, x)
    BY DEF Referenced
  <2>2. Remains(P, h, r) => h = old
    <3>1. Remains(P, h, r) => IsMoney(payments, transfers, h, r)
      BY DEF Remains, IsMoney
    <3> QED
      BY <2>1, <3>1 DEF HolderIs
  <2>3. ASSUME NEW p \in Wrapped(d, P), payments[p].ref = r PROVE old = <<"payment", p>>
    <3>1. p \in DOMAIN payments /\ Pays(payments[p], r)
      BY <1>6, <2>3 DEF Pays
    <3>2. IsMoney(payments, transfers, <<"payment", p>>, r)
      BY <3>1 DEF IsMoney
    <3> QED
      BY <2>1, <3>2 DEF HolderIs
  <2> HIDE DEF old
  <2>4. CASE \E p \in Wrapped(d, P) : old = <<"payment", p>>
    <3>1. PICK p \in Wrapped(d, P) : old = <<"payment", p>>
      BY <2>4
    <3>2. HolderIs(old, old)
      BY <3>1 DEF HolderIs, NoHolder
    <3>3. IsMoney(payments, transfers, old, r)
      BY <2>1, <3>2
    <3>4. Pays(payments[p], r)
      BY <3>1, <3>3 DEF IsMoney
    <3>5. HolderOff(d, P, old) = <<"transfer", TransferOf(d, P, p)>>
      BY <3>1 DEF HolderOff
    <3>6. ~Remains(P, h, r)
      <4>1. ASSUME Remains(P, h, r) PROVE FALSE
        <5>1. h = <<"payment", p>>
          BY <2>2, <3>1, <4>1
        <5>2. p \in P
          BY <1>6
        <5> QED
          BY <4>1, <5>1, <5>2 DEF Remains
      <4> QED
        BY <4>1
    <3>7. Becomes(d, P, h, r) <=> h = <<"transfer", TransferOf(d, P, p)>>
      <4>1. ASSUME NEW q \in Wrapped(d, P), payments[q].ref = r PROVE q = p
        BY <2>3, <3>1, <4>1
      <4>2. payments[p].ref = r
        BY <3>4 DEF Pays
      <4> QED
        BY <4>1, <4>2 DEF Becomes
    <3>8. HolderIs(HolderOff(d, P, old), h) <=> h = <<"transfer", TransferOf(d, P, p)>>
      BY <3>5 DEF HolderIs, NoHolder
    <3> QED
      BY <3>6, <3>7, <3>8 DEF old
  <2>5. CASE ~(\E p \in Wrapped(d, P) : old = <<"payment", p>>)
    <3>1. ~Becomes(d, P, h, r)
      BY <2>3, <2>5 DEF Becomes
    <3>2. CASE Gone(d, P, old)
      <4>1. HolderOff(d, P, old) = NoHolder
        BY <2>5, <3>2 DEF HolderOff
      <4>2. ~HolderIs(NoHolder, h)
        BY DEF HolderIs
      <4>3. ASSUME Remains(P, h, r) PROVE FALSE
        <5>1. h = old
          BY <2>2, <4>3
        <5>2. PICK p \in P : \/ old = <<"payment", p>>
                             \/ /\ old = <<"group", payments[p].group>>
                                /\ ~(\E q \in (DOMAIN payments) \ P : payments[q].group = payments[p].group /\ ~payments[q].reversed)
          BY <3>2 DEF Gone
        <5> QED
          BY <4>3, <5>1, <5>2 DEF Remains, PaysPart
      <4> QED
        BY <3>1, <4>1, <4>2, <4>3 DEF old
    <3>3. CASE ~Gone(d, P, old)
      <4>1. HolderOff(d, P, old) = old
        BY <2>5, <3>3 DEF HolderOff
      <4>2. ASSUME IsMoney(payments, transfers, h, r) PROVE Remains(P, h, r)
        <5>1. h = old
          BY <2>1, <4>2 DEF HolderIs
        <5>2. ASSUME NEW p \in DOMAIN payments, Pays(payments[p], r), h = <<"payment", p>> PROVE p \notin P
          <6>1. ASSUME p \in P PROVE FALSE
            <7>1. p \notin Wrapped(d, P)
              BY <2>5, <5>1, <5>2
            <7>2. TransferOf(d, P, p) = 0 /\ payments[p].group = 0
              BY <1>9, <5>2, <6>1, <7>1 DEF Pays
            <7> QED
              BY <3>3, <5>1, <5>2, <6>1, <7>2 DEF Gone
          <6> QED
            BY <6>1
        <5>3. ASSUME NEW p \in DOMAIN payments, PaysPart(payments[p], r), h = <<"group", payments[p].group>>
              PROVE  Remains(P, h, r)
          <6>1. CASE p \notin P
            BY <5>3, <6>1 DEF Remains
          <6>2. CASE p \in P
            <7>1. payments[p].group # 0 /\ payments[p].ref = r
              BY <5>3 DEF PaysPart
            <7>2. payments[p].transfer = 0 /\ p \notin Wrapped(d, P)
              BY <1>6, <7>1 DEF Referenced, InParts
            <7>3. TransferOf(d, P, p) = 0
              BY <1>9, <6>2, <7>2
            <7>4. PICK q \in (DOMAIN payments) \ P : payments[q].group = payments[p].group /\ ~payments[q].reversed
              BY <3>3, <5>1, <5>3, <6>2, <7>1, <7>3 DEF Gone
            <7>5. payments[q].ref = r
              BY <7>1, <7>4 DEF Referenced, InParts
            <7> QED
              BY <5>3, <7>1, <7>4, <7>5 DEF Remains, PaysPart
          <6> QED
            BY <6>1, <6>2
        <5> QED
          BY <4>2, <5>2, <5>3 DEF IsMoney, Remains
      <4>3. Remains(P, h, r) => IsMoney(payments, transfers, h, r)
        BY DEF Remains, IsMoney
      <4> QED
        BY <2>1, <3>1, <4>1, <4>2, <4>3 DEF old
    <3> QED
      BY <3>2, <3>3
  <2> QED
    BY <2>4, <2>5
<1>14. \A r \in Refs : off.claims[r] = HolderOff(d, P, claims[r])
  BY <1>4
<1>15. Referenced(off.claims, qs, us)
  BY <1>11, <1>12, <1>13, <1>14 DEF Referenced
<1> QED
  BY <1>5, <1>15 DEF off, qs, us

\* The same rows with other sums.
LEMMA RefStays ==
    ASSUME NEW ts \in Seq(TransferRecord), NEW t \in DOMAIN ts,
           NEW field \in {"used", "credited", "refunded", "wrong", "refundedFrom", "wrongFrom"}, NEW sum
    PROVE  LET us == [ts EXCEPT ![t][field] = sum]
           IN DOMAIN us = DOMAIN ts /\ \A u \in DOMAIN ts : us[u].ref = ts[u].ref
<1>1. ts[t] \in TransferRecord
  BY CreditIs
<1>2. [ts[t] EXCEPT ![field] = sum].ref = ts[t].ref
  BY <1>1 DEF TransferRecord
<1> QED
  BY <1>2

LEMMA SameMoney ==
    ASSUME NEW ps, NEW ts, NEW ts2, DOMAIN ts2 = DOMAIN ts, \A t \in DOMAIN ts : ts2[t].ref = ts[t].ref
    PROVE  Stands(ps, ps) /\ StandsAs(ts, ts2) /\ Silent(ps, ts, ps, ts2)
  BY DEF Stands, StandsAs, Silent

\* A refund takes its reference without being money under it.
LEMMA RefundTransferReferenced ==
    ASSUME IInv, Referenced(claims, payments, transfers),
           NEW t \in DOMAIN transfers, NEW amount \in Amounts, NEW ref \in AnyRef,
           RefundTransfer(t, amount, ref)
    PROVE  Referenced(claims', payments', transfers')
<1> DEFINE sum == transfers[t].refunded + amount
           us == [transfers EXCEPT ![t]["refunded"] = sum]
           holder == <<"refund", t>>
<1>1. /\ transfers \in Seq(TransferRecord) /\ ClaimsTyped(claims)
      /\ ref \in Refs \cup {NoRef} /\ NoRef \notin Refs
  BY LedgerAssumption DEF IInv, Kept, Sound, AnyRef
<1>2. /\ transfers' = us /\ payments' = payments
      /\ claims' = (IF ref = NoRef THEN claims ELSE [claims EXCEPT ![ref] = holder])
      /\ ref \in Refs => claims[ref] = NoHolder
  BY DEF RefundTransfer, Claimed, Unclaimed
<1>3. holder[1] = "refund"
  OBVIOUS
<1> HIDE DEF sum, holder
<1>4. DOMAIN us = DOMAIN transfers /\ \A u \in DOMAIN transfers : us[u].ref = transfers[u].ref
  BY <1>1, RefStays
<1> HIDE DEF us
<1>5. Stands(payments, payments) /\ StandsAs(transfers, us) /\ Silent(payments, transfers, payments, us)
  BY <1>4, SameMoney
<1>6. ASSUME NEW r, NEW h PROVE IsMoney(payments, us, h, r) <=> IsMoney(payments, transfers, h, r)
  BY <1>4 DEF IsMoney
<1>7. AddedUnder(payments, transfers, payments, us, ref, holder)
  BY <1>3, <1>4, <1>6 DEF AddedUnder, HolderIs
<1>8. Referenced(IF ref = NoRef THEN claims ELSE [claims EXCEPT ![ref] = holder], payments, us)
  BY <1>1, <1>2, <1>5, <1>7, ReferenceTaken
<1> QED
  BY <1>2, <1>8

LEMMA CorrectTransferReferenced ==
    ASSUME IInv, Referenced(claims, payments, transfers),
           NEW t \in DOMAIN transfers, NEW amount \in Amounts, CorrectTransfer(t, amount)
    PROVE  Referenced(claims', payments', transfers')
<1> DEFINE sum == transfers[t].wrong + amount
           us == [transfers EXCEPT ![t]["wrong"] = sum]
<1>1. transfers \in Seq(TransferRecord) /\ ClaimsTyped(claims)
  BY DEF IInv, Kept, Sound
<1>2. transfers' = us /\ payments' = payments /\ claims' = claims
  BY DEF CorrectTransfer
<1> HIDE DEF sum
<1>3. DOMAIN us = DOMAIN transfers /\ \A u \in DOMAIN transfers : us[u].ref = transfers[u].ref
  BY <1>1, RefStays
<1> HIDE DEF us
<1>4. Stands(payments, payments) /\ StandsAs(transfers, us) /\ Silent(payments, transfers, payments, us)
  BY <1>3, SameMoney
<1>5. Referenced(claims, payments, us)
  BY <1>1, <1>4, ReferencesStay
<1> QED
  BY <1>2, <1>5

LEMMA ClassifyReferenced ==
    ASSUME IInv, Referenced(claims, payments, transfers),
           NEW p \in DOMAIN payments, NEW as \in {"credit", "refund", "entry_error"}, NEW amount \in Amounts,
           Classify(p, as, amount)
    PROVE  Referenced(claims', payments', transfers')
<1> DEFINE t == payments[p].transfer
           qs == [payments EXCEPT ![p].decided = @ + amount]
<1>1. /\ transfers \in Seq(TransferRecord) /\ payments \in Seq(PaymentRecord) /\ ClaimsTyped(claims)
      /\ Linked(debts, payments, transfers) /\ DOMAIN transfers = 1..Len(transfers) /\ Len(transfers) \in Nat
  BY LenProperties DEF IInv, Kept, Sound
<1>2. PICK field \in {"credited", "refundedFrom", "wrongFrom"} :
         /\ transfers' = [transfers EXCEPT ![t][field] = @ + amount]
         /\ payments' = qs /\ claims' = claims /\ t # 0
  BY DEF Classify
<1>3. t \in DOMAIN transfers
  BY <1>1, <1>2 DEF Linked
<1>4. DOMAIN transfers' = DOMAIN transfers /\ \A u \in DOMAIN transfers : transfers'[u].ref = transfers[u].ref
  BY <1>1, <1>2, <1>3, RefStays
<1>5. ASSUME NEW q \in DOMAIN payments
      PROVE  /\ qs[q].ref = payments[q].ref /\ qs[q].transfer = payments[q].transfer
             /\ qs[q].group = payments[q].group /\ qs[q].reversed = payments[q].reversed /\ qs[q].to = payments[q].to
  <2>1. payments[p] \in PaymentRecord
    BY <1>1, PaymentIs
  <2> QED
    BY <2>1 DEF PaymentRecord
<1>6. DOMAIN qs = DOMAIN payments
  OBVIOUS
<1> HIDE DEF qs
<1>7. Stands(payments, qs) /\ StandsAs(transfers, transfers') /\ Silent(payments, transfers, qs, transfers')
  BY <1>4, <1>5, <1>6 DEF Stands, StandsAs, Silent
<1>8. Referenced(claims, qs, transfers')
  BY <1>1, <1>7, ReferencesStay
<1> QED
  BY <1>2, <1>8

\* An old payment hands its reference to its transfer.
LEMMA WrapReferenced ==
    ASSUME IInv, Faithful(debts, payments, transfers), Referenced(claims, payments, transfers), ~WrapsAnything,
           NEW p \in DOMAIN payments, Wrap(p)
    PROVE  Referenced(claims', payments', transfers')
<1> DEFINE t == Len(transfers) + 1
           made == NewTransfer(debts[payments[p].debt].party, payments[p].amount, payments[p].ref)
           qs == [payments EXCEPT ![p].transfer = t]
           us == Append(transfers, made)
           moved(h) == IF h = <<"payment", p>> THEN <<"transfer", t>> ELSE h
<1>1. /\ Sound(debts, payments, transfers) /\ transfers \in Seq(TransferRecord) /\ payments \in Seq(PaymentRecord)
      /\ ClaimsTyped(claims) /\ DOMAIN transfers = 1..Len(transfers) /\ Len(transfers) \in Nat
  BY LenProperties DEF IInv, Kept, Sound
<1>2. /\ payments' = qs /\ transfers' = us /\ claims' = [r \in Refs |-> moved(claims[r])]
      /\ payments[p].old /\ payments[p].transfer = 0 /\ ToSupplier(debts[payments[p].debt])
  BY DEF Wrap
<1>3. ~payments[p].reversed /\ payments[p].to \in Suppliers
  BY <1>2 DEF Faithful, Unwrapped
<1>4. payments[p].group = 0
  BY <1>3, SuppliersApart DEF Referenced, InParts
<1>5. made \in TransferRecord /\ made.ref = payments[p].ref
  <2>1. /\ debts[payments[p].debt].party \in Suppliers
        /\ payments[p].amount \in Nat \ {0} /\ payments[p].ref \in Refs \cup {NoRef}
    BY <1>1, <1>2, PaymentIs DEF ToSupplier
  <2> QED
    BY <2>1, NewTransferIs
<1> HIDE DEF made
<1>6. /\ DOMAIN us = DOMAIN transfers \cup {t} /\ t \notin DOMAIN transfers /\ us[t].ref = payments[p].ref
      /\ \A u \in DOMAIN transfers : us[u].ref = transfers[u].ref
  <2>1. /\ us \in Seq(TransferRecord) /\ Len(us) = Len(transfers) + 1
        /\ \A u \in 1..Len(transfers) : us[u] = transfers[u]
        /\ us[Len(transfers) + 1] = made
    BY <1>1, <1>5, AppendProperties
  <2>2. DOMAIN us = 1..(Len(transfers) + 1)
    BY <2>1, LenProperties
  <2> HIDE DEF us
  <2> QED
    BY <1>1, <1>5, <2>1, <2>2
<1> HIDE DEF us
<1>7. t # 0
  BY <1>1
<1>8. DOMAIN qs = DOMAIN payments
  OBVIOUS
<1>9. ASSUME NEW q \in DOMAIN payments
      PROVE  /\ qs[q].ref = payments[q].ref /\ qs[q].transfer = IF q = p THEN t ELSE payments[q].transfer
             /\ qs[q].group = payments[q].group /\ qs[q].reversed = payments[q].reversed /\ qs[q].to = payments[q].to
  <2>1. payments[p] \in PaymentRecord
    BY <1>1, PaymentIs
  <2> HIDE DEF t
  <2> QED
    BY <2>1 DEF PaymentRecord
<1> HIDE DEF qs, t
<1>10. InParts(qs)
  BY <1>4, <1>8, <1>9 DEF Referenced, InParts
<1>11. ASSUME NEW r \in Refs, NEW h
       PROVE  IsMoney(qs, us, h, r) <=> HolderIs(moved(claims[r]), h)
  <2> DEFINE old == claims[r]
  <2>1. \A x : IsMoney(payments, transfers, x, r) <=> HolderIs(old, x)
    BY DEF Referenced
  <2> HIDE DEF old
  <2>2. (\E q \in DOMAIN qs : Pays(qs[q], r) /\ h = <<"payment", q>>)
          <=> \E q \in DOMAIN payments : q # p /\ Pays(payments[q], r) /\ h = <<"payment", q>>
    BY <1>7, <1>8, <1>9 DEF Pays
  <2>3. (\E q \in DOMAIN qs : PaysPart(qs[q], r) /\ h = <<"group", qs[q].group>>)
          <=> \E q \in DOMAIN payments : PaysPart(payments[q], r) /\ h = <<"group", payments[q].group>>
    BY <1>8, <1>9 DEF PaysPart
  <2>4. (\E u \in DOMAIN us : us[u].ref = r /\ h = <<"transfer", u>>)
          <=> (\E u \in DOMAIN transfers : transfers[u].ref = r /\ h = <<"transfer", u>>)
                \/ (payments[p].ref = r /\ h = <<"transfer", t>>)
    BY <1>6
  <2>5. CASE payments[p].ref = r
    <3>1. Pays(payments[p], r)
      BY <1>2, <1>3, <1>4, <2>5 DEF Pays
    <3>2. IsMoney(payments, transfers, <<"payment", p>>, r)
      BY <3>1 DEF IsMoney
    <3>3. old = <<"payment", p>>
      BY <2>1, <3>2 DEF HolderIs
    <3>4. \A x : IsMoney(payments, transfers, x, r) => x = <<"payment", p>>
      BY <2>1, <3>3 DEF HolderIs
    <3>5. ~(\E q \in DOMAIN payments : q # p /\ Pays(payments[q], r) /\ h = <<"payment", q>>)
      <4>1. ASSUME NEW q \in DOMAIN payments, q # p, Pays(payments[q], r) PROVE FALSE
        <5>1. IsMoney(payments, transfers, <<"payment", q>>, r)
          BY <4>1 DEF IsMoney
        <5> QED
          BY <3>4, <4>1, <5>1
      <4> QED
        BY <4>1
    <3>6. ~(\E q \in DOMAIN payments : PaysPart(payments[q], r) /\ h = <<"group", payments[q].group>>)
      <4>1. ASSUME NEW q \in DOMAIN payments, PaysPart(payments[q], r) PROVE FALSE
        <5>1. IsMoney(payments, transfers, <<"group", payments[q].group>>, r)
          BY <4>1 DEF IsMoney
        <5> QED
          BY <3>4, <5>1
      <4> QED
        BY <4>1
    <3>7. ~(\E u \in DOMAIN transfers : transfers[u].ref = r /\ h = <<"transfer", u>>)
      <4>1. ASSUME NEW u \in DOMAIN transfers, transfers[u].ref = r PROVE FALSE
        <5>1. IsMoney(payments, transfers, <<"transfer", u>>, r)
          BY <4>1 DEF IsMoney
        <5> QED
          BY <3>4, <5>1
      <4> QED
        BY <4>1
    <3>8. moved(old) = <<"transfer", t>>
      BY <3>3
    <3> QED
      BY <2>2, <2>3, <2>4, <2>5, <3>5, <3>6, <3>7, <3>8 DEF IsMoney, HolderIs, NoHolder, old
  <2>6. CASE payments[p].ref # r
    <3>1. old # <<"payment", p>>
      <4>1. ASSUME old = <<"payment", p>> PROVE FALSE
        <5>1. HolderIs(old, old)
          BY <4>1 DEF HolderIs, NoHolder
        <5>2. IsMoney(payments, transfers, old, r)
          BY <2>1, <5>1
        <5> QED
          BY <2>6, <4>1, <5>2 DEF IsMoney, Pays
      <4> QED
        BY <4>1
    <3>2. moved(old) = old
      BY <3>1
    <3>3. (\E q \in DOMAIN payments : q # p /\ Pays(payments[q], r) /\ h = <<"payment", q>>)
            <=> \E q \in DOMAIN payments : Pays(payments[q], r) /\ h = <<"payment", q>>
      BY <2>6 DEF Pays
    <3>4. IsMoney(qs, us, h, r) <=> IsMoney(payments, transfers, h, r)
      BY <2>2, <2>3, <2>4, <2>6, <3>3 DEF IsMoney
    <3> QED
      BY <2>1, <3>2, <3>4 DEF old
  <2> QED
    BY <2>5, <2>6
<1> HIDE DEF moved
<1>12. \A r \in Refs : claims'[r] = moved(claims[r])
  BY <1>2
<1>13. Referenced(claims', qs, us)
  BY <1>10, <1>11, <1>12 DEF Referenced
<1> QED
  BY <1>2, <1>13

\* Rows joined to the payments and the transfers.
LEMMA RowsJoined ==
    ASSUME NEW R, NEW ps \in Seq(R), NEW new \in Seq(R)
    PROVE  /\ Stands(ps, ps \o new)
           /\ \A p \in DOMAIN (ps \o new) : p \notin DOMAIN ps => \E k \in DOMAIN new : (ps \o new)[p] = new[k]
           /\ \A k \in DOMAIN new : /\ Len(ps) + k \in DOMAIN (ps \o new) /\ Len(ps) + k \notin DOMAIN ps
                                    /\ (ps \o new)[Len(ps) + k] = new[k]
<1> DEFINE all == ps \o new
<1>1. /\ DOMAIN all = DOMAIN ps \cup After(Len(ps), DOMAIN new)
      /\ \A p \in DOMAIN ps : all[p] = ps[p]
      /\ \A k \in DOMAIN new : all[Len(ps) + k] = new[k]
      /\ DOMAIN ps = 1..Len(ps) /\ DOMAIN new = 1..Len(new) /\ Len(ps) \in Nat /\ Len(new) \in Nat
  BY JoinIs
<1> HIDE DEF all
<1>2. Stands(ps, all)
  BY <1>1 DEF Stands
<1>3. \A p \in DOMAIN all : p \notin DOMAIN ps => \E k \in DOMAIN new : all[p] = new[k]
  BY <1>1 DEF After
<1>4. \A k \in DOMAIN new : Len(ps) + k \in DOMAIN all /\ Len(ps) + k \notin DOMAIN ps /\ all[Len(ps) + k] = new[k]
  BY <1>1 DEF After
<1> QED
  BY <1>2, <1>3, <1>4 DEF all
LEMMA TransfersJoined ==
    ASSUME NEW ts \in Seq(TransferRecord), NEW made \in Seq(TransferRecord)
    PROVE  /\ StandsAs(ts, ts \o made)
           /\ \A t \in DOMAIN (ts \o made) : t \notin DOMAIN ts =>
                 \E r \in DOMAIN made : t = Len(ts) + r /\ (ts \o made)[t] = made[r]
           /\ \A r \in DOMAIN made : /\ Len(ts) + r \in DOMAIN (ts \o made) /\ Len(ts) + r \notin DOMAIN ts
                                     /\ (ts \o made)[Len(ts) + r] = made[r]
<1> DEFINE all == ts \o made
<1>1. /\ DOMAIN all = DOMAIN ts \cup After(Len(ts), DOMAIN made)
      /\ \A t \in DOMAIN ts : all[t] = ts[t]
      /\ \A r \in DOMAIN made : all[Len(ts) + r] = made[r]
      /\ DOMAIN ts = 1..Len(ts) /\ DOMAIN made = 1..Len(made) /\ Len(ts) \in Nat /\ Len(made) \in Nat
  BY JoinIs
<1> HIDE DEF all
<1>2. StandsAs(ts, all)
  BY <1>1 DEF StandsAs
<1>3. \A t \in DOMAIN all : t \notin DOMAIN ts => \E r \in DOMAIN made : t = Len(ts) + r /\ all[t] = made[r]
  BY <1>1 DEF After
<1>4. \A r \in DOMAIN made : Len(ts) + r \in DOMAIN all /\ Len(ts) + r \notin DOMAIN ts /\ all[Len(ts) + r] = made[r]
  BY <1>1 DEF After
<1> QED
  BY <1>2, <1>3, <1>4 DEF all

\* What the rows added say under a reference that nothing was under.
LEMMA MoneyJoined ==
    ASSUME NEW ps, NEW ts, NEW ps2, NEW ts2, Stands(ps, ps2), StandsAs(ts, ts2), NEW ref, NEW h
    PROVE  IsMoney(ps2, ts2, h, ref) <=>
              \/ IsMoney(ps, ts, h, ref)
              \/ \E p \in DOMAIN ps2 : p \notin DOMAIN ps /\ Pays(ps2[p], ref) /\ h = <<"payment", p>>
              \/ \E p \in DOMAIN ps2 : p \notin DOMAIN ps /\ PaysPart(ps2[p], ref) /\ h = <<"group", ps2[p].group>>
              \/ \E t \in DOMAIN ts2 : t \notin DOMAIN ts /\ ts2[t].ref = ref /\ h = <<"transfer", t>>
<1>1. ASSUME NEW p \in DOMAIN ps
      PROVE  /\ p \in DOMAIN ps2 /\ (Pays(ps2[p], ref) <=> Pays(ps[p], ref))
             /\ (PaysPart(ps2[p], ref) <=> PaysPart(ps[p], ref)) /\ ps2[p].group = ps[p].group
  BY DEF Stands, Pays, PaysPart
<1>2. \A t \in DOMAIN ts : t \in DOMAIN ts2 /\ ts2[t].ref = ts[t].ref
  BY DEF StandsAs
<1>3. (\E p \in DOMAIN ps2 : Pays(ps2[p], ref) /\ h = <<"payment", p>>)
        <=> \/ \E p \in DOMAIN ps : Pays(ps[p], ref) /\ h = <<"payment", p>>
            \/ \E p \in DOMAIN ps2 : p \notin DOMAIN ps /\ Pays(ps2[p], ref) /\ h = <<"payment", p>>
  BY <1>1
<1>4. (\E p \in DOMAIN ps2 : PaysPart(ps2[p], ref) /\ h = <<"group", ps2[p].group>>)
        <=> \/ \E p \in DOMAIN ps : PaysPart(ps[p], ref) /\ h = <<"group", ps[p].group>>
            \/ \E p \in DOMAIN ps2 : p \notin DOMAIN ps /\ PaysPart(ps2[p], ref) /\ h = <<"group", ps2[p].group>>
  BY <1>1
<1>5. (\E t \in DOMAIN ts2 : ts2[t].ref = ref /\ h = <<"transfer", t>>)
        <=> \/ \E t \in DOMAIN ts : ts[t].ref = ref /\ h = <<"transfer", t>>
            \/ \E t \in DOMAIN ts2 : t \notin DOMAIN ts /\ ts2[t].ref = ref /\ h = <<"transfer", t>>
  BY <1>2
<1> QED
  BY <1>3, <1>4, <1>5 DEF IsMoney

\* Pieces of credit are under no reference.
LEMMA PiecesNameless ==
    ASSUME NEW ds, NEW ts, NEW over, NEW ids, NEW amount, NEW k \in DOMAIN CreditPieces(ds, ts, over, ids, amount)
    PROVE  LET row == CreditPieces(ds, ts, over, ids, amount)[k] IN row.ref = NoRef /\ row.group = 0
  BY DEF CreditPieces, NewPayment

LEMMA CreditReferenced ==
    ASSUME NEW cs, ClaimsTyped(cs), NEW ts \in Seq(TransferRecord), NEW R, NEW ps \in Seq(R), Referenced(cs, ps, ts),
           NEW new \in Seq(R), \A k \in DOMAIN new : new[k].ref = NoRef /\ new[k].group = 0
    PROVE  Referenced(cs, ps \o new, CreditUsed(ts, new))
<1> DEFINE all == ps \o new
           us == CreditUsed(ts, new)
<1>1. Stands(ps, all) /\ \A p \in DOMAIN all : p \notin DOMAIN ps => \E k \in DOMAIN new : all[p] = new[k]
  BY RowsJoined
<1>2. DOMAIN us = DOMAIN ts
  BY DEF CreditUsed
<1>3. ASSUME NEW t \in DOMAIN ts PROVE us[t].ref = ts[t].ref
  <2>1. PICK sum : us[t] = [ts[t] EXCEPT !.used = sum]
    BY DEF CreditUsed
  <2>2. ts[t] \in TransferRecord
    BY CreditIs
  <2> HIDE DEF us
  <2> QED
    BY <2>1, <2>2 DEF TransferRecord
<1> HIDE DEF all, us
<1>4. StandsAs(ts, us) /\ Silent(ps, ts, all, us)
  BY <1>1, <1>2, <1>3 DEF StandsAs, Silent
<1>5. Referenced(cs, all, us)
  BY <1>1, <1>4, ReferencesStay
<1> QED
  BY <1>5 DEF all, us

LEMMA ApplyCreditReferenced ==
    ASSUME IInv, Referenced(claims, payments, transfers),
           NEW s \in Suppliers, NEW amount \in Amounts, NEW picked, ApplyCredit(s, amount, picked)
    PROVE  Referenced(claims', payments', transfers')
<1> DEFINE S == OpenInvoices(s, picked)
           new == CreditPieces(debts, transfers, InOrder(S), CreditHolders(transfers, s), amount)
<1>1. payments' = payments \o new /\ transfers' = CreditUsed(transfers, new) /\ claims' = claims
  BY DEF ApplyCredit
<1>2. S \in SUBSET DOMAIN debts /\ (\A d \in S : debts[d].status = "open") /\ amount \in Nat
  BY LedgerAssumption DEF OpenInvoices, Amounts
<1> HIDE DEF S
<1>3. new \in Seq(PaymentRecord)
  BY <1>2, CreditKeeps
<1>4. \A k \in DOMAIN new : new[k].ref = NoRef /\ new[k].group = 0
  BY PiecesNameless
<1>5. payments \in Seq(PaymentRecord) /\ transfers \in Seq(TransferRecord) /\ ClaimsTyped(claims)
  BY DEF IInv, Kept, Sound
<1> HIDE DEF new
<1>6. Referenced(claims, payments \o new, CreditUsed(transfers, new))
  BY <1>3, <1>4, <1>5, CreditReferenced
<1> QED
  BY <1>1, <1>6

LEMMA SplitNamed ==
    ASSUME NEW ds, NEW ids, NEW amount, NEW transfer, NEW group, NEW ref,
           NEW k \in DOMAIN Split(ds, ids, amount, transfer, group, ref)
    PROVE  LET row == Split(ds, ids, amount, transfer, group, ref)[k]
           IN row.ref = ref /\ row.group = group /\ row.transfer = transfer /\ ~row.reversed
  BY DEF Split, NewPayment

\* One transfer takes the reference of money sent to a supplier.
LEMMA PaySupplierReferenced ==
    ASSUME IInv, Referenced(claims, payments, transfers),
           NEW s \in Suppliers, NEW amount \in Amounts, NEW credit \in 0..MaxAmount, NEW ref \in AnyRef,
           NEW picked, PaySupplier(s, amount, credit, picked, ref)
    PROVE  Referenced(claims', payments', transfers')
<1> DEFINE S == OpenInvoices(s, picked)
           ids == InOrder(S)
           used == CreditPieces(debts, transfers, ids, CreditHolders(transfers, s), credit)
           rest == Counted(debts, used)
           t == Len(transfers) + 1
           new == Split(rest, ids, amount, t, 0, NoRef)
           us == CreditUsed(transfers, used)
           row == NewTransfer(s, amount, ref)
           all == Append(us, row)
           holder == <<"transfer", t>>
<1>1. /\ payments' = payments \o used \o new /\ transfers' = all
      /\ claims' = (IF ref = NoRef THEN claims ELSE [claims EXCEPT ![ref] = holder])
      /\ ref \in Refs => claims[ref] = NoHolder
      /\ amount + credit <= Owed(S)
  BY DEF PaySupplier, CanPaySupplier, Claimed, Unclaimed
<1>2. /\ S \in SUBSET DOMAIN debts /\ (\A d \in S : debts[d].status = "open")
      /\ amount \in Nat \ {0} /\ credit \in Nat /\ ref \in Refs \cup {NoRef} /\ NoRef \notin Refs
  BY LedgerAssumption DEF OpenInvoices, Amounts, AnyRef
<1>3. /\ Sound(debts, payments, transfers) /\ Booked(debts, payments) /\ debts \in Seq(DebtRecord)
      /\ payments \in Seq(PaymentRecord) /\ transfers \in Seq(TransferRecord) /\ ClaimsTyped(claims)
      /\ Len(transfers) \in Nat /\ DOMAIN transfers = 1..Len(transfers)
  BY LenProperties DEF IInv, Kept, Sound
<1> HIDE DEF S
<1>4. PICK n \in Nat : n = Cardinality(S) /\ Payable(ids, n, debts) /\ SizeOfAll(ids, n, debts) = Owed(S)
  BY <1>2, <1>3, OpenPayable
<1>5. used \in Seq(PaymentRecord)
  BY <1>2, CreditKeeps
<1>6. Sound(rest, payments \o used, us)
  BY <1>2, CreditKeeps
<1>7. \A i \in 1..n : WorthOf(used, On(used, ids[i])) <= Share(SizesOf(ids, debts), credit, i)
  BY <1>2, <1>4, CreditKeeps
<1>8. amount \in Nat /\ amount + credit <= SizeOfAll(ids, n, debts)
  BY <1>1, <1>2, <1>4
<1>9. \A k \in DOMAIN used : used[k].ref = NoRef /\ used[k].group = 0
  BY PiecesNameless
<1>10. \A k \in DOMAIN new : new[k].ref = NoRef /\ new[k].group = 0 /\ new[k].transfer = t
  BY SplitNamed
<1> HIDE DEF ids, used
<1>11. Payable(ids, n, rest)
  BY <1>2, <1>3, <1>4, <1>5, <1>7, <1>8, RestPays
<1>12. Len(us) = Len(transfers) /\ us \in Seq(TransferRecord)
  BY <1>3, <1>5, CreditUsedIs
<1>13. Referenced(claims, payments \o used, us)
  BY <1>3, <1>5, <1>9, CreditReferenced
<1>14. payments \o used \in Seq(PaymentRecord)
  BY <1>6 DEF Sound
<1>15. new \in Seq(PaymentRecord)
  <2>1. PICK z \in Nat, u \in Nat, r \in Refs \cup {NoRef}, a \in Nat : z = 0 /\ u = t /\ r = NoRef /\ a = amount
    BY <1>2, <1>3
  <2>2. rest \in Seq(DebtRecord)
    BY <1>6 DEF Sound
  <2>3. Split(rest, ids, a, u, z, r) \in Seq(PaymentRecord)
    BY <1>11, <2>1, <2>2, SplitIs
  <2> QED
    BY <2>1, <2>3
<1> HIDE DEF new, rest, us
<1> DEFINE ps2 == (payments \o used) \o new
           ps == payments \o used
<1>16. row \in TransferRecord /\ row.ref = ref
  BY <1>2, NewTransferIs
<1> HIDE DEF row
<1>17. /\ DOMAIN us = 1..Len(transfers) /\ DOMAIN all = DOMAIN us \cup {t} /\ t \notin DOMAIN us
       /\ all[t] = row /\ \A u \in DOMAIN us : all[u] = us[u]
  <2>1. /\ all \in Seq(TransferRecord) /\ Len(all) = Len(us) + 1
        /\ \A u \in 1..Len(us) : all[u] = us[u]
        /\ all[Len(us) + 1] = row
    BY <1>12, <1>16, AppendProperties
  <2>2. DOMAIN all = 1..(Len(us) + 1) /\ DOMAIN us = 1..Len(us)
    BY <1>12, <2>1, LenProperties
  <2> HIDE DEF all
  <2> QED
    BY <1>3, <1>12, <2>1, <2>2
<1> HIDE DEF all
<1>18. StandsAs(us, all)
  BY <1>17 DEF StandsAs
<1>19. Stands(ps, ps2) /\ \A p \in DOMAIN ps2 : p \notin DOMAIN ps => \E k \in DOMAIN new : ps2[p] = new[k]
  BY <1>14, <1>15, RowsJoined
<1> HIDE DEF ps2, ps, holder
<1>20. \A p \in DOMAIN ps2 : p \notin DOMAIN ps => ps2[p].ref = NoRef /\ ps2[p].group = 0
  BY <1>10, <1>19
<1>21. ASSUME ref \in Refs, NEW h PROVE IsMoney(ps2, all, h, ref) <=> IsMoney(ps, us, h, ref) \/ HolderIs(holder, h)
  <2>1. ASSUME NEW p \in DOMAIN ps2, p \notin DOMAIN ps PROVE ~Pays(ps2[p], ref) /\ ~PaysPart(ps2[p], ref)
    BY <1>2, <1>20, <1>21, <2>1 DEF Pays, PaysPart
  <2>2. (\E u \in DOMAIN all : u \notin DOMAIN us /\ all[u].ref = ref /\ h = <<"transfer", u>>) <=> h = <<"transfer", t>>
    BY <1>16, <1>17
  <2>3. HolderIs(holder, h) <=> h = <<"transfer", t>>
    BY DEF HolderIs, NoHolder, holder
  <2> QED
    BY <1>18, <1>19, <2>1, <2>2, <2>3, MoneyJoined
<1>22. AddedUnder(ps, us, ps2, all, ref, holder)
  BY <1>16, <1>17, <1>20, <1>21 DEF AddedUnder
<1>23. Referenced(claims, ps, us)
  BY <1>13 DEF ps
<1>24. Referenced(IF ref = NoRef THEN claims ELSE [claims EXCEPT ![ref] = holder], ps2, all)
  BY <1>1, <1>2, <1>3, <1>18, <1>19, <1>22, <1>23, ReferenceTaken
<1> QED
  BY <1>1, <1>24 DEF ps2

\* One payment of new money, on the rows of ds.
LEMMA OneMoneyReferenced ==
    ASSUME Referenced(claims, payments, transfers), ClaimsTyped(claims),
           NEW ds, Sound(ds, payments, transfers), NEW list, NEW n \in Nat, n = 1, Due(list, n, ds),
           NEW ref \in Refs \cup {NoRef}, ref \in Refs => claims[ref] = NoHolder
    PROVE  LET money == NewMoney(ds, list, ref)
           IN Referenced(IF ref = NoRef THEN claims ELSE [claims EXCEPT ![ref] = MoneyHolder(money)],
                 payments \o money.payments, transfers \o money.transfers)
<1> DEFINE money == NewMoney(ds, list, ref)
           new == money.payments
           made == money.transfers
           holder == IF made = <<>> THEN <<"payment", Len(payments) + 1>> ELSE <<"transfer", Len(transfers) + 1>>
           old == Len(transfers)
           ps2 == payments \o new
           ts2 == transfers \o made
<1>1. /\ Sound(ds, payments, transfers) /\ ds \in Seq(DebtRecord)
      /\ payments \in Seq(PaymentRecord) /\ transfers \in Seq(TransferRecord) /\ ClaimsTyped(claims)
      /\ old \in Nat
  BY LenProperties DEF Sound
<1>2. holder = MoneyHolder(money)
  BY DEF MoneyHolder
<1>3. n = 1
  OBVIOUS
<1>4. Due(list, n, ds) /\ ref \in Refs \cup {NoRef} /\ NoRef \notin Refs
  BY LedgerAssumption
<1>5. ref \in Refs => claims[ref] = NoHolder
  OBVIOUS
<1>6. new \in Seq(PaymentRecord) /\ Fresh(new) /\ DOMAIN new = 1..n /\ made \in Seq(TransferRecord)
  BY <1>1, <1>4, NewMoneyIs
<1>7. \A k \in DOMAIN new :
         /\ new[k].ref = ref /\ new[k].group = 0
         /\ IF ToSupplier(ds[list[k][1]])
            THEN \E r \in DOMAIN made : new[k].transfer = old + r
            ELSE new[k].transfer = 0
  BY <1>1, <1>4, NewMoneyIs
<1>8. \A r \in DOMAIN made : made[r].ref = ref /\ WorthOf(new, From(new, old + r)) = made[r].amount
  BY <1>1, <1>4, NewMoneyIs
<1> HIDE DEF new, made, money
<1>9. DOMAIN new = {1} /\ ~new[1].reversed /\ new[1].ref = ref /\ new[1].group = 0
  BY <1>3, <1>6, <1>7 DEF Fresh
<1>10. DOMAIN made = 1..Len(made) /\ Len(made) \in Nat /\ \A r \in DOMAIN made : made[r].amount \in Nat \ {0}
  <2>1. \A r \in DOMAIN made : made[r] \in TransferRecord
    BY <1>6, ElementOfSeq
  <2> QED
    BY <1>6, <2>1, LenProperties DEF TransferRecord
<1>11. ASSUME NEW r \in DOMAIN made PROVE new[1].transfer = old + r
  <2>1. ASSUME new[1].transfer # old + r PROVE FALSE
    <3>1. From(new, old + r) = {}
      BY <1>9, <2>1 DEF From
    <3>2. WorthOf(new, From(new, old + r)) = 0
      BY <3>1, SumEmpty DEF WorthOf
    <3> QED
      BY <1>8, <1>10, <3>2
  <2> QED
    BY <2>1
<1>12. /\ Stands(payments, ps2)
       /\ \A p \in DOMAIN ps2 : p \notin DOMAIN payments => \E k \in DOMAIN new : ps2[p] = new[k]
       /\ \A k \in DOMAIN new : /\ Len(payments) + k \in DOMAIN ps2 /\ Len(payments) + k \notin DOMAIN payments
                                /\ ps2[Len(payments) + k] = new[k]
  BY <1>1, <1>6, RowsJoined
<1>13. /\ StandsAs(transfers, ts2)
       /\ \A t \in DOMAIN ts2 : t \notin DOMAIN transfers => \E r \in DOMAIN made : t = old + r /\ ts2[t] = made[r]
       /\ \A r \in DOMAIN made : old + r \in DOMAIN ts2 /\ old + r \notin DOMAIN transfers /\ ts2[old + r] = made[r]
  BY <1>1, <1>6, TransfersJoined
<1>14. \A p \in DOMAIN ps2 : p \notin DOMAIN payments => p = Len(payments) + 1
  <2>1. Len(new) = 1 /\ DOMAIN payments = 1..Len(payments) /\ Len(payments) \in Nat
    <3>1. DOMAIN new = 1..Len(new) /\ Len(new) \in Nat
      BY <1>6, LenProperties
    <3> QED
      BY <1>1, <1>9, <3>1, LenProperties
  <2>2. DOMAIN ps2 = 1..(Len(payments) + 1)
    <3>1. ps2 \in Seq(PaymentRecord) /\ Len(ps2) = Len(payments) + Len(new)
      BY <1>1, <1>6, JoinIs
    <3> QED
      BY <2>1, <3>1, LenProperties
  <2> QED
    BY <2>1, <2>2
<1> HIDE DEF ps2, ts2
<1>15. ASSUME ref \in Refs, NEW h
       PROVE  IsMoney(ps2, ts2, h, ref) <=> IsMoney(payments, transfers, h, ref) \/ HolderIs(holder, h)
  <2>1. ~(\E p \in DOMAIN ps2 : p \notin DOMAIN payments /\ PaysPart(ps2[p], ref) /\ h = <<"group", ps2[p].group>>)
    BY <1>9, <1>12 DEF PaysPart
  <2>2. CASE new[1].transfer = 0
    <3>1. DOMAIN made = {}
      BY <1>1, <1>10, <1>11, <2>2
    <3>2. made = <<>>
      BY <1>6, <1>10, <3>1
    <3>3. HolderIs(holder, h) <=> h = <<"payment", Len(payments) + 1>>
      BY <3>2 DEF HolderIs, NoHolder
    <3>4. Pays(new[1], ref)
      BY <1>9, <2>2 DEF Pays
    <3>5. (\E p \in DOMAIN ps2 : p \notin DOMAIN payments /\ Pays(ps2[p], ref) /\ h = <<"payment", p>>)
            <=> h = <<"payment", Len(payments) + 1>>
      BY <1>9, <1>12, <1>14, <3>4
    <3>6. ~(\E t \in DOMAIN ts2 : t \notin DOMAIN transfers /\ ts2[t].ref = ref /\ h = <<"transfer", t>>)
      BY <1>13, <3>1
    <3> QED
      BY <1>12, <1>13, <2>1, <3>3, <3>5, <3>6, MoneyJoined
  <2>3. CASE new[1].transfer # 0
    <3>1. \E r \in DOMAIN made : new[1].transfer = old + r
      BY <1>7, <1>9, <2>3
    <3>2. 1 \in DOMAIN made /\ \A r \in DOMAIN made : r = 1
      <4>1. 1 \in DOMAIN made
        BY <1>10, <3>1
      <4>2. ASSUME NEW r \in DOMAIN made PROVE r = 1
        <5>1. old + r = old + 1
          BY <1>11, <4>1
        <5> QED
          BY <1>1, <1>10, <5>1
      <4> QED
        BY <4>1, <4>2
    <3>3. made # <<>>
      BY <3>2
    <3>4. HolderIs(holder, h) <=> h = <<"transfer", old + 1>>
      BY <3>3 DEF HolderIs, NoHolder
    <3>5. ~(\E p \in DOMAIN ps2 : p \notin DOMAIN payments /\ Pays(ps2[p], ref) /\ h = <<"payment", p>>)
      BY <1>9, <1>12, <2>3 DEF Pays
    <3>6. (\E t \in DOMAIN ts2 : t \notin DOMAIN transfers /\ ts2[t].ref = ref /\ h = <<"transfer", t>>)
            <=> h = <<"transfer", old + 1>>
      BY <1>8, <1>13, <3>2
    <3> QED
      BY <1>12, <1>13, <2>1, <3>4, <3>5, <3>6, MoneyJoined
  <2> QED
    BY <2>2, <2>3
<1> HIDE DEF holder
<1>16. AddedUnder(payments, transfers, ps2, ts2, ref, holder)
  <2>1. \A p \in DOMAIN ps2 : p \notin DOMAIN payments => ps2[p].ref = ref /\ ps2[p].group = 0
    BY <1>9, <1>12
  <2>2. \A t \in DOMAIN ts2 : t \notin DOMAIN transfers => ts2[t].ref = ref
    BY <1>8, <1>13
  <2> QED
    BY <1>15, <2>1, <2>2 DEF AddedUnder
<1>17. Referenced(IF ref = NoRef THEN claims ELSE [claims EXCEPT ![ref] = holder], ps2, ts2)
  BY <1>1, <1>4, <1>5, <1>12, <1>13, <1>16, ReferenceTaken
<1> QED
  BY <1>2, <1>17 DEF ps2, ts2, new, made, money

LEMMA AddPaymentReferenced ==
    ASSUME IInv, Referenced(claims, payments, transfers),
           NEW d \in DOMAIN debts, NEW amount \in Amounts, NEW ref \in AnyRef, AddPayment(d, amount, ref)
    PROVE  Referenced(claims', payments', transfers')
<1> DEFINE list == <<<<d, amount>>>>
           money == NewMoney(debts, list, ref)
<1>1. Sound(debts, payments, transfers) /\ debts \in Seq(DebtRecord) /\ ClaimsTyped(claims)
  BY DEF IInv, Kept, Sound
<1>2. amount \in Nat \ {0} /\ amount <= debts[d].amount - debts[d].paid
  <2>1. amount <= Balances(debts)[d]
    BY DEF AddPayment, CanPay, Balance
  <2> QED
    BY <1>1, <2>1, RowIs, LedgerAssumption DEF Amounts
<1>3. PICK n \in Nat : n = 1
  OBVIOUS
<1>4. Due(list, n, debts) /\ ref \in Refs \cup {NoRef} /\ NoRef \notin Refs /\ list[1][1] = d
  <2>1. ref \in Refs \cup {NoRef} /\ NoRef \notin Refs
    BY LedgerAssumption DEF AnyRef
  <2>2. DOMAIN list = 1..1 /\ Len(list) = 1 /\ list[1] = <<d, amount>> /\ list[1][1] = d /\ list[1][2] = amount
    OBVIOUS
  <2>3. ASSUME NEW k \in 1..1 PROVE k = 1
    OBVIOUS
  <2> HIDE DEF list
  <2> QED
    BY <1>2, <1>3, <2>1, <2>2, <2>3 DEF Due
<1>5. /\ payments' = payments \o money.payments /\ transfers' = transfers \o money.transfers
      /\ claims' = (IF ref = NoRef THEN claims ELSE [claims EXCEPT ![ref] = MoneyHolder(money)])
      /\ ref \in Refs => claims[ref] = NoHolder
  BY DEF AddPayment, Claimed, Unclaimed
<1> HIDE DEF list
<1>6. Referenced(IF ref = NoRef THEN claims ELSE [claims EXCEPT ![ref] = MoneyHolder(money)],
         payments \o money.payments, transfers \o money.transfers)
  BY <1>1, <1>3, <1>4, <1>5, OneMoneyReferenced
<1> HIDE DEF money
<1> QED
  BY <1>5, <1>6

\* What a customer paid over several debts is one group.
LEMMA PayBuyerReferenced ==
    ASSUME IInv, Referenced(claims, payments, transfers),
           NEW b \in Buyers, NEW amount \in Amounts, NEW ref \in AnyRef, PayBuyer(b, amount, ref)
    PROVE  Referenced(claims', payments', transfers')
<1> DEFINE S == OpenBuyerDebts(b)
           g == Max(Groups) + 1
           new == Split(debts, InOrder(S), amount, 0, g, ref)
           holder == <<"group", g>>
           ps2 == payments \o new
<1>1. /\ Sound(debts, payments, transfers) /\ Booked(debts, payments) /\ debts \in Seq(DebtRecord)
      /\ payments \in Seq(PaymentRecord) /\ transfers \in Seq(TransferRecord) /\ ClaimsTyped(claims)
  BY DEF IInv, Kept, Sound
<1>2. amount \in Nat \ {0} /\ ref \in Refs \cup {NoRef} /\ NoRef \notin Refs
  BY LedgerAssumption DEF Amounts, AnyRef
<1>3. g \in Nat /\ g # 0 /\ \A q \in DOMAIN payments : payments[q].group # g
  <2>1. g \in Nat /\ \A y \in Groups : y < g
    BY <1>1, NextGroup
  <2>2. 0 \in Groups /\ \A q \in DOMAIN payments : payments[q].group \in Groups
    BY DEF Groups
  <2>3. \A q \in DOMAIN payments : payments[q].group \in Nat
    BY <1>1, PaymentIs DEF PaymentRecord
  <2> HIDE DEF g
  <2> QED
    BY <2>1, <2>2, <2>3
<1>4. /\ payments' = ps2 /\ transfers' = transfers
      /\ claims' = (IF ref = NoRef THEN claims ELSE [claims EXCEPT ![ref] = holder])
      /\ ref \in Refs => claims[ref] = NoHolder
      /\ amount <= Owed(S)
  BY DEF PayBuyer, CanPayBuyer, Claimed, Unclaimed
<1> HIDE DEF g
<1>5. S \in SUBSET DOMAIN debts /\ \A d \in S : debts[d].status = "open" /\ debts[d].party = b
  BY DEF OpenBuyerDebts
<1> HIDE DEF S
<1>6. PICK n \in Nat : /\ Payable(InOrder(S), n, debts) /\ SizeOfAll(InOrder(S), n, debts) = Owed(S)
                       /\ Owed(S) \in Nat /\ \A k \in 1..n : InOrder(S)[k] \in S
  BY <1>1, <1>5, OpenPayable
<1>7. PICK z \in Nat : z = 0
  OBVIOUS
<1> DEFINE one == Split(debts, InOrder(S), amount, z, g, ref)
<1> HIDE DEF new, ps2, holder
<1>8. /\ one \in Seq(PaymentRecord) /\ OneMoney(one, InOrder(S), n, debts, z, g, ref)
      /\ Fresh(one)
      /\ WorthOf(one, DOMAIN one) = Lowest(amount, SizeOfAll(InOrder(S), n, debts))
  <2>1. amount \in Nat
    BY <1>2
  <2>2. one \in Seq(PaymentRecord) /\ OneMoney(one, InOrder(S), n, debts, z, g, ref)
    BY <1>1, <1>2, <1>3, <1>6, <2>1, SplitIs
  <2>3. Fresh(one)
    BY <1>1, <1>2, <1>3, <1>6, <2>1, SplitIs
  <2>4. WorthOf(one, DOMAIN one) = Lowest(amount, SizeOfAll(InOrder(S), n, debts))
    <3> DEFINE o == InOrder(S)
    <3>1. debts \in Seq(DebtRecord) /\ Payable(o, n, debts) /\ g \in Nat /\ ref \in Refs \cup {NoRef}
      BY <1>1, <1>2, <1>3, <1>6
    <3> HIDE DEF o
    <3> DEFINE two == Split(debts, o, amount, z, g, ref)
    <3>2. WorthOf(two, DOMAIN two) = Lowest(amount, SizeOfAll(o, n, debts))
      BY ONLY <2>1, <3>1, n \in Nat, z \in Nat, SplitIs
    <3> QED
      BY <3>2 DEF o
  <2> QED
    BY <2>2, <2>3, <2>4
<1>9. one = new
  BY <1>7 DEF new
<1> HIDE DEF one
<1>10. DOMAIN new # {}
  <2>1. WorthOf(one, DOMAIN one) = amount
    BY <1>2, <1>4, <1>6, <1>8 DEF Lowest
  <2>2. ASSUME DOMAIN one = {} PROVE FALSE
    <3>1. WorthOf(one, DOMAIN one) = 0
      BY <2>2, SumEmpty DEF WorthOf
    <3> QED
      BY <1>2, <2>1, <3>1
  <2> QED
    BY <1>9, <2>2
<1>11. \A k \in DOMAIN new :
          /\ new[k].ref = ref /\ new[k].group = g /\ new[k].transfer = 0 /\ ~new[k].reversed /\ new[k].to \in Buyers
  <2>1. ASSUME NEW k \in DOMAIN one PROVE one[k].to \in Buyers
    <3>1. PICK j \in 1..n : one[k].to = debts[InOrder(S)[j]].party
      BY <1>8 DEF OneMoney
    <3> QED
      BY <1>5, <1>6, <3>1
  <2> QED
    BY <1>7, <1>8, <1>9, <2>1 DEF OneMoney, Fresh
<1>12. /\ Stands(payments, ps2)
       /\ \A p \in DOMAIN ps2 : p \notin DOMAIN payments => \E k \in DOMAIN new : ps2[p] = new[k]
       /\ \A k \in DOMAIN new : /\ Len(payments) + k \in DOMAIN ps2 /\ Len(payments) + k \notin DOMAIN payments
                                /\ ps2[Len(payments) + k] = new[k]
  BY <1>1, <1>8, <1>9, RowsJoined DEF ps2
<1>13. StandsAs(transfers, transfers)
  BY DEF StandsAs
<1>14. ASSUME ref \in Refs, NEW h
       PROVE  IsMoney(ps2, transfers, h, ref) <=> IsMoney(payments, transfers, h, ref) \/ HolderIs(holder, h)
  <2>1. \A k \in DOMAIN new : PaysPart(new[k], ref) /\ ~Pays(new[k], ref)
    BY <1>3, <1>11 DEF PaysPart, Pays
  <2>2. ~(\E p \in DOMAIN ps2 : p \notin DOMAIN payments /\ Pays(ps2[p], ref) /\ h = <<"payment", p>>)
    BY <1>12, <2>1
  <2>3. (\E p \in DOMAIN ps2 : p \notin DOMAIN payments /\ PaysPart(ps2[p], ref) /\ h = <<"group", ps2[p].group>>)
          <=> h = <<"group", g>>
    <3>1. PICK k \in DOMAIN new : TRUE
      BY <1>10
    <3> QED
      BY <1>11, <1>12, <2>1, <3>1
  <2>4. HolderIs(holder, h) <=> h = <<"group", g>>
    BY DEF HolderIs, NoHolder, holder
  <2> QED
    BY <1>12, <1>13, <2>2, <2>3, <2>4, MoneyJoined
<1>15. AddedUnder(payments, transfers, ps2, transfers, ref, holder)
  BY <1>3, <1>11, <1>12, <1>14 DEF AddedUnder
<1>16. Referenced(IF ref = NoRef THEN claims ELSE [claims EXCEPT ![ref] = holder], ps2, transfers)
  BY <1>1, <1>2, <1>4, <1>12, <1>13, <1>15, ReferenceTaken
<1> QED
  BY <1>4, <1>16 DEF ps2

\* What is paid when a sale is recorded is paid without a reference, or is one
\* payment.
LEMMA CreateSaleReferenced ==
    ASSUME IInv, Referenced(claims, payments, transfers),
           NEW b \in Buyers, NEW total \in Totals, NEW costs \in LineCosts, NEW received \in 0..total, NEW paid,
           NEW ref \in AnyRef, CreateSale(b, total, costs, received, paid, ref)
    PROVE  Referenced(claims', payments', transfers')
<1>1. PICK ds, list, n : Opens(ds, list, n, ref)
  BY CreateSaleOpens
<1> DEFINE new == NewMoney(ds, list, ref).payments
           made == NewMoney(ds, list, ref).transfers
<1>2. /\ n \in Nat /\ ref \in Refs \cup {NoRef} /\ Due(list, n, ds) /\ ds \in Seq(DebtRecord)
      /\ payments' = payments \o new /\ transfers' = transfers \o made
      /\ Sound(ds, payments, transfers)
  BY <1>1 DEF Opens, Kept
<1>3. payments \in Seq(PaymentRecord) /\ transfers \in Seq(TransferRecord) /\ ClaimsTyped(claims)
  BY DEF IInv, Kept, Sound
<1>4. new \in Seq(PaymentRecord) /\ made \in Seq(TransferRecord)
  BY <1>2, <1>3, NewMoneyIs
<1>5. \A k \in DOMAIN new : new[k].ref = ref /\ new[k].group = 0
  BY <1>2, <1>3, NewMoneyIs
<1>6. \A r \in DOMAIN made : made[r].ref = ref
  BY <1>2, <1>3, NewMoneyIs
<1> HIDE DEF new, made
<1> DEFINE ps2 == payments \o new
           ts2 == transfers \o made
<1>7. Stands(payments, ps2) /\ \A p \in DOMAIN ps2 : p \notin DOMAIN payments => \E k \in DOMAIN new : ps2[p] = new[k]
  BY <1>3, <1>4, RowsJoined
<1>8. /\ StandsAs(transfers, ts2)
      /\ \A t \in DOMAIN ts2 : t \notin DOMAIN transfers => \E r \in DOMAIN made : ts2[t] = made[r]
  BY <1>3, <1>4, TransfersJoined
<1> HIDE DEF ps2, ts2
<1>9. CASE ref = NoRef
  <2>1. Silent(payments, transfers, ps2, ts2)
    BY <1>2, <1>5, <1>6, <1>7, <1>8, <1>9 DEF Silent
  <2>2. Referenced(claims, ps2, ts2)
    BY <1>3, <1>7, <1>8, <2>1, ReferencesStay
  <2>3. claims' = claims
    BY <1>1, <1>9 DEF Opens
  <2> QED
    BY <1>2, <2>2, <2>3 DEF ps2, ts2
<1>10. CASE ref # NoRef
  <2> DEFINE money == NewMoney(ds, list, ref)
  <2>1. claims' = [claims EXCEPT ![ref] = MoneyHolder(money)] /\ claims[ref] = NoHolder /\ DOMAIN list = {1}
    BY <1>1, <1>10 DEF Opens
  <2>2. n = 1
    <3>1. 1..n = {1}
      BY <1>2, <2>1 DEF Due
    <3>2. 1 \in 1..n
      BY <3>1
    <3>3. n \in 1..n
      BY <1>2, <3>2
    <3> QED
      BY <3>1, <3>3
  <2>3. Referenced(IF ref = NoRef THEN claims ELSE [claims EXCEPT ![ref] = MoneyHolder(money)],
           payments \o money.payments, transfers \o money.transfers)
    BY <1>2, <1>3, <2>1, <2>2, OneMoneyReferenced
  <2> QED
    BY <1>2, <1>10, <2>1, <2>3 DEF new, made
<1> QED
  BY <1>9, <1>10

LEMMA ReversePaymentReferenced ==
    ASSUME IInv, Faithful(debts, payments, transfers), Referenced(claims, payments, transfers),
           NEW p \in DOMAIN payments, ReversePayment(p)
    PROVE  Referenced(claims', payments', transfers')
<1> DEFINE d == payments[p].debt
           P == {p}
           credit == TRUE
           off == TakenOff(d, P, credit)
<1>1. /\ claims' = off.claims /\ payments' = off.payments /\ transfers' = off.transfers /\ ~payments[p].reversed
  BY DEF ReversePayment
<1>2. d \in DOMAIN debts /\ P \in SUBSET Active(payments, d)
  BY <1>1 DEF IInv, Kept, Sound, Linked, Active
<1>3. credit \in BOOLEAN
  OBVIOUS
<1> HIDE DEF d, P, credit
<1>4. Referenced(off.claims, off.payments, off.transfers)
  BY <1>2, <1>3, ReferencedOff
<1> HIDE DEF off
<1> QED
  BY <1>1, <1>4

\* The corrections release a debt.
LEMMA ReleasedReferenced ==
    ASSUME IInv, Faithful(debts, payments, transfers), Referenced(claims, payments, transfers),
           NEW d \in DOMAIN debts, NEW how
    PROVE  Referenced(Released(d, how).claims, Released(d, how).payments, Released(d, how).transfers)
<1> DEFINE P == Active(payments, d)
           credit == how = "credit"
           off == TakenOff(d, P, credit)
<1>1. P \in SUBSET Active(payments, d) /\ credit \in BOOLEAN /\ Released(d, how) = off
  BY DEF Released
<1> HIDE DEF P, credit
<1>2. Referenced(off.claims, off.payments, off.transfers)
  BY <1>1, ReferencedOff
<1> HIDE DEF off
<1> QED
  BY <1>1, <1>2

LEMMA CorrectionReferenced ==
    ASSUME IInv, Faithful(debts, payments, transfers), Referenced(claims, payments, transfers),
           NEW d \in DOMAIN debts, NEW how,
           \/ \E party \in Parties : WrongSupplier(d, party, how)
           \/ \E of \in DOMAIN debts : DuplicateLiability(d, of, how)
    PROVE  Referenced(claims', payments', transfers')
<1>1. /\ claims' = Released(d, how).claims /\ payments' = Released(d, how).payments
      /\ transfers' = Released(d, how).transfers
  BY Zenon DEF WrongSupplier, DuplicateLiability
<1>2. Referenced(Released(d, how).claims, Released(d, how).payments, Released(d, how).transfers)
  BY ReleasedReferenced
<1> QED
  BY <1>1, <1>2

\* The pieces that go back on one debt are a sequence of what they are.
Piece(new) == {new[k] : k \in DOMAIN new}
LEMMA PiecesRow ==
    ASSUME NEW ds, NEW ts, NEW d, NEW t, NEW amount
    PROVE  LET new == CreditPieces(ds, ts, <<d>>, <<t>>, amount) IN new \in Seq(Piece(new))
<1> DEFINE over == <<d>>
           ids == <<t>>
           sizes == [i \in DOMAIN over |-> Balances(ds)[over[i]]]
           held == [i \in DOMAIN ids |-> Credit(ts, ids[i])]
           S == {m \in (DOMAIN over) \X (DOMAIN ids) : Overlap(sizes, held, amount, m[1], m[2]) > 0}
           met == RowByRow(S)
           new == CreditPieces(ds, ts, over, ids, amount)
<1>1. DOMAIN new = DOMAIN met /\ new = [k \in DOMAIN met |-> new[k]]
  BY DEF CreditPieces
<1>2. IsFiniteSet(S)
  <2>1. DOMAIN over = {1} /\ DOMAIN ids = {1}
    OBVIOUS
  <2>2. S \subseteq {<<1, 1>>}
    BY <2>1
  <2> HIDE DEF S
  <2>3. IsFiniteSet({<<1, 1>>})
    BY FS_Singleton
  <2> QED
    BY <2>2, <2>3, FS_Subset
<1> HIDE DEF S
<1>3. PICK n \in Nat : DOMAIN met = 1..n
  BY <1>2, FS_CardinalityType DEF RowByRow
<1> HIDE DEF met, new
<1>4. new = [k \in 1..n |-> new[k]] /\ \A k \in 1..n : new[k] \in Piece(new)
  BY <1>1, <1>3 DEF Piece
<1>5. new \in Seq(Piece(new))
  BY <1>4, RowIsSeq
<1> QED
  BY <1>5 DEF new
LEMMA RowsIn ==
    ASSUME NEW A, NEW B, NEW f \in Seq(A)
    PROVE  f \in Seq(A \cup B) /\ f \in Seq(B \cup A)
<1>1. PICK n \in Nat : f = [k \in 1..n |-> f[k]] /\ \A k \in 1..n : f[k] \in A
  <2>1. DOMAIN f = 1..Len(f) /\ Len(f) \in Nat /\ \A k \in DOMAIN f : f[k] \in A
    BY LenProperties, ElementOfSeq
  <2>2. f = [k \in DOMAIN f |-> f[k]]
    OBVIOUS
  <2> QED
    BY <2>1, <2>2
<1>2. \A k \in 1..n : f[k] \in A \cup B /\ f[k] \in B \cup A
  BY <1>1
<1> QED
  BY <1>1, <1>2, RowIsSeq

\* What comes off for a corrected receipt, and what goes back on it.
LEMMA ShrinkPayableReferenced ==
    ASSUME IInv, Faithful(debts, payments, transfers), Referenced(claims, payments, transfers),
           NEW d \in DOMAIN debts, NEW amount \in 0..MaxAmount, NEW how \in Hows, ShrinkPayable(d, amount, how)
    PROVE  Referenced(claims', payments', transfers')
<1> DEFINE excess == debts[d].paid - amount
           P == IF excess > 0 THEN Newest(d, excess) ELSE {}
           credit == how = "credit"
           off == TakenOff(d, P, credit)
           surplus == -(excess - (debts[d].paid - off.debts[d].paid))
           last == off.payments[CHOOSE p \in P : \A q \in P : p <= q].transfer
           less == [off.debts EXCEPT ![d].amount = amount]
           back == IF P # {} /\ how = "credit" /\ surplus > 0
                   THEN CreditPieces(less, off.transfers, <<d>>, <<last>>, surplus) ELSE <<>>
<1>1. /\ IF amount = 0
         THEN payments' = off.payments /\ transfers' = off.transfers
         ELSE /\ payments' = off.payments \o back
              /\ transfers' = CreditUsed(off.transfers, back)
      /\ claims' = off.claims
  <2>1. ShrinkPayable(d, amount, how)
    OBVIOUS
  <2> QED
    BY ONLY <2>1, Zenon DEF ShrinkPayable
<1>2. P \in SUBSET Active(payments, d) /\ credit \in BOOLEAN
  BY DEF Newest
<1>3. back \in Seq(Piece(back)) /\ \A k \in DOMAIN back : back[k].ref = NoRef /\ back[k].group = 0
  <2>1. CASE ~(P # {} /\ how = "credit" /\ surplus > 0)
    <3>1. back = <<>>
      BY <2>1
    <3> HIDE DEF back
    <3>2. DOMAIN back = {} /\ back \in Seq(Piece(back))
      BY <3>1
    <3> QED
      BY <3>2
  <2>2. CASE P # {} /\ how = "credit" /\ surplus > 0
    <3> HIDE DEF less, last, surplus, off, P
    <3>1. back = CreditPieces(less, off.transfers, <<d>>, <<last>>, surplus)
      BY <2>2
    <3> HIDE DEF back
    <3>2. back \in Seq(Piece(back))
      BY <3>1, PiecesRow
    <3>3. \A k \in DOMAIN back : back[k].ref = NoRef /\ back[k].group = 0
      BY <3>1, PiecesNameless
    <3> QED
      BY <3>2, <3>3
  <2> QED
    BY <2>1, <2>2
<1> HIDE DEF back, P, credit
<1>4. /\ Referenced(off.claims, off.payments, off.transfers) /\ ClaimsTyped(off.claims)
  BY <1>2, ReferencedOff
<1>5. Sound(off.debts, off.payments, off.transfers)
  BY <1>2, FaithfulOff
<1> HIDE DEF off
<1>6. off.payments \in Seq(PaymentRecord) /\ off.transfers \in Seq(TransferRecord)
  BY <1>5 DEF Sound
<1> DEFINE R == PaymentRecord \cup Piece(back)
<1>7. back \in Seq(R) /\ off.payments \in Seq(R)
  BY <1>3, <1>6, RowsIn
<1> HIDE DEF R
<1>8. Referenced(off.claims, off.payments \o back, CreditUsed(off.transfers, back))
  BY <1>3, <1>4, <1>6, <1>7, CreditReferenced
<1> QED
  BY <1>1, <1>4, <1>8

LEMMA InitReferenced ==
    ASSUME Init, Legacy # "reversed"
    PROVE  Referenced(claims, payments, transfers)
<1>1. CASE NoSale
  <2>1. DOMAIN payments = {} /\ DOMAIN transfers = {} /\ \A r \in Refs : claims[r] = NoHolder
    BY <1>1 DEF NoSale, Init
  <2> QED
    BY <2>1 DEF Referenced, InParts, IsMoney, HolderIs
<1>2. CASE ~NoSale
  <2>1. transfers = <<>> /\ Legacy # "none" /\ \E s \in Suppliers, b \in Buyers, ref \in AnyRef : OldSale(s, b, ref)
    BY <1>2 DEF Init
  <2>2. Legacy = "active"
    BY <2>1, LedgerAssumption
  <2>3. PICK s \in Suppliers, b \in Buyers, ref \in AnyRef : OldSale(s, b, ref)
    BY <2>1
  <2> DEFINE old == [NewPayment(2, s, 1, 0, 0, ref) EXCEPT !.old = TRUE, !.reversed = FALSE]
  <2>4. /\ payments = <<old>>
        /\ \A r \in Refs : claims[r] = IF r = ref THEN <<"payment", 1>> ELSE NoHolder
    BY <2>2, <2>3 DEF OldSale
  <2>5. old.ref = ref /\ old.transfer = 0 /\ old.group = 0 /\ ~old.reversed
    BY DEF NewPayment
  <2> HIDE DEF old
  <2>6. DOMAIN payments = {1} /\ payments[1] = old /\ DOMAIN transfers = {}
    BY <2>1, <2>4
  <2>7. InParts(payments)
    BY <2>5, <2>6 DEF InParts
  <2>8. ASSUME NEW r \in Refs, NEW h PROVE IsMoney(payments, transfers, h, r) <=> HolderIs(claims[r], h)
    <3>1. IsMoney(payments, transfers, h, r) <=> r = ref /\ h = <<"payment", 1>>
      BY <2>5, <2>6 DEF IsMoney, Pays, PaysPart
    <3>2. HolderIs(claims[r], h) <=> r = ref /\ h = <<"payment", 1>>
      BY <2>4 DEF HolderIs, NoHolder
    <3> QED
      BY <3>1, <3>2
  <2> QED
    BY <2>7, <2>8 DEF Referenced
<1> QED
  BY <1>1, <1>2

LEMMA StepReferenced ==
    ASSUME IInv, Faithful(debts, payments, transfers), Referenced(claims, payments, transfers), [Next]_vars,
           ~WrapsAnything
    PROVE  Referenced(claims', payments', transfers')
<1>0. ASSUME UNCHANGED <<payments, transfers, claims>> PROVE Referenced(claims', payments', transfers')
  BY <1>0
<1>1. CASE UNCHANGED vars
  BY <1>0, <1>1 DEF vars
<1>2. CASE SaleSteps
  <2>1. ASSUME NEW b \in Buyers, NEW total \in Totals, NEW costs \in LineCosts,
               NEW received \in 0..total, NEW paid \in SUBSET {p \in Parties : costs[p] > 0},
               NEW ref \in AnyRef, CreateSale(b, total, costs, received, paid, ref)
        PROVE  Referenced(claims', payments', transfers')
    BY <2>1, CreateSaleReferenced
  <2>2. ASSUME NEW s \in DOMAIN sales, NEW b \in Buyers, NEW total \in Totals, NEW costs \in LineCosts,
               NEW existing \in Readings(s), EditSale(s, b, total, costs, existing)
        PROVE  UNCHANGED <<payments, transfers, claims>>
    BY <2>2, Zenon DEF EditSale
  <2>3. ASSUME NEW s \in DOMAIN sales, CancelSale(s) PROVE UNCHANGED <<payments, transfers, claims>>
    BY <2>3 DEF CancelSale
  <2> QED
    BY <1>0, <1>2, <2>1, <2>2, <2>3 DEF SaleSteps
<1>3. CASE DebtSteps
  <2>1. ASSUME NEW e \in Entries, NEW s \in OnSale(e), CreateDebt(e, s) PROVE UNCHANGED <<payments, transfers, claims>>
    BY <2>1 DEF CreateDebt
  <2>2. ASSUME NEW d \in DOMAIN debts, CancelDebt(d) PROVE UNCHANGED <<payments, transfers, claims>>
    BY <2>2 DEF CancelDebt
  <2>3. ASSUME NEW d \in DOMAIN debts, NEW amount \in 0..MaxAmount, NEW how \in Hows, ShrinkPayable(d, amount, how)
        PROVE  Referenced(claims', payments', transfers')
    BY <2>3, ShrinkPayableReferenced
  <2> QED
    BY <1>0, <1>3, <2>1, <2>2, <2>3 DEF DebtSteps
<1>4. CASE PaymentSteps
  <2>1. ASSUME NEW d \in DOMAIN debts, NEW amount \in Amounts, NEW ref \in AnyRef, AddPayment(d, amount, ref)
        PROVE  Referenced(claims', payments', transfers')
    BY <2>1, AddPaymentReferenced
  <2>2. ASSUME NEW s \in Suppliers, NEW amount \in Amounts, NEW credit \in 0..MaxAmount, NEW ref \in AnyRef,
               NEW picked \in SUBSET OpenInvoices(s, {}), PaySupplier(s, amount, credit, picked, ref)
        PROVE  Referenced(claims', payments', transfers')
    BY <2>2, PaySupplierReferenced
  <2>3. ASSUME NEW s \in Suppliers, NEW amount \in Amounts, NEW picked \in SUBSET OpenInvoices(s, {}),
               ApplyCredit(s, amount, picked)
        PROVE  Referenced(claims', payments', transfers')
    BY <2>3, ApplyCreditReferenced
  <2>4. ASSUME NEW b \in Buyers, NEW amount \in Amounts, NEW ref \in AnyRef, PayBuyer(b, amount, ref)
        PROVE  Referenced(claims', payments', transfers')
    BY <2>4, PayBuyerReferenced
  <2>5. ASSUME NEW p \in DOMAIN payments, ReversePayment(p) PROVE Referenced(claims', payments', transfers')
    BY <2>5, ReversePaymentReferenced
  <2>6. ASSUME NEW t \in DOMAIN transfers, NEW amount \in Amounts, NEW ref \in AnyRef, RefundTransfer(t, amount, ref)
        PROVE  Referenced(claims', payments', transfers')
    BY <2>6, RefundTransferReferenced
  <2>7. ASSUME NEW t \in DOMAIN transfers, NEW amount \in Amounts, CorrectTransfer(t, amount)
        PROVE  Referenced(claims', payments', transfers')
    BY <2>7, CorrectTransferReferenced
  <2> QED
    BY <1>4, <2>1, <2>2, <2>3, <2>4, <2>5, <2>6, <2>7 DEF PaymentSteps
<1>5. CASE CorrectionSteps
  <2>1. ASSUME NEW d \in DOMAIN debts, NEW party \in Parties, NEW how \in Hows, WrongSupplier(d, party, how)
        PROVE  Referenced(claims', payments', transfers')
    BY <2>1, CorrectionReferenced
  <2>2. ASSUME NEW d \in DOMAIN debts, NEW of \in DOMAIN debts, NEW how \in Hows, DuplicateLiability(d, of, how)
        PROVE  Referenced(claims', payments', transfers')
    BY <2>2, CorrectionReferenced
  <2>3. ASSUME NEW d \in DOMAIN debts, NoCost(d) PROVE UNCHANGED <<payments, transfers, claims>>
    BY <2>3 DEF NoCost
  <2>4. ASSUME NEW p \in DOMAIN payments, NEW as \in {"credit", "refund", "entry_error"}, NEW amount \in Amounts,
               Classify(p, as, amount)
        PROVE  Referenced(claims', payments', transfers')
    BY <2>4, ClassifyReferenced
  <2>5. ASSUME NEW p \in DOMAIN payments, Wrap(p) PROVE Referenced(claims', payments', transfers')
    BY <2>5, WrapReferenced
  <2> QED
    BY <1>0, <1>5, <2>1, <2>2, <2>3, <2>4, <2>5 DEF CorrectionSteps
<1> QED
  BY <1>1, <1>2, <1>3, <1>4, <1>5 DEF Next

(* duplicates.py: as long as staff wrap only rows from before transfers
   (WrapsAnything), and no such payment was reversed before the company kept
   transfers (Legacy), a transaction reference that was entered is held by the
   one record that counts as its money: by a payment until a reversal frees it
   or a transfer takes it along, by a customer payment while any part of it
   counts, by a transfer for good, whatever is reversed, moved, written off as
   a copy, shrunk or used again.  So no reference is refused that nothing
   stands under, and none is accepted twice. *)
THEOREM ReferenceAlwaysFollowsMoney ==
    ASSUME ~WrapsAnything, Legacy # "reversed"
    PROVE  Spec => []ReferenceFollowsMoney
<1> DEFINE Held == Faithful(debts, payments, transfers) /\ Referenced(claims, payments, transfers)
<1>1. Init => Held
  BY InitFaithful, InitReferenced
<1>2. IInv /\ Held /\ [Next]_vars => Held'
  BY StepFaithful, StepReferenced
<1>3. Held => ReferenceFollowsMoney
  BY ReferencedFollows
<1> HIDE DEF Held
<1> QED
  BY <1>1, <1>2, <1>3, AlwaysKept, PTL DEF Spec

=============================================================================
