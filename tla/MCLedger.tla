------------------------------- MODULE MCLedger -------------------------------
(* Instances of the ledger: sales whose lines cost 2 from one party or 1 from
   each of two, an income and received goods entered by hand, and expenses. *)
EXTENDS LedgerDesk, TLC

Owing(costs) == [p \in Parties |-> IF p \in DOMAIN costs THEN costs[p] ELSE 0]
MCLineCosts == {Owing(p :> 2) : p \in Parties} \cup {Owing(p :> 1 @@ q :> 1) : p, q \in Parties}
MCTotals == {1}
Entry(direction, source, party, amount) ==
    [direction |-> direction, source |-> source, party |-> party, amount |-> amount]
MCEntries == {Entry("receivable", "manual", b, 1) : b \in Buyers}
    \cup {Entry("payable", "batch_receipt", s, 2) : s \in Suppliers}
    \cup {Entry("payable", "expense", n, 1) : n \in Names}
Symmetry == Permutations(Suppliers)

=============================================================================
