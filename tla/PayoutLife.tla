----------------------------- MODULE PayoutLife -----------------------------
(***************************************************************************)
(* What a supplier's payout promises, seen from outside: it is owed when   *)
(* the delivery stands, paid and perhaps owed again, and is cancelled with *)
(* its delivery only while it is owed, never once it is paid.              *)
(* Orders and Payouts implement this, each with its own reasons to move.   *)
(***************************************************************************)
CONSTANT Payouts

VARIABLE life   \* Settlement.status

Init == life = [p \in Payouts |-> "none"]

Move(p, from, to) == life[p] = from /\ life' = [life EXCEPT ![p] = to]

Owe(p) == Move(p, "none", "pending") \/ Move(p, "cancelled", "pending")
Pay(p) == Move(p, "pending", "paid")
Unpay(p) == Move(p, "paid", "pending")
Cancel(p) == Move(p, "pending", "cancelled")

Next == \E p \in Payouts : Owe(p) \/ Pay(p) \/ Unpay(p) \/ Cancel(p)

Spec == Init /\ [][Next]_life
=============================================================================
