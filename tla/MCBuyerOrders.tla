---------------------------- MODULE MCBuyerOrders ----------------------------
(* Small instances of the buyer orders for TLC. *)
EXTENDS BuyerOrdersDesk, TLC

\* Orders, deposits and buyers are interchangeable.
MCSymmetry == Permutations(Orders) \cup Permutations(Deposits) \cup Permutations(Buyers)
=============================================================================
