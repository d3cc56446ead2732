------------------------------ MODULE MCOrders ------------------------------
(***************************************************************************)
(* Small instances of Orders for TLC.                                      *)
(***************************************************************************)
EXTENDS OrdersDesk, TLC

CONSTANTS farmer, caterer

\* Every listing is the farmer's.
MCSupplierOf == [l \in Listings |-> farmer]

HoldSymmetry == Permutations(Holds)
=============================================================================
