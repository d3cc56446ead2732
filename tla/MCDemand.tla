------------------------------ MODULE MCDemand ------------------------------
(***************************************************************************)
(* Small instances of Demand for TLC.                                      *)
(***************************************************************************)
EXTENDS Demand, TLC

\* Allocations and orders are interchangeable.
MCSymmetry == Permutations(Allocations) \cup Permutations(OrderIds)
=============================================================================
