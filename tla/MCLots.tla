------------------------------- MODULE MCLots -------------------------------
(* Small instances of the received lots for TLC. *)
EXTENDS LotsDesk, TLC

\* Sales are interchangeable.
MCSymmetry == Permutations(Sales)
=============================================================================
