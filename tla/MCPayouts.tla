----------------------------- MODULE MCPayouts ------------------------------
(***************************************************************************)
(* Small instances of Payouts for TLC.                                     *)
(***************************************************************************)
EXTENDS PayoutsDesk, TLC

\* Requests and admins are interchangeable.
MCSymmetry == Permutations(Approvals) \cup Permutations(Admins)
=============================================================================
