------------------------------ MODULE MCForms ------------------------------
(***************************************************************************)
(* Forms for TLC: two entries, four submissions, two renderings beyond     *)
(* those a success makes.                                                  *)
(***************************************************************************)
EXTENDS Forms

\* Two payments of the same amount, to the same party, on the same day.
TwinsSpec ==
    /\ Init /\ form.guarded /\ form.twins /\ ~form.reference /\ form.posts = 1
    /\ [][Next]_vars

============================================================================
