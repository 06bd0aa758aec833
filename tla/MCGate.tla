------------------------------- MODULE MCGate -------------------------------
(* Small gates for Gate.                                                   *)
EXTENDS Gate

\* Four units: no hint, half the budget and more, more than the budget, no hint.
MCHint == [u \in Units |-> CASE u = 2 -> 2 [] u = 3 -> 5 [] OTHER -> 0]

=============================================================================
