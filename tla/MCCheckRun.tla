---------------------------- MODULE MCCheckRun ----------------------------
(* Two engines on one daemon for CheckRun.                                 *)
EXTENDS CheckRun

CONSTANTS a, b, u1, u2, c1, c2, c3

MCOf == [u \in Units |-> IF u = u1 THEN a ELSE CHOOSE e \in Engines : e # a]
MCOwn == [e \in Engines |-> e]

=============================================================================
