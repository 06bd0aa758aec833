------------------------------ MODULE MCPulls ------------------------------
(* A small repository for Pulls: a line of three commits.                  *)
EXTENDS Pulls

\* 2 is a child of 1, and 3 of 2.
MCReach == [s \in Shas |-> 1..s]

=============================================================================
