----------------------------- MODULE MCStatuses -----------------------------
(* The statuses of one commit with one check, for TLC.                     *)
EXTENDS Statuses

=============================================================================
