---------------------------- MODULE MCStateFile ----------------------------
(* Small stores for StateFile: branches of one repository.                 *)
EXTENDS StateFile, TLC

CONSTANT repo

MCRepoOf == [b \in Branches |-> repo]
Symmetry == Permutations(Shas) \cup Permutations(Branches)

=============================================================================
