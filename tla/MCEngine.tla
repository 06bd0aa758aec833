------------------------------ MODULE MCEngine ------------------------------
(* Small repositories for Engine.                                          *)
EXTENDS Engine, TLC

CONSTANTS main, release, s1, s2, s3

\* One repository; main is watched and promotes to release.
MCRepoOf == [b \in Branches |-> "repo"]
MCTarget == [r \in Refs |-> IF r = main /\ release \in Branches
                            THEN release ELSE NoBranch]
MCSymmetry == Permutations(Shas \ BadConfig)

=============================================================================
