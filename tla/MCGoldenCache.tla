--------------------------- MODULE MCGoldenCache ---------------------------
(* A small cache for GoldenCache.                                          *)
EXTENDS GoldenCache

CONSTANTS b1, b2, once, d1, d2, x

\* The commits of the branch have two lockfile hashes; a foreign commit another.
MCDepsOf ==
    [r \in Runs |-> CASE r = b1 -> {d1} [] r = b2 -> {d1, d2} [] OTHER -> {x}]

=============================================================================
