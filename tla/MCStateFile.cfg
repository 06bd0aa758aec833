\* Two branches of one repository, two commits, one run key; an entry expires
\* when the clock of two has moved on from it.
CONSTANTS
    repo = repo
    Branches = {b1, b2}
    RepoOf <- MCRepoOf
    Shas = {s1, s2}
    NoSha = NoSha
    Runs = {k1}
    Retention = 0
    MaxTime = 2
SYMMETRY Symmetry
SPECIFICATION Spec
INVARIANTS FileIsWhole LastStaysSeen SavedIsDurable
PROPERTIES OnlyOldIsForgotten ImplementsDurable
