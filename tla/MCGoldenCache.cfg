\* Two paths; two branch runs of this process and a run of another; two lockfile
\* hashes of the branch and a foreign one; one failed call or crash.
CONSTANTS
    b1 = b1
    b2 = b2
    once = once
    d1 = d1
    d2 = d2
    x = x
    Paths = {p1, p2}
    Runs = {b1, b2, once}
    Here = {b1, b2}
    Primers = {b1, b2}
    DepsOf <- MCDepsOf
    NoDir = NoDir
    Partial = Partial
    NoMeta = NoMeta
    NoPath = NoPath
    Free = Free
    MaxMishaps = 1
SPECIFICATION FairSpec
INVARIANTS GoldenIsClean MountedIsThere BranchRunIsWarm
PROPERTIES PrimedOnce RunsEnd
