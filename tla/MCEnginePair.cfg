\* Both branches watched, swept in parallel: the promote target is tested too.
CONSTANTS
    main = main  release = release
    s1 = s1  s2 = s2  s3 = s3
    Branches = {main, release}
    Refs = {main, release}
    RepoOf <- MCRepoOf
    Target <- MCTarget
    NoBranch = NoBranch
    Shas = {s1, s2}
    NoSha = NoSha
    BadConfig = {}
    Concurrency = 2
    ShortCircuit = TRUE
    Faults = {"answer"}
    MaxFaults = 1
    MaxPushes = 1
    MaxStops = 1
SPECIFICATION Spec
SYMMETRY MCSymmetry
PROPERTIES CoverOutlivesPending
