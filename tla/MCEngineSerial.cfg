\* Both branches watched, swept one at a time: the ledger is implemented.
CONSTANTS
    main = main  release = release
    s1 = s1  s2 = s2  s3 = s3
    Branches = {main, release}
    Refs = {main, release}
    RepoOf <- MCRepoOf
    Target <- MCTarget
    NoBranch = NoBranch
    Shas = {s1, s2, s3}
    NoSha = NoSha
    BadConfig = {s3}
    Concurrency = 1
    ShortCircuit = TRUE
    Faults = {"git", "list", "answer"}
    MaxFaults = 1
    MaxPushes = 2
    MaxStops = 1
SPECIFICATION Spec
SYMMETRY MCSymmetry
INVARIANTS LastIsReported SeenIsResolved
PROPERTIES ImplementsLedger
