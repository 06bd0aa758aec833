\* A restart finds the commit still the tip; then the branch moves on.
CONSTANTS
    main = main  release = release
    s1 = s1  s2 = s2  s3 = s3
    Branches = {main}
    Refs = {main}
    RepoOf <- MCRepoOf
    Target <- MCTarget
    NoBranch = NoBranch
    Shas = {s1, s2}
    NoSha = NoSha
    BadConfig = {}
    Concurrency = 1
    ShortCircuit = TRUE
    Faults = {}
    MaxFaults = 0
    MaxPushes = 2
    MaxStops = 1
SPECIFICATION FairSpec
PROPERTIES StrandedIsResolved
