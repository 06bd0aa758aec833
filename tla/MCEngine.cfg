\* One watched branch, a promote target nobody watches, stops and every fault.
CONSTANTS
    main = main  release = release
    s1 = s1  s2 = s2  s3 = s3
    Branches = {main, release}
    Refs = {main}
    RepoOf <- MCRepoOf
    Target <- MCTarget
    NoBranch = NoBranch
    Shas = {s1, s2, s3}
    NoSha = NoSha
    BadConfig = {s3}
    Concurrency = 1
    ShortCircuit = TRUE
    Faults = {"git", "list", "save", "post", "answer"}
    MaxFaults = 1
    MaxPushes = 2
    MaxStops = 2
SPECIFICATION Spec
SYMMETRY MCSymmetry
INVARIANTS PromotedOnlyWhenGreen NoFalseGreen RunsUnseenOnly PromoteIsTrue
PROPERTIES SeenIsForever
