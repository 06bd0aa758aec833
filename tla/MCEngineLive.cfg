\* One branch, stops, kills and failures: the tip is processed in the end.
CONSTANTS
    main = main  release = release
    s1 = s1  s2 = s2  s3 = s3
    Branches = {main, release}
    Refs = {main}
    RepoOf <- MCRepoOf
    Target <- MCTarget
    NoBranch = NoBranch
    Shas = {s1, s2}
    NoSha = NoSha
    BadConfig = {}
    Concurrency = 1
    ShortCircuit = TRUE
    Faults = {"git", "list", "save", "answer"}
    MaxFaults = 1
    MaxPushes = 2
    MaxStops = 2
SPECIFICATION FairSpec
PROPERTIES TipIsProcessed PendingIsResolved
