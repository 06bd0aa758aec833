\* A branch, a pull request and a fork's, three commits in a line; two pushes,
\* one stop, one failed call.
CONSTANTS
    Refs = {main}
    PRs = {p1, p2}
    Forks = {p2}
    Shas = {1, 2, 3}
    NoSha = 0
    NoPR = NoPR
    Reach <- MCReach
    Concurrency = 1
    MaxPushes = 2
    MaxStops = 1
    MaxFaults = 1
SPECIFICATION FairSpec
INVARIANTS RecordedVerdictStands RunsUnrecordedOnly SkippedIsLabelled
PROPERTIES CoverOutlivesPending HeadsAreProcessed
