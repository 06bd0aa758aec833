\* A branch, a pull request and a fork's, three commits in a line; two pushes;
\* nothing stops or fails.
CONSTANTS
    Refs = {main}
    PRs = {p1, p2}
    Forks = {p2}
    Shas = {1, 2, 3}
    NoSha = 0
    NoPR = NoPR
    Reach <- MCReach
    Concurrency = 1
    MaxPushes = 2
    MaxStops = 0
    MaxFaults = 0
SPECIFICATION Spec
INVARIANT NoCommitIsBlank
