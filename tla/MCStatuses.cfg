\* A rollup and a check, another system, pages of two entries; the commit's
\* story ends.
CONSTANTS
    Units = {check}
    Foreign = {other}
    Ci = ci
    Attempts = 3
    PageSize = 2
    MaxPages = 3
    MaxFaults = 2
    MaxForeign = 1
    MaxCrashes = 1
SPECIFICATION FairSpec
INVARIANTS TypeOK
PROPERTIES ClearIsEarned PendingEnds VerdictStands ListIsRecent
CHECK_DEADLOCK FALSE
