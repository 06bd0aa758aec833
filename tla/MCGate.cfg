\* Four units of mixed cost under a budget of three, at most three at a time.
CONSTANTS
    Total = 4
    Hint <- MCHint
    MaxCount = 3
    Budget = 3
SPECIFICATION FairSpec
INVARIANTS RollupIsHonest NothingLeftPending AdmissionHolds
PROPERTIES ResultsStand GateEnds
