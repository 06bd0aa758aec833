-------------------------------- MODULE Gate --------------------------------
(***************************************************************************)
(* The gate of one commit (runner.go: runUnits, runCommit and the end of   *)
(* processBranchOnce): a launcher admits the units - the checks and the    *)
(* optional scan - in order, under a count and a CPU budget; each unit is  *)
(* a goroutine that gives its share back, looks whether the run was        *)
(* cancelled and reports; the launcher's goroutine joins them, resolves    *)
(* what was cut short and rolls the results up into the context "ci".      *)
(* A cancellation (a newer tip, a shutdown) may land between any two       *)
(* steps.  What a unit does in its container is module CheckRun.           *)
(***************************************************************************)
EXTENDS Integers, FiniteSets, FiniteSetsExt

CONSTANTS
    Total,      \* the number of gate steps: the checks, and the scan last
    Hint,       \* the cpus: hint of each unit, 0 when it has none
    MaxCount,   \* CHECK_CONCURRENCY
    Budget      \* CHECK_CPU_BUDGET

ASSUME GateAssumption ==
    /\ Total \in Nat \ {0}
    /\ Hint \in [1 .. Total -> Nat]
    /\ MaxCount \in Nat
    /\ Budget \in Nat \ {0}

Units == 1 .. Total

VARIABLES
    pc,       \* the goroutine of processBranchOnce
    next,     \* the unit to admit next
    running, used,   \* the admission counters, under mu
    unit,     \* where each unit's goroutine stands
    ok,       \* what its run returned
    failed,   \* failures counted
    done,     \* completed[i]: it produced a real result
    status,   \* GitHub: the context of each unit
    rollup,   \* GitHub: the context "ci"
    cause,    \* why the run context is cancelled
    passed, completed   \* what runCommit returned

vars == <<pc, next, running, used, unit, ok, failed, done, status, rollup,
          cause, passed, completed>>
counters == <<running, used>>
results == <<failed, done>>
verdict == <<passed, completed>>

-----------------------------------------------------------------------------
States == {"none", "pending", "success", "failure", "error"}
Terminal == {"success", "failure", "error"}
Final == {"success", "failure"}
Live == {"running", "freed", "posting"}

TypeOK ==
    /\ pc \in {"announce", "launch", "waiting", "join", "returned", "over"}
    /\ next \in 1 .. Total + 1
    /\ running \in Int /\ used \in Int
    /\ unit \in [Units -> Live \cup {"queued", "done", "cut"}]
    /\ ok \in [Units -> BOOLEAN]
    /\ failed \in Nat
    /\ done \in [Units -> BOOLEAN]
    /\ status \in [Units -> States]
    /\ rollup \in States
    /\ cause \in {"none", "superseded", "shutdown"}
    /\ passed \in BOOLEAN /\ completed \in BOOLEAN

Init ==
    /\ pc = "announce"
    /\ next = 1
    /\ running = 0 /\ used = 0
    /\ unit = [u \in Units |-> "queued"]
    /\ ok = [u \in Units |-> FALSE]
    /\ failed = 0
    /\ done = [u \in Units |-> FALSE]
    /\ status = [u \in Units |-> "none"]
    /\ rollup = "none"
    /\ cause = "none"
    /\ passed = FALSE /\ completed = FALSE

\* cpuCost, clamped so that a unit heavier than the budget still runs, alone.
Cost(u) == IF Hint[u] = 0 THEN 1 ELSE Hint[u]
Clamped(u) == IF Cost(u) > Budget THEN Budget ELSE Cost(u)
Limit == IF MaxCount < 1 THEN 1 ELSE MaxCount

\* Seeded fault: the budget is checked before the unit's own cost is added.
MustWaitLate(u) == running > 0 /\ (running >= Limit \/ used > Budget)

MustWait(u) == running > 0 /\ (running >= Limit \/ used + Clamped(u) > Budget)
Report(u) == IF ok[u] THEN "success" ELSE "failure"
AllDone == \A u \in Units : done[u]

-----------------------------------------------------------------------------
(* The run context is cancelled; the first cause stays.                    *)
Cancel(why) ==
    /\ cause = "none" /\ pc \notin {"returned", "over"}
    /\ cause' = why
    /\ UNCHANGED <<pc, next, counters, unit, ok, results, status, rollup,
                   verdict>>

Announce ==
    /\ pc = "announce"
    /\ rollup' = "pending"
    /\ status' = [u \in Units |-> "pending"]
    /\ pc' = "launch"
    /\ UNCHANGED <<next, counters, unit, ok, results, cause, verdict>>

\* The launcher, one critical section per step.
Admit ==
    /\ pc = "launch" /\ next \in Units /\ ~MustWait(next) /\ cause = "none"
    /\ running' = running + 1
    /\ used' = used + Clamped(next)
    /\ unit' = [unit EXCEPT ![next] = "running"]
    /\ next' = next + 1
    /\ UNCHANGED <<pc, ok, results, status, rollup, cause, verdict>>

Block ==
    /\ pc = "launch" /\ next \in Units /\ MustWait(next)
    /\ pc' = "waiting"
    /\ UNCHANGED <<next, counters, unit, ok, results, status, rollup, cause,
                   verdict>>

StopLaunching ==
    /\ pc = "launch"
    /\ next \in Units => ~MustWait(next) /\ cause # "none"
    /\ pc' = "join"
    /\ UNCHANGED <<next, counters, unit, ok, results, status, rollup, cause,
                   verdict>>

\* Seeded fault: the launcher is not signalled.
FinishSilent(u, r) ==
    /\ unit[u] = "running"
    /\ unit' = [unit EXCEPT ![u] = "freed"]
    /\ ok' = [ok EXCEPT ![u] = r]
    /\ running' = running - 1
    /\ used' = used - Clamped(u)
    /\ UNCHANGED <<pc, next, results, status, rollup, cause, verdict>>

\* A unit's run returns, with any result; its share is given back and the
\* launcher signalled in one critical section.
Finish(u, r) ==
    /\ unit[u] = "running"
    /\ unit' = [unit EXCEPT ![u] = "freed"]
    /\ ok' = [ok EXCEPT ![u] = r]
    /\ running' = running - 1
    /\ used' = used - Clamped(u)
    /\ pc' = IF pc = "waiting" THEN "launch" ELSE pc
    /\ UNCHANGED <<next, results, status, rollup, cause, verdict>>

\* Only then does it look at the context: cut short, it reports nothing.
Observe(u) ==
    /\ unit[u] = "freed"
    /\ unit' = [unit EXCEPT ![u] = IF cause = "none" THEN "posting" ELSE "cut"]
    /\ failed' = IF cause = "none" /\ ~ok[u] THEN failed + 1 ELSE failed
    /\ UNCHANGED <<pc, next, counters, ok, done, status, rollup, cause,
                   verdict>>

PostResult(u) ==
    /\ unit[u] = "posting"
    /\ unit' = [unit EXCEPT ![u] = "done"]
    /\ status' = [status EXCEPT ![u] = Report(u)]
    /\ done' = [done EXCEPT ![u] = TRUE]
    /\ UNCHANGED <<pc, next, counters, ok, failed, rollup, cause, verdict>>

Joined == pc = "join" /\ \A u \in Units : unit[u] \notin Live

\* Seeded faults: only the launched units are resolved; every unit is.
ReturnLaunched ==
    /\ Joined /\ ~AllDone /\ cause = "superseded"
    /\ status' = [u \in Units |-> IF unit[u] = "cut" THEN "error" ELSE status[u]]
    /\ pc' = "returned"
    /\ UNCHANGED <<next, counters, unit, ok, results, rollup, cause, verdict>>
ReturnFlat ==
    /\ Joined /\ ~AllDone /\ cause = "superseded"
    /\ status' = [u \in Units |-> "error"]
    /\ pc' = "returned"
    /\ UNCHANGED <<next, counters, unit, ok, results, rollup, cause, verdict>>

\* Cut short by a newer commit: what has no result is resolved as an error.
ReturnSuperseded ==
    /\ Joined /\ ~AllDone /\ cause = "superseded"
    /\ status' = [u \in Units |-> IF done[u] THEN status[u] ELSE "error"]
    /\ pc' = "returned"
    /\ UNCHANGED <<next, counters, unit, ok, results, rollup, cause, verdict>>

\* Cut short by a shutdown: left pending, the restart re-runs it.
ReturnShutdown ==
    /\ Joined /\ ~AllDone /\ cause = "shutdown"
    /\ pc' = "returned"
    /\ UNCHANGED <<next, counters, unit, ok, results, status, rollup, cause,
                   verdict>>

\* Seeded fault: whether every unit completed is not looked at.
ReturnHasty ==
    /\ Joined
    /\ rollup' = IF failed = 0 THEN "success" ELSE "failure"
    /\ passed' = (failed = 0)
    /\ completed' = TRUE
    /\ pc' = "returned"
    /\ UNCHANGED <<next, counters, unit, ok, results, status, cause>>

\* Otherwise the rollup follows the count of failures, whatever came late.
ReturnResult ==
    /\ Joined /\ (AllDone \/ cause = "none")
    /\ rollup' = IF failed = 0 THEN "success" ELSE "failure"
    /\ passed' = (failed = 0)
    /\ completed' = TRUE
    /\ pc' = "returned"
    /\ UNCHANGED <<next, counters, unit, ok, results, status, cause>>

\* processBranchOnce resolves the rollup of an abandoned run.
Conclude ==
    /\ pc = "returned"
    /\ rollup' = IF cause = "superseded" /\ ~completed THEN "error" ELSE rollup
    /\ pc' = "over"
    /\ UNCHANGED <<next, counters, unit, ok, results, status, cause, verdict>>

Over == pc = "over" /\ UNCHANGED vars

-----------------------------------------------------------------------------
Launcher == \/ Announce \/ Admit \/ Block \/ StopLaunching
            \/ ReturnSuperseded \/ ReturnShutdown \/ ReturnResult \/ Conclude
Runner(u) == (\E r \in BOOLEAN : Finish(u, r)) \/ Observe(u) \/ PostResult(u)

Next == \/ \E why \in {"superseded", "shutdown"} : Cancel(why)
        \/ Launcher \/ Over
        \/ \E u \in Units : Runner(u)

Spec == Init /\ [][Next]_vars

\* Goroutines run and every unit ends: its container has a timeout.  Nobody
\* owes the gate a cancellation.
FairSpec == Spec /\ WF_vars(Launcher) /\ \A u \in Units : WF_vars(Runner(u))

-----------------------------------------------------------------------------
(* What the gate promises.                                                 *)

\* A green ci means that every unit completed and passed, a red one that every
\* unit completed and one failed: no order of results and cancellations makes
\* runCommit roll up a run that was cut short.
RollupIsHonest ==
    /\ rollup = "success" => \A u \in Units : status[u] = "success"
    /\ rollup = "failure" => /\ \A u \in Units : status[u] \in Final
                             /\ \E u \in Units : status[u] = "failure"

\* A run that ends other than by a shutdown leaves no context pending: what the
\* cancellation cut short, and what was never launched, is resolved.
NothingLeftPending ==
    pc = "over" /\ (cause # "shutdown" \/ completed) =>
        rollup \in Terminal /\ \A u \in Units : status[u] \in Terminal

Executing == {u \in Units : unit[u] = "running"}

\* What a unit costs the budget.
Share(u) == IF Cost(u) < Budget THEN Cost(u) ELSE Budget

\* The admission rule, by the units that really run: at most Limit of them, and
\* no more CPU than the budget, a unit as heavy as the budget or heavier alone.
\* The counters of runUnits say the same: no path gives a share back twice or
\* keeps it.
AdmissionHolds ==
    /\ running = Cardinality(Executing) /\ running <= Limit
    /\ used = MapThenSumSet(Share, Executing) /\ used <= Budget

\* A unit's own result, once reported, is never overwritten, also not by the
\* resolution of a superseded run.
ResultsStand ==
    [][\A u \in Units : status[u] \in Final => status'[u] = status[u]]_vars

\* The gate always ends: the launcher never sleeps through the last signal.
GateEnds == <>(pc = "over")

=============================================================================
