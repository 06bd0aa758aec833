------------------------------- MODULE Engine -------------------------------
(***************************************************************************)
(* The life of a commit in poll-ci (runner.go, state.go, main.go): the     *)
(* poll loop samples the head of every watched branch, clones it, runs its *)
(* checks, reports commit statuses, fast-forwards the promote branch and   *)
(* remembers the commit; a watcher aborts a run whose branch moved on; the *)
(* process may be stopped or killed between any two of these steps, and    *)
(* the next one reconciles what its predecessor left in flight.            *)
(*                                                                         *)
(* The units of one gate are module Gate's business: here a commit has one *)
(* unit context, "check", beside the rollup "ci" and "promote".  A post is *)
(* one step: setStatus delivers it, or gives up.  Options off by default   *)
(* are left out: POLL_PRS, MARK_SKIPPED.                                   *)
(***************************************************************************)
EXTENDS Naturals, FiniteSets

CONSTANTS
    Branches,     \* the branches of the repositories
    Refs,         \* cfg.Refs: the watched ones
    RepoOf,       \* the repository a branch belongs to
    Target,       \* promote.branch of the repo config, by watched branch
    NoBranch,     \* no promote block
    Shas,         \* commits
    NoSha,
    BadConfig,    \* commits without a usable .poll-ci.yml
    Concurrency,  \* CONCURRENCY: refs swept in parallel
    ShortCircuit, \* SHORT_CIRCUIT
    Faults,       \* what may fail: subset of
                  \* {"git", "list", "save", "post", "answer"}
    MaxFaults,    \* bound on failed calls
    MaxPushes,    \* bound on pushes by the users of the repositories
    MaxStops      \* bound on stops and kills of the process

ASSUME EngineAssumption ==
    /\ Refs \subseteq Branches
    /\ Target \in [Refs -> Branches \cup {NoBranch}]
    /\ NoBranch \notin Branches
    /\ \A r \in Refs : Target[r] # NoBranch => RepoOf[Target[r]] = RepoOf[r]
    /\ NoSha \notin Shas
    /\ BadConfig \subseteq Shas
    /\ Concurrency \in Nat \ {0}
    /\ ShortCircuit \in BOOLEAN
    /\ MaxFaults \in Nat /\ MaxPushes \in Nat /\ MaxStops \in Nat

VARIABLES
    tip,       \* GitHub: the commit each branch points at
    status,    \* GitHub: the newest status of every context of every commit
    mem,       \* Store: seen, last and in-flight maps in memory
    disk,      \* the state file
    mode,      \* "down", "reconcile" (start-up) or "poll"
    stopping,  \* the root context is cancelled
    unswept,   \* refs this PollOnce has not dispatched yet
    todo,      \* the in-flight snapshot reconcileInFlight still has to visit
    worker,    \* the goroutine of each ref
    verdicts,  \* history: completed gates
    promoted,  \* history: accepted fast-forwards
    pushes, stops, faults   \* bounded environment counters

vars == <<tip, status, mem, disk, mode, stopping, unswept, todo, worker,
          verdicts, promoted, pushes, stops, faults>>
store == <<mem, disk>>
sched == <<mode, stopping, unswept, todo>>
history == <<verdicts, promoted>>
env == <<pushes, stops>>

-----------------------------------------------------------------------------
Contexts == {"ci", "check", "promote"}
States == {"none", "pending", "success", "failure", "error"}

Repos == {RepoOf[b] : b \in Branches}
Key(b, s) == <<RepoOf[b], s>>
Keys == Repos \X Shas

\* Where a worker stands in processBranchOnce.  Its run context is live, and
\* its watcher runs, from the in-flight mark to the return of runCommit.
InRun == {"config", "queue", "gate", "rollup", "settle"}
Pcs == InRun \cup {"idle", "poll", "clone", "abandon", "promote", "ff", "ffok",
                   "fferr", "mark", "clear", "resolved"}

Idle == [pc |-> "idle", sampled |-> NoSha, sha |-> NoSha, cause |-> "none",
         newer |-> FALSE, completed |-> FALSE, passed |-> FALSE, err |-> FALSE]
EmptyStore == [seen |-> {}, last |-> [r \in Refs |-> NoSha],
               inFlight |-> [r \in Refs |-> NoSha]]

StoreType == [seen : SUBSET Keys, last : [Refs -> Shas \cup {NoSha}],
              inFlight : [Refs -> Shas \cup {NoSha}]]
WorkerType == [pc : Pcs, sampled : Shas \cup {NoSha}, sha : Shas \cup {NoSha},
               cause : {"none", "superseded", "shutdown"}, newer : BOOLEAN,
               completed : BOOLEAN, passed : BOOLEAN, err : BOOLEAN]

TypeOK ==
    /\ tip \in [Branches -> Shas]
    /\ status \in [Keys -> [Contexts -> States]]
    /\ mem \in StoreType
    /\ disk \in StoreType
    /\ mode \in {"down", "reconcile", "poll"}
    /\ stopping \in BOOLEAN
    /\ unswept \subseteq Refs
    /\ todo \subseteq Refs
    /\ worker \in [Refs -> WorkerType]
    /\ verdicts \subseteq [ref : Refs, sha : Shas, ok : BOOLEAN]
    /\ promoted \subseteq [ref : Refs, sha : Shas]
    /\ pushes \in Nat /\ stops \in Nat /\ faults \in Nat

Init ==
    /\ tip \in [Branches -> Shas]
    /\ status = [k \in Keys |-> [c \in Contexts |-> "none"]]
    /\ mem = EmptyStore
    /\ disk = EmptyStore
    /\ mode = "down"
    /\ stopping = FALSE
    /\ unswept = {}
    /\ todo = {}
    /\ worker = [r \in Refs |-> Idle]
    /\ verdicts = {}
    /\ promoted = {}
    /\ pushes = 0 /\ stops = 0 /\ faults = 0

-----------------------------------------------------------------------------
(* Helpers: statuses, the store, and where a worker goes next.             *)

KeyOf(r) == Key(r, worker[r].sha)
Pending(k) == \E c \in Contexts : status[k][c] = "pending"
Busy == {r \in Refs : worker[r].pc # "idle"}

Verdict(ok) == IF ok THEN "success" ELSE "failure"

\* One external call of the given kind fails.
Fail(kind) == /\ kind \in Faults
              /\ faults < MaxFaults
              /\ faults' = faults + 1

\* setStatus: a POST GitHub refuses, or that fails three times, is dropped.
Post(k, c, s) == \/ status' = [status EXCEPT ![k][c] = s] /\ UNCHANGED faults
                 \/ Fail("post") /\ UNCHANGED status

\* Store.save: the maps in memory have changed already when the write fails.
Save(new) == /\ mem' = new
             /\ \/ disk' = new /\ UNCHANGED faults
                \/ Fail("save") /\ UNCHANGED disk
Saved == disk' = mem'

Has(b, s) == Key(b, s) \in mem.seen
Mark(r, s) == Save([mem EXCEPT !.seen = @ \cup {Key(r, s)}])
MarkBranch(r, t, s) ==
    Save([mem EXCEPT !.seen = @ \cup {Key(r, t), Key(r, s)}, !.last[r] = s])
SetInFlight(r, s) == Save([mem EXCEPT !.inFlight[r] = s])
ClearInFlight(r) == IF mem.inFlight[r] = NoSha
                    THEN UNCHANGED <<store, faults>>
                    ELSE Save([mem EXCEPT !.inFlight[r] = NoSha])

At(r, pc) == mode = "poll" /\ worker[r].pc = pc
Become(r, w) == worker' = [worker EXCEPT ![r] = w]
Goto(r, pc) == Become(r, [worker[r] EXCEPT !.pc = pc])
Leave(r) == Become(r, Idle)

\* processBranch: a superseded run sends the worker straight back to the head
\* of the branch, unless the engine is shutting down.
Return(r, superseded) ==
    Become(r, IF superseded /\ ~stopping THEN [Idle EXCEPT !.pc = "poll"]
                                         ELSE Idle)

Rest(r) == UNCHANGED <<tip, status, store, sched, history, env, faults>>
-----------------------------------------------------------------------------
(* The environment.                                                        *)

\* Users push to, reset or force-push any branch.
Push(b, s) ==
    /\ pushes < MaxPushes /\ s # tip[b]
    /\ tip' = [tip EXCEPT ![b] = s]
    /\ pushes' = pushes + 1
    /\ UNCHANGED <<status, store, sched, worker, history, stops, faults>>

\* SIGTERM: the root context is cancelled, and with it every run context that
\* has no cause yet (the first cause of a context is the one that stays).
Terminate ==
    /\ mode # "down" /\ ~stopping /\ stops < MaxStops
    /\ stopping' = TRUE
    /\ stops' = stops + 1
    /\ worker' = [r \in Refs |->
          IF worker[r].pc \in InRun /\ worker[r].cause = "none"
          THEN [worker[r] EXCEPT !.cause = "shutdown"] ELSE worker[r]]
    /\ UNCHANGED <<tip, status, store, mode, unswept, todo, history, pushes,
                   faults>>

Down ==
    /\ mode' = "down"
    /\ stopping' = FALSE
    /\ unswept' = {} /\ todo' = {}
    /\ worker' = [r \in Refs |-> Idle]
    /\ mem' = EmptyStore
    /\ UNCHANGED <<tip, status, disk, history, pushes, faults>>

\* kill -9, OOM, power loss, or docker stop after its grace period.
Crash == mode # "down" /\ stops < MaxStops /\ stops' = stops + 1 /\ Down

-----------------------------------------------------------------------------
(* main: load the state file, reconcile, poll until told to stop.          *)

\* Seeded fault: the state file is not read back.
StartBlank ==
    /\ mode = "down"
    /\ mem' = EmptyStore
    /\ mode' = "reconcile"
    /\ todo' = {}
    /\ UNCHANGED <<tip, status, disk, stopping, unswept, worker, history, env,
                   faults>>

Start ==
    /\ mode = "down"
    /\ mem' = disk
    /\ mode' = "reconcile"
    /\ todo' = {r \in Refs : disk.inFlight[r] # NoSha}
    /\ UNCHANGED <<tip, status, disk, stopping, unswept, worker, history, env,
                   faults>>

Exit == mode # "down" /\ stopping /\ Busy = {} /\ UNCHANGED stops /\ Down

BeginPoll ==
    /\ mode = "reconcile" /\ ~stopping /\ todo = {} /\ Busy = {}
    /\ mode' = "poll"
    /\ unswept' = Refs
    /\ UNCHANGED <<tip, status, store, stopping, todo, worker, history, env,
                   faults>>

Reconciling(r) == mode = "reconcile" /\ ~stopping /\ Busy = {} /\ r \in todo
Visited(r) == todo' = todo \ {r} /\ UNCHANGED <<mode, stopping, unswept>>

\* The interrupted commit is still the tip: the marker goes, the poll re-runs.
ReconcileTip(r) ==
    /\ Reconciling(r) /\ tip[r] = mem.inFlight[r]
    /\ ClearInFlight(r)
    /\ Visited(r)
    /\ UNCHANGED <<tip, status, worker, history, env>>

\* Seeded fault: the pending statuses are listed and left as they are.
ReconcileIdle(r) ==
    /\ Reconciling(r) /\ tip[r] # mem.inFlight[r]
    /\ Goto(r, "resolved")
    /\ Visited(r)
    /\ UNCHANGED <<tip, status, store, history, env, faults>>

\* It is not, or ls-remote failed: resolve whatever ListStatuses shows pending.
ReconcileStale(r) ==
    LET k == Key(r, mem.inFlight[r]) IN
    /\ Reconciling(r)
    /\ \E dropped \in SUBSET Contexts :
          /\ status' = [status EXCEPT ![k] = [c \in Contexts |->
                IF @[c] = "pending" /\ c \notin dropped THEN "error" ELSE @[c]]]
          /\ \/ dropped = {} /\ tip[r] # mem.inFlight[r] /\ UNCHANGED faults
             \/ dropped = {} /\ tip[r] = mem.inFlight[r] /\ Fail("git")
             \/ /\ Cardinality(dropped) = 1 /\ tip[r] # mem.inFlight[r]
                /\ Fail("post")
    /\ Goto(r, "resolved")
    /\ Visited(r)
    /\ UNCHANGED <<tip, store, history, env>>

\* ListStatuses failed: the marker stays for the next start.
ReconcileKeep(r) ==
    /\ Reconciling(r) /\ tip[r] # mem.inFlight[r]
    /\ Fail("list")
    /\ Visited(r)
    /\ UNCHANGED <<tip, status, store, worker, history, env>>

ReconcileClear(r) ==
    /\ mode = "reconcile" /\ worker[r].pc = "resolved"
    /\ ClearInFlight(r)
    /\ Leave(r)
    /\ UNCHANGED <<tip, status, sched, history, env>>

\* PollOnce: every ref once, at most Concurrency at a time; the next sweep
\* starts when the last worker of this one is done.
Dispatch(r) ==
    /\ mode = "poll" /\ ~stopping /\ r \in unswept
    /\ Cardinality(Busy) < Concurrency
    /\ unswept' = unswept \ {r}
    /\ Goto(r, "poll")
    /\ UNCHANGED <<tip, status, store, mode, stopping, todo, history, env,
                   faults>>

EndSweep ==
    /\ mode = "poll" /\ ~stopping /\ unswept = {} /\ Busy = {}
    /\ unswept' = Refs
    /\ UNCHANGED <<tip, status, store, mode, stopping, todo, worker, history,
                   env, faults>>

-----------------------------------------------------------------------------
(* processBranchOnce, runCommit and maybePromote, one worker per ref.      *)

\* A git command fails, or is killed with the cancelled context.
GitFails(r) ==
    /\ At(r, "poll") \/ At(r, "clone")
    /\ \/ stopping /\ UNCHANGED faults
       \/ Fail("git")
    /\ Leave(r)
    /\ UNCHANGED <<tip, status, store, sched, history, env>>

LsRemote(r) ==
    /\ At(r, "poll") /\ ~stopping
    /\ Become(r, IF Has(r, tip[r]) THEN Idle
                 ELSE [Idle EXCEPT !.pc = "clone", !.sampled = tip[r]])
    /\ Rest(r)

\* The cloned commit is the one that counts; it may not be the sampled tip.
CloneSeen(r) ==
    /\ At(r, "clone") /\ ~stopping /\ Has(r, tip[r])
    /\ Mark(r, worker[r].sampled)
    /\ Leave(r)
    /\ UNCHANGED <<tip, status, sched, history, env>>

\* Seeded fault: the cloned commit is not looked up again.
CloneAny(r) ==
    /\ At(r, "clone") /\ ~stopping
    /\ SetInFlight(r, tip[r])
    /\ Become(r, [worker[r] EXCEPT !.pc = "config", !.sha = tip[r]])
    /\ UNCHANGED <<tip, status, sched, history, env>>

CloneNew(r) ==
    /\ At(r, "clone") /\ ~stopping /\ ~Has(r, tip[r])
    /\ SetInFlight(r, tip[r])
    /\ Become(r, [worker[r] EXCEPT !.pc = "config", !.sha = tip[r]])
    /\ UNCHANGED <<tip, status, sched, history, env>>

\* watchForNewerTip: it looks, and it cancels a moment later.
WatchSee(r) ==
    /\ ShortCircuit /\ mode = "poll" /\ worker[r].pc \in InRun
    /\ worker[r].cause = "none" /\ ~worker[r].newer /\ tip[r] # worker[r].sha
    /\ Become(r, [worker[r] EXCEPT !.newer = TRUE])
    /\ Rest(r)

WatchCancel(r) ==
    /\ mode = "poll" /\ worker[r].pc \in InRun
    /\ worker[r].newer /\ worker[r].cause = "none"
    /\ Become(r, [worker[r] EXCEPT !.cause = "superseded"])
    /\ Rest(r)

\* readRepoConfig: without a usable config the error is the commit's result.
Config(r) ==
    LET bad == worker[r].sha \in BadConfig IN
    /\ At(r, "config")
    /\ Post(KeyOf(r), "ci", IF bad THEN "error" ELSE "pending")
    /\ Become(r, [worker[r] EXCEPT !.pc = IF bad THEN "settle" ELSE "queue",
                                   !.completed = bad])
    /\ UNCHANGED <<tip, store, sched, history, env>>

Queue(r) ==
    /\ At(r, "queue")
    /\ Post(KeyOf(r), "check", "pending")
    /\ Goto(r, "gate")
    /\ UNCHANGED <<tip, store, sched, history, env>>

\* runUnits: the units end before any cancellation and report ...
GateEnds(r, ok) ==
    /\ At(r, "gate") /\ worker[r].cause = "none"
    /\ Post(KeyOf(r), "check", Verdict(ok))
    /\ Become(r, [worker[r] EXCEPT !.pc = "rollup", !.completed = TRUE,
                                   !.passed = ok])
    /\ verdicts' = verdicts \cup {[ref |-> r, sha |-> worker[r].sha, ok |-> ok]}
    /\ UNCHANGED <<tip, store, sched, promoted, env>>

\* ... or are cut short and report nothing.
GateCut(r) ==
    /\ At(r, "gate") /\ worker[r].cause # "none"
    /\ Goto(r, "rollup")
    /\ Rest(r)

\* Seeded fault: a run cut short by a shutdown is rolled up, with no failures.
RollupCut(r) ==
    LET w == worker[r] IN
    /\ At(r, "rollup")
    /\ \/ /\ w.completed \/ w.cause = "shutdown"
          /\ Post(KeyOf(r), "ci", Verdict(w.passed \/ ~w.completed))
       \/ /\ ~w.completed /\ w.cause = "superseded"
          /\ Post(KeyOf(r), "check", "error")
    /\ Goto(r, "settle")
    /\ UNCHANGED <<tip, store, sched, history, env>>

\* Seeded fault: a run with failures returns before its rollup is posted.
RollupPasses(r) ==
    LET w == worker[r] IN
    /\ At(r, "rollup")
    /\ \/ w.completed /\ w.passed /\ Post(KeyOf(r), "ci", "success")
       \/ w.completed /\ ~w.passed /\ UNCHANGED <<status, faults>>
       \/ /\ ~w.completed /\ w.cause = "superseded"
          /\ Post(KeyOf(r), "check", "error")
       \/ ~w.completed /\ w.cause = "shutdown" /\ UNCHANGED <<status, faults>>
    /\ Goto(r, "settle")
    /\ UNCHANGED <<tip, store, sched, history, env>>

\* The end of runCommit.  A completed gate keeps its result whatever arrived.
Rollup(r) ==
    LET w == worker[r] IN
    /\ At(r, "rollup")
    /\ \/ w.completed /\ Post(KeyOf(r), "ci", Verdict(w.passed))
       \/ /\ ~w.completed /\ w.cause = "superseded"
          /\ Post(KeyOf(r), "check", "error")
       \/ ~w.completed /\ w.cause = "shutdown" /\ UNCHANGED <<status, faults>>
    /\ Goto(r, "settle")
    /\ UNCHANGED <<tip, store, sched, history, env>>

\* Seeded faults: nothing counts as abandoned; failed runs promote too.
NeverAbandoned(r) == FALSE
PromotableAnyway(r) == Target[r] \notin {NoBranch, r}

Abandoned(r) == worker[r].cause = "superseded" /\ ~worker[r].completed
Promotable(r) == worker[r].passed /\ Target[r] \notin {NoBranch, r}

\* Seeded fault: the rollup of an abandoned run is not resolved.
SettleSilent(r) ==
    /\ At(r, "settle") /\ Abandoned(r)
    /\ Goto(r, "abandon")
    /\ Rest(r)

\* cancel(nil), and what processBranchOnce makes of the run.
SettleAbandon(r) ==
    /\ At(r, "settle") /\ Abandoned(r)
    /\ Post(KeyOf(r), "ci", "error")
    /\ Goto(r, "abandon")
    /\ UNCHANGED <<tip, store, sched, history, env>>

SettleStop(r) ==
    /\ At(r, "settle") /\ ~Abandoned(r) /\ stopping
    /\ Leave(r)
    /\ Rest(r)

\* Seeded fault: no look at the root context before the commit is recorded.
SettleAlways(r) ==
    /\ At(r, "settle") /\ ~Abandoned(r)
    /\ Goto(r, IF Promotable(r) THEN "promote" ELSE "mark")
    /\ Rest(r)

SettleDone(r) ==
    /\ At(r, "settle") /\ ~Abandoned(r) /\ ~stopping
    /\ Goto(r, IF Promotable(r) THEN "promote" ELSE "mark")
    /\ Rest(r)

AbandonClear(r) ==
    /\ At(r, "abandon")
    /\ ClearInFlight(r)
    /\ Return(r, TRUE)
    /\ UNCHANGED <<tip, status, sched, history, env>>

PromoteStart(r) ==
    /\ At(r, "promote")
    /\ Post(KeyOf(r), "promote", "pending")
    /\ Goto(r, "ff")
    /\ UNCHANGED <<tip, store, sched, history, env>>

\* FastForwardRef: GitHub moves the target; if the answer is lost, the next
\* attempt finds the target there.
FastForward(r) ==
    /\ At(r, "ff")
    /\ tip' = [tip EXCEPT ![Target[r]] = worker[r].sha]
    /\ promoted' = promoted \cup {[ref |-> r, sha |-> worker[r].sha]}
    /\ \/ Goto(r, "ffok") /\ UNCHANGED faults
       \/ Fail("answer") /\ UNCHANGED worker
    /\ UNCHANGED <<status, store, sched, verdicts, env>>

\* The last of three attempts fails (a diverged target, no permission, another
\* lost answer), or a stop lands before an attempt.
FastForwardRefused(r) ==
    /\ At(r, "ff")
    /\ \/ Goto(r, "fferr")
       \/ stopping /\ Leave(r)
    /\ Rest(r)

\* Seeded fault: the outcome of the fast-forward is not looked at.
PromoteCheers(r) ==
    /\ At(r, "ffok") \/ At(r, "fferr")
    /\ Post(KeyOf(r), "promote", "success")
    /\ IF stopping THEN Leave(r) ELSE Goto(r, "mark")
    /\ UNCHANGED <<tip, store, sched, history, env>>

PromoteEnd(r) ==
    /\ At(r, "ffok") \/ At(r, "fferr")
    /\ Post(KeyOf(r), "promote",
            IF worker[r].pc = "ffok" THEN "success" ELSE "error")
    /\ IF stopping THEN Leave(r) ELSE Goto(r, "mark")
    /\ UNCHANGED <<tip, store, sched, history, env>>

\* Seeded fault: only a pass is recorded.
MarkPassed(r) ==
    /\ At(r, "mark")
    /\ IF worker[r].passed THEN MarkBranch(r, worker[r].sampled, worker[r].sha)
                            ELSE UNCHANGED <<store, faults>>
    /\ Goto(r, "clear")
    /\ UNCHANGED <<tip, status, sched, history, env>>

MarkTested(r) ==
    /\ At(r, "mark")
    /\ MarkBranch(r, worker[r].sampled, worker[r].sha)
    /\ Become(r, [worker[r] EXCEPT !.pc = "clear", !.err = ~Saved])
    /\ UNCHANGED <<tip, status, sched, history, env>>

MarkClear(r) ==
    /\ At(r, "clear")
    /\ ClearInFlight(r)
    /\ Return(r, worker[r].cause = "superseded" /\ ~worker[r].err)
    /\ UNCHANGED <<tip, status, sched, history, env>>

-----------------------------------------------------------------------------
Users == \E b \in Branches, s \in Shas : Push(b, s)
Reconcile(r) == \/ ReconcileTip(r) \/ ReconcileStale(r) \/ ReconcileKeep(r)
                \/ ReconcileClear(r)
Watcher(r) == WatchSee(r) \/ WatchCancel(r)
Worker(r) ==
    \/ GitFails(r) \/ LsRemote(r) \/ CloneSeen(r) \/ CloneNew(r)
    \/ Config(r) \/ Queue(r) \/ (\E ok \in BOOLEAN : GateEnds(r, ok))
    \/ GateCut(r) \/ Rollup(r)
    \/ SettleAbandon(r) \/ SettleStop(r) \/ SettleDone(r) \/ AbandonClear(r)
    \/ PromoteStart(r) \/ FastForward(r) \/ FastForwardRefused(r)
    \/ PromoteEnd(r) \/ MarkTested(r) \/ MarkClear(r)
Main == Start \/ Exit \/ BeginPoll \/ EndSweep

Next == \/ Users \/ Terminate \/ Crash \/ Main
        \/ \E r \in Refs :
              Reconcile(r) \/ Dispatch(r) \/ Watcher(r) \/ Worker(r)

Spec == Init /\ [][Next]_vars

\* The container is restarted, goroutines run, and calls return: every request
\* and docker command has a timeout; git commands have none and are taken to
\* end.  Users, signals and the watcher's ticker owe nobody a step.
Fairness ==
    /\ WF_vars(Main)
    /\ \A r \in Refs : WF_vars(Reconcile(r)) /\ WF_vars(Dispatch(r))
                       /\ WF_vars(Worker(r))

FairSpec == Spec /\ Fairness

-----------------------------------------------------------------------------
(* What the engine promises.                                               *)

Reports == {"ci", "check"}
Unresolved(k) == \E c \in Reports : status[k][c] = "pending"

\* A run of k is under way here, or the state file tells the next process of it.
Covered(k) ==
    \E r \in Refs : /\ RepoOf[r] = k[1]
                    /\ \/ disk.inFlight[r] = k[2]
                       \/ /\ worker[r].pc \notin {"idle", "poll"}
                          /\ worker[r].sha = k[2]

\* The promote branch only ever receives a commit whose own gate, run for that
\* watched branch, passed (maybePromote runs for passed runs only), whatever
\* the watcher, a stop or a crash did meanwhile.
PromotedOnlyWhenGreen ==
    \A p \in promoted : [ref |-> p.ref, sha |-> p.sha, ok |-> TRUE] \in verdicts

\* A green rollup is backed by a gate that completed and passed: cancelled,
\* abandoned and interrupted runs never leave ci=success behind.
NoFalseGreen ==
    \A k \in Keys : status[k]["ci"] = "success" =>
        \E v \in verdicts : Key(v.ref, v.sha) = k /\ v.ok

\* With refs swept one at a time, no run is ever started or continued for a
\* commit the state file already records, even when a write of it failed or a
\* process died on the way ("each commit runs exactly once and survives
\* restarts", state.go).
RunsUnseenOnly ==
    \A r \in Refs : worker[r].pc \in InRun => KeyOf(r) \notin disk.seen

\* While no process dies, a commit recorded as processed has no ci or check
\* context left pending: abandoned, superseded and skipped commits included.
SeenIsResolved == stops = 0 => \A k \in mem.seen : ~Unresolved(k)

\* The commit remembered as a branch's last result was really reported, with
\* the outcome of a gate or the error of a missing config.
LastIsReported ==
    \A r \in Refs : disk.last[r] # NoSha =>
        /\ status[Key(r, disk.last[r])]["ci"] \notin {"none", "pending"}
        /\ ~Unresolved(Key(r, disk.last[r]))

\* A pending context loses its cover (a live run, or its in-flight marker on
\* disk) in one place only: when start-up finds the commit still the tip and
\* leaves it to the poll.  Elsewhere it is resolved before the marker goes.
CoverOutlivesPending ==
    [][\A k \in Keys :
          Covered(k) /\ Unresolved(k) /\ Unresolved(k)' /\ ~Covered(k)' =>
              \E r \in Refs : ReconcileTip(r) /\ tip[r] = k[2]]_vars

\* ci/promote=success is only shown when the target really was moved.
PromoteIsTrue ==
    \A k \in Keys : status[k]["promote"] = "success" =>
        \E p \in promoted : Key(p.ref, p.sha) = k

\* A commit that was processed stays processed, in memory and on disk, and no
\* restart brings it back (nothing is old enough to be pruned here).
SeenIsForever ==
    [][/\ disk.seen \subseteq disk'.seen
       /\ mode' = "poll" => disk.seen \subseteq mem'.seen]_vars

\* The ledger of verdicts, promotions and records kept through restarts.
Book == INSTANCE Ledger WITH Unjudgeable <- BadConfig, recorded <- disk.seen,
                             last <- disk.last

\* Swept one ref at a time, the engine implements the ledger: a commit is judged
\* only while it is unrecorded, promoted only between its green verdict and its
\* record, and recorded once judged, across every crash and restart.
ImplementsLedger == Book!Spec

\* Once the users leave a branch alone, its tip is processed: no interleaving
\* of pushes, watchers, failed calls, stops and restarts wedges the engine.
TipIsProcessed == \A r \in Refs : <>[](Key(r, tip[r]) \in mem.seen)

\* While no process dies, every context that turns pending is resolved.
PendingIsResolved == \A k \in Keys : []<>(~Pending(k) \/ stops > 0)

-----------------------------------------------------------------------------
(* A promise of the repository's documents the code breaks: a run of its   *)
(* own refutes it.                                                         *)

\* "statuses stranded by a crash/restart are resolved at the next startup".
StrandedIsResolved == \A k \in Keys : []<>~Unresolved(k)

=============================================================================
