# poll-ci in TLA+

poll-ci is a CI in one process: it polls the branches of GitHub repositories,
runs each new head's checks in Docker containers, posts commit statuses, and
may fast-forward a promote branch to a green commit. This directory models it,
checks the models with TLC and proves their main safety properties with TLAPS.
`PROJECT.json` names, for every definition, the source lines it stands for.

## 1. The system

| Component (source) | State it keeps | Operations | Module |
|---|---|---|---|
| Poll loop, life of a commit (`runner.go`, `main.go`) | a goroutine per ref and sweep, its run context and cancellation cause | `PollOnce`, `processBranch`, `processBranchOnce`, `runCommit`, SIGTERM | `Engine` |
| Short-circuit watcher (`runner.go`) | one goroutine per run | `watchForNewerTip` | `Engine` |
| Start-up reconciliation (`runner.go`) | the snapshot of in-flight markers | `reconcileInFlight` | branch markers `Engine`, pull request markers `Pulls`, its requests `Statuses` |
| Promotion (`runner.go`, `github.go`) | the promote branch | `maybePromote`, `FastForwardRef` | `Engine` |
| Gate of a commit (`runner.go`) | admission counters, completed units, failures | `runUnits`, `runCommit` | `Gate` |
| Check and scan containers (`runner.go`) | containers on the Docker daemon | `runCheck`, `runScan`, `dockerOutcome`, `dockerRemove`, `sweepOrphans` | `CheckRun` |
| State file (`state.go`) | processed commits, last results, in-flight markers; the file and its temporary | `Mark`, `MarkBranch`, `SetInFlight`, `ClearInFlight`, `save`, `LoadStore` | `StateFile` |
| Pull requests, skipped commits (`runner.go`, `github.go`) | as a run, keyed by PR number | `processPRs`, `markSkipped` | `Pulls` |
| Dependency cache (`cache.go`) | golden directories, `meta.json`, a lock per key | `prepareCache`, `primeCache`, `harvestCachePath` | `GoldenCache` |
| Status posts (`runner.go`, `github.go`) | the history of statuses on GitHub | `setStatus`, `SetStatus`, `ListStatuses` | `Statuses` |
| Configuration, image pulls, text helpers, heartbeat monitor, installation | none that the above depend on | parsing, validation, formatting | not modelled (section 8) |

How they interact. `main` loads the state file, sweeps stale containers,
reconciles markers, then calls `PollOnce` for ever. `PollOnce` starts a worker
per ref, at most `CONCURRENCY` at once. A worker asks git for the head, clones
it, writes the in-flight marker, starts a watcher, brings the dependency cache
up to date and runs the gate; the gate's units run in containers, each with a
copy of the cache, and post their own status; the watcher and SIGTERM cancel
the run's context. After its branch a worker visits the pull requests of the
repository, if it is told to. Workers share the store (under one mutex), the
caches (a mutex per branch), GitHub and the Docker daemon; a promotion of one
worker moves a branch another worker may watch.

What is hard about it:

* **Cancellation at any point.** A newer tip or a shutdown may land between any
  two steps of a run; what completed must stand, what was cut must be resolved
  or left for the restart, and nothing cut may count as green or be promoted.
* **Crashes and failed calls.** The process may die between any two steps, a
  write of the state file, a rename, a git command or a request may fail, an
  answer may be lost, a request given up may be applied later. The marker on
  disk is all a new process knows.
* **Stale reads.** The head is read before the clone, `Has` long before
  `MarkBranch`, the baseline of skipped commits before the record; the attach
  stream may end before its container does.
* **Scheduling.** The launcher sleeps on a condition variable; heavy units must
  run alone; the sweep is a barrier.
* **Sharing.** Several instances share one Docker daemon and sweep it; branches
  and pull requests share commits; runs and processes share a cache.

What makes it correct: a commit shown green was judged green; only green
commits are promoted; a recorded commit never runs again and keeps its verdict;
the last tip is processed in the end; contexts that turn pending are resolved; a
gate is honest and ends; a pass means a container exited with 0; a sweep takes
only what is stale; the state file is whole and says what was done; a cache
holds only what its branch primed.

## 2. Modules

| Module | What it is |
|---|---|
| `Engine` | the life of a commit, for any repositories, refs and commits, with crashes and restarts |
| `Ledger` | what the engine promises, abstractly: judge, promote, record, skip |
| `Gate` | one gate: launcher, units, cancellation, rollup |
| `CheckRun` | units in their containers, engines that share a daemon, the sweep |
| `StateFile` | the store, its pruning, its file and the temporary beside it |
| `Durable` | what the store promises, abstractly: change, persist, forget, start again |
| `Pulls` | branches and pull requests of one repository on shared commits, and the labels of skipped ones |
| `GoldenCache` | one golden cache, the runs that prime it and the runs that copy from it |
| `Statuses` | the statuses of one commit, request by request and page by page |
| `MC*` | small instances for TLC |
| `EngineProofs`, `EngineReportProofs`, `GateProofs`, `CheckRunProofs`, `StateFileProofs`, `PullsProofs`, `GoldenCacheProofs`, `StatusesProofs` | theorems |

The modules divide the code by detail. `Engine` has whole runs, with one-step
saves and posts; `StateFile` and `Statuses` open those two steps, `Gate` opens
its gate, `CheckRun` opens a unit of the gate; `Pulls` and `GoldenCache` add
what runs share beside the branch.

Operators called "seeded fault" are plausible bugs of the code, each beside the
action it would replace. They are no part of any specification: they document,
property by property, an error the property detects.

### Engine

`worker[r]` is the goroutine of a ref: `pc` is the next call it makes,
`sampled` and `sha` are `tip` and `sha` of `processBranchOnce`, `cause` is
`context.Cause(runCtx)`, `newer` is a watcher that has seen another tip and not
yet cancelled, `passed` and `completed` are what `runCommit` returns, `err` is
the error of `MarkBranch`. `mem` and `disk` are the `Store` and its file;
`tip` and `status` are GitHub. `mode`, `stopping`, `unswept` and `todo` are
where `main` stands. `verdicts` and `promoted` are history: they are read by
properties only.

One action is one call to the outside, or the code between two of them:
`LsRemote`, `CloneNew` (with `SetInFlight`), `Config` and `Queue` (the pending
posts), `GateEnds` or `GateCut`, `Rollup`, `SettleDone` / `SettleAbandon` /
`SettleStop`, the promotion, `MarkTested`, `MarkClear`. `Terminate` cancels the
contexts of all runs that have no cause yet: the first cause stays, as in Go.
`Crash` loses everything but `disk` and GitHub.

A save changes the maps in memory first, so a failed write leaves `mem` ahead of
`disk` (`Save`). A post is delivered or dropped (`Post`): `setStatus` does not
tell. `FastForward` may move the target and lose the answer, after which the
next attempt runs. Which commits are descendants of which is left to GitHub: a
fast-forward is accepted or refused. The units of a gate are folded into one
context, `check`: the gate is module `Gate`'s business.

### Gate

`Admit`, `Block` and `StopLaunching` are the launcher's critical section;
`Finish` gives the share back and signals, `Observe` is the later look at the
context, `PostResult` the post and `completed[i] = true`. `ReturnSuperseded`,
`ReturnShutdown` and `ReturnResult` are the three ends of `runCommit`;
`Conclude` is the caller's resolution of the rollup. CPU costs are whole
numbers (the code has `float64`; sums of a few decimal hints may be off by a
rounding error at the boundary of the budget).

### CheckRun

`unit[u]` is the goroutine of `runCheck` or `runScan` between two docker
commands; `con` is the daemon. A CLI call is killed with the unit's context; a
`docker create` killed before it prints the id may leave a container behind;
the attach stream may break; a killed engine leaves its containers running.
A create that outlives the engine that issued it is taken to be done before
the next engine lists containers.

### StateFile and Durable

`mem` is the `Store`, `file` and `tmp` the state file and `path.tmp`, `pc` how
far `save` has come. Every operation changes the maps, prunes them and starts to
save in one step, because it holds the mutex from there to its return; the
truncation, the writing and the rename are steps of their own, between which
the process may die (`Crash`) or the call fail (`SaveFails`, which keeps the
changed maps, as the code does). `Loaded` is `UnmarshalJSON` with the migration
of boolean flags. Times are the clock's: a commit the file has recorded at 0 is
one it does not have.

`Durable` has no times and no files: a change is made live and made durable
later, whole, or never; what may be forgotten is any record that is no branch's
last result. `ImplementsDurable` maps `live` to the commits `mem` knows and
`kept` to those of the file. It is the licence for `Engine`'s `Save`.

### Pulls

One repository with `POLL_PRS` and `MARK_SKIPPED` on. A worker runs its branch
as in `Engine`, only coarser (one context, saves and posts that succeed), then
lists the open pull requests and goes through them as they were listed
(`queue`): forks, missing heads and recorded commits are passed over, any other
head is fetched by its SHA and run, wherever the head is by then. `RunKey` is
the marker's key, of the branch or of the pull request. `Record` is `MarkBranch`
or `Mark`, with the baseline read before it; `Compare` and `Skip` are
`markSkipped`. Start-up visits each marker (`Reconcile`) with one of three
outcomes: the commit is still the tip of its branch and is left to the poll
(`ReconcileTip`); it is not, or `ls-remote` failed, or the marker is a pull
request's, and the pending status is resolved (`ReconcileStale`); the statuses
could not be listed and the marker stays (`ReconcileKeep`). `recorded`, `base`
and `deferred` (the markers that stayed) are history.

### GoldenCache

`golden`, `tmp` and `old` are the three directories of each path, their content
the lockfile hash they were primed for. `run[r]` is `prepareCache` followed by
the copies of the run's checks. A harvest is `Harvest` (a fresh temporary),
`CopyOut`, `Aside` and `Swap` (the renames) and `Tidy`, each of which may fail;
a prime in which harvests failed still writes `meta.json`. `Here` are the runs of
this process, which share its mutexes: several runs of one cache are under way
at once when the configuration lists a branch twice (nothing removes
duplicates) and `CONCURRENCY` is above 1. The others are processes started with
`--once`, which take no lock of this process and never prime. A repository
without markers has one hash, the empty one. `settled` is history: the hash of
the last prime nothing disturbed. A finished prime is one whose container
exited with 0; the commands of the presets end in `|| true`
(`cache.go:128`, `130`), so an install that failed inside does not show.

### Statuses

`history` is what GitHub keeps for one commit, newest first. `call[t]` is the
`setStatus` call of a goroutine: an attempt is refused (`Refused`), answered
with a permanent error (`Denied`), loses its answer (`Lost`, after which GitHub
may still apply it, `ApplyLate`), or uses up the 90 s of the call (`Elapsed`).
The main goroutine posts the pending contexts, starts the units, rolls up or
resolves, and clears the marker; a new process finds the marker, reads the pages
and resolves what is pending. Its branch is taken to have moved on: the other
case is `Engine`'s `ReconcileTip`.

## 3. Runs

All bounds are constants of the `.cfg` files.

| Run | Instance | Shows |
|---|---|---|
| `engine` | one watched branch, a promote target, 3 commits (one without a config), 2 pushes, 2 stops or crashes, 1 failed call of any of 5 kinds | `PromotedOnlyWhenGreen`, `NoFalseGreen`, `PromoteIsTrue`, `RunsUnseenOnly`, `SeenIsForever` |
| `engine_pair` | 2 watched branches of a repository, one promoting into the other, in parallel, 1 push, 1 stop, 1 failure | `CoverOutlivesPending` |
| `engine_serial` | the same pair one at a time, 3 commits (one without a config), 2 pushes, 1 stop, 1 failure | `ImplementsLedger`, `LastIsReported`, `SeenIsResolved` |
| `engine_live` | one branch, 2 commits, 2 pushes, 2 stops, 1 failure, fairness | `TipIsProcessed`, `PendingIsResolved` |
| `gate` | 4 units of costs 1, 2, 5 (over the budget of 3), 1, at most 3 at once | `RollupIsHonest`, `NothingLeftPending`, `ResultsStand`, `AdmissionHolds`, `GateEnds` |
| `check_run` | 2 engines, a unit each, 3 containers, 1 fault, 1 kill | `PassIsReal`, `UsedIsThere`, `NoStrayRunning`, `UnitEnds` |
| `state_file` | 2 branches of one repository, 2 commits, a run key, a retention of 0 on a clock of 2, any legacy file, any number of failures and crashes | `FileIsWhole`, `LastStaysSeen`, `SavedIsDurable`, `OnlyOldIsForgotten`, `ImplementsDurable` |
| `pulls` | a branch, a pull request and a fork's, a line of 3 commits, 2 pushes, 1 stop, 1 failed call, fairness | `RecordedVerdictStands`, `RunsUnrecordedOnly`, `SkippedIsLabelled`, `CoverOutlivesPending`, `HeadsAreProcessed` |
| `golden_cache` | 2 paths, 2 branch runs and a run of another process, 3 lockfile hashes, 1 failed call or crash, fairness | `GoldenIsClean`, `MountedIsThere`, `BranchRunIsWarm`, `PrimedOnce`, `RunsEnd` |
| `statuses` | a check and the rollup, another system, pages of 2, 2 failed requests, 1 crash, 1 foreign post, fairness | `TypeOK`, `ClearIsEarned`, `PendingEnds`, `VerdictStands`, `ListIsRecent` |

Why these bounds are enough to be interesting. Two pushes make a tip move
between `ls-remote` and clone and again during the run, and let it return to an
earlier commit (a force-push revert). Two stops are a crash in a run and
another in the reconciliation. One failure reaches every error path, and in
combination with a crash the paths where memory and disk disagree. Two refs are
the least that share a commit and a promote target. A clock of two with a
retention of zero has entries exactly at the cutoff and past it, the two cases
pruning tells apart.
A pull request and a branch share the line of commits, so that each may record
the other's head. Two paths make a harvest that is half done when the next one
fails. Two attempts may fail and the third be delivered; pages of two make a
history of a few statuses span all three pages and exceed them. Two branches that
share a repository make pruning tell the last result of one from an old entry of
the other. Commits are symmetric in the safety runs of `Engine` and in
`StateFile`, branches too in the latter; the liveness runs use no symmetry.

Not reached by these bounds: in `GoldenCache` a rename that fails and whose
restore fails as well (two faults at once; the model restores always), in
`Statuses` a third failure of one call, in `Pulls` two workers at once. At
start-up `ls-remote` and the listing of a commit that is still the tip may both
fail: `Pulls` has the step, which needs two faults and is covered by the
theorems but not by the runs, whose bound is one; `Engine`'s `ReconcileKeep` is
about commits that are not the tip.

The runs `stranded_pending` and `skipped_blank` refute, each, a statement of the
repository's own documents (section 7). No call fails in either.

The type invariants are proved for every instance (section 5) and are in no run,
but for that of `Statuses`, which bounds the pages that are read.

Deadlock is checked in every run but `statuses`, whose one commit comes to its
end.

## 4. Fairness

`Engine!FairSpec` and `Pulls!FairSpec`: workers, the reconciler, the dispatcher
and `main` are weakly fair, because requests and docker commands have timeouts
and the container is restarted (`restart: unless-stopped`). Git commands have
none (`runner.go:1147-1164`): that they end is assumed, and one that hangs
does hold back the whole sweep. Users, signals, crashes and
the watcher's ticker owe no step. `TipIsProcessed` and `HeadsAreProcessed` are
therefore about what holds once the users stop pushing: with endless pushes the
loop of `processBranch` need not end.

`Gate!FairSpec`: the launcher and the goroutines are weakly fair, nobody owes a
cancellation. A unit ends because its container has a timeout, which is
`CheckRun`'s `UnitEnds`; that, in turn, rests on the fairness of docker
commands and of the unit's timer, never on a container that exits.

`GoldenCache!FairSpec`: docker calls end, since each has a timeout, and a run
that waits for the lock gets it in the end, since Go's mutex starves nobody
(strong fairness of `Lock`).

`Statuses!FairSpec`: requests end (the client's timeout), goroutines run, the
container is started again. GitHub owes no late request.

`StateFile` has safety properties only.

## 5. Proofs

Proved by TLAPS for every value of the constants that satisfies the modules'
named assumptions:

* `EngineProofs`: `TypeCorrect`, `PromotionCorrect`, `GreenCorrect`,
  `PromoteStatusCorrect`. The properties relate GitHub to the history and are not
  inductive: between the end of a gate and the post or the fast-forward only
  the worker's local state says what happened. `WorkersAgree` states that this
  memory is true: a worker that has `passed` has its verdict in `verdicts`, one
  at `promote` or `ff` has passed, one at `ffok` has its promotion in
  `promoted`, and one past the clone knows its commit. `EngineInv` adds types
  and the three properties; `InvStep` has one step per action. Neither the
  watcher nor a crash is special: `Down` forgets all workers, and `Agrees` holds
  of an idle one.
* `EngineProofs`, continued: `SeenCorrect`, `RunsCorrect`. Only two steps add to
  the `seen` map, a save makes the file's either what it was or what memory's is
  (`SeenGrows`), and start-up reads it back: a process that is up knows what the
  file knows (`MemKnows`). `RunsCorrect` assumes `Serial` (`CONCURRENCY` is 1,
  the refs are finitely many): one worker at most is busy (`Solo`), so what a
  run works on stays unrecorded in memory up to its record (`RunsUnknown`), and
  hence on disk.
* `EngineReportProofs`: the refinement `LedgerCorrect`, and `LastCorrect`,
  `ResolvedCorrect`, `CoverCorrect`. `ControlInv` ties a worker to its process
  (one that runs does so in a sweep, one cancelled by a shutdown does so while
  the engine stops, one that has `completed` has a verdict or a bad config). For
  `LedgerCorrect`, serial and with writes that succeed, memory and file are the
  same (`MemIsDisk`), so each step that records or resolves is a step of
  `Ledger` and every other a stutter. `LastCorrect` and `ResolvedCorrect`, serial
  and with posts that are delivered, rest on `ReportInv`: between its rollup and
  its record a run shows what it is about to record, and what is recorded is no
  longer touched. `CoverCorrect` is about any number of refs at once, with
  writes, posts and lists that succeed: `CoverInv` says that a worker at its run
  has its commit marked, a run starts from no marker and start-up clears one
  only when the commit is resolved (`Placed`), and that, of all that mark a
  commit with a pending context, one has yet to speak (`OneWillSpeak`).
* `GateProofs`: `TypeCorrect`, `RollupCorrect`, `ResolutionCorrect`,
  `ResultsCorrect`. `GateInv` relates a unit's program counter to its status and
  its result (`UnitsAgree`), the count of failures to the failed units
  (`CountAgrees`), the launcher's position to the units never launched
  (`LaunchAgrees`) and what `runCommit` returned to all of them
  (`ReturnAgrees`). `AdmissionCorrect` is the admission rule, with its sum of CPU
  shares: `Weight` counts the CPU slots of a set of units, which a unit more
  raises by its share (`WeightMore`), and the recursive sum of the library
  returns it (`SumIsWeight`), by a minimal subset on which the two would
  differ.
* `CheckRunProofs`: `TypeCorrect`, `UsedCorrect`, `StrayCorrect`, `PassCorrect`.
  `CheckInv` says who holds container ids and who has a list to sweep; given
  distinct labels, `OwnInv` says that an id held leads to a container with the
  label of the holder's engine and a list to containers with the label of the
  lister's, whose units are idle, so the two never meet; `StrayInv` accounts
  for everything that runs while no call has failed.
* `StateFileProofs`: `TypeCorrect`, `FileCorrect`, `LastCorrect`, `SavedCorrect`,
  `RetentionCorrect` and the refinement `DurableCorrect`. `StateFileInv` adds to
  the types that the temporary file about to be renamed is whole and is the
  store in memory (`TmpIsWhole`), that no recorded time lies in the future (`Past`),
  and that a commit of the file is in memory with a time no older, or had passed
  the retention when it was pruned (`Follows`).
* `PullsProofs`: `TypeCorrect`, `SoloCorrect`, `VerdictCorrect`, `LabelCorrect`,
  `CoverCorrect`. `PullsInv` says that a worker knows the commit it runs and
  that workers are busy in a sweep only. `LabelCorrect` holds for any number of
  workers: `Tended` follows the commits between the first and the last result
  of a branch from the record of a run, which still knows the last result
  before it, through the comparison to the last post. The others assume
  `Serial`: `CONCURRENCY` is 1 and the refs are finitely many. Then one worker
  at most is busy (`Solo`), so that between its
  look at the store and its record nobody records its commit, a run about to be
  recorded shows its verdict (`SettledIsFinal`), and whoever posts later posts
  on a commit that is not recorded; and a marker is that of the run under
  way, one that start-up has still to visit, or one whose listing failed there
  (`MarkInv`), so that a run overwrites no marker but one of the last kind.
* `GoldenCacheProofs`: `TypeCorrect`, `CleanCorrect`, `WarmCorrect`,
  `MountedCorrect`, `OnceCorrect`. `CacheInv` says that only the holder of the lock, a branch
  run, is ever between the decision and the metadata, that it knows its path and
  its lockfiles, and that the temporary directory it is about to rename is
  whole. `Warm` and `MountInv` follow the directories of a run's mounts
  through the two renames of another. `OnceCorrect` needs `SettledInv`: after a
  prime that nothing disturbed the metadata are its hash, fresh, every path
  holds that generation, a run that has decided to prime has other lockfiles and
  one about to mount has these: `WarmCorrect` takes from it what the mounted
  paths contain.

* `StatusesProofs`: `TypeCorrect`, `VerdictCorrect`, `ClearCorrect`,
  `ListCorrect`. `CallsFit` says who posts what in which phase, and that a call has
  made at most one attempt more than attempts have failed, so that only failures
  that exhaust it end it before GitHub has applied it. `ListInv` is about a
  history that grows at its front while it is read: an entry of the pages behind
  is new since the listing began, or its context is listed. `ShowInv` ties the
  newest status of each context that no late request has overtaken to the call
  that posts it (`Told`), to what still waits for a result (`Waits`), to what has
  ended or was resolved (`Ended`, `Resolved`) and to what is listed (`Read`).
  `Newest` takes the first entry of a context; that there is one is the least
  element of a set of naturals (`Smallest`), again by a minimal subset.

Every safety property of the passing runs, the refinements among them, is stated
by one of these theorems. Only model-checked: the liveness properties, which are
out of the prover's reach.

## 6. What the properties assume

* `RunsUnseenOnly`, `ImplementsLedger`, `RunsUnrecordedOnly` and
  `RecordedVerdictStands` hold with refs swept one at a time; with `CONCURRENCY`
  above 1 two refs may run one commit (section 7).
* `ImplementsLedger`, `LastIsReported`, `CoverOutlivesPending` and
  `PendingIsResolved` are checked without dropped posts: when `setStatus` gives
  up, a context does stay pending and the marker is cleared all the same
  (`runner.go:177-178`). `ClearIsEarned` says what it takes for that to happen.
* `ImplementsLedger` is checked without failed writes of the state file: a
  record whose write failed reaches the disk with the next one.
* The theorems assume no more than they need: `LedgerCorrect` serial sweeps and
  writes that succeed, whatever posts do; `LastCorrect` and `ResolvedCorrect`
  serial sweeps and delivered posts, whatever writes do; `CoverCorrect` of
  `Engine` no failed write, post or list, with any number of refs at once (a
  marker that a failed list keeps is overwritten by the next run, section 7);
  `CoverCorrect` of `Pulls` serial sweeps only: calls may fail, and the property
  itself exempts that overwriting (`TakenOver`) and the tip left to the poll.
* `BranchRunIsWarm` says in any case that the paths are mounted, and what they
  contain only while the last prime was undisturbed: after a failed harvest an
  older generation may stand under the new `meta.json` (`cache.go:253`).
* `SeenIsResolved`, `PendingIsResolved` and `SkippedIsLabelled` say so when a
  process died: what a crash leaves behind is `CoverOutlivesPending`'s subject.
* `UsedIsThere` and `NoStrayRunning` hold for instances whose labels differ.
* `StateFile` takes a rename for atomic and durable: without an fsync a power
  loss may leave an empty file behind, which is not modelled.
* `MountedIsThere` is about one process that lives; a process that dies between
  the two renames leaves the directory missing until the next prime.
* In `GoldenCache` a copy into a container is one step: a copy under way while
  its directory is swapped may find parts of both.

## 7. Where the repository's documents and the code disagree

Shown by a run:

* `stranded_pending` (`StrandedIsResolved`): `README.md:894` promises that
  statuses stranded by a crash are resolved at the next start. Start-up clears
  the marker of a commit that is still the tip; when the branch moves before
  the poll, nothing knows of it any more.
* `skipped_blank` (`NoCommitIsBlank`): `README.md:537-538` promises a status on
  every commit between two tested ones. A tip that `ls-remote` sampled and a push
  superseded before the clone is recorded with the tested commit
  (`state.go:114`), so `markSkipped` passes it over and it stays blank.

Seen while modelling, without a run of its own:

* `runner.go:190-191`: a stop during a promotion leaves `ci/promote` pending; if
  the re-run fails, `maybePromote` is never called again and it stays.
* `state.go:4-5`, "each commit runs exactly once": with `CONCURRENCY` above 1,
  two watched branches of one repository at one commit both run it, and the two
  workers share the marker keys of its pull requests.
* `runner.go:399-401`, "no oversubscription": a check without a hint costs one CPU
  and is capped at `CHECK_CPUS`, or not at all (`effectiveCPUs`).
* `README.md:820-821`, "never touch each other": the instance label hashes the
  path of the state file inside the container, the same for two default
  deployments.
* `runner.go:348` keeps the marker of a commit whose statuses could not be
  listed, to be "retried on the next start". The poll begins all the same, and
  the next run of that branch or pull request overwrites the marker
  (`runner.go:152`, `275`) while the commit is still pending: `TakenOver` in
  `Pulls`, which `CoverOutlivesPending` there has to exempt and which TLC
  reaches in the run `pulls`.
* `runner.go:178` says "every context is terminal now" after a post that may have
  been dropped.
* A green commit that a pull request's run recorded before it became the tip of
  its branch is never promoted: `Has` ends the branch's run (`README.md:376-396`
  knows no such exception).
* `reconcileInFlight` resolves every pending context of the commit, those of
  other systems included (`runner.go:351-353`).
* `cache.go:259-260`, "never sees a torn dir": the swap is two renames, and the
  copy walks the directory by its path.
* The presets for yarn name two directories of which one is never created, so
  `cacheNeedsPrime` is true for ever (`cache.go:41`, `199-203`).

## 8. Not modelled

Configuration and validation (`config.go`), detection of ecosystems and the
prime command (`cache.go`), buffers, tar, scrubbing and formatting (`util.go`)
are sequential text processing. Image pulls change no commit's state: a failed
pull surfaces as a failed create, which `CheckRun` has. The heartbeat monitor is
a periodic script outside the Go program, with one clock file. Installation and
update scripts only restart the process, which `Engine` has. In `Engine` and
`Pulls` the watched set is constant, so a marker of a ref no longer watched does
not occur. Refs and pull requests are visited in any order. The list of pull
requests is read in one step and the caps of GitHub's lists (1000 pull requests,
250 compared commits) are left out. `--once` is a gate without state, and
appears as a reader of the cache.

## 9. Plan

1. (done) `Engine`, `Ledger`, `Gate`, `CheckRun`, their runs, the first proofs.
2. (done) `StateFile` and `Durable`, `Pulls`, `GoldenCache`, `Statuses`.
3. (done) Proofs of `CheckRun`, `StateFile`, `Pulls`, `GoldenCache`;
   `SeenIsForever` and, for serial sweeps, `RunsUnseenOnly`.
4. (done) Proofs: the refinement of `Ledger`, `LastIsReported` and
   `SeenIsResolved` for serial sweeps, `CoverOutlivesPending`, `PrimedOnce`, the
   admission rule of `Gate`, the labels of `Pulls`, all safety of `Statuses`.
5. `Pulls` with promotion, and with two workers.
