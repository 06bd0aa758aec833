------------------------------- MODULE Pulls -------------------------------
(***************************************************************************)
(* The options that are off by default, both on: POLL_PRS, where a sweep   *)
(* of a ref runs the open pull requests of its repository after the branch *)
(* (pollRef, processPRs), and MARK_SKIPPED, where a branch run labels the  *)
(* commits nobody tested (markSkipped).  One repository; its branches and  *)
(* its pull requests share the commits, their statuses and the store.      *)
(*                                                                         *)
(* A run is coarser than in Engine: one context, "ci", no promotion, saves *)
(* and posts that succeed; git commands and lists may fail.  What is kept  *)
(* is what the two kinds of run do to each other through the store, their  *)
(* in-flight markers and statuses.                                         *)
(***************************************************************************)
EXTENDS Naturals, FiniteSets

CONSTANTS
    Refs,         \* watched branches of the repository
    PRs,          \* pull requests
    Forks,        \* those whose head is in another repository: NoSha stands for it
    Shas, NoSha, NoPR,
    Reach,        \* the commits reachable from each commit, itself included
    Concurrency,  \* CONCURRENCY
    MaxPushes,    \* bound on pushes to branches and heads, and closings
    MaxStops,     \* bound on stops and kills
    MaxFaults     \* bound on failed git and list calls

ASSUME PullsAssumption ==
    /\ Refs \cap PRs = {} /\ Forks \subseteq PRs
    /\ NoSha \notin Shas /\ NoPR \notin PRs
    /\ Reach \in [Shas -> SUBSET Shas]
    /\ Concurrency \in Nat \ {0}
    /\ MaxPushes \in Nat /\ MaxStops \in Nat /\ MaxFaults \in Nat

VARIABLES
    tip, head, open,       \* GitHub: branch tips, PR heads, open PRs
    status,                \* GitHub: the newest "ci" status of each commit
    seen, last, inFlight,  \* Store, in memory and on disk
    mode, stopping, unswept, todo,  \* the poll loop, as in Engine
    worker,                \* pollRef of each ref
    deferred,  \* history: the keys whose marker start-up left for the next start
    recorded,  \* history: the verdict each commit was recorded with
    base,      \* history: the first commit recorded for each ref
    pushes, stops, faults

vars == <<tip, head, open, status, seen, last, inFlight, deferred, mode, stopping,
          unswept, todo, worker, recorded, base, pushes, stops, faults>>
github == <<tip, head, open>>
store == <<seen, last, inFlight, deferred>>
sched == <<mode, stopping, unswept, todo>>
history == <<recorded, base>>
env == <<pushes, stops>>

-----------------------------------------------------------------------------
Runs == Refs \cup PRs  \* in-flight keys: ref.String() and prKey
MaybeSha == Shas \cup {NoSha}
States == {"none", "pending", "success", "failure", "error"}
Verdict(ok) == IF ok THEN "success" ELSE "failure"

\* A run is under way, with its watcher, at "marked", "run" and "settle"; pr
\* says whose head it runs, NoPR for the branch.  queue holds the pull requests
\* still to visit, as they were listed; skip the commits still to label.
InRun == {"marked", "run", "settle"}
Pcs == InRun \cup {"idle", "poll", "clone", "abandon", "clear", "compare",
                   "skip", "list", "pulls"}
Listing == [pr : PRs, sha : MaybeSha]
Idle == [pc |-> "idle", pr |-> NoPR, sampled |-> NoSha, sha |-> NoSha,
         prev |-> NoSha, cut |-> FALSE, queue |-> {}, skip |-> {}]
WorkerType == [pc : Pcs, pr : PRs \cup {NoPR}, sampled : MaybeSha,
               sha : MaybeSha, prev : MaybeSha, cut : BOOLEAN,
               queue : SUBSET Listing, skip : SUBSET Shas]

TypeOK ==
    /\ tip \in [Refs -> Shas] /\ head \in [PRs -> MaybeSha] /\ open \subseteq PRs
    /\ status \in [Shas -> States]
    /\ seen \subseteq Shas
    /\ last \in [Refs -> MaybeSha] /\ inFlight \in [Runs -> MaybeSha]
    /\ deferred \subseteq Runs
    /\ mode \in {"down", "reconcile", "poll"} /\ stopping \in BOOLEAN
    /\ unswept \subseteq Refs /\ todo \subseteq Runs
    /\ worker \in [Refs -> WorkerType]
    /\ recorded \in [Shas -> States]
    /\ base \in [Refs -> MaybeSha]
    /\ pushes \in Nat /\ stops \in Nat /\ faults \in Nat

Init ==
    /\ tip \in [Refs -> Shas] /\ open = PRs
    /\ head \in {h \in [PRs -> MaybeSha] : \A p \in PRs : h[p] = NoSha <=> p \in Forks}
    /\ status = [s \in Shas |-> "none"]
    /\ seen = {} /\ last = [r \in Refs |-> NoSha]
    /\ inFlight = [k \in Runs |-> NoSha] /\ deferred = {}
    /\ mode = "down" /\ stopping = FALSE /\ unswept = {} /\ todo = {}
    /\ worker = [r \in Refs |-> Idle]
    /\ recorded = [s \in Shas |-> "none"] /\ base = [r \in Refs |-> NoSha]
    /\ pushes = 0 /\ stops = 0 /\ faults = 0

-----------------------------------------------------------------------------
(* The users, and the process around the workers: see Engine.              *)

Has(s) == s \in seen
Busy == {r \in Refs : worker[r].pc # "idle"}
At(r, pc) == mode = "poll" /\ worker[r].pc = pc
Become(r, w) == worker' = [worker EXCEPT ![r] = w]
Goto(r, pc) == Become(r, [worker[r] EXCEPT !.pc = pc])
Leave(r) == Become(r, Idle)
Post(s, state) == status' = [status EXCEPT ![s] = state]
Marker(k, s) ==
    /\ inFlight' = [inFlight EXCEPT ![k] = s] /\ deferred' = deferred \ {k}
    /\ UNCHANGED <<seen, last>>

\* The key of the run of r that is under way, and where its head is now.
RunKey(r) == IF worker[r].pr = NoPR THEN r ELSE worker[r].pr
HeadOf(k) == IF k \in Refs THEN tip[k] ELSE head[k]

Push(r, s) == s # tip[r] /\ tip' = [tip EXCEPT ![r] = s] /\ UNCHANGED <<head, open>>
PushHead(p, s) ==
    /\ p \in open \ Forks /\ s # head[p]
    /\ head' = [head EXCEPT ![p] = s] /\ UNCHANGED <<tip, open>>
Close(p) == p \in open /\ open' = open \ {p} /\ UNCHANGED <<tip, head>>

Users ==
    /\ pushes < MaxPushes /\ pushes' = pushes + 1
    /\ \/ \E r \in Refs, s \in Shas : Push(r, s)
       \/ \E p \in PRs : Close(p) \/ \E s \in Shas : PushHead(p, s)
    /\ UNCHANGED <<status, store, sched, worker, history, stops, faults>>

Terminate ==
    /\ mode # "down" /\ ~stopping /\ stops < MaxStops
    /\ stopping' = TRUE /\ stops' = stops + 1
    /\ UNCHANGED <<github, status, store, mode, unswept, todo, worker, history,
                   pushes, faults>>

Down ==
    /\ mode' = "down" /\ stopping' = FALSE /\ unswept' = {} /\ todo' = {}
    /\ worker' = [r \in Refs |-> Idle]
    /\ UNCHANGED <<github, status, store, history, pushes, faults>>

Crash == mode # "down" /\ stops < MaxStops /\ stops' = stops + 1 /\ Down
Exit == mode # "down" /\ stopping /\ Busy = {} /\ UNCHANGED stops /\ Down

Start ==
    /\ mode = "down" /\ mode' = "reconcile"
    /\ todo' = {k \in Runs : inFlight[k] # NoSha}
    /\ UNCHANGED <<github, status, store, stopping, unswept, worker, history, env,
                   faults>>

\* Start-up visits a marker; a stop ends the visits.
Visit(k) ==
    /\ mode = "reconcile" /\ ~stopping /\ k \in todo
    /\ todo' = todo \ {k}
    /\ UNCHANGED <<github, mode, stopping, unswept, worker, history, env>>
IsTip(k) == k \in Refs /\ tip[k] = inFlight[k]

\* An interrupted branch run whose commit is still the tip is left to the poll.
ReconcileTip(k) ==
    /\ Visit(k) /\ IsTip(k)
    /\ Marker(k, NoSha)
    /\ UNCHANGED <<status, faults>>

\* Seeded fault: only the keys of branches are recognised (refForKey).
ReconcileBranches(k) ==
    LET s == inFlight[k] IN
    /\ Visit(k)
    /\ faults' = faults + (IF IsTip(k) THEN 1 ELSE 0) /\ faults' <= MaxFaults
    /\ IF k \in Refs /\ status[s] = "pending" THEN Post(s, "error") ELSE UNCHANGED status
    /\ Marker(k, NoSha)

\* It is not, or ls-remote failed, or it was the run of a pull request: its
\* pending status is resolved.
ReconcileStale(k) ==
    LET s == inFlight[k] IN
    /\ Visit(k)
    /\ faults' = faults + (IF IsTip(k) THEN 1 ELSE 0) /\ faults' <= MaxFaults
    /\ IF status[s] = "pending" THEN Post(s, "error") ELSE UNCHANGED status
    /\ Marker(k, NoSha)

\* ListStatuses failed, at the tip after ls-remote has: the marker stays for the
\* next start, and the poll begins all the same.
ReconcileKeep(k) ==
    /\ Visit(k)
    /\ faults' = faults + (IF IsTip(k) THEN 2 ELSE 1) /\ faults' <= MaxFaults
    /\ deferred' = deferred \cup {k}
    /\ UNCHANGED <<status, seen, last, inFlight>>

Reconcile(k) == ReconcileTip(k) \/ ReconcileStale(k) \/ ReconcileKeep(k)

Sweep ==
    /\ ~stopping /\ Busy = {} /\ unswept' = Refs /\ mode' = "poll"
    /\ \/ mode = "reconcile" /\ todo = {}
       \/ mode = "poll" /\ unswept = {}
    /\ UNCHANGED <<github, status, store, stopping, todo, worker, history, env,
                   faults>>

Dispatch(r) ==
    /\ mode = "poll" /\ ~stopping /\ r \in unswept
    /\ Cardinality(Busy) < Concurrency
    /\ unswept' = unswept \ {r}
    /\ Goto(r, "poll")
    /\ UNCHANGED <<github, status, store, mode, stopping, todo, history, env,
                   faults>>

-----------------------------------------------------------------------------
(* processBranchOnce, up to the run.  Whatever it returns, pollRef goes on *)
(* to the pull requests.                                                   *)

Quiet == UNCHANGED <<github, status, store, sched, history, env, faults>>

\* Seeded fault: a tip that is recorded ends the sweep of the ref.
LsRemoteReturns(r) ==
    /\ At(r, "poll") /\ ~stopping
    /\ Become(r, IF Has(tip[r]) THEN Idle
                 ELSE [Idle EXCEPT !.pc = "clone", !.sampled = tip[r]])
    /\ Quiet

LsRemote(r) ==
    /\ At(r, "poll") /\ ~stopping
    /\ Become(r, IF Has(tip[r]) THEN [Idle EXCEPT !.pc = "list"]
                 ELSE [Idle EXCEPT !.pc = "clone", !.sampled = tip[r]])
    /\ Quiet

CloneBranch(r) ==
    /\ At(r, "clone") /\ ~stopping
    /\ IF Has(tip[r])
       THEN /\ seen' = seen \cup {worker[r].sampled}
            /\ UNCHANGED <<last, inFlight, deferred>>
            /\ Goto(r, "list")
       ELSE /\ Marker(r, tip[r])
            /\ Become(r, [worker[r] EXCEPT !.pc = "marked", !.sha = tip[r]])
    /\ UNCHANGED <<github, status, sched, history, env, faults>>

\* A git or list call fails; a stop cancels it.
CallFails(r) ==
    /\ At(r, "poll") \/ At(r, "clone") \/ At(r, "list")
    /\ \/ stopping /\ UNCHANGED faults
       \/ faults < MaxFaults /\ faults' = faults + 1
    /\ IF At(r, "list") \/ stopping THEN Leave(r)
                                    ELSE Become(r, [Idle EXCEPT !.pc = "list"])
    /\ UNCHANGED <<github, status, store, sched, history, env>>

-----------------------------------------------------------------------------
(* processPRs, up to the run.                                              *)

ListOpenPRs(r) ==
    /\ At(r, "list") /\ ~stopping
    /\ Become(r, [Idle EXCEPT !.pc = "pulls",
                     !.queue = {[pr |-> p, sha |-> head[p]] : p \in open}])
    /\ Quiet

NoMorePRs(r) ==
    /\ At(r, "pulls") /\ (worker[r].queue = {} \/ stopping)
    /\ Leave(r)
    /\ Quiet

\* Heads of forks, missing heads and recorded ones are passed over.
PassOver(r, l) ==
    /\ At(r, "pulls") /\ ~stopping /\ l \in worker[r].queue
    /\ l.pr \in Forks \/ Has(l.sha)
    /\ Become(r, [worker[r] EXCEPT !.queue = @ \ {l}])
    /\ Quiet

\* Seeded fault: the listed head is run without a look at the store.
CloneAnyCommit(r, l) ==
    /\ At(r, "pulls") /\ ~stopping /\ l \in worker[r].queue
    /\ l.pr \notin Forks
    /\ Marker(l.pr, l.sha)
    /\ Become(r, [worker[r] EXCEPT !.pc = "marked", !.queue = @ \ {l},
                                   !.pr = l.pr, !.sha = l.sha])
    /\ UNCHANGED <<github, status, sched, history, env, faults>>

\* cloneCommit fetches the listed commit, wherever the head is by now.
CloneCommit(r, l) ==
    /\ At(r, "pulls") /\ ~stopping /\ l \in worker[r].queue
    /\ l.pr \notin Forks /\ ~Has(l.sha)
    /\ Marker(l.pr, l.sha)
    /\ Become(r, [worker[r] EXCEPT !.pc = "marked", !.queue = @ \ {l},
                                   !.pr = l.pr, !.sha = l.sha])
    /\ UNCHANGED <<github, status, sched, history, env, faults>>

CloneCommitFails(r, l) ==
    /\ At(r, "pulls") /\ ~stopping /\ l \in worker[r].queue
    /\ l.pr \notin Forks /\ ~Has(l.sha)
    /\ faults < MaxFaults /\ faults' = faults + 1
    /\ Become(r, [worker[r] EXCEPT !.queue = @ \ {l}])
    /\ UNCHANGED <<github, status, store, sched, history, env>>

-----------------------------------------------------------------------------
(* The run of a branch tip or of a head, and what becomes of its commit.   *)

Begin(r) ==
    /\ At(r, "marked")
    /\ Post(worker[r].sha, "pending")
    /\ Goto(r, "run")
    /\ UNCHANGED <<github, store, sched, history, env, faults>>

\* The watcher sees another head than the commit that is run.
Watch(r) ==
    /\ mode = "poll" /\ worker[r].pc \in InRun /\ ~worker[r].cut /\ ~stopping
    /\ HeadOf(RunKey(r)) # worker[r].sha
    /\ Become(r, [worker[r] EXCEPT !.cut = TRUE])
    /\ Quiet

GateEnds(r, ok) ==
    /\ At(r, "run") /\ ~worker[r].cut /\ ~stopping
    /\ Post(worker[r].sha, Verdict(ok))
    /\ Goto(r, "settle")
    /\ UNCHANGED <<github, store, sched, history, env, faults>>

\* Cut short by the watcher: the commit is resolved.  By a stop: it is left.
GateCut(r) ==
    /\ At(r, "run")
    /\ \/ worker[r].cut /\ Post(worker[r].sha, "error") /\ Goto(r, "abandon")
       \/ ~worker[r].cut /\ stopping /\ Leave(r) /\ UNCHANGED status
    /\ UNCHANGED <<github, store, sched, history, env, faults>>

\* A run that is over: a superseded branch is polled again, and the other pull
\* requests are next after one of them.
Resume(r, superseded) ==
    IF worker[r].pr # NoPR
    THEN Become(r, [Idle EXCEPT !.pc = "pulls", !.queue = worker[r].queue])
    ELSE Become(r, [Idle EXCEPT !.pc = IF superseded /\ ~stopping THEN "poll"
                                                                  ELSE "list"])

Abandon(r) ==
    /\ At(r, "abandon")
    /\ Marker(RunKey(r), NoSha)
    /\ Resume(r, TRUE)
    /\ UNCHANGED <<github, status, sched, history, env, faults>>

\* A completed run is not recorded once the engine is stopping.
SettleStop(r) ==
    /\ At(r, "settle") /\ stopping
    /\ Leave(r)
    /\ Quiet

\* Seeded fault: the baseline is read after the record has overwritten it.
RecordLate(r) ==
    LET w == worker[r] IN
    /\ At(r, "settle") /\ ~stopping
    /\ recorded' = [recorded EXCEPT ![w.sha] = status[w.sha]]
    /\ IF w.pr # NoPR
       THEN seen' = seen \cup {w.sha} /\ UNCHANGED <<last, base>>
       ELSE /\ seen' = seen \cup {w.sampled, w.sha}
            /\ last' = [last EXCEPT ![r] = w.sha]
            /\ base' = [base EXCEPT ![r] = IF @ = NoSha THEN w.sha ELSE @]
    /\ Become(r, [w EXCEPT !.pc = "clear", !.prev = w.sha])
    /\ UNCHANGED <<github, status, inFlight, deferred, sched, env, faults>>

\* MarkBranch, with the baseline read before it; Mark for a pull request.
Record(r) ==
    LET w == worker[r] IN
    /\ At(r, "settle") /\ ~stopping
    /\ recorded' = [recorded EXCEPT ![w.sha] = status[w.sha]]
    /\ IF w.pr # NoPR
       THEN seen' = seen \cup {w.sha} /\ UNCHANGED <<last, base>>
       ELSE /\ seen' = seen \cup {w.sampled, w.sha}
            /\ last' = [last EXCEPT ![r] = w.sha]
            /\ base' = [base EXCEPT ![r] = IF @ = NoSha THEN w.sha ELSE @]
    /\ Become(r, [w EXCEPT !.pc = "clear", !.prev = last[r]])
    /\ UNCHANGED <<github, status, inFlight, deferred, sched, env, faults>>

Clear(r) ==
    /\ At(r, "clear")
    /\ Marker(RunKey(r), NoSha)
    /\ IF worker[r].pr = NoPR /\ worker[r].prev \notin {NoSha, worker[r].sha}
       THEN Goto(r, "compare") ELSE Resume(r, worker[r].cut)
    /\ UNCHANGED <<github, status, sched, history, env, faults>>

-----------------------------------------------------------------------------
(* markSkipped: CompareCommits, then one post for each commit.             *)

Compare(r) ==
    LET w == worker[r] IN
    /\ At(r, "compare")
    /\ \/ /\ Become(r, [w EXCEPT !.pc = "skip",
                           !.skip = (Reach[w.sha] \ Reach[w.prev]) \ {w.sha}])
          /\ UNCHANGED faults
       \/ /\ stopping \/ faults < MaxFaults
          /\ faults' = IF stopping THEN faults ELSE faults + 1
          /\ Resume(r, w.cut)
    /\ UNCHANGED <<github, status, store, sched, history, env>>

\* Seeded fault: whether the commit is recorded is not looked up.
SkipAny(r, s) ==
    /\ At(r, "skip") /\ s \in worker[r].skip
    /\ Post(s, "error")
    /\ Become(r, [worker[r] EXCEPT !.skip = @ \ {s}])
    /\ UNCHANGED <<github, store, sched, history, env, faults>>

Skip(r, s) ==
    /\ At(r, "skip") /\ s \in worker[r].skip
    /\ IF Has(s) THEN UNCHANGED status ELSE Post(s, "error")
    /\ Become(r, [worker[r] EXCEPT !.skip = @ \ {s}])
    /\ UNCHANGED <<github, store, sched, history, env, faults>>

EndSkip(r) ==
    /\ At(r, "skip") /\ worker[r].skip = {}
    /\ Resume(r, worker[r].cut)
    /\ Quiet

-----------------------------------------------------------------------------
ProcessBranch(r) == LsRemote(r) \/ CloneBranch(r)
ProcessPRs(r) ==
    \/ ListOpenPRs(r) \/ NoMorePRs(r)
    \/ \E l \in Listing : PassOver(r, l) \/ CloneCommit(r, l) \/ CloneCommitFails(r, l)
RunCommit(r) == Begin(r) \/ (\E ok \in BOOLEAN : GateEnds(r, ok)) \/ GateCut(r)
EndRun(r) == Abandon(r) \/ SettleStop(r) \/ Record(r) \/ Clear(r)
MarkSkipped(r) == Compare(r) \/ EndSkip(r) \/ \E s \in Shas : Skip(r, s)
Worker(r) == \/ ProcessBranch(r) \/ CallFails(r) \/ ProcessPRs(r)
             \/ RunCommit(r) \/ EndRun(r) \/ MarkSkipped(r)
Main == Start \/ Exit \/ Sweep \/ \E k \in Runs : Reconcile(k)

Next == \/ Users \/ Terminate \/ Crash \/ Main
        \/ \E r \in Refs : Dispatch(r) \/ Watch(r) \/ Worker(r)

Spec == Init /\ [][Next]_vars

\* As in Engine: the process is restarted, goroutines run, calls return (of git,
\* by assumption).
Fairness == /\ WF_vars(Main)
            /\ \A r \in Refs : WF_vars(Dispatch(r)) /\ WF_vars(Worker(r))
FairSpec == Spec /\ Fairness

-----------------------------------------------------------------------------
(* What the two options promise together.                                  *)

\* A commit recorded with a verdict goes on showing it: the labels of
\* markSkipped, a start-up that finds its marker, and the runs of other
\* branches and pull requests that reach the commit leave its status alone.
RecordedVerdictStands ==
    \A s \in Shas : recorded[s] # "none" => status[s] = recorded[s]

\* With refs swept one at a time, a commit is not run again once it is
\* recorded, whichever of its branches and pull requests it was recorded for.
RunsUnrecordedOnly ==
    \A r \in Refs : worker[r].pc \in InRun => worker[r].sha \notin seen

\* While nothing stops or fails, a commit that came into a branch between two
\* recorded runs of it is labelled, recorded, or about to be labelled.
SkippedIsLabelled ==
    stops = 0 /\ faults = 0 => \A r \in Refs :
        base[r] # NoSha => \A s \in Reach[last[r]] \ Reach[base[r]] :
            \/ status[s] # "none" \/ Has(s)
            \/ worker[r].pc \in {"clear", "compare"} \/ s \in worker[r].skip

\* A pending commit is never without a run, or a marker that the next start
\* will find, but in two cases: start-up leaves the tip of a branch to the poll,
\* or it could not list the statuses of the commit and left the marker ("keep
\* the marker; retried on the next start", runner.go:348), and then a run of the
\* same branch or pull request takes the marker over.
Covered(s) == \/ \E k \in Runs : inFlight[k] = s
              \/ \E r \in Refs : worker[r].pc \in InRun /\ worker[r].sha = s
TakenOver(k) == k \in deferred /\ inFlight'[k] \notin {inFlight[k], NoSha}
CoverOutlivesPending ==
    [][\A s \in Shas :
          Covered(s) /\ status[s] = "pending" /\ ~Covered(s)' =>
              \/ status'[s] # "pending"
              \/ \E k \in Runs :
                    inFlight[k] = s /\ (ReconcileTip(k) \/ TakenOver(k))]_vars

\* Once the users are quiet, every branch tip and the head of every open pull
\* request of the repository itself is recorded, through stops, crashes, failed
\* calls and abandoned runs; forks stay out.
HeadsAreProcessed ==
    /\ \A r \in Refs : <>[](tip[r] \in seen)
    /\ \A p \in PRs \ Forks : <>[](p \in open => head[p] \in seen)

\* "posts a single terminal ci status on every commit in between" (README).
NoCommitIsBlank ==
    stops = 0 /\ faults = 0 => \A r \in Refs :
        base[r] # NoSha => \A s \in Reach[last[r]] \ Reach[base[r]] :
            \/ status[s] # "none"
            \/ worker[r].pc \in {"clear", "compare"} \/ s \in worker[r].skip

=============================================================================
