---------------------------- MODULE PullsProofs ----------------------------
(***************************************************************************)
(* Theorems about Pulls, for any branches, pull requests, forks, commits   *)
(* and bounds.  With refs swept one at a time a busy worker is alone: what *)
(* it reads in the store before its run still holds when it records,       *)
(* nobody else posts on the commit it is about to record, and nobody takes *)
(* its marker.  The labels of skipped commits need no such condition: they *)
(* are the business of one worker, and nobody takes them off.              *)
(***************************************************************************)
EXTENDS Pulls, FiniteSetTheorems, TLAPS

\* CONCURRENCY = 1, over a configuration, which lists finitely many refs.
Serial == Concurrency = 1 /\ IsFiniteSet(Refs)

\* Only forks are without a head to fetch.
HeadsKnown == \A p \in PRs \ Forks : head[p] \in Shas

\* A worker knows the commit it runs, and the tip it sampled for it; what it
\* has listed of the repository's own pull requests are commits.
Knows(w) ==
    /\ w.pc \in InRun \cup {"abandon", "clear", "compare", "skip"} => w.sha \in Shas
    /\ w.pc \in InRun \cup {"clone"} /\ w.pr = NoPR => w.sampled \in Shas
    /\ w.pc = "clone" => w.pr = NoPR
    /\ \A l \in w.queue : l.pr \notin Forks => l.sha \in Shas
Knowing == \A r \in Refs : Knows(worker[r])

\* Workers are busy in a sweep only.
PollOnly == mode # "poll" => \A r \in Refs : worker[r].pc = "idle"

PullsInv == TypeOK /\ HeadsKnown /\ Knowing /\ PollOnly

Solo == \A q, r \in Refs : worker[q].pc # "idle" /\ worker[r].pc # "idle" => q = r

\* A commit with a verdict is recorded in the store, and its verdict is one.
RecordedIsSeen == \A s \in Shas : recorded[s] # "none" => s \in seen
RecordedIsFinal == \A s \in Shas : recorded[s] \in {"none", "success", "failure"}

\* A run about to be recorded shows the verdict of its gate.
SettledIsFinal ==
    \A r \in Refs : worker[r].pc = "settle" =>
        status[worker[r].sha] \in {"success", "failure"}

\* What the store and GitHub say of every commit.
Told == RecordedIsSeen /\ RecordedIsFinal /\ RecordedVerdictStands

SoloInv == Solo /\ RunsUnrecordedOnly /\ SettledIsFinal /\ Told

-----------------------------------------------------------------------------
(* Types, and what a worker knows.                                         *)

\* What a step of a worker leaves alone, and the types it keeps.
Kept(r) ==
    /\ mode = "poll" /\ worker[r].pc # "idle"
    /\ UNCHANGED <<github, sched, env>>
    /\ faults' \in Nat /\ seen' \subseteq Shas
    /\ last' \in [Refs -> MaybeSha] /\ inFlight' \in [Runs -> MaybeSha]
    /\ deferred' \subseteq Runs
    /\ status' \in [Shas -> States] /\ recorded' \in [Shas -> States]
    /\ base' \in [Refs -> MaybeSha]

Becomes(r, w) ==
    w \in WorkerType /\ Knows(w) /\ worker' = [worker EXCEPT ![r] = w]

LEMMA IdleIsWorker == Idle \in WorkerType /\ Knows(Idle)
BY DEF Idle, WorkerType, Knows, Pcs, InRun, MaybeSha

LEMMA ResumeBecomes ==
    ASSUME PullsInv, NEW r \in Refs, NEW b \in BOOLEAN, Resume(r, b)
    PROVE  \E w : Becomes(r, w) /\ w.pc \in {"pulls", "poll", "list"}
<1>1. worker[r] \in WorkerType /\ Knows(worker[r])
  BY DEF PullsInv, TypeOK, Knowing
<1>2. CASE worker[r].pr # NoPR
  <2> DEFINE w == [Idle EXCEPT !.pc = "pulls", !.queue = worker[r].queue]
  <2>1. w \in WorkerType /\ Knows(w) /\ w.pc = "pulls"
    BY <1>1 DEF Idle, WorkerType, Knows, Pcs, InRun, MaybeSha
  <2>2. worker' = [worker EXCEPT ![r] = w]
    BY <1>2 DEF Resume, Become
  <2> QED
    BY <2>1, <2>2 DEF Becomes
<1>3. CASE worker[r].pr = NoPR
  <2>1. PICK p \in {"poll", "list"} :
           worker' = [worker EXCEPT ![r] = [Idle EXCEPT !.pc = p]]
    BY <1>3 DEF Resume, Become
  <2> DEFINE w == [Idle EXCEPT !.pc = p]
  <2>2. w \in WorkerType /\ Knows(w) /\ w.pc \in {"poll", "list"}
    BY DEF Idle, WorkerType, Knows, Pcs, InRun, MaybeSha
  <2> QED
    BY <2>1, <2>2 DEF Becomes
<1> QED
  BY <1>2, <1>3

LEMMA BranchMoves ==
    ASSUME PullsInv, NEW r \in Refs, ProcessBranch(r) \/ CallFails(r)
    PROVE  Kept(r) /\ \E w : Becomes(r, w)
<1>0. /\ worker[r] \in WorkerType /\ Knows(worker[r]) /\ tip[r] \in Shas
      /\ seen \subseteq Shas /\ status \in [Shas -> States] /\ faults \in Nat
      /\ last \in [Refs -> MaybeSha] /\ inFlight \in [Runs -> MaybeSha]
      /\ deferred \subseteq Runs
      /\ recorded \in [Shas -> States] /\ base \in [Refs -> MaybeSha]
  BY DEF PullsInv, TypeOK, Knowing
<1>1. CASE LsRemote(r)
  <2>1. Kept(r)
    BY <1>0, <1>1 DEF LsRemote, Quiet, Kept, At, store, history
  <2>2. CASE Has(tip[r])
    <3> DEFINE w == [Idle EXCEPT !.pc = "list"]
    <3>1. w \in WorkerType /\ Knows(w)
      BY DEF Idle, WorkerType, Knows, Pcs, InRun, MaybeSha
    <3>2. worker' = [worker EXCEPT ![r] = w]
      BY <1>1, <2>2 DEF LsRemote, Become
    <3> QED
      BY <2>1, <3>1, <3>2 DEF Becomes
  <2>3. CASE ~Has(tip[r])
    <3> DEFINE w == [Idle EXCEPT !.pc = "clone", !.sampled = tip[r]]
    <3>1. w \in WorkerType /\ Knows(w)
      BY <1>0 DEF Idle, WorkerType, Knows, Pcs, InRun, MaybeSha
    <3>2. worker' = [worker EXCEPT ![r] = w]
      BY <1>1, <2>3 DEF LsRemote, Become
    <3> QED
      BY <2>1, <3>1, <3>2 DEF Becomes
  <2> QED
    BY <2>2, <2>3
<1>2. CASE CloneBranch(r)
  <2>0. worker[r].pc = "clone" /\ worker[r].pr = NoPR /\ worker[r].sampled \in Shas
    BY <1>0, <1>2 DEF CloneBranch, At, Knows
  <2>1. CASE Has(tip[r])
    <3> DEFINE w == [worker[r] EXCEPT !.pc = "list"]
    <3>1. w \in WorkerType /\ Knows(w)
      BY <1>0 DEF WorkerType, Knows, Pcs, InRun
    <3>2. worker' = [worker EXCEPT ![r].pc = "list"]
          /\ seen' = seen \cup {worker[r].sampled} /\ UNCHANGED <<last, inFlight, deferred>>
      BY <1>2, <2>1 DEF CloneBranch, Goto, Become
    <3>3. worker' = [worker EXCEPT ![r] = w]
      BY <3>2
    <3>4. Kept(r)
      BY <1>0, <1>2, <2>0, <3>2 DEF CloneBranch, Kept, At, history
    <3> QED
      BY <3>1, <3>3, <3>4 DEF Becomes
  <2>2. CASE ~Has(tip[r])
    <3> DEFINE w == [worker[r] EXCEPT !.pc = "marked", !.sha = tip[r]]
    <3>1. w \in WorkerType /\ Knows(w)
      BY <1>0, <2>0 DEF WorkerType, Knows, Pcs, InRun, MaybeSha
    <3>2. /\ worker' = [worker EXCEPT ![r] = w]
          /\ inFlight' = [inFlight EXCEPT ![r] = tip[r]] /\ UNCHANGED <<seen, last>>
          /\ deferred' = deferred \ {r}
      BY <1>2, <2>2 DEF CloneBranch, Marker, Become
    <3>3. inFlight' \in [Runs -> MaybeSha]
      BY <1>0, <3>2 DEF Runs, MaybeSha
    <3>4. Kept(r)
      BY <1>0, <1>2, <2>0, <3>2, <3>3 DEF CloneBranch, Kept, At, history
    <3> QED
      BY <3>1, <3>2, <3>4 DEF Becomes
  <2> QED
    BY <2>1, <2>2
<1>3. CASE CallFails(r)
  <2>1. Kept(r)
    BY <1>0, <1>3 DEF CallFails, Kept, At, store, history
  <2>2. CASE At(r, "list") \/ stopping
    BY <1>3, <2>1, <2>2, IdleIsWorker DEF CallFails, Leave, Become, Becomes
  <2>3. CASE ~(At(r, "list") \/ stopping)
    <3> DEFINE w == [Idle EXCEPT !.pc = "list"]
    <3>1. w \in WorkerType /\ Knows(w)
      BY DEF Idle, WorkerType, Knows, Pcs, InRun, MaybeSha
    <3>2. worker' = [worker EXCEPT ![r] = w]
      BY <1>3, <2>3 DEF CallFails, Become
    <3> QED
      BY <2>1, <3>1, <3>2 DEF Becomes
  <2> QED
    BY <2>2, <2>3
<1> QED
  BY <1>1, <1>2, <1>3 DEF ProcessBranch

LEMMA PRMoves ==
    ASSUME PullsInv, NEW r \in Refs, ProcessPRs(r)
    PROVE  Kept(r) /\ \E w : Becomes(r, w)
<1>0. /\ worker[r] \in WorkerType /\ Knows(worker[r])
      /\ seen \subseteq Shas /\ status \in [Shas -> States] /\ faults \in Nat
      /\ last \in [Refs -> MaybeSha] /\ inFlight \in [Runs -> MaybeSha]
      /\ deferred \subseteq Runs
      /\ recorded \in [Shas -> States] /\ base \in [Refs -> MaybeSha]
  BY DEF PullsInv, TypeOK, Knowing
<1>1. CASE ListOpenPRs(r)
  <2> DEFINE Q == {[pr |-> p, sha |-> head[p]] : p \in open}
             w == [Idle EXCEPT !.pc = "pulls", !.queue = Q]
  <2>0. open \subseteq PRs /\ head \in [PRs -> MaybeSha]
        /\ \A p \in PRs \ Forks : head[p] \in Shas
    BY DEF PullsInv, TypeOK, HeadsKnown
  <2>1. Q \subseteq Listing /\ \A l \in Q : l.pr \notin Forks => l.sha \in Shas
    BY <2>0 DEF Listing
  <2>2. worker' = [worker EXCEPT ![r] = w]
    BY <1>1 DEF ListOpenPRs, Become
  <2>3. Kept(r)
    BY <1>0, <1>1 DEF ListOpenPRs, Quiet, Kept, At, store, history
  <2> HIDE DEF Q
  <2>4. w \in WorkerType /\ Knows(w)
    BY <2>1 DEF Idle, WorkerType, Knows, Pcs, InRun, MaybeSha
  <2> QED
    BY <2>2, <2>3, <2>4 DEF Becomes
<1>2. CASE NoMorePRs(r)
  <2>1. Kept(r)
    BY <1>0, <1>2 DEF NoMorePRs, Quiet, Kept, At, store, history
  <2> QED
    BY <1>2, <2>1, IdleIsWorker DEF NoMorePRs, Leave, Become, Becomes
<1>3. ASSUME NEW l \in Listing, PassOver(r, l) \/ CloneCommitFails(r, l)
      PROVE  Kept(r) /\ \E w : Becomes(r, w)
  <2> DEFINE w == [worker[r] EXCEPT !.queue = @ \ {l}]
  <2>1. w \in WorkerType /\ Knows(w)
    BY <1>0 DEF WorkerType, Knows
  <2>2. worker' = [worker EXCEPT ![r] = w]
    BY <1>3 DEF PassOver, CloneCommitFails, Become
  <2>3. Kept(r)
    BY <1>0, <1>3 DEF PassOver, CloneCommitFails, Quiet, Kept, At, store, history
  <2> QED
    BY <2>1, <2>2, <2>3 DEF Becomes
<1>4. ASSUME NEW l \in Listing, CloneCommit(r, l)
      PROVE  Kept(r) /\ \E w : Becomes(r, w)
  <2> DEFINE w == [worker[r] EXCEPT !.pc = "marked", !.queue = @ \ {l},
                                    !.pr = l.pr, !.sha = l.sha]
  <2>0. /\ l.pr \in PRs /\ l.sha \in Shas
        /\ inFlight' = [inFlight EXCEPT ![l.pr] = l.sha] /\ UNCHANGED <<seen, last>>
        /\ deferred' = deferred \ {l.pr}
    BY <1>0, <1>4 DEF CloneCommit, Marker, Knows, Listing
  <2>1. w \in WorkerType /\ Knows(w)
    BY <1>0, <2>0, PullsAssumption DEF WorkerType, Knows, Pcs, InRun, MaybeSha
  <2>2. worker' = [worker EXCEPT ![r] = w]
    BY <1>4 DEF CloneCommit, Become
  <2>3. inFlight' \in [Runs -> MaybeSha]
    BY <1>0, <2>0 DEF Runs, MaybeSha
  <2>4. Kept(r)
    BY <1>0, <1>4, <2>0, <2>3 DEF CloneCommit, Kept, At, history
  <2> QED
    BY <2>1, <2>2, <2>4 DEF Becomes
<1> QED
  BY <1>1, <1>2, <1>3, <1>4 DEF ProcessPRs

LEMMA RunMoves ==
    ASSUME PullsInv, NEW r \in Refs, RunCommit(r) \/ Watch(r)
    PROVE  Kept(r) /\ \E w : Becomes(r, w)
<1>0. /\ worker[r] \in WorkerType /\ Knows(worker[r])
      /\ seen \subseteq Shas /\ status \in [Shas -> States] /\ faults \in Nat
      /\ last \in [Refs -> MaybeSha] /\ inFlight \in [Runs -> MaybeSha]
      /\ deferred \subseteq Runs
      /\ recorded \in [Shas -> States] /\ base \in [Refs -> MaybeSha]
  BY DEF PullsInv, TypeOK, Knowing
<1>1. CASE Begin(r)
  <2> DEFINE w == [worker[r] EXCEPT !.pc = "run"]
  <2>1. w \in WorkerType /\ Knows(w)
    BY <1>0, <1>1 DEF Begin, At, WorkerType, Knows, Pcs, InRun
  <2>2. worker' = [worker EXCEPT ![r] = w] /\ status' \in [Shas -> States]
    BY <1>0, <1>1 DEF Begin, Goto, Become, Post, Verdict, States
  <2>3. Kept(r)
    BY <1>0, <1>1, <2>2 DEF Begin, Kept, At, store, history
  <2> QED
    BY <2>1, <2>2, <2>3 DEF Becomes
<1>2. ASSUME NEW ok \in BOOLEAN, GateEnds(r, ok)
      PROVE  Kept(r) /\ \E w : Becomes(r, w)
  <2> DEFINE w == [worker[r] EXCEPT !.pc = "settle"]
  <2>1. w \in WorkerType /\ Knows(w)
    BY <1>0, <1>2 DEF GateEnds, At, WorkerType, Knows, Pcs, InRun
  <2>2. worker' = [worker EXCEPT ![r] = w] /\ status' \in [Shas -> States]
    BY <1>0, <1>2 DEF GateEnds, Goto, Become, Post, Verdict, States
  <2>3. Kept(r)
    BY <1>0, <1>2, <2>2 DEF GateEnds, Kept, At, store, history
  <2> QED
    BY <2>1, <2>2, <2>3 DEF Becomes
<1>3. CASE GateCut(r) /\ worker[r].cut
  <2> DEFINE w == [worker[r] EXCEPT !.pc = "abandon"]
  <2>1. w \in WorkerType /\ Knows(w)
    BY <1>0, <1>3 DEF GateCut, At, WorkerType, Knows, Pcs, InRun
  <2>2. worker' = [worker EXCEPT ![r] = w] /\ status' \in [Shas -> States]
    BY <1>0, <1>3 DEF GateCut, Goto, Become, Post, States
  <2>3. Kept(r)
    BY <1>0, <1>3, <2>2 DEF GateCut, Kept, At, store, history
  <2> QED
    BY <2>1, <2>2, <2>3 DEF Becomes
<1>4. CASE GateCut(r) /\ ~worker[r].cut
  <2>1. Kept(r)
    BY <1>0, <1>4 DEF GateCut, Kept, At, store, history
  <2> QED
    BY <1>4, <2>1, IdleIsWorker DEF GateCut, Leave, Become, Becomes
<1>5. CASE Watch(r)
  <2> DEFINE w == [worker[r] EXCEPT !.cut = TRUE]
  <2>1. w \in WorkerType /\ Knows(w)
    BY <1>0 DEF WorkerType, Knows
  <2>2. worker' = [worker EXCEPT ![r] = w]
    BY <1>5 DEF Watch, Become
  <2>3. Kept(r)
    BY <1>0, <1>5 DEF Watch, Quiet, Kept, InRun, store, history
  <2> QED
    BY <2>1, <2>2, <2>3 DEF Becomes
<1> QED
  BY <1>1, <1>2, <1>3, <1>4, <1>5 DEF RunCommit

LEMMA EndMoves ==
    ASSUME PullsInv, NEW r \in Refs, EndRun(r)
    PROVE  Kept(r) /\ \E w : Becomes(r, w)
<1>0. /\ worker[r] \in WorkerType /\ Knows(worker[r])
      /\ seen \subseteq Shas /\ status \in [Shas -> States] /\ faults \in Nat
      /\ last \in [Refs -> MaybeSha] /\ inFlight \in [Runs -> MaybeSha]
      /\ deferred \subseteq Runs
      /\ recorded \in [Shas -> States] /\ base \in [Refs -> MaybeSha]
  BY DEF PullsInv, TypeOK, Knowing
<1>a. worker[r].cut \in BOOLEAN /\ RunKey(r) \in Runs
  BY <1>0 DEF WorkerType, RunKey, Runs
<1>b. ASSUME Marker(RunKey(r), NoSha)
      PROVE  /\ inFlight' \in [Runs -> MaybeSha] /\ UNCHANGED <<seen, last>>
             /\ deferred' \subseteq Runs
  BY <1>0, <1>b DEF Marker, MaybeSha
<1>1. CASE Abandon(r)
  <2>1. Kept(r)
    BY <1>0, <1>1, <1>b DEF Abandon, Kept, At, history
  <2> QED
    BY <1>1, <2>1, ResumeBecomes DEF Abandon
<1>2. CASE SettleStop(r)
  <2>1. Kept(r)
    BY <1>0, <1>2 DEF SettleStop, Quiet, Kept, At, store, history
  <2> QED
    BY <1>2, <2>1, IdleIsWorker DEF SettleStop, Leave, Become, Becomes
<1>3. CASE Record(r)
  <2> DEFINE w == [worker[r] EXCEPT !.pc = "clear", !.prev = last[r]]
  <2>0. worker[r].pc = "settle" /\ worker[r].sha \in Shas
    BY <1>0, <1>3 DEF Record, At, Knows, InRun
  <2>1. w \in WorkerType /\ Knows(w)
    BY <1>0, <2>0 DEF WorkerType, Knows, Pcs, InRun
  <2>2. worker' = [worker EXCEPT ![r] = w]
    BY <1>3 DEF Record, Become
  <2>3. seen' \subseteq Shas /\ last' \in [Refs -> MaybeSha]
        /\ base' \in [Refs -> MaybeSha]
    <3>1. CASE worker[r].pr # NoPR
      BY <1>0, <1>3, <2>0, <3>1 DEF Record
    <3>2. CASE worker[r].pr = NoPR
      <4>1. worker[r].sampled \in Shas
        BY <1>0, <2>0, <3>2 DEF Knows, InRun
      <4> QED
        BY <1>0, <1>3, <2>0, <3>2, <4>1 DEF Record, MaybeSha
    <3> QED
      BY <3>1, <3>2
  <2>4. recorded' \in [Shas -> States]
    BY <1>0, <1>3, <2>0 DEF Record
  <2>5. mode = "poll" /\ UNCHANGED <<github, status, inFlight, deferred, sched, env, faults>>
    BY <1>3 DEF Record, At
  <2>6. Kept(r)
    BY <1>0, <2>0, <2>3, <2>4, <2>5 DEF Kept
  <2> QED
    BY <2>1, <2>2, <2>6 DEF Becomes
<1>4. CASE Clear(r)
  <2>1. Kept(r)
    BY <1>0, <1>4, <1>b DEF Clear, Kept, At, history
  <2>2. CASE Goto(r, "compare")
    <3> DEFINE w == [worker[r] EXCEPT !.pc = "compare"]
    <3>1. w \in WorkerType /\ Knows(w)
      BY <1>0, <1>4 DEF Clear, At, WorkerType, Knows, Pcs, InRun
    <3>2. worker' = [worker EXCEPT ![r] = w]
      BY <2>2 DEF Goto, Become
    <3> QED
      BY <2>1, <3>1, <3>2 DEF Becomes
  <2> QED
    BY <1>4, <1>a, <2>1, <2>2, ResumeBecomes DEF Clear
<1> QED
  BY <1>1, <1>2, <1>3, <1>4 DEF EndRun

LEMMA SkipMoves ==
    ASSUME PullsInv, NEW r \in Refs, MarkSkipped(r)
    PROVE  Kept(r) /\ \E w : Becomes(r, w)
<1>0. /\ worker[r] \in WorkerType /\ Knows(worker[r])
      /\ seen \subseteq Shas /\ status \in [Shas -> States] /\ faults \in Nat
      /\ last \in [Refs -> MaybeSha] /\ inFlight \in [Runs -> MaybeSha]
      /\ deferred \subseteq Runs
      /\ recorded \in [Shas -> States] /\ base \in [Refs -> MaybeSha]
  BY DEF PullsInv, TypeOK, Knowing
<1>a. worker[r].cut \in BOOLEAN
  BY <1>0 DEF WorkerType
<1>1. CASE Compare(r)
  <2>1. Kept(r)
    BY <1>0, <1>1 DEF Compare, Kept, At, store, history
  <2>2. CASE Resume(r, worker[r].cut)
    BY <1>a, <2>1, <2>2, ResumeBecomes
  <2>3. CASE ~Resume(r, worker[r].cut)
    <3> DEFINE S == (Reach[worker[r].sha] \ Reach[worker[r].prev]) \ {worker[r].sha}
               w == [worker[r] EXCEPT !.pc = "skip", !.skip = S]
    <3>0. worker[r].pc = "compare" /\ worker[r].sha \in Shas
      BY <1>0, <1>1 DEF Compare, At, Knows
    <3>1. S \subseteq Shas
      BY <3>0, PullsAssumption
    <3>2. w \in WorkerType /\ Knows(w)
      BY <1>0, <3>0, <3>1 DEF WorkerType, Knows, Pcs, InRun
    <3>3. worker' = [worker EXCEPT ![r] = w]
      BY <1>1, <2>3 DEF Compare, Become
    <3> QED
      BY <2>1, <3>2, <3>3 DEF Becomes
  <2> QED
    BY <2>2, <2>3
<1>2. ASSUME NEW s \in Shas, Skip(r, s)
      PROVE  Kept(r) /\ \E w : Becomes(r, w)
  <2> DEFINE w == [worker[r] EXCEPT !.skip = @ \ {s}]
  <2>1. w \in WorkerType /\ Knows(w)
    BY <1>0 DEF WorkerType, Knows
  <2>2. worker' = [worker EXCEPT ![r] = w] /\ status' \in [Shas -> States]
    BY <1>0, <1>2 DEF Skip, Become, Post, States
  <2>3. Kept(r)
    BY <1>0, <1>2, <2>2 DEF Skip, Kept, At, store, history
  <2> QED
    BY <2>1, <2>2, <2>3 DEF Becomes
<1>3. CASE EndSkip(r)
  <2>1. Kept(r)
    BY <1>0, <1>3 DEF EndSkip, Quiet, Kept, At, store, history
  <2> QED
    BY <1>3, <1>a, <2>1, ResumeBecomes DEF EndSkip
<1> QED
  BY <1>1, <1>2, <1>3 DEF MarkSkipped

LEMMA WorkerMoves ==
    ASSUME PullsInv, NEW r \in Refs, Worker(r) \/ Watch(r)
    PROVE  Kept(r) /\ \E w : Becomes(r, w)
BY BranchMoves, PRMoves, RunMoves, EndMoves, SkipMoves DEF Worker

-----------------------------------------------------------------------------
(* Type correctness.                                                       *)

LEMMA InitPulls == Init => PullsInv
<1> SUFFICES ASSUME Init PROVE PullsInv
  OBVIOUS
<1>1. TypeOK
  BY IdleIsWorker, PullsAssumption DEF Init, TypeOK, MaybeSha, States
<1>2. HeadsKnown
  BY DEF Init, HeadsKnown, MaybeSha
<1>3. Knowing /\ PollOnly
  BY IdleIsWorker DEF Init, Knowing, PollOnly, Idle
<1> QED
  BY <1>1, <1>2, <1>3 DEF PullsInv

\* The process ends, with all of its workers.
LEMMA DownStep ==
    ASSUME PullsInv, Down, stops' \in Nat
    PROVE  PullsInv'
<1>1. TypeOK'
  BY IdleIsWorker DEF PullsInv, TypeOK, Down, github, store, history
<1>2. HeadsKnown'
  BY DEF PullsInv, HeadsKnown, Down, github
<1>3. Knowing' /\ PollOnly'
  BY IdleIsWorker DEF Down, Knowing, PollOnly, Idle
<1> QED
  BY <1>1, <1>2, <1>3 DEF PullsInv

\* What the visit of a marker changes.
LEMMA Visits ==
    ASSUME PullsInv, NEW k \in Runs, Reconcile(k)
    PROVE  /\ Visit(k) /\ UNCHANGED <<seen, last>>
           /\ status' \in [Shas -> States] /\ inFlight' \in [Runs -> MaybeSha]
           /\ deferred' \subseteq Runs /\ faults' \in Nat /\ faults <= faults'
           /\ todo' \subseteq Runs
           /\ \A s \in Shas : \/ status'[s] = status[s]
                              \/ status[s] = "pending" /\ status'[s] = "error"
           /\ \A m \in Runs : m # k => inFlight'[m] = inFlight[m]
<1> USE DEF PullsInv, TypeOK, Visit
<1>1. CASE ReconcileTip(k)
  BY <1>1 DEF ReconcileTip, Marker, MaybeSha
<1>2. CASE ReconcileStale(k)
  BY <1>2 DEF ReconcileStale, Marker, Post, MaybeSha, States
<1>3. CASE ReconcileKeep(k)
  BY <1>3 DEF ReconcileKeep
<1> QED
  BY <1>1, <1>2, <1>3 DEF Reconcile

LEMMA ReconcileTypes ==
    ASSUME PullsInv, NEW k \in Runs, Reconcile(k)
    PROVE  PullsInv'
<1>1. TypeOK'
  BY Visits DEF PullsInv, TypeOK, Visit, github, history, env
<1>2. HeadsKnown' /\ Knowing' /\ PollOnly'
  BY Visits DEF PullsInv, HeadsKnown, Knowing, PollOnly, Visit, github
<1> QED
  BY <1>1, <1>2 DEF PullsInv

LEMMA DispatchTypes ==
    ASSUME PullsInv, NEW r \in Refs, Dispatch(r)
    PROVE  PullsInv'
<1> DEFINE w == [worker[r] EXCEPT !.pc = "poll"]
<1>1. w \in WorkerType /\ Knows(w)
  BY DEF PullsInv, TypeOK, Knowing, WorkerType, Knows, Pcs, InRun
<1>2. worker' = [worker EXCEPT ![r] = w]
  BY DEF Dispatch, Goto, Become
<1>3. TypeOK'
  BY <1>1, <1>2 DEF PullsInv, TypeOK, Dispatch, github, store, history, env
<1>4. HeadsKnown' /\ PollOnly'
  BY DEF PullsInv, HeadsKnown, PollOnly, Dispatch, github
<1>5. Knowing'
  BY <1>1, <1>2 DEF PullsInv, TypeOK, Knowing
<1> QED
  BY <1>3, <1>4, <1>5 DEF PullsInv

LEMMA WorkerTypes ==
    ASSUME PullsInv, NEW r \in Refs, Kept(r), NEW w, Becomes(r, w)
    PROVE  PullsInv'
<1>1. TypeOK'
  BY DEF PullsInv, TypeOK, Kept, Becomes, github, sched, env
<1>2. HeadsKnown' /\ PollOnly'
  BY DEF PullsInv, HeadsKnown, PollOnly, Kept, github, sched
<1>3. Knowing'
  BY DEF PullsInv, TypeOK, Knowing, Becomes
<1> QED
  BY <1>1, <1>2, <1>3 DEF PullsInv

LEMMA PullsStep == PullsInv /\ [Next]_vars => PullsInv'
<1> SUFFICES ASSUME PullsInv, [Next]_vars PROVE PullsInv'
  OBVIOUS
<1>1. CASE Users
  <2>1. tip' \in [Refs -> Shas] /\ head' \in [PRs -> MaybeSha] /\ open' \subseteq PRs
    BY <1>1 DEF PullsInv, TypeOK, Users, Push, PushHead, Close, MaybeSha
  <2>2. HeadsKnown'
    BY <1>1 DEF PullsInv, TypeOK, HeadsKnown, Users, Push, PushHead, Close
  <2>3. TypeOK'
    BY <1>1, <2>1 DEF PullsInv, TypeOK, Users, store, sched, history
  <2>4. Knowing' /\ PollOnly'
    BY <1>1 DEF PullsInv, Knowing, PollOnly, Users, sched
  <2> QED
    BY <2>2, <2>3, <2>4 DEF PullsInv
<1>2. CASE Terminate
  <2>1. TypeOK'
    BY <1>2 DEF PullsInv, TypeOK, Terminate, github, store, history
  <2>2. HeadsKnown' /\ Knowing' /\ PollOnly'
    BY <1>2 DEF PullsInv, HeadsKnown, Knowing, PollOnly, Terminate, github
  <2> QED
    BY <2>1, <2>2 DEF PullsInv
<1>3. CASE Crash \/ Exit
  <2>1. Down /\ stops' \in Nat
    BY <1>3 DEF PullsInv, TypeOK, Crash, Exit
  <2> QED
    BY <2>1, DownStep
<1>4. CASE Start
  <2>1. TypeOK'
    BY <1>4 DEF PullsInv, TypeOK, Start, github, store, history, env
  <2>2. HeadsKnown' /\ Knowing' /\ PollOnly'
    BY <1>4 DEF PullsInv, HeadsKnown, Knowing, PollOnly, Start, github
  <2> QED
    BY <2>1, <2>2 DEF PullsInv
<1>5. CASE Sweep
  <2>1. TypeOK'
    BY <1>5 DEF PullsInv, TypeOK, Sweep, github, store, history, env
  <2>2. HeadsKnown' /\ Knowing' /\ PollOnly'
    BY <1>5 DEF PullsInv, HeadsKnown, Knowing, PollOnly, Sweep, github
  <2> QED
    BY <2>1, <2>2 DEF PullsInv
<1>6. CASE \E k \in Runs : Reconcile(k)
  BY <1>6, ReconcileTypes
<1>7. ASSUME NEW r \in Refs, Dispatch(r)
      PROVE  PullsInv'
  BY <1>7, DispatchTypes
<1>8. ASSUME NEW r \in Refs, Worker(r) \/ Watch(r)
      PROVE  PullsInv'
  BY <1>8, WorkerMoves, WorkerTypes
<1>9. CASE UNCHANGED vars
  <2>1. TypeOK'
    BY <1>9 DEF PullsInv, TypeOK, vars
  <2>2. HeadsKnown' /\ Knowing' /\ PollOnly'
    BY <1>9 DEF PullsInv, HeadsKnown, Knowing, PollOnly, vars
  <2> QED
    BY <2>1, <2>2 DEF PullsInv
<1> QED
  BY <1>1, <1>2, <1>3, <1>4, <1>5, <1>6, <1>7, <1>8, <1>9 DEF Next, Main

\* Every reachable state has the declared types, heads and commits included: no
\* run, record or marker is ever of the missing head of a fork (processPRs).
THEOREM TypeCorrect == Spec => []TypeOK
<1>1. PullsInv => TypeOK
  BY DEF PullsInv
<1> QED
  BY <1>1, InitPulls, PullsStep, PTL DEF Spec

-----------------------------------------------------------------------------
(* One worker at a time.                                                   *)

\* What worker r, changed to w, owes to SoloInv.
Owes(r, w) ==
    /\ w.pc \in InRun => w.sha \notin seen'
    /\ w.pc = "settle" => status'[w.sha] \in {"success", "failure"}

Told1(r) ==
    /\ worker[r].pc \in InRun => worker[r].sha \notin seen
    /\ worker[r].pc = "settle" => status[worker[r].sha] \in {"success", "failure"}

\* A step that posts and records nothing, and leaves a run where it was.
LEMMA SilentStep ==
    ASSUME PullsInv, Told, NEW r \in Refs, Told1(r), NEW w, Becomes(r, w),
           w.pc \in InRun => w.pc = worker[r].pc /\ w.sha = worker[r].sha,
           UNCHANGED <<status, seen, recorded>>
    PROVE  Told' /\ Owes(r, worker'[r])
<1>1. worker'[r] = w
  BY DEF PullsInv, TypeOK, Becomes
<1>2. Owes(r, worker'[r])
  BY <1>1 DEF Owes, Told1, InRun
<1>3. Told'
  BY DEF Told, RecordedIsSeen, RecordedIsFinal, RecordedVerdictStands
<1> QED
  BY <1>2, <1>3

\* A post on a commit that is not recorded.
LEMMA PostTold ==
    ASSUME PullsInv, Told, NEW s \in Shas, s \notin seen, NEW st, Post(s, st),
           UNCHANGED <<seen, recorded>>
    PROVE  Told'
<1>1. recorded[s] = "none"
  BY DEF Told, RecordedIsSeen
<1>2. \A t \in Shas : t # s => status'[t] = status[t]
  BY DEF PullsInv, TypeOK, Post
<1> QED
  BY <1>1, <1>2 DEF Told, RecordedIsSeen, RecordedIsFinal, RecordedVerdictStands

\* The steps that post and record nothing.
Silent(r) ==
    \/ LsRemote(r) \/ CallFails(r) \/ ListOpenPRs(r) \/ NoMorePRs(r)
    \/ (\E l \in Listing : PassOver(r, l) \/ CloneCommitFails(r, l))
    \/ Watch(r)
    \/ GateCut(r) /\ ~worker[r].cut
    \/ Abandon(r) \/ SettleStop(r) \/ Clear(r) \/ Compare(r) \/ EndSkip(r)

LEMMA BecomeIs ==
    ASSUME PullsInv, NEW r \in Refs, NEW w, Become(r, w)
    PROVE  worker'[r] = w
BY DEF PullsInv, TypeOK, Become

LEMMA GotoIs ==
    ASSUME PullsInv, NEW r \in Refs, NEW pc, Goto(r, pc)
    PROVE  /\ worker'[r].pc = pc /\ worker'[r].pr = worker[r].pr
           /\ worker'[r].sha = worker[r].sha /\ worker'[r].prev = worker[r].prev
BY BecomeIs DEF Goto, PullsInv, TypeOK, WorkerType

LEMMA ResumeIs ==
    ASSUME PullsInv, NEW r \in Refs, NEW b, Resume(r, b)
    PROVE  worker'[r].pc \in {"pulls", "poll", "list"}
<1>1. CASE worker[r].pr # NoPR
  <2> DEFINE w == [Idle EXCEPT !.pc = "pulls", !.queue = worker[r].queue]
  <2>1. worker' = [worker EXCEPT ![r] = w]
    BY <1>1 DEF Resume, Become
  <2>2. w.pc = "pulls"
    BY DEF Idle
  <2> QED
    BY <2>1, <2>2 DEF PullsInv, TypeOK
<1>2. CASE worker[r].pr = NoPR
  <2>1. PICK p \in {"poll", "list"} :
           worker' = [worker EXCEPT ![r] = [Idle EXCEPT !.pc = p]]
    BY <1>2 DEF Resume, Become
  <2>2. [Idle EXCEPT !.pc = p].pc = p
    BY DEF Idle
  <2> QED
    BY <2>1, <2>2 DEF PullsInv, TypeOK
<1> QED
  BY <1>1, <1>2

LEMMA ResumeLeaves ==
    ASSUME PullsInv, NEW r \in Refs, NEW b, Resume(r, b)
    PROVE  worker'[r].pc \notin InRun
BY ResumeIs DEF InRun

LEMMA SilentLeaves ==
    ASSUME PullsInv, NEW r \in Refs, Silent(r)
    PROVE  /\ UNCHANGED <<status, seen, recorded>>
           /\ worker'[r].pc \in InRun =>
                 /\ worker'[r].pc = worker[r].pc /\ worker'[r].sha = worker[r].sha
<1>0. worker \in [Refs -> WorkerType]
  BY DEF PullsInv, TypeOK
<1>1. CASE LsRemote(r) \/ CallFails(r)
  <2>1. UNCHANGED <<status, seen, recorded>>
    BY <1>1 DEF LsRemote, CallFails, Quiet, store, history
  <2>2. \/ Become(r, Idle) \/ Become(r, [Idle EXCEPT !.pc = "list"])
        \/ Become(r, [Idle EXCEPT !.pc = "clone", !.sampled = tip[r]])
    BY <1>1 DEF LsRemote, CallFails, Leave
  <2>3. /\ Idle.pc = "idle" /\ [Idle EXCEPT !.pc = "list"].pc = "list"
        /\ [Idle EXCEPT !.pc = "clone", !.sampled = tip[r]].pc = "clone"
    BY DEF Idle
  <2> QED
    BY <2>1, <2>2, <2>3, BecomeIs DEF InRun
<1>2. CASE ListOpenPRs(r) \/ NoMorePRs(r)
  <2>1. UNCHANGED <<status, seen, recorded>>
    BY <1>2 DEF ListOpenPRs, NoMorePRs, Quiet, store, history
  <2> DEFINE Q == {[pr |-> p, sha |-> head[p]] : p \in open}
  <2>2. Become(r, Idle) \/ Become(r, [Idle EXCEPT !.pc = "pulls", !.queue = Q])
    BY <1>2 DEF ListOpenPRs, NoMorePRs, Leave
  <2> HIDE DEF Q
  <2>3. Idle.pc = "idle" /\ [Idle EXCEPT !.pc = "pulls", !.queue = Q].pc = "pulls"
    BY DEF Idle
  <2> QED
    BY <2>1, <2>2, <2>3, BecomeIs DEF InRun
<1>3. ASSUME NEW l \in Listing, PassOver(r, l) \/ CloneCommitFails(r, l)
      PROVE  /\ UNCHANGED <<status, seen, recorded>>
             /\ worker'[r].pc \notin InRun
  BY <1>0, <1>3 DEF PassOver, CloneCommitFails, Quiet, store, history, Become,
                    At, InRun, WorkerType
<1>4. CASE Watch(r)
  BY <1>0, <1>4 DEF Watch, Quiet, store, history, Become, WorkerType
<1>5. CASE GateCut(r) /\ ~worker[r].cut
  BY <1>0, <1>5 DEF GateCut, store, history, Become, Leave, Idle, InRun
<1>6. CASE Abandon(r)
  BY <1>6, ResumeLeaves DEF Abandon, Marker, history
<1>7. CASE SettleStop(r)
  BY <1>0, <1>7 DEF SettleStop, Quiet, store, history, Become, Leave, Idle, InRun
<1>8. CASE Clear(r)
  <2>1. UNCHANGED <<status, seen, recorded>>
    BY <1>8 DEF Clear, Marker, history
  <2>2. CASE Goto(r, "compare")
    BY <1>0, <2>1, <2>2 DEF Goto, Become, InRun, WorkerType
  <2> QED
    BY <1>8, <2>1, <2>2, ResumeLeaves DEF Clear
<1>9. CASE Compare(r)
  <2>1. UNCHANGED <<status, seen, recorded>>
    BY <1>9 DEF Compare, store, history
  <2>2. CASE ~Resume(r, worker[r].cut)
    <3> DEFINE S == (Reach[worker[r].sha] \ Reach[worker[r].prev]) \ {worker[r].sha}
    <3>1. worker' = [worker EXCEPT ![r] = [worker[r] EXCEPT !.pc = "skip", !.skip = S]]
      BY <1>9, <2>2 DEF Compare, Become
    <3> HIDE DEF S
    <3>2. worker'[r].pc = "skip"
      BY <1>0, <3>1 DEF WorkerType
    <3> QED
      BY <2>1, <3>2 DEF InRun
  <2> QED
    BY <2>1, <2>2, ResumeLeaves
<1>10. CASE EndSkip(r)
  BY <1>10, ResumeLeaves DEF EndSkip, Quiet, store, history
<1> QED
  BY <1>1, <1>2, <1>3, <1>4, <1>5, <1>6, <1>7, <1>8, <1>9, <1>10 DEF Silent

LEMMA WorkerTells ==
    ASSUME PullsInv, Told, NEW r \in Refs, Told1(r), Worker(r) \/ Watch(r)
    PROVE  Told' /\ Owes(r, worker'[r])
<1>0. /\ worker \in [Refs -> WorkerType] /\ worker[r] \in WorkerType
      /\ Knows(worker[r]) /\ tip[r] \in Shas /\ seen \subseteq Shas
      /\ status \in [Shas -> States] /\ recorded \in [Shas -> States]
  BY DEF PullsInv, TypeOK, Knowing
<1>1. CASE Silent(r)
  <2>1. PICK w : Becomes(r, w)
    BY WorkerMoves
  <2>2. worker'[r] = w
    BY <1>0, <2>1 DEF Becomes
  <2>3. /\ UNCHANGED <<status, seen, recorded>>
        /\ w.pc \in InRun => w.pc = worker[r].pc /\ w.sha = worker[r].sha
    BY <1>1, <2>2, SilentLeaves
  <2> QED
    BY <2>1, <2>3, SilentStep
<1>2. CASE CloneBranch(r)
  <2>1. seen \subseteq seen' /\ UNCHANGED <<status, recorded>>
    BY <1>2 DEF CloneBranch, Marker, history
  <2>2. Told'
    BY <2>1 DEF Told, RecordedIsSeen, RecordedIsFinal, RecordedVerdictStands
  <2>3. CASE Has(tip[r])
    <3>1. worker' = [worker EXCEPT ![r].pc = "list"]
      BY <1>2, <2>3 DEF CloneBranch, Goto, Become
    <3>2. worker'[r].pc = "list"
      BY <1>0, <3>1 DEF WorkerType
    <3> QED
      BY <2>2, <3>2 DEF Owes, InRun
  <2>4. CASE ~Has(tip[r])
    <3>1. worker' = [worker EXCEPT ![r] =
                        [worker[r] EXCEPT !.pc = "marked", !.sha = tip[r]]]
          /\ seen' = seen
      BY <1>2, <2>4 DEF CloneBranch, Marker, Become
    <3>2. worker'[r].pc = "marked" /\ worker'[r].sha = tip[r]
      BY <1>0, <3>1 DEF WorkerType
    <3> QED
      BY <2>2, <2>4, <3>1, <3>2 DEF Owes, Has
  <2> QED
    BY <2>3, <2>4
<1>3. ASSUME NEW l \in Listing, CloneCommit(r, l)
      PROVE  Told' /\ Owes(r, worker'[r])
  <2>1. UNCHANGED <<seen, status, recorded>> /\ l.sha \notin seen
    BY <1>3 DEF CloneCommit, Marker, history, Has
  <2>2. Told'
    BY <2>1 DEF Told, RecordedIsSeen, RecordedIsFinal, RecordedVerdictStands
  <2>3. worker'[r].pc = "marked" /\ worker'[r].sha = l.sha
    BY <1>0, <1>3 DEF CloneCommit, Become, WorkerType
  <2> QED
    BY <2>1, <2>2, <2>3 DEF Owes
<1>4. CASE \/ Begin(r) \/ (\E ok \in BOOLEAN : GateEnds(r, ok))
           \/ GateCut(r) /\ worker[r].cut
  <2>1. worker[r].pc \in {"marked", "run"}
    BY <1>4 DEF Begin, GateEnds, GateCut, At
  <2>2. worker[r].sha \in Shas /\ worker[r].sha \notin seen
    BY <1>0, <2>1 DEF Told1, Knows, InRun
  <2>3. PICK st, pc :
           /\ Post(worker[r].sha, st) /\ Goto(r, pc)
           /\ pc = "settle" => st \in {"success", "failure"}
    BY <1>4 DEF Begin, GateEnds, GateCut, Verdict
  <2>4. UNCHANGED <<seen, recorded>>
    BY <1>4 DEF Begin, GateEnds, GateCut, store, history
  <2>5. Told'
    BY <2>2, <2>3, <2>4, PostTold
  <2>6. /\ worker'[r].pc = pc /\ worker'[r].sha = worker[r].sha
        /\ status'[worker[r].sha] = st
    BY <1>0, <2>2, <2>3 DEF Goto, Become, WorkerType, Post
  <2> QED
    BY <2>2, <2>3, <2>4, <2>5, <2>6 DEF Owes
<1>5. CASE Record(r)
  <2>1. worker[r].pc = "settle" /\ worker[r].sha \in Shas
        /\ status[worker[r].sha] \in {"success", "failure"}
    BY <1>0, <1>5 DEF Record, At, Knows, InRun, Told1
  <2>2. /\ recorded' = [recorded EXCEPT ![worker[r].sha] = status[worker[r].sha]]
        /\ seen \subseteq seen' /\ worker[r].sha \in seen' /\ status' = status
    BY <1>5 DEF Record
  <2>3. worker'[r].pc = "clear"
    BY <1>0, <1>5 DEF Record, Become, WorkerType
  <2>4. Told'
    BY <1>0, <2>1, <2>2
       DEF Told, RecordedIsSeen, RecordedIsFinal, RecordedVerdictStands
  <2> QED
    BY <2>3, <2>4 DEF Owes, InRun
<1>6. ASSUME NEW s \in Shas, Skip(r, s)
      PROVE  Told' /\ Owes(r, worker'[r])
  <2>1. UNCHANGED <<seen, recorded>>
    BY <1>6 DEF Skip, store, history
  <2>2. ASSUME Has(s) PROVE Told'
    BY <1>6, <2>1, <2>2
       DEF Skip, Told, RecordedIsSeen, RecordedIsFinal, RecordedVerdictStands
  <2>3. ASSUME ~Has(s) PROVE Told'
    BY <1>6, <2>1, <2>3, PostTold DEF Skip, Has
  <2>4. worker'[r].pc = "skip"
    BY <1>0, <1>6 DEF Skip, At, Become, WorkerType
  <2> QED
    BY <2>2, <2>3, <2>4 DEF Owes, InRun
<1>7. \/ Silent(r) \/ CloneBranch(r) \/ (\E l \in Listing : CloneCommit(r, l))
      \/ Begin(r) \/ (\E ok \in BOOLEAN : GateEnds(r, ok))
      \/ GateCut(r) /\ worker[r].cut
      \/ Record(r) \/ \E s \in Shas : Skip(r, s)
  <2>1. CASE ProcessBranch(r) \/ CallFails(r)
    BY <2>1 DEF ProcessBranch, Silent
  <2>2. CASE ProcessPRs(r)
    BY <2>2 DEF ProcessPRs, Silent
  <2>3. CASE RunCommit(r) \/ Watch(r)
    BY <2>3 DEF RunCommit, Silent
  <2>4. CASE EndRun(r) \/ MarkSkipped(r)
    BY <2>4 DEF EndRun, MarkSkipped, Silent
  <2> QED
    BY <2>1, <2>2, <2>3, <2>4 DEF Worker
<1> QED
  BY <1>1, <1>2, <1>3, <1>4, <1>5, <1>6, <1>7

\* The step of the one busy worker.
LEMMA WorkerAlone ==
    ASSUME PullsInv, SoloInv, NEW r \in Refs, Worker(r) \/ Watch(r)
    PROVE  SoloInv'
<1>1. PICK w : Kept(r) /\ Becomes(r, w)
  BY WorkerMoves
<1>2. /\ \A q \in Refs : worker'[q] = IF q = r THEN w ELSE worker[q]
      /\ \A q \in Refs : q # r => worker[q].pc = "idle"
  BY <1>1 DEF PullsInv, TypeOK, Becomes, Kept, SoloInv, Solo
<1>3. Told1(r)
  BY DEF SoloInv, RunsUnrecordedOnly, SettledIsFinal, Told1
<1>4. Told' /\ Owes(r, worker'[r])
  BY <1>3, WorkerTells DEF SoloInv
<1>5. Solo' /\ RunsUnrecordedOnly' /\ SettledIsFinal'
  BY <1>2, <1>4 DEF Solo, RunsUnrecordedOnly, SettledIsFinal, Owes, InRun
<1> QED
  BY <1>4, <1>5 DEF SoloInv

\* Only an idle sweep dispatches.
LEMMA AllIdle ==
    ASSUME Serial, NEW r \in Refs, Dispatch(r)
    PROVE  \A q \in Refs : worker[q].pc = "idle"
<1>1. Busy \subseteq Refs /\ IsFiniteSet(Busy)
  BY FS_Subset DEF Busy, Serial
<1>2. Cardinality(Busy) = 0
  BY <1>1, FS_CardinalityType DEF Dispatch, Serial
<1> QED
  BY <1>1, <1>2, FS_EmptySet DEF Busy

LEMMA DispatchAlone ==
    ASSUME PullsInv, SoloInv, Serial, NEW r \in Refs, Dispatch(r)
    PROVE  SoloInv'
<1>3. \A q \in Refs : worker[q].pc = "idle"
  BY AllIdle
<1>4. \A q \in Refs : worker'[q].pc = IF q = r THEN "poll" ELSE "idle"
  BY <1>3 DEF PullsInv, TypeOK, Dispatch, Goto, Become, WorkerType
<1>5. Solo' /\ RunsUnrecordedOnly' /\ SettledIsFinal'
  BY <1>4 DEF Solo, RunsUnrecordedOnly, SettledIsFinal, InRun
<1>6. Told'
  BY DEF SoloInv, Told, RecordedIsSeen, RecordedIsFinal, RecordedVerdictStands,
         Dispatch, store, history
<1> QED
  BY <1>5, <1>6 DEF SoloInv

\* Start-up posts on pending commits only, and no verdict is pending.
LEMMA ReconcileAlone ==
    ASSUME PullsInv, SoloInv, NEW k \in Runs, Reconcile(k)
    PROVE  SoloInv'
<1>1. UNCHANGED <<seen, recorded, worker>> /\ \A r \in Refs : worker[r].pc = "idle"
  BY Visits DEF PullsInv, PollOnly, Visit, history
<1>2. Solo' /\ RunsUnrecordedOnly' /\ SettledIsFinal'
  BY <1>1 DEF Solo, RunsUnrecordedOnly, SettledIsFinal, InRun
<1>3. \A s \in Shas : status[s] # "pending" => status'[s] = status[s]
  BY Visits
<1>4. Told'
  BY <1>1, <1>3 DEF SoloInv, Told, RecordedIsSeen, RecordedIsFinal,
                    RecordedVerdictStands
<1> QED
  BY <1>2, <1>4 DEF SoloInv

LEMMA InitAlone == Init => SoloInv
BY DEF Init, SoloInv, Solo, RunsUnrecordedOnly, SettledIsFinal, Told,
       RecordedIsSeen, RecordedIsFinal, RecordedVerdictStands, Idle, InRun

LEMMA SoloStep == PullsInv /\ SoloInv /\ Serial /\ [Next]_vars => SoloInv'
<1> SUFFICES ASSUME PullsInv, SoloInv, Serial, [Next]_vars PROVE SoloInv'
  OBVIOUS
<1>1. ASSUME UNCHANGED <<status, seen, recorded, worker>>
      PROVE  SoloInv'
  BY <1>1 DEF SoloInv, Solo, RunsUnrecordedOnly, SettledIsFinal, Told,
              RecordedIsSeen, RecordedIsFinal, RecordedVerdictStands
<1>2. CASE Users \/ Terminate \/ Start \/ Sweep \/ UNCHANGED vars
  BY <1>1, <1>2 DEF Users, Terminate, Start, Sweep, vars, store, history
<1>3. CASE Crash \/ Exit
  <2>1. UNCHANGED <<status, seen, recorded>> /\ worker' = [r \in Refs |-> Idle]
    BY <1>3 DEF Crash, Exit, Down, store, history
  <2>2. Told'
    BY <2>1 DEF SoloInv, Told, RecordedIsSeen, RecordedIsFinal,
                RecordedVerdictStands
  <2>3. Solo' /\ RunsUnrecordedOnly' /\ SettledIsFinal'
    BY <2>1 DEF Solo, RunsUnrecordedOnly, SettledIsFinal, InRun, Idle
  <2> QED
    BY <2>2, <2>3 DEF SoloInv
<1>4. CASE \E k \in Runs : Reconcile(k)
  BY <1>4, ReconcileAlone
<1>5. ASSUME NEW r \in Refs, Dispatch(r)
      PROVE  SoloInv'
  BY <1>5, DispatchAlone
<1>6. ASSUME NEW r \in Refs, Worker(r) \/ Watch(r)
      PROVE  SoloInv'
  BY <1>6, WorkerAlone
<1> QED
  BY <1>2, <1>3, <1>4, <1>5, <1>6 DEF Next, Main

LEMMA SoloAlways == Spec => [](Serial => SoloInv)
<1>1. Init => PullsInv /\ (Serial => SoloInv)
  BY InitPulls, InitAlone
<1>2. PullsInv /\ (Serial => SoloInv) /\ [Next]_vars
         => (PullsInv /\ (Serial => SoloInv))'
  BY PullsStep, SoloStep DEF Serial
<1> QED
  BY <1>1, <1>2, PTL DEF Spec

\* With refs swept one at a time, no branch and no pull request runs a commit
\* that is recorded, for whichever of them it was recorded: the look at the
\* store before the clone still holds at the end of the run, since nobody
\* records in between (processBranchOnce, processPRs).
THEOREM SoloCorrect == Spec => [](Serial => RunsUnrecordedOnly)
<1>1. (Serial => SoloInv) => (Serial => RunsUnrecordedOnly)
  BY DEF SoloInv
<1> QED
  BY <1>1, SoloAlways, PTL

\* With refs swept one at a time, a recorded commit shows its verdict for ever:
\* later runs, markSkipped and start-up post on commits that are not recorded,
\* or, at start-up, on pending ones, which a recorded commit never is.
THEOREM VerdictCorrect == Spec => [](Serial => RecordedVerdictStands)
<1>1. (Serial => SoloInv) => (Serial => RecordedVerdictStands)
  BY DEF SoloInv, Told
<1> QED
  BY <1>1, SoloAlways, PTL

-----------------------------------------------------------------------------
(* The labels of skipped commits, for any number of workers.               *)

Labelled(s) == status[s] # "none" \/ Has(s)

\* Every commit of t that the first recorded run of r did not have is labelled.
Behind(r, t) == \A s \in Reach[t] \ Reach[base[r]] : Labelled(s)

\* From the record of a branch run to its comparison the commits up to the last
\* result before it are labelled; then the rest is in the worker's hands.
Recording(w) == w.pc = "compare" \/ (w.pc = "clear" /\ w.pr = NoPR)
Tended(r) ==
    LET w == worker[r] IN
    IF Recording(w)
    THEN /\ last[r] = w.sha /\ Has(w.sha)
         /\ IF w.prev = NoSha THEN base[r] = w.sha ELSE Behind(r, w.prev)
    ELSE IF w.pc = "skip"
    THEN /\ base[r] # NoSha
         /\ \A s \in Reach[last[r]] \ Reach[base[r]] : Labelled(s) \/ s \in w.skip
    ELSE base[r] # NoSha => Behind(r, last[r])

BasesAgree(r) == base[r] = NoSha <=> last[r] = NoSha

\* What a sweep has still to dispatch is idle.
Waiting == \A r \in unswept : worker[r].pc = "idle"

LabelInv ==
    /\ Waiting
    /\ stopping => stops > 0
    /\ stops = 0 /\ faults = 0 => \A r \in Refs : BasesAgree(r) /\ Tended(r)

\* A label is never taken off.
LEMMA LabelsStay ==
    ASSUME PullsInv, [Next]_vars, NEW s \in Shas, Labelled(s)
    PROVE  Labelled(s)'
<1> USE DEF Labelled, Has
<1>0. status \in [Shas -> States] /\ seen \subseteq Shas
  BY DEF PullsInv, TypeOK
<1>1. ASSUME NEW k \in Runs, Reconcile(k) PROVE Labelled(s)'
  BY <1>0, <1>1, Visits
<1>2. ASSUME NEW r \in Refs,
             \/ RunCommit(r) \/ MarkSkipped(r)
      PROVE  Labelled(s)'
  <2>1. seen' = seen
    BY <1>2 DEF RunCommit, Begin, GateEnds, GateCut, MarkSkipped, Compare, Skip,
                EndSkip, Quiet, store
  <2>2. ASSUME NEW t, NEW st, Post(t, st), st # "none"
        PROVE  Labelled(s)'
    BY <1>0, <2>1, <2>2 DEF Post
  <2>3. ASSUME UNCHANGED status
        PROVE  Labelled(s)'
    BY <2>1, <2>3
  <2>4. CASE RunCommit(r)
    <3>1. ASSUME NEW ok \in BOOLEAN, GateEnds(r, ok) PROVE Labelled(s)'
      BY <2>2, <3>1 DEF GateEnds, Verdict
    <3>2. CASE Begin(r) \/ GateCut(r)
      BY <2>2, <2>3, <3>2 DEF Begin, GateCut
    <3> QED
      BY <2>4, <3>1, <3>2 DEF RunCommit
  <2>5. CASE MarkSkipped(r)
    BY <2>2, <2>3, <2>5 DEF MarkSkipped, Compare, EndSkip, Skip, Quiet
  <2> QED
    BY <1>2, <2>4, <2>5
<1>3. ASSUME NEW r \in Refs,
             ProcessBranch(r) \/ CallFails(r) \/ ProcessPRs(r) \/ EndRun(r) \/ Watch(r)
      PROVE  Labelled(s)'
  <2>1. status' = status /\ seen \subseteq seen'
    BY <1>3
    DEF ProcessBranch, LsRemote, CloneBranch, CallFails, ProcessPRs, ListOpenPRs,
        NoMorePRs, PassOver, CloneCommit, CloneCommitFails, EndRun, Abandon,
        SettleStop, Record, Clear, Watch, Quiet, Marker, store
  <2> QED
    BY <2>1
<1>4. CASE \/ Users \/ Terminate \/ Crash \/ Start \/ Exit \/ Sweep
           \/ (\E r \in Refs : Dispatch(r)) \/ UNCHANGED vars
  BY <1>4 DEF Users, Terminate, Crash, Start, Exit, Sweep, Dispatch, Down, vars, store
<1> QED
  BY <1>1, <1>2, <1>3, <1>4 DEF Next, Main, Worker

\* Nor is a commit forgotten.
LEMMA SeenStays ==
    ASSUME PullsInv, [Next]_vars
    PROVE  seen \subseteq seen'
<1>1. ASSUME NEW r \in Refs, Worker(r) \/ Watch(r) PROVE seen \subseteq seen'
  <2>1. CASE ProcessBranch(r) \/ CallFails(r) \/ ProcessPRs(r) \/ Watch(r)
    BY <2>1 DEF ProcessBranch, LsRemote, CloneBranch, CallFails, ProcessPRs,
       ListOpenPRs, NoMorePRs, PassOver, CloneCommit, CloneCommitFails, Watch, Quiet,
       Marker, store
  <2>2. CASE RunCommit(r) \/ EndRun(r) \/ MarkSkipped(r)
    BY <2>2 DEF RunCommit, Begin, GateEnds, GateCut, EndRun, Abandon, SettleStop,
       Record, Clear, MarkSkipped, Compare, EndSkip, Skip, Quiet, Marker, store
  <2> QED
    BY <1>1, <2>1, <2>2 DEF Worker
<1>2. CASE Users \/ Terminate \/ Crash \/ Start \/ Exit \/ Sweep
           \/ (\E r \in Refs : Dispatch(r)) \/ UNCHANGED vars
  BY <1>2 DEF Users, Terminate, Crash, Start, Exit, Sweep, Dispatch, Down, vars, store
<1>3. CASE \E k \in Runs : Reconcile(k)
  BY <1>3, Visits
<1> QED
  BY <1>1, <1>2, <1>3 DEF Next, Main

LEMMA BehindStays ==
    ASSUME PullsInv, [Next]_vars, NEW r \in Refs, NEW t \in Shas, Behind(r, t),
           base'[r] = base[r]
    PROVE  \A s \in Reach[t] \ Reach[base'[r]] : Labelled(s)'
BY LabelsStay, PullsAssumption DEF Behind, PullsAssumption

\* The steps of a worker before it records a commit, or of one that gives up.
Closing == {"clear", "compare", "skip"}
Early(r) == \/ ProcessBranch(r) \/ CallFails(r) \/ ProcessPRs(r) \/ RunCommit(r)
            \/ Watch(r) \/ Abandon(r) \/ SettleStop(r)

LEMMA EarlyLeaves ==
    ASSUME PullsInv, NEW r \in Refs, Early(r)
    PROVE  /\ worker[r].pc \notin Closing /\ worker'[r].pc \notin Closing
           /\ UNCHANGED <<last, base>>
<1>0. worker \in [Refs -> WorkerType]
  BY DEF PullsInv, TypeOK
<1>1. UNCHANGED <<last, base>> /\ worker[r].pc \notin Closing
  BY DEF Early, ProcessBranch, LsRemote, CloneBranch, CallFails, ProcessPRs,
         ListOpenPRs, NoMorePRs, PassOver, CloneCommit, CloneCommitFails, RunCommit,
         Begin, GateEnds, GateCut, Watch, Abandon, SettleStop, Quiet, Marker, store,
         history, At, InRun, Closing
<1>2. CASE ProcessBranch(r) \/ CallFails(r) \/ ListOpenPRs(r) \/ NoMorePRs(r)
  <2> DEFINE Q == {[pr |-> p, sha |-> head[p]] : p \in open}
  <2>1. \/ Become(r, Idle) \/ Become(r, [Idle EXCEPT !.pc = "list"])
        \/ Become(r, [Idle EXCEPT !.pc = "clone", !.sampled = tip[r]])
        \/ Goto(r, "list") \/ Become(r, [Idle EXCEPT !.pc = "pulls", !.queue = Q])
        \/ Become(r, [worker[r] EXCEPT !.pc = "marked", !.sha = tip[r]])
    BY <1>2 DEF ProcessBranch, LsRemote, CloneBranch, CallFails, ListOpenPRs,
                NoMorePRs, Leave
  <2> HIDE DEF Q
  <2>2. /\ Idle.pc = "idle" /\ [Idle EXCEPT !.pc = "list"].pc = "list"
        /\ [Idle EXCEPT !.pc = "clone", !.sampled = tip[r]].pc = "clone"
        /\ [Idle EXCEPT !.pc = "pulls", !.queue = Q].pc = "pulls"
    BY DEF Idle
  <2>3. [worker[r] EXCEPT !.pc = "marked", !.sha = tip[r]].pc = "marked"
    BY <1>0 DEF WorkerType
  <2>4. worker'[r].pc \in {"idle", "list", "clone", "pulls", "marked"}
    BY <2>1, <2>2, <2>3, BecomeIs, GotoIs
  <2> QED
    BY <1>1, <2>4 DEF Closing
<1>3. ASSUME NEW l \in Listing, PassOver(r, l) \/ CloneCommit(r, l) \/ CloneCommitFails(r, l)
      PROVE  worker'[r].pc \notin Closing
  <2>1. CASE CloneCommit(r, l)
    <3> DEFINE w == [worker[r] EXCEPT !.pc = "marked", !.queue = @ \ {l},
                                      !.pr = l.pr, !.sha = l.sha]
    <3>1. w.pc = "marked"
      BY <1>0 DEF WorkerType
    <3>2. worker'[r] = w
      BY <2>1, BecomeIs DEF CloneCommit
    <3> QED
      BY <3>1, <3>2 DEF Closing
  <2>2. CASE PassOver(r, l) \/ CloneCommitFails(r, l)
    <3> DEFINE w == [worker[r] EXCEPT !.queue = @ \ {l}]
    <3>1. w.pc = worker[r].pc
      BY <1>0 DEF WorkerType
    <3>2. worker'[r] = w /\ worker[r].pc = "pulls"
      BY <2>2, BecomeIs DEF PassOver, CloneCommitFails, At
    <3> QED
      BY <3>1, <3>2 DEF Closing
  <2> QED
    BY <1>3, <2>1, <2>2
<1>4. CASE RunCommit(r) \/ Watch(r) \/ SettleStop(r)
  <2>1. ASSUME Leave(r) PROVE worker'[r].pc \notin Closing
    BY <2>1, BecomeIs DEF Leave, Idle, Closing
  <2>2. ASSUME NEW pc \in {"run", "settle", "abandon"}, Goto(r, pc)
        PROVE  worker'[r].pc \notin Closing
    BY <2>2, GotoIs DEF Closing
  <2>3. CASE Watch(r)
    <3>1. worker'[r] = [worker[r] EXCEPT !.cut = TRUE]
      BY <2>3, BecomeIs DEF Watch
    <3>2. worker'[r].pc = worker[r].pc
      BY <1>0, <3>1 DEF WorkerType
    <3> QED
      BY <1>1, <2>3, <3>2 DEF Closing
  <2> QED
    BY <1>1, <1>4, <2>1, <2>2, <2>3
    DEF RunCommit, Begin, GateEnds, GateCut, SettleStop
<1>5. CASE Abandon(r)
  BY <1>1, <1>5, ResumeIs DEF Abandon, Closing
<1> QED
  BY <1>1, <1>2, <1>3, <1>4, <1>5 DEF Early, ProcessPRs

\* What worker r, whose record is w after the step, has to keep.
LEMMA LabelMove ==
    ASSUME PullsInv, LabelInv, [Next]_vars, stops' = 0 /\ faults' = 0,
           stops = 0 /\ faults = 0,
           NEW r \in Refs, Worker(r) \/ Watch(r)
    PROVE  BasesAgree(r)' /\ Tended(r)'
<1>0. /\ worker[r] \in WorkerType /\ Knows(worker[r]) /\ BasesAgree(r) /\ Tended(r)
      /\ last[r] \in Shas \cup {NoSha} /\ base[r] \in Shas \cup {NoSha}
      /\ ~stopping /\ NoSha \notin Shas
  BY PullsAssumption
  DEF PullsAssumption, PullsInv, TypeOK, Knowing, LabelInv, MaybeSha
<1>1. ASSUME UNCHANGED <<last, base>>, base[r] # NoSha => Behind(r, last[r]),
             worker'[r].pc \notin {"compare", "skip"}, ~Recording(worker'[r])
      PROVE  BasesAgree(r)' /\ Tended(r)'
  <2>1. base[r] # NoSha => \A s \in Reach[last[r]] \ Reach[base'[r]] : Labelled(s)'
    BY <1>0, <1>1, BehindStays DEF BasesAgree
  <2> QED
    BY <1>0, <1>1, <2>1 DEF BasesAgree, Tended, Behind
<1>2. CASE Early(r)
  BY <1>0, <1>1, <1>2, EarlyLeaves DEF Tended, Recording, Closing
<1>3. CASE Record(r)
  <2>1. worker'[r] = [worker[r] EXCEPT !.pc = "clear", !.prev = last[r]]
    BY <1>3, BecomeIs DEF Record
  <2>2. /\ worker[r].pc = "settle" /\ worker[r].sha \in Shas
        /\ worker'[r].pc = "clear" /\ worker'[r].pr = worker[r].pr
        /\ worker'[r].prev = last[r] /\ worker'[r].sha = worker[r].sha
    BY <1>0, <1>3, <2>1 DEF Record, At, WorkerType, Knows, InRun
  <2>3. base[r] # NoSha => Behind(r, last[r])
    BY <1>0, <2>2 DEF Tended, Recording
  <2>4. CASE worker[r].pr # NoPR
    BY <1>1, <1>3, <2>2, <2>3, <2>4 DEF Record, Recording
  <2>5. CASE worker[r].pr = NoPR
    <3>1. /\ last'[r] = worker[r].sha /\ worker[r].sha \in seen'
          /\ base'[r] = IF base[r] = NoSha THEN worker[r].sha ELSE base[r]
      BY <1>3, <2>5 DEF Record, PullsInv, TypeOK
    <3>2. base[r] # NoSha => \A s \in Reach[last[r]] \ Reach[base'[r]] : Labelled(s)'
      BY <1>0, <2>3, <3>1, BehindStays DEF BasesAgree
    <3> QED
      BY <1>0, <2>2, <2>5, <3>1, <3>2
      DEF BasesAgree, Tended, Recording, Behind, Has
  <2> QED
    BY <2>4, <2>5
<1>4. CASE Clear(r)
  <2>1. UNCHANGED <<last, base, status, seen>> /\ worker[r].pc = "clear"
    BY <1>4 DEF Clear, At, Marker, history
  <2>2. CASE worker[r].pr = NoPR /\ worker[r].prev \notin {NoSha, worker[r].sha}
    <3>1. worker'[r] = [worker[r] EXCEPT !.pc = "compare"]
      BY <1>4, <2>2, BecomeIs DEF Clear, Goto
    <3>2. /\ worker'[r].pc = "compare" /\ worker'[r].prev = worker[r].prev
          /\ worker'[r].sha = worker[r].sha
      BY <1>0, <3>1 DEF WorkerType
    <3> QED
      BY <1>0, <2>1, <2>2, <3>2
      DEF BasesAgree, Tended, Recording, Behind, Labelled, Has
  <2>3. CASE ~(worker[r].pr = NoPR /\ worker[r].prev \notin {NoSha, worker[r].sha})
    <3>1. worker'[r].pc \in {"pulls", "poll", "list"}
      BY <1>4, <2>3, ResumeIs DEF Clear
    <3>2. base[r] # NoSha => Behind(r, last[r])
      BY <1>0, <2>1, <2>3 DEF Tended, Recording, Behind
    <3> QED
      BY <1>1, <2>1, <3>1, <3>2 DEF Recording
  <2> QED
    BY <2>2, <2>3
<1>5. CASE Compare(r)
  <2> DEFINE S == (Reach[worker[r].sha] \ Reach[worker[r].prev]) \ {worker[r].sha}
  <2>1. /\ UNCHANGED <<last, base, status, seen>> /\ worker[r].pc = "compare"
        /\ Become(r, [worker[r] EXCEPT !.pc = "skip", !.skip = S])
    BY <1>0, <1>5 DEF Compare, At, store, history, PullsInv, TypeOK
  <2>2. worker'[r].pc = "skip" /\ worker'[r].skip = S
    <3> HIDE DEF S
    <3>1. worker'[r] = [worker[r] EXCEPT !.pc = "skip", !.skip = S]
      BY <2>1, BecomeIs
    <3> QED
      BY <1>0, <3>1 DEF WorkerType
  <2>3. last[r] = worker[r].sha /\ Has(worker[r].sha)
        /\ IF worker[r].prev = NoSha THEN base[r] = worker[r].sha
                                     ELSE Behind(r, worker[r].prev)
    BY <1>0, <2>1 DEF Tended, Recording
  <2>4. ASSUME NEW s \in Reach[last[r]] \ Reach[base[r]]
        PROVE  Labelled(s) \/ s \in S
    BY <2>3, <2>4 DEF Behind, Labelled
  <2>5. base[r] # NoSha
    BY <1>0, <2>1, <2>3 DEF BasesAgree, Knows
  <2> HIDE DEF S
  <2> QED
    BY <1>0, <2>1, <2>2, <2>4, <2>5 DEF BasesAgree, Tended, Recording, Labelled, Has
<1>6. ASSUME NEW s \in Shas, Skip(r, s) PROVE BasesAgree(r)' /\ Tended(r)'
  <2>1. UNCHANGED <<last, base, seen>> /\ worker[r].pc = "skip"
    BY <1>6 DEF Skip, At, store, history
  <2>2. worker'[r].pc = "skip" /\ worker'[r].skip = worker[r].skip \ {s}
    BY <1>0, <1>6, <2>1, BecomeIs DEF Skip, WorkerType
  <2>3. Labelled(s)'
    BY <1>6 DEF Skip, Labelled, Has, Post, PullsInv, TypeOK, store
  <2>4. last[r] \in Shas => Reach[last[r]] \subseteq Shas
    BY PullsAssumption DEF PullsAssumption
  <2>5. last[r] \in Shas
    BY <1>0, <2>1 DEF BasesAgree, Tended, Recording
  <2>6. \A t \in Reach[last[r]] : Labelled(t) => Labelled(t)'
    BY <2>4, <2>5, LabelsStay
  <2> QED
    BY <1>0, <2>1, <2>2, <2>3, <2>6 DEF BasesAgree, Tended, Recording
<1>7. CASE EndSkip(r)
  <2>1. /\ UNCHANGED <<last, base>> /\ worker[r].pc = "skip"
        /\ worker[r].skip = {}
    BY <1>7 DEF EndSkip, At, Quiet, store, history
  <2>2. worker'[r].pc \in {"pulls", "poll", "list"}
    BY <1>7, ResumeIs DEF EndSkip
  <2>3. Behind(r, last[r])
    BY <1>0, <2>1 DEF Tended, Recording, Behind
  <2> QED
    BY <1>1, <2>1, <2>2, <2>3 DEF Recording
<1> QED
  BY <1>2, <1>3, <1>4, <1>5, <1>6, <1>7
  DEF Worker, Early, EndRun, MarkSkipped

\* The refs whose worker, last result and base a step leaves alone.
LEMMA LabelStill ==
    ASSUME PullsInv, LabelInv, [Next]_vars, stops = 0 /\ faults = 0,
           NEW q \in Refs, worker'[q] = worker[q], last'[q] = last[q],
           base'[q] = base[q]
    PROVE  BasesAgree(q)' /\ Tended(q)'
<1>0. /\ worker[q] \in WorkerType /\ Knows(worker[q]) /\ BasesAgree(q) /\ Tended(q)
      /\ last[q] \in Shas \cup {NoSha} /\ base[q] \in Shas \cup {NoSha}
      /\ NoSha \notin Shas /\ \A t \in Shas : Reach[t] \subseteq Shas
  BY PullsAssumption
  DEF PullsAssumption, PullsInv, TypeOK, Knowing, LabelInv, MaybeSha
<1>1. BasesAgree(q)'
  BY <1>0 DEF BasesAgree
<1>2. CASE Recording(worker[q])
  <2>1. worker[q].sha \in Shas /\ Has(worker[q].sha)'
    <3>1. worker[q].sha \in Shas /\ Has(worker[q].sha)
      BY <1>0, <1>2 DEF Recording, Tended, Knows
    <3> QED
      BY <3>1, SeenStays DEF Has
  <2>2. worker[q].prev # NoSha => worker[q].prev \in Shas
    BY <1>0 DEF WorkerType, MaybeSha
  <2>3. worker[q].prev # NoSha =>
           \A s \in Reach[worker[q].prev] \ Reach[base'[q]] : Labelled(s)'
    BY <1>0, <1>2, <2>2, BehindStays DEF Tended
  <2> QED
    BY <1>0, <1>1, <1>2, <2>1, <2>3 DEF Tended, Behind, Has
<1>3. CASE ~Recording(worker[q]) /\ worker[q].pc = "skip"
  <2>1. last[q] \in Shas /\ base[q] # NoSha
    BY <1>0, <1>3 DEF Tended, BasesAgree
  <2>2. \A s \in Reach[last[q]] : Labelled(s) => Labelled(s)'
    BY <1>0, <2>1, LabelsStay
  <2> QED
    BY <1>0, <1>1, <1>3, <2>1, <2>2 DEF Tended
<1>4. CASE ~Recording(worker[q]) /\ worker[q].pc # "skip"
  <2>1. base[q] # NoSha => \A s \in Reach[last[q]] \ Reach[base'[q]] : Labelled(s)'
    BY <1>0, <1>4, BehindStays DEF Tended, BasesAgree
  <2> QED
    BY <1>0, <1>1, <1>4, <2>1 DEF Tended, Behind
<1> QED
  BY <1>2, <1>3, <1>4

\* What a step of worker r leaves alone of the other refs.
LEMMA OthersStill ==
    ASSUME PullsInv, NEW r \in Refs, Worker(r) \/ Watch(r)
    PROVE  /\ UNCHANGED <<unswept, stopping, stops>> /\ worker[r].pc # "idle"
           /\ faults' = 0 => faults = 0
           /\ \A q \in Refs : q # r =>
                 /\ worker'[q] = worker[q] /\ last'[q] = last[q] /\ base'[q] = base[q]
<1>1. PICK w : Kept(r) /\ Becomes(r, w)
  BY WorkerMoves
<1>2. /\ UNCHANGED <<unswept, stopping, stops>> /\ worker[r].pc # "idle"
      /\ \A q \in Refs : q # r => worker'[q] = worker[q]
  BY <1>1 DEF Kept, sched, env, Becomes, PullsInv, TypeOK
<1>3. faults' = 0 => faults = 0
  <2>0. faults \in Nat
    BY DEF PullsInv, TypeOK
  <2>1. CASE CallFails(r) \/ Compare(r)
          \/ \E l \in Listing : CloneCommitFails(r, l)
    <3>1. faults' = faults \/ faults' = faults + 1
      BY <2>1 DEF CallFails, Compare, CloneCommitFails
    <3> QED
      BY <2>0, <3>1
  <2>2. CASE ~(\/ CallFails(r) \/ Compare(r)
               \/ \E l \in Listing : CloneCommitFails(r, l))
    <3>1. CASE ProcessBranch(r) \/ ProcessPRs(r) \/ Watch(r)
      BY <2>2, <3>1 DEF ProcessBranch, LsRemote, CloneBranch, ProcessPRs,
         ListOpenPRs, NoMorePRs, PassOver, CloneCommit, Watch, Quiet
    <3>2. CASE RunCommit(r) \/ EndRun(r) \/ MarkSkipped(r)
      BY <2>2, <3>2 DEF RunCommit, Begin, GateEnds, GateCut, EndRun, Abandon,
         SettleStop, Record, Clear, MarkSkipped, EndSkip, Skip, Quiet
    <3> QED
      BY <2>2, <3>1, <3>2 DEF Worker
  <2> QED
    BY <2>1, <2>2
<1>4. \A q \in Refs : q # r => last'[q] = last[q] /\ base'[q] = base[q]
  <2>1. CASE Record(r)
    BY <2>1 DEF Record, PullsInv, TypeOK
  <2>2. CASE Early(r)
    BY <2>2, EarlyLeaves
  <2>3. CASE Clear(r) \/ MarkSkipped(r)
    BY <2>3 DEF Clear, MarkSkipped, Compare, EndSkip, Skip, Quiet, Marker, store,
       history
  <2> QED
    BY <2>1, <2>2, <2>3 DEF Worker, Early, EndRun
<1> QED
  BY <1>2, <1>3, <1>4

LEMMA LabelStep == PullsInv /\ LabelInv /\ [Next]_vars => LabelInv'
<1> SUFFICES ASSUME PullsInv, LabelInv, [Next]_vars PROVE LabelInv'
  OBVIOUS
<1>0. worker \in [Refs -> WorkerType] /\ stops \in Nat /\ unswept \subseteq Refs
  BY DEF PullsInv, TypeOK
<1>1. ASSUME UNCHANGED <<worker, last, base>>, stops' = 0 => stops = 0,
             faults' = 0 => faults = 0, Waiting', stopping' => stops' > 0
      PROVE  LabelInv'
  BY <1>1, LabelStill DEF LabelInv
<1>2. CASE Users \/ Start \/ Terminate \/ UNCHANGED vars
  BY <1>0, <1>1, <1>2
  DEF Users, Start, Terminate, vars, LabelInv, Waiting, store, sched, history, env
<1>3. CASE Sweep
  BY <1>0, <1>1, <1>3 DEF Sweep, LabelInv, Waiting, Busy, store, history, env
<1>4. CASE \E k \in Runs : Reconcile(k)
  <2>1. PICK k \in Runs : Reconcile(k)
    BY <1>4
  <2>2. faults \in Nat /\ faults' \in Nat /\ faults <= faults'
    BY <2>1, Visits DEF PullsInv, TypeOK
  <2>3. UNCHANGED <<worker, last, base, stops, unswept, stopping>>
    BY <2>1, Visits DEF Visit, history, env
  <2> QED
    BY <1>0, <1>1, <2>2, <2>3 DEF LabelInv, Waiting
<1>5. CASE Crash \/ Exit
  BY <1>0, <1>5 DEF Crash, Exit, Down, LabelInv, Waiting
<1>6. ASSUME NEW r \in Refs, Dispatch(r)
      PROVE  LabelInv'
  <2>1. /\ UNCHANGED <<last, base, faults, stops, stopping>>
        /\ unswept' = unswept \ {r} /\ worker[r].pc = "idle" /\ Goto(r, "poll")
    BY <1>6 DEF Dispatch, LabelInv, Waiting, store, history, env
  <2>2. /\ worker'[r].pc = "poll"
        /\ \A q \in Refs : q # r => worker'[q] = worker[q]
    BY <1>0, <2>1, GotoIs DEF Goto, Become
  <2>3. Waiting'
    BY <1>0, <2>1, <2>2 DEF LabelInv, Waiting
  <2>4. ASSUME stops = 0 /\ faults = 0 PROVE BasesAgree(r)' /\ Tended(r)'
    <3>1. BasesAgree(r) /\ (base[r] # NoSha => Behind(r, last[r]))
      BY <2>1, <2>4 DEF LabelInv, Tended, Recording
    <3>2. last[r] \in MaybeSha /\ base'[r] = base[r]
      BY <2>1 DEF PullsInv, TypeOK
    <3>3. base[r] # NoSha => \A s \in Reach[last[r]] \ Reach[base'[r]] : Labelled(s)'
      BY <3>1, <3>2, BehindStays DEF BasesAgree, MaybeSha
    <3> QED
      BY <2>1, <2>2, <3>1, <3>3 DEF BasesAgree, Tended, Recording, Behind
  <2> QED
    BY <2>1, <2>2, <2>3, <2>4, LabelStill DEF LabelInv
<1>7. ASSUME NEW r \in Refs, Worker(r) \/ Watch(r)
      PROVE  LabelInv'
  <2>1. Waiting' /\ (stopping' => stops' > 0)
    BY <1>0, <1>7, OthersStill DEF LabelInv, Waiting
  <2>2. ASSUME stops' = 0, faults' = 0, NEW q \in Refs
        PROVE  BasesAgree(q)' /\ Tended(q)'
    <3>1. stops = 0 /\ faults = 0
      BY <1>7, <2>2, OthersStill
    <3>2. CASE q = r
      BY <1>7, <2>2, <3>1, <3>2, LabelMove
    <3>3. CASE q # r
      BY <1>7, <3>1, <3>3, OthersStill, LabelStill
    <3> QED
      BY <3>2, <3>3
  <2> QED
    BY <2>1, <2>2 DEF LabelInv
<1> QED
  BY <1>2, <1>3, <1>4, <1>5, <1>6, <1>7 DEF Next, Main

\* For any number of workers: as long as nothing stops or fails, a commit that
\* came into a branch between two recorded runs of it is labelled, recorded, or
\* about to be labelled by the run that recorded the later one (markSkipped with
\* the baseline that processBranchOnce read before MarkBranch overwrote it).
THEOREM LabelCorrect == Spec => []SkippedIsLabelled
<1>1. Init => PullsInv /\ LabelInv
  BY InitPulls DEF Init, LabelInv, Waiting, BasesAgree, Tended, Recording, Idle
<1>2. PullsInv /\ LabelInv => SkippedIsLabelled
  BY DEF LabelInv, SkippedIsLabelled, Tended, Recording, Behind, Labelled
<1> QED
  BY <1>1, <1>2, PullsStep, LabelStep, PTL DEF Spec

-----------------------------------------------------------------------------
(* The markers of runs, with refs swept one at a time.                     *)

\* From its clone to its clean-up a run is behind a marker of its commit, which
\* nothing else holds: what start-up has not cleared it has still to visit, or
\* has left for the next start.
Held == InRun \cup {"abandon", "clear"}
Holds(r, k) == worker[r].pc \in Held /\ RunKey(r) = k
Left(k) == inFlight[k] = NoSha \/ k \in deferred
Resolved == {"settle", "abandon", "clear"}
Tidy(r) ==
    /\ worker[r].pc \in Held => inFlight[RunKey(r)] = worker[r].sha
    /\ worker[r].pc \in Resolved => status[worker[r].sha] # "pending"
    /\ ~stopping => \A k \in Runs : Left(k) \/ Holds(r, k)

MarkInv ==
    /\ \A r \in Refs :
          /\ worker[r].pc \in Held => inFlight[RunKey(r)] = worker[r].sha
          /\ worker[r].pc \in Resolved => status[worker[r].sha] # "pending"
    /\ mode = "poll" /\ ~stopping =>
          \A k \in Runs : Left(k) \/ \E r \in Refs : Holds(r, k)
    /\ mode = "reconcile" => \A k \in Runs : Left(k) \/ k \in todo

\* The steps of a worker without a run.
Unheld(r) ==
    \/ LsRemote(r) \/ CallFails(r) \/ ListOpenPRs(r) \/ NoMorePRs(r)
    \/ (\E l \in Listing : PassOver(r, l) \/ CloneCommitFails(r, l))
    \/ CloneBranch(r) /\ Has(tip[r])
    \/ MarkSkipped(r)

LEMMA UnheldLeaves ==
    ASSUME PullsInv, NEW r \in Refs, Unheld(r)
    PROVE  /\ worker[r].pc \notin Held /\ worker'[r].pc \notin Held
           /\ UNCHANGED <<inFlight, deferred, stopping>>
<1>0. worker \in [Refs -> WorkerType]
  BY DEF PullsInv, TypeOK
<1>1. CASE LsRemote(r) \/ CallFails(r) \/ ListOpenPRs(r) \/ NoMorePRs(r)
  <2> DEFINE Q == {[pr |-> p, sha |-> head[p]] : p \in open}
  <2>1. /\ worker[r].pc \notin Held /\ UNCHANGED <<inFlight, deferred, stopping>>
        /\ \/ Become(r, Idle) \/ Become(r, [Idle EXCEPT !.pc = "list"])
           \/ Become(r, [Idle EXCEPT !.pc = "clone", !.sampled = tip[r]])
           \/ Become(r, [Idle EXCEPT !.pc = "pulls", !.queue = Q])
    BY <1>1 DEF LsRemote, CallFails, ListOpenPRs, NoMorePRs, At, Leave, Quiet, store,
                sched, Held, InRun
  <2> HIDE DEF Q
  <2>2. /\ Idle.pc = "idle" /\ [Idle EXCEPT !.pc = "list"].pc = "list"
        /\ [Idle EXCEPT !.pc = "clone", !.sampled = tip[r]].pc = "clone"
        /\ [Idle EXCEPT !.pc = "pulls", !.queue = Q].pc = "pulls"
    BY DEF Idle
  <2>3. worker'[r].pc \in {"idle", "list", "clone", "pulls"}
    BY <2>1, <2>2, BecomeIs
  <2> QED
    BY <2>1, <2>3 DEF Held, InRun
<1>2. ASSUME NEW l \in Listing, PassOver(r, l) \/ CloneCommitFails(r, l)
      PROVE  /\ worker[r].pc \notin Held /\ worker'[r].pc \notin Held
             /\ UNCHANGED <<inFlight, deferred, stopping>>
  <2> DEFINE w == [worker[r] EXCEPT !.queue = @ \ {l}]
  <2>1. w.pc = worker[r].pc
    BY <1>0 DEF WorkerType
  <2>2. /\ worker'[r] = w /\ worker[r].pc = "pulls"
        /\ UNCHANGED <<inFlight, deferred, stopping>>
    BY <1>2, BecomeIs DEF PassOver, CloneCommitFails, At, Quiet, store, sched
  <2> QED
    BY <2>1, <2>2 DEF Held, InRun
<1>3. CASE CloneBranch(r) /\ Has(tip[r])
  BY <1>3, GotoIs DEF CloneBranch, At, Held, InRun, sched
<1>4. CASE MarkSkipped(r)
  <2>1. worker[r].pc \in {"compare", "skip"} /\ UNCHANGED <<inFlight, deferred, stopping>>
    BY <1>4 DEF MarkSkipped, Compare, EndSkip, Skip, At, Quiet, store, sched
  <2>2. Resume(r, worker[r].cut) => worker'[r].pc \notin Held
    BY ResumeIs DEF Held, InRun
  <2>3. ASSUME NEW s \in Shas, Skip(r, s) PROVE worker'[r].pc \notin Held
    <3>1. worker'[r] = [worker[r] EXCEPT !.skip = @ \ {s}]
      BY <2>3, BecomeIs DEF Skip
    <3>2. worker'[r].pc = worker[r].pc
      BY <1>0, <3>1 DEF WorkerType
    <3> QED
      BY <2>1, <3>2 DEF Held, InRun
  <2>4. CASE EndSkip(r)
    <3>1. worker'[r].pc \in {"pulls", "poll", "list"}
      BY <2>4, ResumeIs DEF EndSkip
    <3> QED
      BY <2>1, <3>1 DEF Held, InRun
  <2>5. CASE Compare(r)
    <3> DEFINE S == (Reach[worker[r].sha] \ Reach[worker[r].prev]) \ {worker[r].sha}
    <3>1. \/ Resume(r, worker[r].cut)
          \/ Become(r, [worker[r] EXCEPT !.pc = "skip", !.skip = S])
      BY <2>5 DEF Compare
    <3> HIDE DEF S
    <3>2. [worker[r] EXCEPT !.pc = "skip", !.skip = S].pc = "skip"
      BY <1>0 DEF WorkerType
    <3>3. ASSUME Become(r, [worker[r] EXCEPT !.pc = "skip", !.skip = S])
          PROVE  worker'[r].pc = "skip"
      <4>1. worker'[r] = [worker[r] EXCEPT !.pc = "skip", !.skip = S]
        BY <3>3, BecomeIs
      <4> QED
        BY <3>2, <4>1
    <3> QED
      BY <2>1, <2>2, <3>1, <3>3 DEF Held, InRun
  <2> QED
    BY <1>4, <2>1, <2>3, <2>4, <2>5 DEF MarkSkipped, Held, InRun
<1> QED
  BY <1>1, <1>2, <1>3, <1>4 DEF Unheld

\* The steps within a run, which keep its commit and its marker.
Within(r) ==
    \/ Begin(r) \/ (\E ok \in BOOLEAN : GateEnds(r, ok)) \/ Watch(r) \/ Record(r)
    \/ GateCut(r) /\ worker[r].cut

LEMMA WithinStays ==
    ASSUME PullsInv, NEW r \in Refs, Within(r), Tidy(r)
    PROVE  /\ worker[r].pc \in Held /\ worker'[r].pc \in Held
           /\ RunKey(r)' = RunKey(r) /\ worker'[r].sha = worker[r].sha
           /\ UNCHANGED <<inFlight, deferred, stopping>>
           /\ worker'[r].pc \in Resolved => status'[worker[r].sha] # "pending"
<1>0. /\ worker \in [Refs -> WorkerType] /\ Knows(worker[r])
      /\ status \in [Shas -> States]
  BY DEF PullsInv, TypeOK, Knowing
<1>1. CASE \/ Begin(r) \/ (\E ok \in BOOLEAN : GateEnds(r, ok))
           \/ GateCut(r) /\ worker[r].cut
  <2>1. worker[r].pc \in InRun /\ UNCHANGED <<inFlight, deferred, stopping>>
    BY <1>1 DEF Begin, GateEnds, GateCut, At, InRun, store, sched
  <2>2. PICK pc \in InRun \cup {"abandon"}, st \in States :
           /\ Goto(r, pc) /\ Post(worker[r].sha, st)
           /\ pc \in Resolved => st # "pending"
    <3>1. CASE Begin(r)
      BY <3>1 DEF Begin, InRun, Resolved, States
    <3>2. CASE GateCut(r) /\ worker[r].cut
      BY <3>2 DEF GateCut, InRun, Resolved, States
    <3>3. ASSUME NEW ok \in BOOLEAN, GateEnds(r, ok)
          PROVE  /\ Goto(r, "settle") /\ Post(worker[r].sha, Verdict(ok))
                 /\ Verdict(ok) \in States /\ Verdict(ok) # "pending"
      BY <3>3 DEF GateEnds, Verdict, States
    <3> QED
      BY <1>1, <3>1, <3>2, <3>3 DEF InRun
  <2>3. status'[worker[r].sha] = st
    BY <1>0, <2>1, <2>2 DEF Post, Knows
  <2>4. /\ worker'[r].pc = pc /\ worker'[r].pr = worker[r].pr
        /\ worker'[r].sha = worker[r].sha
    BY <2>2, GotoIs
  <2> QED
    BY <2>1, <2>2, <2>3, <2>4 DEF RunKey, Held
<1>2. CASE Watch(r)
  <2>1. /\ worker'[r] = [worker[r] EXCEPT !.cut = TRUE] /\ worker[r].pc \in InRun
        /\ UNCHANGED <<inFlight, deferred, stopping, status>>
    BY <1>2, BecomeIs DEF Watch, Quiet, store, sched
  <2>2. /\ worker'[r].pc = worker[r].pc /\ worker'[r].pr = worker[r].pr
        /\ worker'[r].sha = worker[r].sha
    BY <1>0, <2>1 DEF WorkerType
  <2> QED
    BY <2>1, <2>2 DEF RunKey, Held, Tidy
<1>3. CASE Record(r)
  <2>1. /\ worker'[r] = [worker[r] EXCEPT !.pc = "clear", !.prev = last[r]]
        /\ worker[r].pc = "settle" /\ UNCHANGED <<inFlight, deferred, stopping, status>>
    BY <1>3, BecomeIs DEF Record, At, sched
  <2>2. /\ worker'[r].pc = "clear" /\ worker'[r].pr = worker[r].pr
        /\ worker'[r].sha = worker[r].sha
    BY <1>0, <2>1 DEF WorkerType
  <2> QED
    BY <2>1, <2>2 DEF RunKey, Held, Tidy, InRun, Resolved
<1> QED
  BY <1>1, <1>2, <1>3 DEF Within

\* A run that begins, and the two ways it ends.
LEMMA MarkMove ==
    ASSUME PullsInv, NEW r \in Refs, Worker(r) \/ Watch(r), Tidy(r)
    PROVE  Tidy(r)'
<1>0. /\ worker \in [Refs -> WorkerType] /\ Knows(worker[r])
      /\ inFlight \in [Runs -> MaybeSha]
  BY DEF PullsInv, TypeOK, Knowing
<1>1. CASE Unheld(r)
  <2>1. worker'[r].pc \notin Held
    BY <1>1, UnheldLeaves
  <2>2. worker'[r].pc \notin Resolved
    BY <2>1 DEF Held, InRun, Resolved
  <2>3. ~stopping' => \A k \in Runs : Left(k)'
    BY <1>1, UnheldLeaves DEF Tidy, Holds, Left
  <2> QED
    BY <2>1, <2>2, <2>3 DEF Tidy
<1>2. CASE Within(r)
  BY <1>2, WithinStays DEF Tidy, Holds, Left
<1>3. ASSUME NEW k \in Runs, NEW s, Marker(k, s), worker'[r].pc = "marked",
             RunKey(r)' = k, worker'[r].sha = s, worker[r].pc \notin Held,
             UNCHANGED stopping
      PROVE  Tidy(r)'
  <2>1. /\ inFlight'[k] = s
        /\ \A m \in Runs : m # k => inFlight'[m] = inFlight[m]
                                    /\ (m \in deferred => m \in deferred')
    BY <1>0, <1>3 DEF Marker
  <2> QED
    BY <1>3, <2>1 DEF Tidy, Holds, Left, Held, InRun, Resolved
<1>4. CASE CloneBranch(r) /\ ~Has(tip[r])
  <2>1. /\ Marker(r, tip[r]) /\ worker[r].pc = "clone" /\ UNCHANGED stopping
        /\ worker'[r] = [worker[r] EXCEPT !.pc = "marked", !.sha = tip[r]]
    BY <1>4, BecomeIs DEF CloneBranch, At, sched
  <2>2. /\ worker'[r].pc = "marked" /\ worker'[r].sha = tip[r]
        /\ worker'[r].pr = NoPR
    BY <1>0, <2>1 DEF WorkerType, Knows
  <2> QED
    BY <1>3, <2>1, <2>2 DEF RunKey, Runs, Held, InRun
<1>5. ASSUME NEW l \in Listing, CloneCommit(r, l)
      PROVE  Tidy(r)'
  <2> DEFINE w == [worker[r] EXCEPT !.pc = "marked", !.queue = @ \ {l},
                                    !.pr = l.pr, !.sha = l.sha]
  <2>1. /\ Marker(l.pr, l.sha) /\ worker[r].pc = "pulls" /\ UNCHANGED stopping
        /\ worker'[r] = w /\ l.pr \in PRs
    BY <1>5, BecomeIs DEF CloneCommit, At, sched, Listing
  <2>2. w.pc = "marked" /\ w.sha = l.sha /\ w.pr = l.pr
    BY <1>0 DEF WorkerType
  <2>3. /\ worker'[r].pc = "marked" /\ worker'[r].sha = l.sha
        /\ RunKey(r)' = l.pr /\ l.pr \in Runs
    BY <2>1, <2>2, PullsAssumption DEF RunKey, Runs, PullsAssumption
  <2> QED
    BY <1>3, <2>1, <2>3 DEF Held, InRun
<1>6. CASE Abandon(r) \/ Clear(r)
  <2>1. /\ worker[r].pc \in {"abandon", "clear"} /\ Marker(RunKey(r), NoSha)
        /\ UNCHANGED stopping
        /\ Goto(r, "compare") \/ \E b : Resume(r, b)
    BY <1>6 DEF Abandon, Clear, At, sched
  <2>2. worker'[r].pc \in {"compare", "pulls", "poll", "list"}
    BY <2>1, GotoIs, ResumeIs
  <2>3. ~stopping => \A k \in Runs : Left(k)'
    BY <1>0, <2>1 DEF Tidy, Holds, Left, Marker
  <2> QED
    BY <2>1, <2>2, <2>3 DEF Tidy, Held, InRun, Resolved
<1>7. CASE SettleStop(r) \/ (GateCut(r) /\ ~worker[r].cut)
  <2>1. stopping' /\ Leave(r)
    BY <1>7 DEF SettleStop, GateCut, Quiet, sched
  <2> QED
    BY <2>1, BecomeIs DEF Leave, Idle, Tidy, Held, InRun, Resolved
<1>8. \/ Unheld(r) \/ Within(r)
      \/ CloneBranch(r) /\ ~Has(tip[r])
      \/ \E l \in Listing : CloneCommit(r, l)
      \/ Abandon(r) \/ Clear(r) \/ SettleStop(r)
      \/ GateCut(r) /\ ~worker[r].cut
  <2>1. CASE ProcessBranch(r) \/ CallFails(r)
    BY <2>1 DEF ProcessBranch, Unheld
  <2>2. CASE ProcessPRs(r)
    BY <2>2 DEF ProcessPRs, Unheld
  <2>3. CASE RunCommit(r) \/ Watch(r)
    BY <2>3 DEF RunCommit, Within
  <2>4. CASE EndRun(r) \/ MarkSkipped(r)
    BY <2>4 DEF EndRun, Within, Unheld
  <2> QED
    BY <2>1, <2>2, <2>3, <2>4 DEF Worker
<1> QED
  BY <1>1, <1>2, <1>4, <1>5, <1>6, <1>7, <1>8

LEMMA MarkStep ==
    PullsInv /\ SoloInv /\ MarkInv /\ Serial /\ [Next]_vars => MarkInv'
<1> SUFFICES ASSUME PullsInv, SoloInv, MarkInv, Serial, [Next]_vars
             PROVE  MarkInv'
  OBVIOUS
<1>0. /\ worker \in [Refs -> WorkerType] /\ inFlight \in [Runs -> MaybeSha]
      /\ mode # "poll" => \A r \in Refs : worker[r].pc = "idle"
  BY DEF PullsInv, TypeOK, PollOnly
<1>1. CASE Users \/ Terminate \/ UNCHANGED vars
  BY <1>1 DEF Users, Terminate, vars, store, sched, MarkInv, Holds, Left, RunKey
<1>2. CASE Crash \/ Exit
  BY <1>2 DEF Crash, Exit, Down, MarkInv, Idle, Held, InRun, Resolved
<1>3. CASE Start
  BY <1>0, <1>3 DEF Start, store, MarkInv, Left, Held, InRun, Resolved
<1>4. CASE Sweep
  BY <1>4 DEF Sweep, store, MarkInv, Holds, Left, RunKey
<1>5. ASSUME NEW k \in Runs, Reconcile(k)
      PROVE  MarkInv'
  <2>1. mode = "reconcile" /\ UNCHANGED <<mode, worker>> /\ todo' = todo \ {k}
    BY <1>5, Visits DEF Visit
  <2>2. Left(k)' /\ \A m \in Runs : m # k /\ Left(m) => Left(m)'
    <3>1. CASE ReconcileTip(k) \/ ReconcileStale(k)
      BY <1>0, <3>1 DEF ReconcileTip, ReconcileStale, Marker, Left
    <3>2. CASE ReconcileKeep(k)
      BY <3>2 DEF ReconcileKeep, Left
    <3> QED
      BY <1>5, <3>1, <3>2 DEF Reconcile
  <2> QED
    BY <1>0, <2>1, <2>2 DEF MarkInv, Held, InRun, Resolved
<1>6. ASSUME NEW r \in Refs, Dispatch(r)
      PROVE  MarkInv'
  <2>1. \A q \in Refs : worker[q].pc = "idle"
    BY <1>6, AllIdle
  <2>2. /\ mode' = "poll" /\ mode = "poll" /\ UNCHANGED <<inFlight, deferred, stopping, status>>
        /\ \A q \in Refs : worker'[q].pc = IF q = r THEN "poll" ELSE "idle"
    BY <1>0, <1>6, <2>1, GotoIs DEF Dispatch, store, Goto, Become
  <2> QED
    BY <2>1, <2>2 DEF MarkInv, Holds, Left, Held, InRun, Resolved
<1>7. ASSUME NEW r \in Refs, Worker(r) \/ Watch(r)
      PROVE  MarkInv'
  <2>1. PICK w : Kept(r) /\ Becomes(r, w)
    BY <1>7, WorkerMoves
  <2>2. /\ mode = "poll" /\ UNCHANGED <<mode, stopping>>
        /\ \A q \in Refs : q # r => worker[q].pc = "idle" /\ worker'[q].pc = "idle"
    BY <1>0, <2>1 DEF Kept, sched, Becomes, SoloInv, Solo
  <2>3. Tidy(r)
    BY <2>2 DEF MarkInv, Tidy, Holds, Held, InRun
  <2>4. Tidy(r)'
    BY <1>7, <2>3, MarkMove
  <2> QED
    BY <2>2, <2>4 DEF MarkInv, Tidy, Held, InRun, Resolved
<1> QED
  BY <1>1, <1>2, <1>3, <1>4, <1>5, <1>6, <1>7 DEF Next, Main

\* The markers a step gives up.
LEMMA MarkerGoes ==
    ASSUME PullsInv, SoloInv, MarkInv, [Next]_vars,
           NEW k \in Runs, inFlight[k] # NoSha, inFlight'[k] # inFlight[k]
    PROVE  \/ ReconcileTip(k) \/ TakenOver(k)
           \/ status[inFlight[k]] # "pending" \/ status'[inFlight[k]] # "pending"
<1>0. /\ inFlight \in [Runs -> MaybeSha] /\ stopping \in BOOLEAN
      /\ status \in [Shas -> States] /\ inFlight[k] \in Shas
  BY DEF PullsInv, TypeOK, MaybeSha
<1>1. CASE \E m \in Runs : Reconcile(m)
  <2>1. Reconcile(k)
    BY <1>1, Visits
  <2>2. CASE ReconcileStale(k)
    BY <1>0, <2>2 DEF ReconcileStale, Post
  <2>3. ~ReconcileKeep(k)
    BY DEF ReconcileKeep
  <2> QED
    BY <2>1, <2>2, <2>3 DEF Reconcile
<1>2. CASE Users \/ Terminate \/ Crash \/ Start \/ Exit \/ Sweep
           \/ (\E r \in Refs : Dispatch(r)) \/ UNCHANGED vars
  BY <1>2 DEF Users, Terminate, Crash, Start, Exit, Sweep, Dispatch, Down, vars, store
<1>3. ASSUME NEW r \in Refs, Worker(r) \/ Watch(r)
      PROVE  status[inFlight[k]] # "pending" \/ TakenOver(k)
  <2>1. PICK w : Kept(r) /\ Becomes(r, w)
    BY <1>3, WorkerMoves
  <2>2. /\ mode = "poll" /\ \A q \in Refs : q # r => worker[q].pc = "idle"
    BY <2>1 DEF Kept, SoloInv, Solo
  <2>3. CASE Abandon(r) \/ Clear(r)
    <3>1. k = RunKey(r) /\ worker[r].pc \in {"abandon", "clear"}
      BY <1>0, <2>3 DEF Abandon, Clear, Marker, At
    <3> QED
      BY <3>1 DEF MarkInv, Held, InRun, Resolved
  <2>4. ASSUME NEW s \in Shas, ~stopping, worker[r].pc \in {"clone", "pulls"},
               inFlight'[k] = s
        PROVE  TakenOver(k)
    <3>1. k \in deferred
      BY <2>2, <2>4 DEF MarkInv, Left, Holds, Held, InRun
    <3> QED
      BY <2>4, <3>1, PullsAssumption DEF TakenOver
  <2>5. CASE CloneBranch(r)
    <3>1. Marker(r, tip[r]) /\ ~stopping /\ worker[r].pc = "clone" /\ tip[r] \in Shas
      BY <2>5 DEF CloneBranch, At, PullsInv, TypeOK
    <3>2. inFlight'[k] = tip[r]
      BY <1>0, <3>1 DEF Marker
    <3> QED
      BY <2>4, <3>1, <3>2
  <2>6. ASSUME NEW l \in Listing, CloneCommit(r, l)
        PROVE  TakenOver(k)
    <3>1. Marker(l.pr, l.sha) /\ ~stopping /\ worker[r].pc = "pulls" /\ l.sha \in Shas
      BY <2>6 DEF CloneCommit, At, PullsInv, Knowing, Knows
    <3>2. inFlight'[k] = l.sha
      BY <1>0, <3>1 DEF Marker
    <3> QED
      BY <2>4, <3>1, <3>2
  <2>7. \/ Abandon(r) \/ Clear(r) \/ CloneBranch(r)
        \/ \E l \in Listing : CloneCommit(r, l)
    <3>1. CASE ProcessBranch(r) \/ CallFails(r) \/ ProcessPRs(r)
      BY <3>1 DEF ProcessBranch, LsRemote, CallFails, ProcessPRs, ListOpenPRs,
         NoMorePRs, PassOver, CloneCommitFails, Quiet, store
    <3>2. CASE RunCommit(r) \/ EndRun(r) \/ Watch(r) \/ MarkSkipped(r)
      BY <3>2 DEF RunCommit, Begin, GateEnds, GateCut, EndRun, SettleStop, Record,
         Watch, MarkSkipped, Compare, EndSkip, Skip, Quiet, store
    <3> QED
      BY <1>3, <3>1, <3>2 DEF Worker
  <2> QED
    BY <2>3, <2>5, <2>6, <2>7
<1> QED
  BY <1>1, <1>2, <1>3 DEF Next, Main, Worker

\* With refs swept one at a time, a pending commit keeps its run or its marker,
\* whatever fails or dies: a marker is cleared on resolved commits only, a new
\* run overwrites none but what start-up could not list (processBranchOnce,
\* processPRs), and start-up resolves every commit whose marker it clears but
\* the tip of a branch (reconcileInFlight).
THEOREM CoverCorrect ==
    ASSUME Serial
    PROVE  Spec => CoverOutlivesPending
<1>1. Init => PullsInv /\ SoloInv /\ MarkInv
  BY InitPulls, InitAlone DEF Init, MarkInv, Idle, Held, InRun, Resolved
<1>2. PullsInv /\ SoloInv /\ MarkInv /\ [Next]_vars => (PullsInv /\ SoloInv /\ MarkInv)'
  BY Serial, PullsStep, SoloStep, MarkStep
<1>3. PullsInv /\ SoloInv /\ MarkInv /\ [Next]_vars =>
         [\A s \in Shas :
            Covered(s) /\ status[s] = "pending" /\ ~Covered(s)' =>
              \/ status'[s] # "pending"
              \/ \E k \in Runs : inFlight[k] = s /\ (ReconcileTip(k) \/ TakenOver(k))]_vars
  <2> SUFFICES ASSUME PullsInv, SoloInv, MarkInv, [Next]_vars,
                      NEW s \in Shas, Covered(s), status[s] = "pending", ~Covered(s)',
                      status'[s] = "pending"
               PROVE  \E k \in Runs : inFlight[k] = s /\ (ReconcileTip(k) \/ TakenOver(k))
    OBVIOUS
  <2>1. PICK k \in Runs : inFlight[k] = s
    <3>1. ASSUME NEW r \in Refs, worker[r].pc \in InRun, worker[r].sha = s
          PROVE  RunKey(r) \in Runs /\ inFlight[RunKey(r)] = s
      BY <3>1 DEF MarkInv, Held, RunKey, Runs, PullsInv, TypeOK, WorkerType
    <3> QED
      BY <3>1 DEF Covered
  <2>2. inFlight'[k] # s /\ s # NoSha
    BY PullsAssumption DEF Covered, PullsAssumption
  <2>3. ReconcileTip(k) \/ TakenOver(k)
    BY <2>1, <2>2, MarkerGoes
  <2> QED
    BY <2>1, <2>3
<1> QED
  BY <1>1, <1>2, <1>3, PTL DEF Spec, CoverOutlivesPending

=============================================================================
