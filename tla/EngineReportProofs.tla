------------------------- MODULE EngineReportProofs -------------------------
(***************************************************************************)
(* What the engine reports and remembers of a commit.  ControlInv says     *)
(* what the steps of a worker have to do with the process it runs in and   *)
(* holds for every interleaving and every fault.  From it follow, under    *)
(* the conditions each theorem names, that a serial engine implements      *)
(* Ledger, that what it remembers was reported, and that no context stays  *)
(* pending without a run or a marker that answers for it.                  *)
(***************************************************************************)
EXTENDS EngineProofs

After == Past \cup {"abandon", "clear"}

\* What the record w of worker r says of the mode m, of stop and of the
\* verdicts V of its process.
Minds(r, w, m, stop, V) ==
    /\ w.pc = "resolved" => m = "reconcile"
    /\ w.pc \notin {"idle", "resolved"} => m = "poll"
    /\ w.cause = "shutdown" => stop
    /\ w.pc \in {"rollup", "settle"} /\ ~w.completed => w.cause # "none"
    /\ w.pc \in {"queue", "gate", "rollup"} => w.sha \notin BadConfig
    /\ w.pc \in {"clone", "config", "queue", "gate"} => ~w.completed
    /\ w.pc \in Past => w.completed
    /\ w.completed => w.sha \in BadConfig \/ \E v \in V : v.ref = r /\ v.sha = w.sha

RunsAgree == \A r \in Refs : Minds(r, worker[r], mode, stopping, verdicts)

StopsCount == stopping => stops > 0

\* A commit without a config never has a context of its own.
NoBadChecks == \A k \in Keys : k[2] \in BadConfig => status[k]["check"] = "none"

ControlInv == RunsAgree /\ StopsCount /\ NoBadChecks

\* While no write fails, memory and file are the same.
MemIsDisk == mode # "down" => mem = disk

-----------------------------------------------------------------------------
(* Workers and the process.                                                *)

LEMMA GotoIs ==
    ASSUME TypeOK, NEW r \in Refs, NEW pc, Goto(r, pc)
    PROVE  /\ Others(r)
           /\ worker'[r].pc = pc
           /\ worker'[r].sha = worker[r].sha
           /\ worker'[r].sampled = worker[r].sampled
           /\ worker'[r].cause = worker[r].cause
           /\ worker'[r].completed = worker[r].completed
BY DEF TypeOK, WorkerType, Goto, Become, Others

LEMMA MindsBecome ==
    ASSUME TypeOK, RunsAgree, NEW r \in Refs, Others(r),
           mode' = mode, stopping' = stopping, verdicts \subseteq verdicts',
           Minds(r, worker'[r], mode', stopping', verdicts')
    PROVE  RunsAgree'
<1>1. ASSUME NEW q \in Refs, q # r
      PROVE  Minds(q, worker'[q], mode', stopping', verdicts')
  BY <1>1 DEF Others, RunsAgree, Minds
<1> QED
  BY <1>1 DEF RunsAgree

LEMMA MindsIdle ==
    ASSUME NEW r, NEW st, NEW V, NEW w \in {Idle, [Idle EXCEPT !.pc = "poll"]}
    PROVE  Minds(r, w, "poll", st, V) /\ Minds(r, Idle, mode', st, V)
BY DEF Minds, Idle, Past

LEMMA MindsLeave ==
    ASSUME TypeOK, RunsAgree, NEW r \in Refs, NEW b, mode = "poll",
           Leave(r) \/ Return(r, b), UNCHANGED <<mode, stopping, verdicts>>
    PROVE  RunsAgree'
<1>1. PICK w \in {Idle, [Idle EXCEPT !.pc = "poll"]} : Become(r, w)
  BY DEF Leave, Return
<1>2. worker'[r] = w /\ Others(r)
  BY <1>1, BecomeIs
<1> QED
  BY <1>1, <1>2, MindsIdle, MindsBecome

\* A post on any other context, or of any other commit, is none of a bad one.
LEMMA BadStays ==
    ASSUME TypeOK, NoBadChecks,
           \/ UNCHANGED status
           \/ \E r \in Refs, c \in Contexts, st \in States :
                 Post(KeyOf(r), c, st) /\ (c = "check" => worker[r].sha \notin BadConfig)
    PROVE  NoBadChecks'
<1> SUFFICES ASSUME NEW k \in Keys, k[2] \in BadConfig
             PROVE  status'[k]["check"] = "none"
  BY DEF NoBadChecks
<1>1. status[k] \in [Contexts -> States] /\ status[k]["check"] = "none"
  BY DEF TypeOK, NoBadChecks
<1>2. ASSUME NEW r \in Refs, NEW c \in Contexts, NEW st \in States,
             Post(KeyOf(r), c, st), c = "check" => worker[r].sha \notin BadConfig
      PROVE  status'[k]["check"] = "none"
  <2>1. KeyOf(r) = k => k[2] = worker[r].sha
    BY DEF KeyOf, Key
  <2> QED
    BY <1>1, <1>2, <2>1 DEF TypeOK, Post, Contexts
<1> QED
  BY <1>1, <1>2

LEMMA RunsStep ==
    ASSUME TypeOK, RunsAgree, NEW r \in Refs, Worker(r) \/ Watcher(r)
    PROVE  RunsAgree'
<1> USE DEF InRun, Past, At
<1>0. worker[r] \in WorkerType /\ Minds(r, worker[r], mode, stopping, verdicts)
  BY DEF TypeOK, RunsAgree
<1>1. CASE WatchSee(r)
  <2>1. worker'[r] = [worker[r] EXCEPT !.newer = TRUE] /\ Others(r)
    BY <1>1, BecomeIs DEF WatchSee
  <2> QED
    BY <1>0, <1>1, <2>1, MindsBecome DEF WatchSee, Rest, sched, history, Minds, WorkerType
<1>2. CASE WatchCancel(r)
  <2>1. worker'[r] = [worker[r] EXCEPT !.cause = "superseded"] /\ Others(r)
    BY <1>2, BecomeIs DEF WatchCancel
  <2> QED
    BY <1>0, <1>2, <2>1, MindsBecome
    DEF WatchCancel, Rest, sched, history, Minds, WorkerType
<1>3. CASE GitFails(r) \/ CloneSeen(r) \/ SettleStop(r) \/ AbandonClear(r) \/ MarkClear(r)
  BY <1>3, MindsLeave
  DEF GitFails, CloneSeen, SettleStop, AbandonClear, MarkClear, Rest, sched, history
<1>4. CASE LsRemote(r)
  <2> DEFINE w == [Idle EXCEPT !.pc = "clone", !.sampled = tip[r]]
  <2>1. CASE Become(r, w)
    <3>1. worker'[r] = w /\ Others(r)
      BY <2>1, BecomeIs
    <3>2. Minds(r, w, mode, stopping, verdicts)
      BY <1>4 DEF LsRemote, Minds, Idle
    <3> QED
      BY <1>4, <3>1, <3>2, MindsBecome DEF LsRemote, Rest, sched, history
  <2>2. CASE Leave(r)
    BY <1>4, <2>2, MindsLeave DEF LsRemote, Rest, sched, history
  <2> QED
    BY <1>4, <2>1, <2>2 DEF LsRemote, Leave
<1>5. CASE CloneNew(r)
  <2>1. worker'[r] = [worker[r] EXCEPT !.pc = "config", !.sha = tip[r]] /\ Others(r)
    BY <1>5, BecomeIs DEF CloneNew
  <2> QED
    BY <1>0, <1>5, <2>1, MindsBecome DEF CloneNew, sched, history, Minds, WorkerType
<1>6. CASE Config(r)
  <2> DEFINE bad == worker[r].sha \in BadConfig
             w == [worker[r] EXCEPT !.pc = IF bad THEN "settle" ELSE "queue",
                                    !.completed = bad]
  <2>1. worker'[r] = w /\ Others(r)
    BY <1>6, BecomeIs DEF Config
  <2>2. Minds(r, w, mode, stopping, verdicts)
    BY <1>0, <1>6 DEF Config, Minds, WorkerType
  <2> QED
    BY <1>6, <2>1, <2>2, MindsBecome DEF Config, sched, history
<1>7. CASE Queue(r) \/ GateCut(r) \/ Rollup(r) \/ SettleAbandon(r) \/ SettleDone(r)
  <2>1. PICK pc : Goto(r, pc)
    BY <1>7 DEF Queue, GateCut, Rollup, SettleAbandon, SettleDone
  <2>2. Minds(r, worker'[r], mode, stopping, verdicts)
    BY <1>0, <1>7, <2>1, GotoIs
    DEF Queue, GateCut, Rollup, SettleAbandon, SettleDone, Abandoned, Minds,
        WorkerType
  <2> QED
    BY <1>7, <2>1, <2>2, GotoIs, MindsBecome
    DEF Queue, GateCut, Rollup, SettleAbandon, SettleDone, Rest, sched, history
<1>8. ASSUME NEW ok \in BOOLEAN, GateEnds(r, ok)
      PROVE  RunsAgree'
  <2> DEFINE w == [worker[r] EXCEPT !.pc = "rollup", !.completed = TRUE, !.passed = ok]
  <2>1. worker'[r] = w /\ Others(r)
    BY <1>8, BecomeIs DEF GateEnds
  <2>2. \E v \in verdicts' : v.ref = r /\ v.sha = w.sha
    <3>1. [ref |-> r, sha |-> worker[r].sha, ok |-> ok] \in verdicts'
      BY <1>8 DEF GateEnds
    <3>2. w.sha = worker[r].sha
      BY <1>0 DEF WorkerType
    <3> QED
      BY <3>1, <3>2
  <2>3. /\ w.pc = "rollup" /\ w.completed
        /\ w.sha = worker[r].sha /\ w.cause = worker[r].cause
    BY <1>0 DEF WorkerType
  <2>4. Minds(r, w, mode, stopping, verdicts')
    <3> HIDE DEF w
    <3> QED
      BY <1>0, <1>8, <2>2, <2>3 DEF GateEnds, Minds
  <2> QED
    BY <1>8, <2>1, <2>4, MindsBecome DEF GateEnds, sched
<1>9. CASE PromoteStart(r) \/ FastForward(r) \/ FastForwardRefused(r) \/ PromoteEnd(r)
  <2>1. /\ worker[r].pc \in {"promote", "ff", "ffok", "fferr"} /\ mode = "poll"
        /\ UNCHANGED <<mode, stopping, verdicts>>
    BY <1>9 DEF PromoteStart, FastForward, FastForwardRefused, PromoteEnd, Rest,
                sched, history
  <2>2. \/ Leave(r) \/ UNCHANGED worker
        \/ \E pc \in {"ff", "ffok", "fferr", "mark"} : Goto(r, pc)
    BY <1>9 DEF PromoteStart, FastForward, FastForwardRefused, PromoteEnd
  <2>3. CASE UNCHANGED worker
    BY <2>1, <2>3 DEF RunsAgree
  <2>4. ASSUME NEW pc \in {"ff", "ffok", "fferr", "mark"}, Goto(r, pc)
        PROVE  RunsAgree'
    BY <1>0, <2>1, <2>4, GotoIs, MindsBecome DEF Minds, WorkerType
  <2> QED
    BY <2>1, <2>2, <2>3, <2>4, MindsLeave
<1>10. CASE MarkTested(r)
  <2>1. worker'[r] = [worker[r] EXCEPT !.pc = "clear", !.err = ~Saved] /\ Others(r)
    BY <1>10, BecomeIs DEF MarkTested
  <2>2. /\ worker'[r].pc = "clear" /\ worker'[r].cause = worker[r].cause
        /\ worker'[r].sha = worker[r].sha
        /\ worker'[r].completed = worker[r].completed
    BY <1>0, <2>1 DEF WorkerType
  <2>3. UNCHANGED <<mode, stopping, verdicts>>
    BY <1>10 DEF MarkTested, sched, history
  <2>4. Minds(r, worker'[r], mode, stopping, verdicts)
    BY <1>0, <1>10, <2>2 DEF MarkTested, Minds
  <2> QED
    BY <2>1, <2>3, <2>4, MindsBecome
<1> QED
  BY <1>1, <1>2, <1>3, <1>4, <1>5, <1>6, <1>7, <1>8, <1>9, <1>10 DEF Worker, Watcher

LEMMA BadStep ==
    ASSUME TypeOK, RunsAgree, NoBadChecks, NEW r \in Refs,
           Worker(r) \/ Watcher(r) \/ Reconcile(r)
    PROVE  NoBadChecks'
<1>0. Minds(r, worker[r], mode, stopping, verdicts)
  BY DEF RunsAgree
<1>1. CASE ReconcileStale(r)
  BY <1>1 DEF ReconcileStale, TypeOK, NoBadChecks, Contexts
<1>2. CASE Config(r) \/ SettleAbandon(r) \/ PromoteStart(r) \/ PromoteEnd(r)
  BY <1>2, BadStays DEF Config, SettleAbandon, PromoteStart, PromoteEnd, Contexts, States
<1>3. CASE Queue(r) \/ (\E ok \in BOOLEAN : GateEnds(r, ok)) \/ Rollup(r)
  <2>1. worker[r].sha \notin BadConfig
    BY <1>0, <1>3 DEF Queue, GateEnds, Rollup, At, Minds
  <2>2. \/ UNCHANGED status
        \/ \E c \in Contexts, st \in States : Post(KeyOf(r), c, st)
    BY <1>3 DEF Queue, GateEnds, Rollup, Verdict, Contexts, States
  <2> QED
    BY <2>1, <2>2, BadStays
<1>4. CASE UNCHANGED status
  BY <1>4, BadStays
<1> QED
  BY <1>1, <1>2, <1>3, <1>4
  DEF Worker, Watcher, Reconcile, ReconcileTip, ReconcileKeep, ReconcileClear,
      WatchSee, WatchCancel, GitFails, LsRemote, CloneSeen, CloneNew, GateCut,
      SettleStop, SettleDone, AbandonClear, FastForward, FastForwardRefused,
      MarkTested, MarkClear, Rest

LEMMA ControlStep ==
    TypeOK /\ DownIdle /\ ControlInv /\ [Next]_vars => ControlInv'
<1> SUFFICES ASSUME TypeOK, DownIdle, ControlInv, [Next]_vars PROVE ControlInv'
  OBVIOUS
<1> USE DEF ControlInv
<1>1. CASE Users \/ UNCHANGED vars
  BY <1>1 DEF Users, Push, vars, store, sched, history, RunsAgree, StopsCount,
              NoBadChecks
<1>2. CASE Terminate
  <2>1. ASSUME NEW r \in Refs
        PROVE  Minds(r, worker'[r], mode', stopping', verdicts')
    BY <1>2 DEF Terminate, TypeOK, WorkerType, RunsAgree, Minds, history, InRun
  <2>2. StopsCount' /\ NoBadChecks'
    BY <1>2 DEF Terminate, TypeOK, StopsCount, NoBadChecks
  <2> QED
    BY <2>1, <2>2 DEF RunsAgree
<1>3. CASE Crash \/ Exit
  BY <1>3, MindsIdle DEF Crash, Exit, Down, RunsAgree, StopsCount, NoBadChecks
<1>4. CASE Start
  <2>1. ASSUME NEW r \in Refs
        PROVE  Minds(r, worker'[r], mode', stopping', verdicts')
    BY <1>4 DEF Start, DownIdle, RunsAgree, Minds, history, Past
  <2> QED
    BY <1>4, <2>1 DEF Start, RunsAgree, StopsCount, NoBadChecks, env
<1>5. CASE BeginPoll
  <2>1. ASSUME NEW r \in Refs
        PROVE  Minds(r, worker'[r], mode', stopping', verdicts')
    BY <1>5 DEF BeginPoll, Busy, RunsAgree, Minds, history, Past
  <2> QED
    BY <1>5, <2>1 DEF BeginPoll, RunsAgree, StopsCount, NoBadChecks, env
<1>6. CASE EndSweep
  BY <1>6 DEF EndSweep, RunsAgree, StopsCount, NoBadChecks, env, history
<1>7. ASSUME NEW r \in Refs, Reconcile(r) PROVE ControlInv'
  <2>1. StopsCount'
    BY <1>7 DEF Reconcile, ReconcileTip, ReconcileStale, ReconcileKeep,
                ReconcileClear, Visited, sched, env, StopsCount
  <2>2. mode = "reconcile" /\ UNCHANGED <<mode, stopping, verdicts>>
    BY <1>7 DEF Reconcile, ReconcileTip, ReconcileStale, ReconcileKeep,
                ReconcileClear, Reconciling, Visited, sched, history
  <2>3. CASE UNCHANGED worker
    BY <1>7, <2>1, <2>2, <2>3, BadStep DEF RunsAgree
  <2>4. CASE Goto(r, "resolved")
    <3>1. Minds(r, worker[r], mode, stopping, verdicts)
      BY DEF RunsAgree
    <3>2. RunsAgree'
      BY <2>2, <2>4, <3>1, GotoIs, MindsBecome DEF Minds, Past
    <3> QED
      BY <1>7, <2>1, <3>2, BadStep
  <2>5. CASE Leave(r)
    <3>1. worker'[r] = Idle /\ Others(r)
      BY <2>5, BecomeIs DEF Leave
    <3>2. RunsAgree'
      BY <2>2, <3>1, MindsIdle, MindsBecome
    <3> QED
      BY <1>7, <2>1, <3>2, BadStep
  <2> QED
    BY <1>7, <2>3, <2>4, <2>5
    DEF Reconcile, ReconcileTip, ReconcileStale, ReconcileKeep, ReconcileClear
<1>8. ASSUME NEW r \in Refs, Dispatch(r) PROVE ControlInv'
  <2>1. Minds(r, worker[r], mode, stopping, verdicts)
    BY DEF RunsAgree
  <2>2. RunsAgree'
    BY <1>8, <2>1, GotoIs, MindsBecome DEF Dispatch, Minds, Past, history
  <2> QED
    BY <1>8, <2>2 DEF Dispatch, StopsCount, NoBadChecks, env
<1>9. ASSUME NEW r \in Refs, Worker(r) \/ Watcher(r) PROVE ControlInv'
  <2>1. StopsCount'
    BY <1>9
    DEF Worker, Watcher, WatchSee, WatchCancel, GitFails, LsRemote, CloneSeen,
        CloneNew, Config, Queue, GateEnds, GateCut, Rollup, SettleAbandon,
        SettleStop, SettleDone, AbandonClear, PromoteStart, FastForward,
        FastForwardRefused, PromoteEnd, MarkTested, MarkClear, Rest, sched, env,
        StopsCount
  <2> QED
    BY <1>9, <2>1, RunsStep, BadStep
<1> QED
  BY <1>1, <1>2, <1>3, <1>4, <1>5, <1>6, <1>7, <1>8, <1>9 DEF Next, Main

LEMMA ControlAlways ==
    Spec => [](TypeOK /\ WorkersAgree /\ MemKnows /\ DownIdle /\ ControlInv)
<1>1. Init => ControlInv
  BY DEF Init, ControlInv, RunsAgree, Minds, StopsCount, NoBadChecks, Idle, Past,
         Contexts
<1>2. EngineInv => TypeOK /\ WorkersAgree
  BY DEF EngineInv
<1> QED
  BY <1>1, <1>2, KnowsAlways, ControlStep, PTL DEF Spec

-----------------------------------------------------------------------------
(* The ledger.                                                             *)

LEMMA StoreSaved ==
    ASSUME "save" \notin Faults, mem = disk, NEW r, NEW s, NEW t,
           \/ UNCHANGED store \/ SetInFlight(r, s) \/ ClearInFlight(r)
           \/ Mark(r, s) \/ MarkBranch(r, t, s)
    PROVE  mem' = disk'
BY DEF store, SetInFlight, ClearInFlight, Mark, MarkBranch, Save, Fail

LEMMA SameStep ==
    TypeOK /\ MemIsDisk /\ "save" \notin Faults /\ [Next]_vars => MemIsDisk'
<1> SUFFICES ASSUME TypeOK, MemIsDisk, "save" \notin Faults, [Next]_vars
             PROVE  MemIsDisk'
  OBVIOUS
<1> USE DEF MemIsDisk
<1>1. CASE Crash \/ Exit
  BY <1>1 DEF Crash, Exit, Down
<1>2. CASE Start
  BY <1>2 DEF Start
<1>3. CASE Users \/ Terminate \/ BeginPoll \/ EndSweep \/ UNCHANGED vars
  BY <1>3 DEF Users, Push, Terminate, BeginPoll, EndSweep, vars, store, sched
<1>4. ASSUME NEW r \in Refs, Reconcile(r) PROVE MemIsDisk'
  BY <1>4, StoreSaved
  DEF Reconcile, ReconcileTip, ReconcileStale, ReconcileKeep, ReconcileClear,
      Reconciling
<1>5. ASSUME NEW r \in Refs, Dispatch(r) PROVE MemIsDisk'
  BY <1>5, StoreSaved DEF Dispatch
<1>6. ASSUME NEW r \in Refs, Worker(r) \/ Watcher(r) PROVE MemIsDisk'
  <2>1. mode = "poll"
    BY <1>6, WorkerStep
  <2>2. mem' = disk'
    BY <1>6, <2>1, StoreSaved
    DEF Worker, Watcher, WatchSee, WatchCancel, GitFails, LsRemote, CloneSeen,
        CloneNew, Config, Queue, GateEnds, GateCut, Rollup, SettleAbandon,
        SettleStop, SettleDone, AbandonClear, PromoteStart, FastForward,
        FastForwardRefused, PromoteEnd, MarkTested, MarkClear, Rest
  <2> QED
    BY <2>2
<1> QED
  BY <1>1, <1>2, <1>3, <1>4, <1>5, <1>6 DEF Next, Main

\* What the ledger shows of the engine.
Shelf == <<verdicts, promoted, disk.seen, disk.last>>

LEMMA MarkerUnshown ==
    ASSUME TypeOK, mem = disk, NEW r \in Refs, NEW s,
           UNCHANGED store \/ SetInFlight(r, s) \/ ClearInFlight(r)
    PROVE  disk'.seen = disk.seen /\ disk'.last = disk.last
BY DEF TypeOK, StoreType, store, SetInFlight, ClearInFlight, Save

\* A worker judges, promotes, records or skips, or does nothing the ledger shows.
LEMMA WorkerBooks ==
    ASSUME TypeOK, WorkersAgree, ControlInv, SoloInv, mem = disk,
           "save" \notin Faults, NEW r \in Refs, Worker(r) \/ Watcher(r)
    PROVE  Book!Next \/ UNCHANGED Shelf
<1> USE DEF At, InRun, Past
<1>0. /\ worker[r] \in WorkerType
      /\ Minds(r, worker[r], mode, stopping, verdicts)
      /\ Agrees(r, worker[r], verdicts, promoted)
      /\ worker[r].pc \in InRun \cup Past => KeyOf(r) \notin disk.seen
  BY DEF TypeOK, ControlInv, RunsAgree, WorkersAgree, SoloInv, RunsUnknown
<1>1. ASSUME NEW ok \in BOOLEAN, GateEnds(r, ok)
      PROVE  Book!Next
  <2>1. worker[r].sha \in Shas /\ worker[r].sha \notin BadConfig
    BY <1>0, <1>1 DEF GateEnds, Agrees, Minds
  <2>2. Book!Judge(r, worker[r].sha, ok)
    BY <1>0, <1>1, <2>1 DEF GateEnds, Book!Judge, Book!Key, KeyOf, Key, store
  <2> QED
    BY <2>1, <2>2 DEF Book!Next
<1>2. CASE FastForward(r)
  <2>1. worker[r].sha \in Shas
    BY <1>0, <1>2 DEF FastForward, Agrees
  <2>2. Book!Promote(r, worker[r].sha)
    BY <1>0, <1>2 DEF FastForward, Agrees, Book!Promote, Book!Key, KeyOf, Key, store
  <2> QED
    BY <2>1, <2>2 DEF Book!Next
<1>3. CASE MarkTested(r)
  <2>1. worker[r].sha \in Shas /\ worker[r].sampled \in Shas
    BY <1>0, <1>3 DEF MarkTested, Agrees
  <2>2. disk' = [mem EXCEPT !.seen = @ \cup {Key(r, worker[r].sampled),
                                             Key(r, worker[r].sha)},
                            !.last[r] = worker[r].sha]
    BY <1>3 DEF MarkTested, MarkBranch, Save, Fail
  <2>3. /\ disk'.seen = disk.seen \cup {Key(r, worker[r].sha),
                                        Key(r, worker[r].sampled)}
        /\ disk'.last = [disk.last EXCEPT ![r] = worker[r].sha]
    BY <2>2 DEF TypeOK, StoreType
  <2>4. Book!Judged(r, worker[r].sha)
    BY <1>0, <1>3 DEF MarkTested, Minds, Book!Judged
  <2>5. UNCHANGED history
    BY <1>3 DEF MarkTested
  <2>6. Book!Record(r, worker[r].sha, worker[r].sampled)
    BY <1>0, <1>3, <2>3, <2>4, <2>5
    DEF MarkTested, history, Book!Record, Book!Key, KeyOf, Key
  <2> QED
    BY <2>1, <2>6 DEF Book!Next
<1>4. CASE CloneSeen(r)
  <2>1. worker[r].sampled \in Shas /\ tip[r] \in Shas
    BY <1>0, <1>4, EngineAssumption DEF CloneSeen, Agrees, TypeOK, EngineAssumption
  <2>2. disk' = [mem EXCEPT !.seen = @ \cup {Key(r, worker[r].sampled)}]
    BY <1>4 DEF CloneSeen, Mark, Save, Fail
  <2>3. /\ disk'.seen = disk.seen \cup {Key(r, worker[r].sampled)}
        /\ disk'.last = disk.last
    BY <2>2 DEF TypeOK, StoreType
  <2>4. Book!Skip(r, tip[r], worker[r].sampled)
    BY <1>4, <2>3 DEF CloneSeen, Has, history, Book!Skip, Book!Key, Key
  <2> QED
    BY <2>1, <2>4 DEF Book!Next
<1>5. CASE /\ UNCHANGED history
           /\ \/ UNCHANGED store
              \/ \E s : SetInFlight(r, s)
              \/ ClearInFlight(r)
  BY <1>5, MarkerUnshown DEF history, Shelf
<1> QED
  BY <1>1, <1>2, <1>3, <1>4, <1>5
  DEF Worker, Watcher, WatchSee, WatchCancel, GitFails, LsRemote, CloneNew, Config,
      Queue, GateCut, Rollup, SettleAbandon, SettleStop, SettleDone, AbandonClear,
      PromoteStart, FastForwardRefused, PromoteEnd, MarkClear, Rest

LEMMA BookStep ==
    TypeOK /\ WorkersAgree /\ ControlInv /\ SoloInv /\ MemIsDisk
      /\ "save" \notin Faults /\ [Next]_vars
        => [Book!Next]_Shelf
<1> SUFFICES ASSUME TypeOK, WorkersAgree, ControlInv, SoloInv, MemIsDisk,
                    "save" \notin Faults, [Next]_vars
             PROVE  Book!Next \/ UNCHANGED Shelf
  OBVIOUS
<1>1. CASE Users \/ Terminate \/ Crash \/ Main \/ UNCHANGED vars
  BY <1>1 DEF Users, Push, Terminate, Crash, Main, Start, Exit, Down, BeginPoll,
              EndSweep, vars, store, history, Shelf
<1>2. ASSUME NEW r \in Refs, Dispatch(r) PROVE UNCHANGED Shelf
  BY <1>2 DEF Dispatch, store, history, Shelf
<1>3. ASSUME NEW r \in Refs, Reconcile(r) PROVE UNCHANGED Shelf
  <2>1. mem = disk
    BY <1>3, ReconcileStep DEF MemIsDisk
  <2>2. UNCHANGED history
    BY <1>3 DEF Reconcile, ReconcileTip, ReconcileStale, ReconcileKeep,
                ReconcileClear
  <2>3. UNCHANGED store \/ ClearInFlight(r)
    BY <1>3 DEF Reconcile, ReconcileTip, ReconcileStale, ReconcileKeep,
                ReconcileClear
  <2> QED
    BY <2>1, <2>2, <2>3, MarkerUnshown DEF history, Shelf
<1>4. ASSUME NEW r \in Refs, Worker(r) \/ Watcher(r)
      PROVE  Book!Next \/ UNCHANGED Shelf
  BY <1>4, WorkerStep, WorkerBooks DEF MemIsDisk
<1> QED
  BY <1>1, <1>2, <1>3, <1>4 DEF Next

\* Swept one ref at a time, and while the state file can be written, the engine
\* implements Ledger for every configuration: it judges what is not recorded,
\* promotes what it judged green and has not recorded yet, and records what it
\* judged, across every push, failed call, stop, crash and restart.
THEOREM LedgerCorrect ==
    Spec => (Serial /\ "save" \notin Faults => ImplementsLedger)
<1>1. Init => Book!Init /\ MemIsDisk
  BY DEF Init, EmptyStore, Book!Init, MemIsDisk
<1>2. TypeOK /\ ("save" \notin Faults => MemIsDisk) /\ [Next]_vars
         => ("save" \notin Faults => MemIsDisk)'
  BY SameStep
<1>3. Spec => []("save" \notin Faults => MemIsDisk)
  BY <1>1, <1>2, ControlAlways, PTL DEF Spec
<1>4. ASSUME Serial, "save" \notin Faults
      PROVE  TypeOK /\ WorkersAgree /\ ControlInv /\ (Serial => SoloInv)
               /\ ("save" \notin Faults => MemIsDisk) /\ [Next]_vars
               => [Book!Next]_<<verdicts, promoted, disk.seen, disk.last>>
  BY <1>4, BookStep DEF Shelf
<1>5. ASSUME Serial, "save" \notin Faults
      PROVE  Spec => ImplementsLedger
  BY <1>1, <1>3, <1>4, <1>5, ControlAlways, SoloAlways, PTL
  DEF Spec, ImplementsLedger, Book!Spec, Book!ledger
<1> QED
  BY <1>5

-----------------------------------------------------------------------------
\* Contexts x that show a result.
Told(x) == x["ci"] \notin {"none", "pending"} /\ x["check"] # "pending"
Reported(k) == Told(status[k])

\* What a run that has posted shows.
Tells(r) ==
    LET w == worker[r] IN
    /\ w.pc = "rollup" /\ w.completed => status[KeyOf(r)]["check"] # "pending"
    /\ w.pc = "settle" /\ w.completed => Reported(KeyOf(r))
    /\ w.pc = "settle" /\ ~w.completed /\ w.cause = "superseded"
         => status[KeyOf(r)]["check"] # "pending"
    /\ w.pc \in Past => Reported(KeyOf(r))

\* The last results of a store are recorded in it and were reported.
LastKept(s) == \A r \in Refs : s.last[r] # NoSha =>
                  Key(r, s.last[r]) \in s.seen /\ Reported(Key(r, s.last[r]))

\* While no process dies, what is pending has its run.
Answered(k) == \E r \in Refs : /\ worker[r].pc \in InRun /\ KeyOf(r) = k
                               /\ ~(worker[r].pc = "settle" /\ worker[r].completed)
PendingIsRun == stops = 0 => \A k \in Keys : Unresolved(k) => Answered(k)

ReportInv == /\ \A r \in Refs : Tells(r)
             /\ LastKept(mem) /\ LastKept(disk)
             /\ PendingIsRun

-----------------------------------------------------------------------------
(* One ref at a time, and no post is dropped.                              *)

LEMMA Posted ==
    ASSUME TypeOK, "post" \notin Faults, NEW k \in Keys, NEW c \in Contexts, NEW st,
           Post(k, c, st)
    PROVE  /\ status'[k][c] = st
           /\ \A d \in Contexts : d # c => status'[k][d] = status[k][d]
           /\ \A j \in Keys : j # k => status'[j] = status[j]
BY DEF TypeOK, Post, Fail

\* What is recorded keeps what it shows.
Apart == \A k \in mem.seen : \A c \in Reports : status'[k][c] = status[k][c]

\* What a step of worker r does to the records and the last results.
LEMMA RecordsMove ==
    ASSUME TypeOK, NEW r \in Refs, Worker(r) \/ Watcher(r) \/ Reconcile(r)
    PROVE  /\ disk' \in {disk, mem'}
           /\ mem.seen \subseteq mem'.seen
           /\ \/ mem'.last = mem.last
              \/ /\ worker[r].pc = "mark" /\ KeyOf(r) \in mem'.seen
                 /\ mem'.last = [mem.last EXCEPT ![r] = worker[r].sha]
<1>1. CASE MarkTested(r)
  BY <1>1 DEF MarkTested, MarkBranch, Save, At, TypeOK, StoreType, KeyOf
<1>2. CASE CloneSeen(r)
  BY <1>2 DEF CloneSeen, Mark, Save, TypeOK, StoreType
<1>3. CASE UNCHANGED store \/ ClearInFlight(r) \/ (\E s : SetInFlight(r, s))
  BY <1>3 DEF store, ClearInFlight, SetInFlight, Save, TypeOK, StoreType
<1> QED
  BY <1>1, <1>2, <1>3
  DEF Worker, Watcher, Reconcile, ReconcileTip, ReconcileStale, ReconcileKeep,
      ReconcileClear, WatchSee, WatchCancel, GitFails, LsRemote, CloneNew, Config,
      Queue, GateEnds, GateCut, Rollup, SettleAbandon, SettleStop, SettleDone,
      AbandonClear, PromoteStart, FastForward, FastForwardRefused, PromoteEnd,
      MarkClear, Rest

LEMMA LastStays ==
    ASSUME TypeOK, LastKept(mem), LastKept(disk), disk.seen \subseteq mem.seen,
           Apart, NEW r \in Refs, Worker(r) \/ Watcher(r) \/ Reconcile(r),
           worker[r].pc = "mark" => Told(status'[KeyOf(r)])
    PROVE  LastKept(mem)' /\ LastKept(disk)'
<1> USE DEF LastKept, Reported
<1>1. ASSUME NEW q \in Refs, NEW S \in {mem, disk}, S.last[q] # NoSha
      PROVE  Key(q, S.last[q]) \in S.seen /\ Told(status'[Key(q, S.last[q])])
  <2>1. Key(q, S.last[q]) \in mem.seen /\ Told(status[Key(q, S.last[q])])
    BY <1>1
  <2> QED
    BY <1>1, <2>1 DEF Apart, Told, Reports
<1>2. ASSUME NEW q \in Refs, mem'.last[q] # NoSha
      PROVE  Key(q, mem'.last[q]) \in mem'.seen /\ Told(status'[Key(q, mem'.last[q])])
  <2>1. CASE mem'.last[q] = mem.last[q]
    BY <1>1, <1>2, <2>1, RecordsMove
  <2>2. CASE mem'.last[q] # mem.last[q]
    <3>1. /\ worker[r].pc = "mark" /\ KeyOf(r) \in mem'.seen
          /\ mem'.last = [mem.last EXCEPT ![r] = worker[r].sha]
      BY <2>2, RecordsMove
    <3>2. q = r /\ mem'.last[q] = worker[r].sha
      BY <2>2, <3>1 DEF TypeOK, StoreType
    <3> QED
      BY <3>1, <3>2 DEF KeyOf
  <2> QED
    BY <2>1, <2>2
<1>3. LastKept(mem)'
  BY <1>2 DEF Key
<1>4. CASE disk' = disk
  BY <1>1, <1>3, <1>4 DEF Key
<1>5. CASE disk' = mem'
  BY <1>3, <1>5
<1>6. disk' = disk \/ disk' = mem'
  BY RecordsMove
<1> QED
  BY <1>3, <1>4, <1>5, <1>6


\* A commit of worker r that is still to be answered for.
Open(r) == worker[r].pc \in InRun /\ ~(worker[r].pc = "settle" /\ worker[r].completed)

\* What worker r leaves of the reports of its commit, when only it is at work.
WorkerReports(r) ==
    /\ Apart
    /\ worker[r].pc = "mark" => Told(status'[KeyOf(r)])
    /\ Tells(r)'
    /\ stops = 0 => \A k \in Keys : Unresolved(k)' => Open(r)' /\ KeyOf(r)' = k

LEMMA ReportsMade ==
    ASSUME TypeOK, WorkersAgree, ControlInv, SoloInv, "post" \notin Faults,
           NEW r \in Refs, Tells(r), Worker(r) \/ Watcher(r),
           stops = 0 => \A k \in Keys : Unresolved(k) => Open(r) /\ KeyOf(r) = k
    PROVE  WorkerReports(r)
<1> USE DEF At, InRun, Past
<1>0. /\ worker[r] \in WorkerType
      /\ Minds(r, worker[r], mode, stopping, verdicts)
      /\ Agrees(r, worker[r], verdicts, promoted)
      /\ worker[r].pc \in InRun \cup Past =>
            worker[r].sha \in Shas /\ KeyOf(r) \in Keys /\ KeyOf(r) \notin mem.seen
      /\ worker[r].sha \in BadConfig /\ KeyOf(r) \in Keys =>
            status[KeyOf(r)]["check"] = "none"
      /\ mem.seen \subseteq Keys
  BY RunKey DEF TypeOK, ControlInv, RunsAgree, WorkersAgree, SoloInv, RunsUnknown,
                NoBadChecks, KeyOf, Key, StoreType
\* The worker does not post, and does not go where it would have to have.
<1>1. ASSUME UNCHANGED status, Tells(r)',
             worker[r].pc \in InRun => /\ Open(r) => Open(r)'
                                       /\ worker'[r].sha = worker[r].sha
      PROVE  WorkerReports(r)
  <2>1. worker[r].pc = "mark" => Told(status'[KeyOf(r)])
    BY <1>1 DEF Tells, Reported
  <2>2. KeyOf(r)' = Key(r, worker'[r].sha) /\ KeyOf(r) = Key(r, worker[r].sha)
    BY DEF KeyOf, Key
  <2> QED
    BY <1>1, <2>1, <2>2 DEF WorkerReports, Apart, Unresolved, Open
<1>2. CASE WatchSee(r) \/ WatchCancel(r)
  <2>1. PICK w \in {[worker[r] EXCEPT !.newer = TRUE],
                    [worker[r] EXCEPT !.cause = "superseded"]} : Become(r, w)
    BY <1>2 DEF WatchSee, WatchCancel
  <2>2. worker'[r] = w /\ UNCHANGED status
    BY <1>2, <2>1, BecomeIs DEF WatchSee, WatchCancel, Rest
  <2>3. /\ w.pc = worker[r].pc /\ w.sha = worker[r].sha
        /\ w.completed = worker[r].completed
        /\ w.cause # worker[r].cause => worker[r].cause = "none"
    BY <1>0, <1>2, <2>1, <2>2 DEF WorkerType, WatchSee, WatchCancel, Become, TypeOK
  <2>4. Tells(r)'
    BY <1>0, <2>2, <2>3 DEF Tells, Minds, Reported, KeyOf, Key
  <2> QED
    BY <1>1, <2>2, <2>3, <2>4 DEF Open
<1>3. CASE GitFails(r) \/ LsRemote(r) \/ CloneSeen(r) \/ AbandonClear(r) \/ MarkClear(r)
  <2>1. /\ worker[r].pc \in {"poll", "clone", "abandon", "clear"}
        /\ UNCHANGED status
    BY <1>3 DEF GitFails, LsRemote, CloneSeen, AbandonClear, MarkClear, Rest
  <2>2. worker'[r].pc \in {"idle", "poll", "clone"}
    <3> DEFINE w == [Idle EXCEPT !.pc = "clone", !.sampled = tip[r]]
    <3>1. CASE Become(r, w)
      <4>1. w.pc = "clone"
        BY DEF Idle
      <4> HIDE DEF w
      <4> QED
        BY <3>1, <4>1, BecomeIs
    <3>2. ASSUME NEW b, Leave(r) \/ Return(r, b)
          PROVE  worker'[r].pc \in {"idle", "poll", "clone"}
      BY <3>2, Gone
    <3> QED
      BY <1>3, <3>1, <3>2
      DEF GitFails, LsRemote, CloneSeen, AbandonClear, MarkClear, Leave
  <2>3. Tells(r)'
    BY <2>2 DEF Tells
  <2> QED
    BY <1>1, <2>1, <2>3
<1>4. CASE CloneNew(r)
  <2>1. worker'[r] = [worker[r] EXCEPT !.pc = "config", !.sha = tip[r]]
    BY <1>4, BecomeIs DEF CloneNew
  <2>2. worker'[r].pc = "config"
    BY <1>0, <2>1 DEF WorkerType
  <2>3. Tells(r)'
    BY <2>2 DEF Tells
  <2> QED
    BY <1>1, <1>4, <2>3 DEF CloneNew
<1>5. CASE GateCut(r)
  <2>1. Goto(r, "rollup") /\ UNCHANGED status
    BY <1>5 DEF GateCut, Rest
  <2>2. Tells(r)'
    BY <1>0, <1>5, <2>1, GotoIs DEF GateCut, Tells, Minds
  <2> QED
    BY <1>1, <1>5, <2>1, <2>2, GotoIs DEF GateCut, Open
<1>6. CASE SettleDone(r)
  <2>1. PICK pc \in {"promote", "mark"} : Goto(r, pc)
    BY <1>6 DEF SettleDone
  <2>2. worker[r].pc = "settle" /\ worker[r].completed /\ UNCHANGED status
    BY <1>0, <1>6 DEF SettleDone, Abandoned, Minds, Rest, WorkerType
  <2>3. Tells(r)'
    BY <2>1, <2>2, GotoIs DEF Tells, Reported, KeyOf, Key
  <2> QED
    BY <1>1, <2>1, <2>2, <2>3, GotoIs DEF Open
<1>7. CASE SettleStop(r)
  <2>1. stops # 0
    BY <1>7 DEF SettleStop, ControlInv, StopsCount, TypeOK
  <2>2. worker'[r].pc \in {"idle", "poll"} /\ UNCHANGED status
    BY <1>7, Gone DEF SettleStop, Rest
  <2> QED
    BY <1>7, <2>1, <2>2 DEF SettleStop, WorkerReports, Apart, Tells
<1>8. CASE FastForward(r) \/ FastForwardRefused(r) \/ MarkTested(r)
  <2>1. worker[r].pc \in {"ff", "mark"} /\ UNCHANGED status
    BY <1>8 DEF FastForward, FastForwardRefused, MarkTested, Rest
  <2>2. \/ worker'[r].pc \in {"idle", "poll", "clear"}
        \/ worker'[r].pc \in Past /\ worker'[r].sha = worker[r].sha
    <3> DEFINE w == [worker[r] EXCEPT !.pc = "clear", !.err = ~Saved]
    <3>1. CASE Become(r, w)
      <4>1. w.pc = "clear"
        BY <1>0 DEF WorkerType
      <4> HIDE DEF w
      <4> QED
        BY <3>1, <4>1, BecomeIs
    <3>2. CASE Leave(r)
      BY <3>2, Gone
    <3>3. CASE UNCHANGED worker
      BY <2>1, <3>3
    <3>4. CASE Goto(r, "ffok") \/ Goto(r, "fferr")
      BY <3>4, GotoIs
    <3> QED
      BY <1>8, <3>1, <3>2, <3>3, <3>4 DEF FastForward, FastForwardRefused, MarkTested
  <2>3. Tells(r)'
    BY <2>1, <2>2 DEF Tells, Reported, KeyOf, Key
  <2> QED
    BY <1>1, <2>1, <2>3
\* It posts on the context of the promotion only.
<1>9. CASE PromoteStart(r) \/ PromoteEnd(r)
  <2>1. worker[r].pc \in {"promote", "ffok", "fferr"}
    BY <1>9 DEF PromoteStart, PromoteEnd
  <2>2. PICK st : Post(KeyOf(r), "promote", st)
    BY <1>9 DEF PromoteStart, PromoteEnd
  <2>3. \A k \in Keys : \A c \in Reports : status'[k][c] = status[k][c]
    BY <1>0, <2>1, <2>2, Posted DEF Reports, Contexts
  <2>4. Leave(r) \/ Goto(r, "ff") \/ Goto(r, "mark")
    BY <1>9 DEF PromoteStart, PromoteEnd
  <2>5. \/ worker'[r].pc \in {"idle", "poll"}
        \/ worker'[r].pc \in Past /\ worker'[r].sha = worker[r].sha
    BY <2>4, Gone, GotoIs
  <2>6. Tells(r)'
    BY <1>0, <2>1, <2>3, <2>5 DEF Tells, Reported, Told, Reports, KeyOf, Key
  <2>7. \A k \in Keys : Unresolved(k)' => Unresolved(k)
    BY <2>3 DEF Unresolved
  <2> QED
    BY <1>0, <2>1, <2>3, <2>6, <2>7 DEF WorkerReports, Apart, Open
\* It posts on the reports of its run.
<1>10. ASSUME NEW c \in Reports, NEW st, Post(KeyOf(r), c, st),
              worker[r].pc \in InRun, worker'[r].sha = worker[r].sha,
              Tells(r)', Open(r)' \/ ~Unresolved(KeyOf(r))'
       PROVE  WorkerReports(r)
  <2>1. \A k \in Keys : k # KeyOf(r) => status'[k] = status[k]
    BY <1>0, <1>10, Posted DEF Reports, Contexts
  <2>2. KeyOf(r)' = KeyOf(r)
    BY <1>10 DEF KeyOf, Key
  <2>3. Apart
    BY <1>0, <1>10, <2>1 DEF Apart
  <2>4. \A k \in Keys : k # KeyOf(r) /\ Unresolved(k)' => Unresolved(k)
    BY <2>1 DEF Unresolved
  <2>5. stops = 0 => \A k \in Keys : Unresolved(k)' => k = KeyOf(r)
    BY <2>4
  <2>6. stops = 0 => \A k \in Keys : Unresolved(k)' => Open(r)' /\ KeyOf(r)' = k
    BY <1>10, <2>2, <2>5 DEF Unresolved
  <2> QED
    BY <1>10, <2>3, <2>6 DEF WorkerReports
<1>11. CASE Config(r)
  <2> DEFINE bad == worker[r].sha \in BadConfig
             w == [worker[r] EXCEPT !.pc = IF bad THEN "settle" ELSE "queue",
                                    !.completed = bad]
  <2>1. worker'[r] = w
    BY <1>11, BecomeIs DEF Config
  <2>2. /\ w.sha = worker[r].sha
        /\ w.pc = IF bad THEN "settle" ELSE "queue"
        /\ w.completed = bad
    BY <1>0 DEF WorkerType
  <2> HIDE DEF w
  <2>3. /\ status'[KeyOf(r)]["ci"] = IF bad THEN "error" ELSE "pending"
        /\ status'[KeyOf(r)]["check"] = status[KeyOf(r)]["check"]
    BY <1>0, <1>11, Posted DEF Config, Contexts
  <2>4. KeyOf(r)' = KeyOf(r)
    BY <2>1, <2>2 DEF KeyOf, Key
  <2>5. Tells(r)'
    BY <1>0, <1>11, <2>1, <2>2, <2>3, <2>4 DEF Config, Tells, Reported, Told
  <2>6. Open(r)' \/ ~Unresolved(KeyOf(r))'
    BY <1>0, <1>11, <2>1, <2>2, <2>3, <2>4 DEF Config, Open, Unresolved, Reports
  <2> QED
    BY <1>10, <1>11, <2>1, <2>2, <2>5, <2>6 DEF Config, Reports
<1>12. CASE Queue(r)
  <2>1. Goto(r, "gate") /\ Post(KeyOf(r), "check", "pending")
    BY <1>12 DEF Queue
  <2>2. Tells(r)' /\ Open(r)' /\ worker'[r].sha = worker[r].sha
    BY <2>1, GotoIs DEF Tells, Open
  <2> QED
    BY <1>10, <1>12, <2>1, <2>2 DEF Queue, Reports
<1>13. ASSUME NEW ok \in BOOLEAN, GateEnds(r, ok)
       PROVE  WorkerReports(r)
  <2> DEFINE w == [worker[r] EXCEPT !.pc = "rollup", !.completed = TRUE, !.passed = ok]
  <2>1. worker'[r] = w
    BY <1>13, BecomeIs DEF GateEnds
  <2>2. w.sha = worker[r].sha /\ w.pc = "rollup"
    BY <1>0 DEF WorkerType
  <2> HIDE DEF w
  <2>3. status'[KeyOf(r)]["check"] = Verdict(ok)
    BY <1>0, <1>13, Posted DEF GateEnds, Contexts
  <2>4. KeyOf(r)' = KeyOf(r)
    BY <2>1, <2>2 DEF KeyOf, Key
  <2>5. Tells(r)' /\ Open(r)'
    BY <2>1, <2>2, <2>3, <2>4 DEF Tells, Verdict, Open
  <2> QED
    BY <1>10, <1>13, <2>1, <2>2, <2>5 DEF GateEnds, Reports
<1>14. CASE Rollup(r)
  <2>1. /\ worker[r].pc = "rollup" /\ Goto(r, "settle")
        /\ worker[r].completed \/ worker[r].cause \in {"superseded", "shutdown"}
    BY <1>14 DEF Rollup
  <2>2. KeyOf(r)' = KeyOf(r)
    BY <2>1, GotoIs DEF KeyOf, Key
  <2>3. CASE worker[r].completed
    <3>1. Post(KeyOf(r), "ci", Verdict(worker[r].passed))
      BY <1>14, <2>3 DEF Rollup
    <3>2. Told(status'[KeyOf(r)])
      BY <1>0, <2>1, <2>3, <3>1, Posted DEF Tells, Told, Verdict, Contexts
    <3>3. Tells(r)' /\ ~Unresolved(KeyOf(r))'
      BY <2>1, <2>2, <2>3, <3>2, GotoIs DEF Tells, Reported, Told, Unresolved, Reports
    <3> QED
      BY <1>10, <2>1, <3>1, <3>3, GotoIs DEF Reports
  <2>4. CASE ~worker[r].completed /\ worker[r].cause = "superseded"
    <3>1. Post(KeyOf(r), "check", "error")
      BY <1>14, <2>4 DEF Rollup
    <3>2. status'[KeyOf(r)]["check"] = "error"
      BY <1>0, <2>1, <3>1, Posted DEF Contexts
    <3>3. Tells(r)' /\ Open(r)'
      BY <2>1, <2>2, <2>4, <3>2, GotoIs DEF Tells, Open
    <3> QED
      BY <1>10, <2>1, <3>1, <3>3, GotoIs DEF Reports
  <2>5. CASE ~worker[r].completed /\ worker[r].cause = "shutdown"
    <3>1. UNCHANGED status
      BY <1>14, <2>5 DEF Rollup
    <3>2. Tells(r)'
      BY <2>1, <2>5, GotoIs DEF Tells
    <3> QED
      BY <1>1, <2>1, <2>5, <3>1, <3>2, GotoIs DEF Open
  <2> QED
    BY <2>1, <2>3, <2>4, <2>5
<1>15. CASE SettleAbandon(r)
  <2>1. /\ worker[r].pc = "settle" /\ ~worker[r].completed
        /\ worker[r].cause = "superseded"
        /\ Goto(r, "abandon") /\ Post(KeyOf(r), "ci", "error")
    BY <1>15 DEF SettleAbandon, Abandoned
  <2>2. KeyOf(r)' = KeyOf(r)
    BY <2>1, GotoIs DEF KeyOf, Key
  <2>3. ~Unresolved(KeyOf(r))'
    BY <1>0, <2>1, <2>2, Posted DEF Tells, Unresolved, Reports, Contexts
  <2>4. Tells(r)'
    BY <2>1, GotoIs DEF Tells
  <2> QED
    BY <1>10, <2>1, <2>3, <2>4, GotoIs DEF Reports
<1> QED
  BY <1>2, <1>3, <1>4, <1>5, <1>6, <1>7, <1>8, <1>9, <1>11, <1>12, <1>13, <1>14,
     <1>15
  DEF Worker, Watcher

LEMMA ReportStep ==
    TypeOK /\ WorkersAgree /\ MemKnows /\ DownIdle /\ ControlInv /\ SoloInv
      /\ Serial /\ ReportInv /\ "post" \notin Faults /\ [Next]_vars
        => ReportInv'
<1> SUFFICES ASSUME TypeOK, WorkersAgree, MemKnows, DownIdle, ControlInv, SoloInv,
                    Serial, ReportInv, "post" \notin Faults, [Next]_vars
             PROVE  ReportInv'
  OBVIOUS
<1> USE DEF ReportInv
<1>1. ASSUME UNCHANGED <<status, store>>, stops' = stops,
             \A r \in Refs : worker'[r] = worker[r]
      PROVE  ReportInv'
  BY <1>1 DEF store, Tells, Reported, Told, KeyOf, Key, LastKept, PendingIsRun,
              Answered, Unresolved
<1>2. CASE Users \/ BeginPoll \/ EndSweep \/ UNCHANGED vars
  BY <1>1, <1>2 DEF Users, Push, BeginPoll, EndSweep, vars, env, store
<1>3. CASE Terminate
  <2>1. ASSUME NEW r \in Refs
        PROVE  /\ worker'[r].pc = worker[r].pc
               /\ worker'[r].sha = worker[r].sha
               /\ worker'[r].completed = worker[r].completed
               /\ worker'[r].cause = "superseded" => worker[r].cause = "superseded"
    BY <1>3 DEF Terminate, TypeOK, WorkerType
  <2>2. stops' # 0 /\ UNCHANGED <<status, mem, disk>>
    BY <1>3 DEF Terminate, TypeOK, store
  <2> QED
    BY <2>1, <2>2 DEF Tells, Reported, KeyOf, Key, LastKept, PendingIsRun
<1>4. CASE Crash \/ Exit
  <2>1. stops' # 0
    BY <1>4 DEF Crash, Exit, ControlInv, StopsCount, TypeOK
  <2>2. /\ UNCHANGED <<status, disk>> /\ mem' = EmptyStore
        /\ \A r \in Refs : worker'[r].pc = "idle"
    BY <1>4 DEF Crash, Exit, Down, Idle
  <2>3. LastKept(mem)' /\ LastKept(disk)'
    BY <2>2 DEF LastKept, EmptyStore, Reported
  <2> QED
    BY <2>1, <2>2, <2>3 DEF Tells, PendingIsRun, Past
<1>5. CASE Start
  BY <1>5 DEF Start, env, Tells, Reported, KeyOf, Key, LastKept, PendingIsRun,
              Answered, Unresolved
<1>6. ASSUME NEW r \in Refs, Reconcile(r) PROVE ReportInv'
  <2>1. /\ mode = "reconcile"
        /\ \A q \in Refs : worker[q].pc \in {"idle", "resolved"}
    BY <1>6, ReconcileStep DEF ControlInv, RunsAgree, Minds
  <2>2. \A q \in Refs : worker'[q].pc \in {"idle", "resolved"}
    BY <1>6, <2>1, ReconcileStep DEF Others
  <2>3. \A k \in Keys, c \in Contexts :
           status'[k][c] # status[k][c] =>
               status[k][c] = "pending" /\ status'[k][c] = "error"
    <3>1. CASE ReconcileStale(r)
      <4>1. PICK dropped \in SUBSET Contexts :
                status' = [status EXCEPT ![Key(r, mem.inFlight[r])] =
                    [c \in Contexts |-> IF @[c] = "pending" /\ c \notin dropped
                                        THEN "error" ELSE @[c]]]
        BY <3>1 DEF ReconcileStale
      <4> QED
        BY <4>1 DEF TypeOK
    <3>2. CASE UNCHANGED status
      BY <3>2
    <3> QED
      BY <1>6, <3>1, <3>2
      DEF Reconcile, ReconcileTip, ReconcileKeep, ReconcileClear
  <2>4. ASSUME NEW q \in Refs, NEW S \in {mem, disk}, S.last[q] # NoSha
        PROVE  /\ Key(q, S.last[q]) \in S.seen
               /\ Told(status'[Key(q, S.last[q])])
    <3>1. Key(q, S.last[q]) \in S.seen /\ Told(status[Key(q, S.last[q])])
      BY <2>4 DEF LastKept, Reported
    <3>2. Key(q, S.last[q]) \in Keys
      BY <3>1 DEF TypeOK, StoreType
    <3> QED
      BY <2>3, <3>1, <3>2 DEF Told, Contexts
  <2>5. UNCHANGED store \/ ClearInFlight(r)
    BY <1>6 DEF Reconcile, ReconcileTip, ReconcileStale, ReconcileKeep,
                ReconcileClear
  <2>6. /\ mem'.seen = mem.seen /\ mem'.last = mem.last
        /\ disk' \in {disk, mem'}
    BY <2>5 DEF TypeOK, StoreType, store, ClearInFlight, Save
  <2>7. LastKept(mem)'
    BY <2>4, <2>6 DEF LastKept, Reported, Key
  <2>8. LastKept(disk)'
    <3>1. CASE disk' = disk
      BY <2>4, <3>1 DEF LastKept, Reported, Key
    <3>2. CASE disk' = mem'
      BY <2>7, <3>2 DEF LastKept
    <3> QED
      BY <2>6, <3>1, <3>2
  <2>9. PendingIsRun'
    <3>1. stops = 0 => \A k \in Keys : ~Unresolved(k)
      BY <2>1 DEF PendingIsRun, Answered, InRun
    <3>2. \A k \in Keys : Unresolved(k)' => Unresolved(k)
      BY <2>3 DEF Unresolved, Reports, Contexts
    <3>3. stops' = stops
      BY <1>6 DEF Reconcile, ReconcileTip, ReconcileStale, ReconcileKeep,
                  ReconcileClear, env
    <3> QED
      BY <3>1, <3>2, <3>3 DEF PendingIsRun
  <2> QED
    BY <2>2, <2>7, <2>8, <2>9 DEF Tells, Past
<1>7. ASSUME NEW r \in Refs, Dispatch(r) PROVE ReportInv'
  <2>1. \A q \in Refs : worker[q].pc = "idle"
    <3>1. Busy \subseteq Refs /\ IsFiniteSet(Busy)
      BY FS_Subset DEF Busy, Serial
    <3>2. Cardinality(Busy) = 0
      BY <1>7, <3>1, FS_CardinalityType DEF Dispatch, Serial
    <3> QED
      BY <3>1, <3>2, FS_EmptySet DEF Busy
  <2>2. \A q \in Refs : worker'[q].pc \in {"idle", "poll"}
    BY <1>7, <2>1, GotoIs DEF Dispatch, Others
  <2>3. UNCHANGED <<status, mem, disk, stops>>
    BY <1>7 DEF Dispatch, store, env
  <2> QED
    BY <2>1, <2>2, <2>3 DEF Tells, Past, LastKept, Reported, PendingIsRun, Answered,
                            InRun, Unresolved
<1>8. ASSUME NEW r \in Refs, Worker(r) \/ Watcher(r) PROVE ReportInv'
  <2>1. /\ mode = "poll" /\ worker[r].pc # "idle" /\ Others(r)
        /\ disk.seen \subseteq mem.seen
    BY <1>8, WorkerStep DEF MemKnows
  <2>2. \A q \in Refs : q # r => worker[q].pc = "idle" /\ worker'[q].pc = "idle"
    BY <2>1 DEF SoloInv, Solo, Others
  <2>3. stops = 0 => \A k \in Keys : Unresolved(k) => Open(r) /\ KeyOf(r) = k
    BY <2>2 DEF PendingIsRun, Answered, Open, InRun
  <2>4. WorkerReports(r)
    BY <1>8, <2>3, ReportsMade
  <2>5. LastKept(mem)' /\ LastKept(disk)'
    BY <1>8, <2>1, <2>4, LastStays DEF WorkerReports
  <2>6. stops' = stops
    BY <1>8
    DEF Worker, Watcher, WatchSee, WatchCancel, GitFails, LsRemote, CloneSeen,
        CloneNew, Config, Queue, GateEnds, GateCut, Rollup, SettleAbandon,
        SettleStop, SettleDone, AbandonClear, PromoteStart, FastForward,
        FastForwardRefused, PromoteEnd, MarkTested, MarkClear, Rest, env
  <2>7. PendingIsRun'
    BY <2>4, <2>6 DEF WorkerReports, PendingIsRun, Answered, Open
  <2>8. \A q \in Refs : Tells(q)'
    BY <2>2, <2>4 DEF WorkerReports, Tells, Past
  <2> QED
    BY <2>5, <2>7, <2>8
<1> QED
  BY <1>2, <1>3, <1>4, <1>5, <1>6, <1>7, <1>8 DEF Next, Main

LEMMA ReportAlways == Spec => [](Serial /\ "post" \notin Faults => ReportInv)
<1>1. Init => (Serial /\ "post" \notin Faults => ReportInv)
  BY DEF Init, ReportInv, Tells, LastKept, PendingIsRun, Unresolved, Reports,
         Contexts, EmptyStore, Idle, Past
<1>2. TypeOK /\ WorkersAgree /\ MemKnows /\ DownIdle /\ ControlInv
        /\ (Serial => SoloInv) /\ (Serial /\ "post" \notin Faults => ReportInv)
        /\ [Next]_vars
        => (Serial /\ "post" \notin Faults => ReportInv)'
  BY ReportStep DEF Serial
<1> QED
  BY <1>1, <1>2, ControlAlways, SoloAlways, PTL DEF Spec

\* Swept one ref at a time and with every post delivered, the commit remembered
\* as a branch's last result shows a result on ci and nothing pending, also when
\* writes of the state file fail and processes die (MarkBranch, setStatus).
THEOREM LastCorrect ==
    Spec => [](Serial /\ "post" \notin Faults => LastIsReported)
<1>1. ReportInv => LastIsReported
  BY DEF ReportInv, LastKept, LastIsReported, Reported, Told, Unresolved, Reports
<1> QED
  BY <1>1, ReportAlways, PTL

\* Swept one ref at a time and with every post delivered, no commit recorded as
\* processed has a ci or check context pending, until a process dies: a run that
\* is superseded, abandoned or completed resolves what it posted before anything
\* records its commit.
THEOREM ResolvedCorrect ==
    Spec => [](Serial /\ "post" \notin Faults => SeenIsResolved)
<1>1. TypeOK /\ SoloInv /\ ReportInv => SeenIsResolved
  BY DEF TypeOK, StoreType, SoloInv, RunsUnknown, ReportInv, PendingIsRun, Answered,
         SeenIsResolved
<1> QED
  BY <1>1, ControlAlways, SoloAlways, ReportAlways, PTL

-----------------------------------------------------------------------------
(* Markers, for any number of refs at once.                                *)

\* No write, post or list fails.
Reliable == Faults \cap {"save", "post", "list"} = {}

\* The marker of r names the commit of k.
Marks(r, k) == RepoOf[r] = k[1] /\ disk.inFlight[r] = k[2]

\* The worker w will not post on context c any more.
Spoken(w, c) == \/ w.pc \in After
                \/ w.pc = "settle" /\ w.completed
                \/ /\ c = "check"
                   /\ \/ w.pc = "rollup" /\ w.completed
                      \/ w.pc = "settle" /\ w.cause = "superseded"

\* A worker at its run has its commit marked; a run starts from no marker, and
\* start-up clears a marker only when it has resolved the commit.
Placed(r) ==
    LET w == worker[r]
        f == disk.inFlight[r]
    IN /\ IF w.pc \in InRun \cup After THEN f = w.sha ELSE w.sha = NoSha
       /\ w.pc \in {"poll", "clone"} => f = NoSha
       /\ w.pc = "idle" /\ mode = "poll" => stopping \/ f = NoSha
       /\ w.pc = "idle" /\ mode = "reconcile" => r \in todo \/ f = NoSha
       /\ w.pc = "resolved" /\ f # NoSha => ~Unresolved(Key(r, f))
       /\ mode = "poll" /\ r \in unswept => w.pc = "idle"

\* Of all that mark a commit with a pending context, one has yet to speak.
OneWillSpeak ==
    \A k \in Keys : \A c \in Reports :
        status[k][c] = "pending" /\ (\E r \in Refs : Marks(r, k)) =>
            \E r \in Refs : Marks(r, k) /\ ~Spoken(worker[r], c)

CoverInv == (\A r \in Refs : Placed(r)) /\ OneWillSpeak

LEMMA Unfailing ==
    ASSUME Reliable
    PROVE  "save" \notin Faults /\ "post" \notin Faults /\ "list" \notin Faults
BY DEF Reliable

LEMMA LeaveIs ==
    ASSUME TypeOK, NEW r \in Refs, NEW b, Leave(r) \/ Return(r, b)
    PROVE  /\ Others(r)
           /\ worker'[r].sha = NoSha
           /\ worker'[r].pc \in {"idle", "poll"}
           /\ Leave(r) => worker'[r].pc = "idle"
<1>1. PICK w \in {Idle, [Idle EXCEPT !.pc = "poll"]} :
          Become(r, w) /\ (Leave(r) => w = Idle)
  BY DEF Leave, Return
<1>2. worker'[r] = w /\ Others(r)
  BY <1>1, BecomeIs
<1> QED
  BY <1>1, <1>2 DEF Idle

\* What the operations of the store do to the markers.
LEMMA MarkersMove ==
    ASSUME TypeOK, Reliable, mem = disk, NEW r \in Refs, NEW s, NEW t
    PROVE  /\ UNCHANGED store \/ Mark(r, s) \/ MarkBranch(r, t, s)
                => disk'.inFlight = disk.inFlight
           /\ SetInFlight(r, s) => /\ disk'.inFlight[r] = s
                                   /\ \A q \in Refs : q # r =>
                                         disk'.inFlight[q] = disk.inFlight[q]
           /\ ClearInFlight(r) => /\ disk'.inFlight[r] = NoSha
                                  /\ \A q \in Refs : q # r =>
                                        disk'.inFlight[q] = disk.inFlight[q]
<1>1. ASSUME NEW new, Save(new) PROVE disk' = new
  BY <1>1, Unfailing DEF Save, Fail
<1>2. UNCHANGED store \/ Mark(r, s) \/ MarkBranch(r, t, s)
         => disk'.inFlight = disk.inFlight
  BY <1>1 DEF TypeOK, StoreType, store, Mark, MarkBranch
<1>3. ASSUME NEW u, SetInFlight(r, u)
      PROVE  /\ disk'.inFlight[r] = u
             /\ \A q \in Refs : q # r => disk'.inFlight[q] = disk.inFlight[q]
  <2>1. disk' = [disk EXCEPT !.inFlight[r] = u]
    BY <1>1, <1>3 DEF SetInFlight
  <2> QED
    BY <2>1 DEF TypeOK, StoreType
<1>4. ClearInFlight(r) => \/ disk' = disk /\ disk.inFlight[r] = NoSha
                          \/ SetInFlight(r, NoSha)
  BY DEF ClearInFlight, SetInFlight, store
<1> QED
  BY <1>2, <1>3, <1>4

\* What a step of worker r leaves of its marker, and of its debts.
WorkerMarks(r) ==
    /\ \A q \in Refs : q # r => disk'.inFlight[q] = disk.inFlight[q]
    /\ Placed(r)'
    /\ \A k \in Keys : \A c \in Reports :
          status'[k][c] = "pending" =>
              /\ Marks(r, k) /\ ~Spoken(worker[r], c) =>
                    Marks(r, k)' /\ ~Spoken(worker'[r], c)
              /\ status[k][c] # "pending" => Marks(r, k)' /\ ~Spoken(worker'[r], c)
              /\ Marks(r, k)' /\ ~Marks(r, k) => ~Spoken(worker'[r], c)

LEMMA MarksMade ==
    ASSUME TypeOK, WorkersAgree, ControlInv, mem = disk, Reliable,
           NEW r \in Refs, Placed(r), Worker(r) \/ Watcher(r)
    PROVE  WorkerMarks(r)
<1> USE DEF At, InRun, After, Past
<1>0. /\ worker[r] \in WorkerType
      /\ Minds(r, worker[r], mode, stopping, verdicts)
      /\ worker[r].pc \in InRun \cup After =>
            worker[r].sha \in Shas /\ KeyOf(r) \in Keys
      /\ \A k \in Keys : k[2] # NoSha /\ k = <<k[1], k[2]>>
      /\ mode = "poll" /\ mode' = mode /\ UNCHANGED <<stopping, unswept>>
      /\ worker[r].pc # "idle" /\ Others(r)
  <2>1. mode = "poll" /\ mode' = mode /\ worker[r].pc # "idle" /\ Others(r)
    BY WorkerStep
  <2>2. UNCHANGED <<stopping, unswept>>
    BY DEF Worker, Watcher, WatchSee, WatchCancel, GitFails, LsRemote, CloneSeen,
           CloneNew, Config, Queue, GateEnds, GateCut, Rollup, SettleAbandon,
           SettleStop, SettleDone, AbandonClear, PromoteStart, FastForward,
           FastForwardRefused, PromoteEnd, MarkTested, MarkClear, Rest, sched
  <2>3. \A k \in Keys : k[2] # NoSha /\ k = <<k[1], k[2]>>
    BY EngineAssumption DEF Keys, EngineAssumption
  <2> QED
    BY <2>1, <2>2, <2>3, RunKey DEF TypeOK, ControlInv, RunsAgree
<1>01. /\ r \notin unswept
       /\ worker[r].pc \in InRun \cup After => disk.inFlight[r] = worker[r].sha
       /\ worker[r].pc \in {"poll", "clone"} => disk.inFlight[r] = NoSha
  BY <1>0 DEF Placed
\* The run goes on and keeps its marker; it speaks if it has to.
<1>1. ASSUME worker[r].pc \in InRun \cup After, worker'[r].pc \in InRun \cup After,
             worker'[r].sha = worker[r].sha, disk'.inFlight = disk.inFlight,
             \A k \in Keys : k # KeyOf(r) =>
                 \A c \in Reports : status'[k][c] = status[k][c],
             \A c \in Reports : status'[KeyOf(r)][c] = "pending" =>
                 /\ Spoken(worker'[r], c) => Spoken(worker[r], c)
                 /\ status[KeyOf(r)][c] # "pending" => ~Spoken(worker'[r], c)
      PROVE  WorkerMarks(r)
  <2>1. Placed(r)'
    BY <1>0, <1>01, <1>1 DEF Placed
  <2>2. \A k \in Keys : Marks(r, k) <=> k = KeyOf(r)
    BY <1>0, <1>01, <1>1 DEF Marks, KeyOf, Key, Keys
  <2>3. \A k \in Keys : Marks(r, k)' <=> Marks(r, k)
    BY <1>1 DEF Marks
  <2> QED
    BY <1>1, <2>1, <2>2, <2>3 DEF WorkerMarks
\* The worker leaves and posts no report.
<1>2. ASSUME worker'[r].pc \in {"idle", "poll", "clone"}, worker'[r].sha = NoSha,
             \A k \in Keys : \A c \in Reports : status'[k][c] = status[k][c],
             \A q \in Refs : q # r => disk'.inFlight[q] = disk.inFlight[q],
             \/ /\ disk'.inFlight[r] = NoSha
                /\ disk.inFlight[r] = NoSha \/ worker[r].pc \in {"abandon", "clear"}
             \/ /\ disk'.inFlight[r] = disk.inFlight[r]
                /\ stopping /\ worker'[r].pc = "idle"
      PROVE  WorkerMarks(r)
  <2>1. Placed(r)'
    BY <1>0, <1>01, <1>2 DEF Placed
  <2>2. \A c : ~Spoken(worker'[r], c)
    BY <1>2 DEF Spoken
  <2>3. disk'.inFlight[r] = NoSha \/ disk'.inFlight[r] = disk.inFlight[r]
    BY <1>2
  <2>4. ASSUME NEW k \in Keys, NEW c \in Reports, Marks(r, k), ~Spoken(worker[r], c)
        PROVE  Marks(r, k)'
    <3>1. worker[r].pc \notin {"abandon", "clear"}
      BY <2>4 DEF Spoken
    <3>2. disk.inFlight[r] # NoSha
      BY <1>0, <2>4 DEF Marks
    <3> QED
      BY <1>2, <2>4, <3>1, <3>2 DEF Marks
  <2> QED
    BY <1>0, <1>2, <2>1, <2>2, <2>3, <2>4 DEF WorkerMarks, Marks
<1>3. CASE Watcher(r)
  <2>1. PICK w \in {[worker[r] EXCEPT !.newer = TRUE],
                    [worker[r] EXCEPT !.cause = "superseded"]} : Become(r, w)
    BY <1>3 DEF Watcher, WatchSee, WatchCancel
  <2>2. /\ worker'[r] = w /\ UNCHANGED <<status, store>>
        /\ worker[r].pc \in InRun
    BY <1>3, <2>1, BecomeIs DEF Watcher, WatchSee, WatchCancel, Rest
  <2>3. /\ w.pc = worker[r].pc /\ w.sha = worker[r].sha
        /\ w.completed = worker[r].completed
        /\ w.cause # worker[r].cause => worker[r].cause = "none"
    BY <1>0, <1>3, <2>1, <2>2
    DEF WorkerType, Watcher, WatchSee, WatchCancel, Become, TypeOK
  <2>4. \A c \in Reports : Spoken(w, c) => Spoken(worker[r], c)
    BY <1>0, <2>3 DEF Spoken, Minds
  <2> QED
    BY <1>1, <2>2, <2>3, <2>4, MarkersMove
<1>4. CASE GitFails(r) \/ LsRemote(r) \/ CloneSeen(r) \/ AbandonClear(r) \/ MarkClear(r)
  <2>1. /\ worker[r].pc \in {"poll", "clone", "abandon", "clear"}
        /\ UNCHANGED status
    BY <1>4 DEF GitFails, LsRemote, CloneSeen, AbandonClear, MarkClear, Rest
  <2>2. worker'[r].pc \in {"idle", "poll", "clone"} /\ worker'[r].sha = NoSha
    <3> DEFINE w == [Idle EXCEPT !.pc = "clone", !.sampled = tip[r]]
    <3>1. CASE Become(r, w)
      <4>1. w.pc = "clone" /\ w.sha = NoSha
        BY DEF Idle
      <4> HIDE DEF w
      <4> QED
        BY <3>1, <4>1, BecomeIs
    <3>2. ASSUME NEW b, Leave(r) \/ Return(r, b)
          PROVE  worker'[r].pc \in {"idle", "poll", "clone"} /\ worker'[r].sha = NoSha
      BY <3>2, LeaveIs
    <3> QED
      BY <1>4, <3>1, <3>2
      DEF GitFails, LsRemote, CloneSeen, AbandonClear, MarkClear, Leave
  <2>3. CASE GitFails(r) \/ LsRemote(r) \/ CloneSeen(r)
    <3>1. disk'.inFlight = disk.inFlight
      BY <2>3, MarkersMove DEF GitFails, LsRemote, CloneSeen, Rest
    <3>2. worker[r].pc \in {"poll", "clone"}
      BY <2>3 DEF GitFails, LsRemote, CloneSeen
    <3> QED
      BY <1>01, <1>2, <2>1, <2>2, <3>1, <3>2
  <2>4. CASE AbandonClear(r) \/ MarkClear(r)
    <3>1. ClearInFlight(r) /\ worker[r].pc \in {"abandon", "clear"}
      BY <2>4 DEF AbandonClear, MarkClear
    <3> QED
      BY <1>2, <2>1, <2>2, <3>1, MarkersMove
  <2> QED
    BY <1>4, <2>3, <2>4
<1>5. CASE CloneNew(r)
  <2>1. worker'[r] = [worker[r] EXCEPT !.pc = "config", !.sha = tip[r]]
    BY <1>5, BecomeIs DEF CloneNew
  <2>2. worker'[r].pc = "config" /\ worker'[r].sha = tip[r]
    BY <1>0, <2>1 DEF WorkerType
  <2>3. /\ disk'.inFlight[r] = tip[r]
        /\ \A q \in Refs : q # r => disk'.inFlight[q] = disk.inFlight[q]
    BY <1>5, MarkersMove DEF CloneNew
  <2>4. UNCHANGED status /\ \A c : ~Spoken(worker'[r], c)
    BY <1>5, <2>2 DEF CloneNew, Spoken
  <2>5. \A k \in Keys : ~Marks(r, k)
    BY <1>0, <1>01, <1>5 DEF CloneNew, Marks
  <2>6. Placed(r)'
    BY <1>0, <1>01, <2>2, <2>3 DEF Placed
  <2> QED
    BY <2>3, <2>4, <2>5, <2>6 DEF WorkerMarks
<1>6. CASE GateCut(r) \/ SettleDone(r)
  <2>1. PICK pc \in {"rollup", "promote", "mark"} : Goto(r, pc)
    BY <1>6 DEF GateCut, SettleDone
  <2>2. UNCHANGED <<status, store>> /\ worker[r].pc \in InRun
    BY <1>6 DEF GateCut, SettleDone, Rest
  <2>3. \A c \in Reports : Spoken(worker'[r], c) => Spoken(worker[r], c)
    BY <1>0, <1>6, <2>1, GotoIs
    DEF GateCut, SettleDone, Abandoned, Minds, Spoken, WorkerType, Goto
  <2> QED
    BY <1>1, <2>1, <2>2, <2>3, GotoIs, MarkersMove
<1>7. CASE SettleStop(r)
  <2>1. stopping /\ Leave(r) /\ UNCHANGED <<status, store>>
    BY <1>7 DEF SettleStop, Rest
  <2> QED
    BY <1>2, <2>1, LeaveIs, MarkersMove
<1>8. CASE PromoteStart(r) \/ FastForward(r) \/ FastForwardRefused(r) \/ PromoteEnd(r)
  <2>1. UNCHANGED store /\ worker[r].pc \in Past
    BY <1>8 DEF PromoteStart, FastForward, FastForwardRefused, PromoteEnd, Rest
  <2>2. \A k \in Keys : \A c \in Reports : status'[k][c] = status[k][c]
    <3>1. UNCHANGED status \/ \E st : Post(KeyOf(r), "promote", st)
      BY <1>8 DEF PromoteStart, FastForward, FastForwardRefused, PromoteEnd, Rest
    <3> QED
      BY <1>0, <2>1, <3>1, Posted, Unfailing DEF Reports, Contexts
  <2>3. \/ stopping /\ Leave(r)
        \/ UNCHANGED worker
        \/ \E pc \in {"ff", "ffok", "fferr", "mark"} : Goto(r, pc)
    BY <1>8 DEF PromoteStart, FastForward, FastForwardRefused, PromoteEnd
  <2>4. disk'.inFlight = disk.inFlight
    BY <2>1, MarkersMove
  <2>5. CASE stopping /\ Leave(r)
    BY <1>2, <2>2, <2>4, <2>5, LeaveIs
  <2>6. ASSUME worker'[r].pc \in Past, worker'[r].sha = worker[r].sha
        PROVE  WorkerMarks(r)
    <3>1. \A c \in Reports : Spoken(worker[r], c)
      BY <2>1 DEF Spoken
    <3> QED
      BY <1>0, <1>1, <2>1, <2>2, <2>4, <2>6, <3>1
  <2> QED
    BY <2>1, <2>3, <2>5, <2>6, GotoIs
<1>9. CASE MarkTested(r)
  <2>1. worker'[r] = [worker[r] EXCEPT !.pc = "clear", !.err = ~Saved]
    BY <1>9, BecomeIs DEF MarkTested
  <2>2. worker'[r].pc = "clear" /\ worker'[r].sha = worker[r].sha
    BY <1>0, <2>1 DEF WorkerType
  <2>3. UNCHANGED status /\ disk'.inFlight = disk.inFlight /\ worker[r].pc = "mark"
    BY <1>9, MarkersMove DEF MarkTested
  <2>4. \A c \in Reports : Spoken(worker[r], c)
    BY <2>3 DEF Spoken
  <2> QED
    BY <1>1, <2>2, <2>3, <2>4
\* The posts of a run.
<1>10. ASSUME NEW d \in Reports, NEW st, Post(KeyOf(r), d, st), UNCHANGED store,
              worker[r].pc \in InRun, worker'[r].pc \in InRun \cup After,
              worker'[r].sha = worker[r].sha,
              \A c \in Reports :
                  Spoken(worker'[r], c) =>
                      \/ Spoken(worker[r], c)
                      \/ status'[KeyOf(r)][c] # "pending",
              st = "pending" => ~Spoken(worker'[r], d)
       PROVE  WorkerMarks(r)
  <2>1. /\ status'[KeyOf(r)][d] = st
        /\ \A c \in Reports : c # d => status'[KeyOf(r)][c] = status[KeyOf(r)][c]
        /\ \A k \in Keys : k # KeyOf(r) => status'[k] = status[k]
    BY <1>0, <1>10, Posted, Unfailing DEF Reports, Contexts
  <2>2. disk'.inFlight = disk.inFlight
    BY <1>10, MarkersMove
  <2> QED
    BY <1>1, <1>10, <2>1, <2>2
<1>11. CASE Config(r)
  <2> DEFINE bad == worker[r].sha \in BadConfig
             w == [worker[r] EXCEPT !.pc = IF bad THEN "settle" ELSE "queue",
                                    !.completed = bad]
  <2>1. worker'[r] = w /\ worker[r].pc = "config"
    BY <1>11, BecomeIs DEF Config
  <2>2. /\ w.sha = worker[r].sha
        /\ w.pc = IF bad THEN "settle" ELSE "queue"
        /\ w.completed = bad
    BY <1>0 DEF WorkerType
  <2> HIDE DEF w
  <2>3. /\ status'[KeyOf(r)]["ci"] = IF bad THEN "error" ELSE "pending"
        /\ status'[KeyOf(r)]["check"] = status[KeyOf(r)]["check"]
    BY <1>0, <1>11, <2>1, Posted, Unfailing DEF Config, Contexts
  <2>4. bad => status[KeyOf(r)]["check"] = "none"
    BY <1>0, <2>1 DEF ControlInv, NoBadChecks, KeyOf, Key
  <2>5. CASE bad
    BY <1>10, <1>11, <2>1, <2>2, <2>3, <2>4, <2>5 DEF Config, Reports
  <2>6. CASE ~bad
    <3>1. \A c \in Reports : ~Spoken(worker'[r], c)
      BY <2>1, <2>2, <2>6 DEF Spoken
    <3> QED
      BY <1>10, <1>11, <2>1, <2>2, <2>6, <3>1 DEF Config, Reports
  <2> QED
    BY <2>5, <2>6
<1>12. CASE Queue(r)
  <2>1. /\ Goto(r, "gate") /\ Post(KeyOf(r), "check", "pending")
        /\ UNCHANGED store /\ worker[r].pc = "queue"
    BY <1>12 DEF Queue
  <2>2. \A c \in Reports : ~Spoken(worker'[r], c)
    BY <2>1, GotoIs DEF Spoken
  <2> QED
    BY <1>10, <2>1, <2>2, GotoIs DEF Reports
<1>13. ASSUME NEW ok \in BOOLEAN, GateEnds(r, ok)
       PROVE  WorkerMarks(r)
  <2> DEFINE w == [worker[r] EXCEPT !.pc = "rollup", !.completed = TRUE, !.passed = ok]
  <2>1. worker'[r] = w /\ worker[r].pc = "gate"
    BY <1>13, BecomeIs DEF GateEnds
  <2>2. w.sha = worker[r].sha /\ w.pc = "rollup"
    BY <1>0 DEF WorkerType
  <2> HIDE DEF w
  <2>3. status'[KeyOf(r)]["check"] = Verdict(ok) /\ Verdict(ok) # "pending"
    BY <1>0, <1>13, <2>1, Posted, Unfailing DEF GateEnds, Contexts, Verdict
  <2>4. \A c \in Reports : Spoken(worker'[r], c) => c = "check"
    BY <2>1, <2>2 DEF Spoken
  <2> QED
    BY <1>10, <1>13, <2>1, <2>2, <2>3, <2>4 DEF GateEnds, Reports
<1>14. CASE Rollup(r)
  <2>1. /\ worker[r].pc = "rollup" /\ Goto(r, "settle") /\ UNCHANGED store
        /\ worker[r].completed \/ worker[r].cause \in {"superseded", "shutdown"}
    BY <1>14 DEF Rollup
  <2>2. CASE worker[r].completed
    <3>1. Post(KeyOf(r), "ci", Verdict(worker[r].passed))
      BY <1>14, <2>2 DEF Rollup
    <3>2. status'[KeyOf(r)]["ci"] # "pending" /\ Verdict(worker[r].passed) # "pending"
      BY <1>0, <2>1, <3>1, Posted, Unfailing DEF Verdict, Contexts
    <3>3. Spoken(worker[r], "check")
      BY <2>1, <2>2 DEF Spoken
    <3> QED
      BY <1>10, <2>1, <3>1, <3>2, <3>3, GotoIs DEF Reports
  <2>3. CASE ~worker[r].completed /\ worker[r].cause = "superseded"
    <3>1. Post(KeyOf(r), "check", "error")
      BY <1>14, <2>3 DEF Rollup
    <3>2. status'[KeyOf(r)]["check"] = "error"
      BY <1>0, <2>1, <3>1, Posted, Unfailing DEF Contexts
    <3>3. ~Spoken(worker'[r], "ci")
      BY <2>1, <2>3, GotoIs DEF Spoken
    <3> QED
      BY <1>10, <2>1, <3>1, <3>2, <3>3, GotoIs DEF Reports
  <2>4. CASE ~worker[r].completed /\ worker[r].cause = "shutdown"
    <3>1. UNCHANGED status
      BY <1>14, <2>4 DEF Rollup
    <3>2. \A c : ~Spoken(worker'[r], c)
      BY <2>1, <2>4, GotoIs DEF Spoken
    <3> QED
      BY <1>1, <2>1, <3>1, <3>2, GotoIs, MarkersMove
  <2> QED
    BY <2>1, <2>2, <2>3, <2>4
<1>15. CASE SettleAbandon(r)
  <2>1. /\ worker[r].pc = "settle" /\ worker[r].cause = "superseded"
        /\ Goto(r, "abandon") /\ Post(KeyOf(r), "ci", "error") /\ UNCHANGED store
    BY <1>15 DEF SettleAbandon, Abandoned
  <2>2. status'[KeyOf(r)]["ci"] = "error"
    BY <1>0, <2>1, Posted, Unfailing DEF Contexts
  <2>3. Spoken(worker[r], "check")
    BY <2>1 DEF Spoken
  <2> QED
    BY <1>10, <2>1, <2>2, <2>3, GotoIs DEF Reports
<1> QED
  BY <1>3, <1>4, <1>5, <1>6, <1>7, <1>8, <1>9, <1>11, <1>12, <1>13, <1>14, <1>15
  DEF Worker

\* While nobody is past its first posts, every marker has yet to speak.
LEMMA QuietSpeaks ==
    ASSUME \A r \in Refs : worker'[r].pc \in {"idle", "poll", "resolved"}
    PROVE  OneWillSpeak'
BY DEF OneWillSpeak, Spoken, InRun, After, Past

LEMMA DebtsStay ==
    ASSUME OneWillSpeak, UNCHANGED status, disk'.inFlight = disk.inFlight,
           \A r \in Refs : \A c \in Reports :
               Spoken(worker'[r], c) => Spoken(worker[r], c)
    PROVE  OneWillSpeak'
BY DEF OneWillSpeak, Marks

LEMMA CoverWorker ==
    ASSUME TypeOK, WorkersAgree, ControlInv, mem = disk, Reliable, CoverInv,
           NEW r \in Refs, Worker(r) \/ Watcher(r)
    PROVE  CoverInv' /\ WorkerMarks(r)
<1>1. WorkerMarks(r)
  BY MarksMade DEF CoverInv
<1>2. mode = "poll" /\ mode' = mode /\ Others(r) /\ UNCHANGED <<stopping, unswept, todo>>
  <2>1. UNCHANGED <<stopping, unswept, todo>>
    BY DEF Worker, Watcher, WatchSee, WatchCancel, GitFails, LsRemote, CloneSeen,
           CloneNew, Config, Queue, GateEnds, GateCut, Rollup, SettleAbandon,
           SettleStop, SettleDone, AbandonClear, PromoteStart, FastForward,
           FastForwardRefused, PromoteEnd, MarkTested, MarkClear, Rest, sched
  <2> QED
    BY <2>1, WorkerStep
<1>3. ASSUME NEW q \in Refs, q # r PROVE Placed(q)'
  <2>1. worker'[q] = worker[q] /\ disk'.inFlight[q] = disk.inFlight[q]
    BY <1>1, <1>2, <1>3 DEF Others, WorkerMarks
  <2>2. worker[q].pc # "resolved"
    BY <1>2 DEF ControlInv, RunsAgree, Minds
  <2> QED
    BY <1>2, <2>1, <2>2 DEF CoverInv, Placed
<1>4. OneWillSpeak'
  <2> SUFFICES ASSUME NEW k \in Keys, NEW c \in Reports, status'[k][c] = "pending",
                      NEW p \in Refs, Marks(p, k)'
               PROVE  \E q \in Refs : Marks(q, k)' /\ ~Spoken(worker'[q], c)
    BY DEF OneWillSpeak
  <2>1. ASSUME NEW q \in Refs, q # r
        PROVE  worker'[q] = worker[q] /\ (Marks(q, k)' <=> Marks(q, k))
    BY <1>1, <1>2, <2>1 DEF Others, WorkerMarks, Marks
  <2>2. CASE status[k][c] # "pending"
    BY <1>1, <2>2 DEF WorkerMarks
  <2>3. CASE status[k][c] = "pending" /\ \E q \in Refs : Marks(q, k)
    <3>1. PICK q \in Refs : Marks(q, k) /\ ~Spoken(worker[q], c)
      BY <2>3 DEF CoverInv, OneWillSpeak
    <3> QED
      BY <1>1, <2>1, <3>1 DEF WorkerMarks
  <2>4. CASE \A q \in Refs : ~Marks(q, k)
    <3>1. p = r
      BY <2>1, <2>4
    <3> QED
      BY <1>1, <2>4, <3>1 DEF WorkerMarks
  <2> QED
    BY <2>2, <2>3, <2>4
<1> QED
  BY <1>1, <1>3, <1>4 DEF CoverInv, WorkerMarks

LEMMA CoverReconcile ==
    ASSUME TypeOK, ControlInv, mem = disk, Reliable, CoverInv,
           NEW r \in Refs, Reconcile(r)
    PROVE  /\ CoverInv'
           /\ \A q \in Refs : q # r => disk'.inFlight[q] = disk.inFlight[q]
<1>1. mode = "reconcile" /\ mode' = mode /\ UNCHANGED <<stopping, unswept>>
  BY DEF Reconcile, ReconcileTip, ReconcileStale, ReconcileKeep, ReconcileClear,
         Reconciling, Visited, sched
<1>2. \A q \in Refs : worker[q].pc \in {"idle", "resolved"}
  BY <1>1 DEF ControlInv, RunsAgree, Minds
<1>3. CASE ReconcileTip(r)
  <2>1. /\ \A q \in Refs : worker[q].pc = "idle"
        /\ UNCHANGED <<worker, status>> /\ todo' = todo \ {r}
    BY <1>3 DEF ReconcileTip, Reconciling, Busy, Visited
  <2>2. /\ disk'.inFlight[r] = NoSha
        /\ \A q \in Refs : q # r => disk'.inFlight[q] = disk.inFlight[q]
    BY <1>3, MarkersMove DEF ReconcileTip
  <2>3. \A q \in Refs : Placed(q)'
    BY <1>1, <2>1, <2>2 DEF CoverInv, Placed, InRun, After, Past
  <2> QED
    BY <2>1, <2>2, <2>3, QuietSpeaks DEF CoverInv
<1>4. CASE ReconcileStale(r)
  <2> DEFINE k == Key(r, mem.inFlight[r])
  <2>1. /\ \A q \in Refs : worker[q].pc = "idle"
        /\ Goto(r, "resolved") /\ todo' = todo \ {r} /\ UNCHANGED store
    BY <1>4 DEF ReconcileStale, Reconciling, Busy, Visited
  <2>2. status' = [status EXCEPT ![k] = [c \in Contexts |->
                      IF @[c] = "pending" THEN "error" ELSE @[c]]]
    BY <1>4, Unfailing DEF ReconcileStale, Fail
  <2>3. disk.inFlight[r] # NoSha => \A c \in Reports : status'[k][c] # "pending"
    <3>1. disk.inFlight[r] # NoSha => k \in Keys
      BY EngineAssumption
      DEF EngineAssumption, TypeOK, StoreType, Key, Keys, Repos
    <3> HIDE DEF k
    <3> QED
      BY <2>2, <3>1 DEF TypeOK, Reports, Contexts
  <2>4. disk' = disk /\ worker'[r].pc = "resolved" /\ worker'[r].sha = worker[r].sha
    BY <2>1, GotoIs DEF store
  <2>5. Placed(r)'
    BY <1>1, <2>1, <2>3, <2>4
    DEF CoverInv, Placed, InRun, After, Past, Key, Unresolved
  <2>6. ASSUME NEW q \in Refs, q # r PROVE Placed(q)'
    <3>1. worker'[q] = worker[q]
      BY <2>1, <2>6, GotoIs DEF Others
    <3> QED
      BY <1>1, <2>1, <2>4, <2>6, <3>1 DEF CoverInv, Placed, InRun, After, Past
  <2>7. \A q \in Refs : worker'[q].pc \in {"idle", "poll", "resolved"}
    BY <2>1, GotoIs DEF Others
  <2> QED
    BY <2>4, <2>5, <2>6, <2>7, QuietSpeaks DEF CoverInv
<1>5. ~ReconcileKeep(r)
  BY Unfailing DEF ReconcileKeep, Fail
<1>6. CASE ReconcileClear(r)
  <2>1. UNCHANGED <<status, todo>>
    BY <1>6 DEF ReconcileClear, sched
  <2>2. worker'[r].pc = "idle" /\ worker'[r].sha = NoSha /\ Others(r)
    BY <1>6, LeaveIs DEF ReconcileClear
  <2>3. /\ disk'.inFlight[r] = NoSha
        /\ \A q \in Refs : q # r => disk'.inFlight[q] = disk.inFlight[q]
    BY <1>6, MarkersMove DEF ReconcileClear
  <2>4. Placed(r)'
    BY <1>1, <2>2, <2>3 DEF Placed, InRun, After, Past
  <2>5. ASSUME NEW q \in Refs, q # r PROVE Placed(q)'
    <3>1. worker'[q] = worker[q] /\ disk'.inFlight[q] = disk.inFlight[q]
      BY <2>2, <2>3, <2>5 DEF Others
    <3> QED
      BY <1>1, <2>1, <3>1 DEF CoverInv, Placed, Unresolved, Key
  <2>6. \A q \in Refs : worker'[q].pc \in {"idle", "poll", "resolved"}
    BY <1>2, <2>2 DEF Others
  <2> QED
    BY <2>3, <2>4, <2>5, <2>6, QuietSpeaks DEF CoverInv
<1> QED
  BY <1>3, <1>4, <1>5, <1>6 DEF Reconcile

LEMMA CoverStep ==
    TypeOK /\ WorkersAgree /\ DownIdle /\ ControlInv /\ MemIsDisk /\ Reliable
      /\ CoverInv /\ [Next]_vars => CoverInv'
<1> SUFFICES ASSUME TypeOK, WorkersAgree, DownIdle, ControlInv, MemIsDisk,
                    Reliable, CoverInv, [Next]_vars
             PROVE  CoverInv'
  OBVIOUS
<1> USE DEF InRun, After, Past
<1>1. CASE Users \/ UNCHANGED vars
  <2>1. UNCHANGED <<status, disk, mode, stopping, unswept, todo, worker>>
    BY <1>1 DEF Users, Push, vars, store, sched
  <2>2. \A r \in Refs : Placed(r)'
    BY <2>1 DEF CoverInv, Placed, Unresolved, Key
  <2> QED
    BY <2>1, <2>2, DebtsStay DEF CoverInv
<1>2. CASE Terminate
  <2>1. /\ UNCHANGED <<status, disk, mode, unswept, todo>> /\ stopping'
        /\ mode # "down"
    BY <1>2 DEF Terminate, store
  <2>2. ASSUME NEW r \in Refs
        PROVE  /\ worker'[r].pc = worker[r].pc /\ worker'[r].sha = worker[r].sha
               /\ worker'[r].completed = worker[r].completed
               /\ worker'[r].cause \in {worker[r].cause, "shutdown"}
    BY <1>2 DEF Terminate, TypeOK, WorkerType
  <2>3. \A r \in Refs : Placed(r)'
    BY <2>1, <2>2 DEF CoverInv, Placed, Unresolved, Key
  <2>4. \A r \in Refs : \A c \in Reports :
            Spoken(worker'[r], c) => Spoken(worker[r], c)
    BY <2>2 DEF Spoken
  <2> QED
    BY <2>1, <2>3, <2>4, DebtsStay DEF CoverInv
<1>3. CASE Crash \/ Exit
  <2>1. \A r \in Refs : worker'[r].pc = "idle" /\ worker'[r].sha = NoSha
    BY <1>3 DEF Crash, Exit, Down, Idle
  <2>2. mode' = "down"
    BY <1>3 DEF Crash, Exit, Down
  <2>3. \A r \in Refs : Placed(r)'
    BY <2>1, <2>2 DEF Placed
  <2> QED
    BY <2>1, <2>3, QuietSpeaks DEF CoverInv
<1>4. CASE Start
  <2>1. /\ \A r \in Refs : worker[r].pc = "idle"
        /\ UNCHANGED <<worker, disk>> /\ mode' = "reconcile"
        /\ todo' = {r \in Refs : disk.inFlight[r] # NoSha}
    BY <1>4 DEF Start, DownIdle
  <2>2. \A r \in Refs : Placed(r)'
    BY <2>1 DEF CoverInv, Placed
  <2> QED
    BY <2>1, <2>2, QuietSpeaks DEF CoverInv
<1>5. CASE BeginPoll \/ EndSweep
  <2>1. /\ \A r \in Refs : worker[r].pc = "idle"
        /\ UNCHANGED <<worker, disk, stopping>> /\ mode' = "poll"
        /\ mode = "poll" \/ (mode = "reconcile" /\ todo = {})
    BY <1>5 DEF BeginPoll, EndSweep, Busy, store
  <2>2. \A r \in Refs : Placed(r)'
    BY <2>1 DEF CoverInv, Placed
  <2> QED
    BY <2>1, <2>2, QuietSpeaks DEF CoverInv
<1>6. ASSUME NEW r \in Refs, Dispatch(r) PROVE CoverInv'
  <2>1. /\ mode = "poll" /\ ~stopping /\ r \in unswept
        /\ UNCHANGED <<status, disk, mode, stopping, todo>>
        /\ unswept' = unswept \ {r}
    BY <1>6 DEF Dispatch, store
  <2>2. worker'[r].pc = "poll" /\ worker'[r].sha = worker[r].sha /\ Others(r)
    BY <1>6, GotoIs DEF Dispatch
  <2>3. worker[r].pc = "idle" /\ worker[r].sha = NoSha /\ disk.inFlight[r] = NoSha
    BY <2>1 DEF CoverInv, Placed
  <2>4. Placed(r)'
    BY <2>1, <2>2, <2>3 DEF Placed
  <2>5. ASSUME NEW q \in Refs, q # r PROVE Placed(q)'
    BY <2>1, <2>2, <2>5 DEF Others, CoverInv, Placed, Unresolved, Key
  <2>6. \A q \in Refs : \A c \in Reports :
            Spoken(worker'[q], c) => Spoken(worker[q], c)
    BY <2>2 DEF Others, Spoken
  <2> QED
    BY <2>1, <2>4, <2>5, <2>6, DebtsStay DEF CoverInv
<1>7. ASSUME NEW r \in Refs, Reconcile(r) PROVE CoverInv'
  <2>1. mode = "reconcile"
    BY <1>7 DEF Reconcile, ReconcileTip, ReconcileStale, ReconcileKeep,
                ReconcileClear, Reconciling
  <2> QED
    BY <1>7, <2>1, CoverReconcile DEF MemIsDisk
<1>8. ASSUME NEW r \in Refs, Worker(r) \/ Watcher(r) PROVE CoverInv'
  BY <1>8, WorkerStep, CoverWorker DEF MemIsDisk
<1> QED
  BY <1>1, <1>2, <1>3, <1>4, <1>5, <1>6, <1>7, <1>8 DEF Next, Main

LEMMA CoverAlways == Spec => [](Reliable => MemIsDisk /\ CoverInv)
<1>1. Init => (Reliable => MemIsDisk /\ CoverInv)
  BY DEF Init, MemIsDisk, CoverInv, Placed, OneWillSpeak, Marks, Idle, EmptyStore,
         InRun, After, Past, Keys, Reports, Contexts
<1>2. TypeOK /\ WorkersAgree /\ MemKnows /\ DownIdle /\ ControlInv
        /\ (Reliable => MemIsDisk /\ CoverInv) /\ [Next]_vars
        => (Reliable => MemIsDisk /\ CoverInv)'
  BY CoverStep, SameStep, Unfailing DEF Reliable
<1> QED
  BY <1>1, <1>2, ControlAlways, PTL DEF Spec

\* What covers a commit is a marker, which comes before the run and goes after it.
LEMMA MarkedIsCovered ==
    ASSUME CoverInv, NEW k \in Keys
    PROVE  Covered(k) <=> \E r \in Refs : Marks(r, k)
<1>1. k[2] # NoSha
  BY EngineAssumption DEF Keys, EngineAssumption
<1>2. ASSUME NEW r \in Refs, worker[r].sha = k[2] PROVE disk.inFlight[r] = k[2]
  BY <1>1, <1>2 DEF CoverInv, Placed
<1> QED
  BY <1>2 DEF Covered, Marks

\* While writes, posts and lists succeed, a context that stays pending keeps a run
\* or a marker, whatever refs are swept together, whatever process dies: the run
\* that ends last among those of one commit has resolved it, start-up resolves it
\* before it clears the marker (ReconcileInFlight, ClearInFlight), and the one
\* exception is the commit that is still the tip, which the poll takes up again.
THEOREM CoverCorrect ==
    ASSUME Reliable
    PROVE  Spec => CoverOutlivesPending
<1> DEFINE Step == \A k \in Keys :
               Covered(k) /\ Unresolved(k) /\ Unresolved(k)' /\ ~Covered(k)' =>
                   \E r \in Refs : ReconcileTip(r) /\ tip[r] = k[2]
<1>1. TypeOK /\ WorkersAgree /\ MemKnows /\ DownIdle /\ ControlInv
        /\ (Reliable => MemIsDisk /\ CoverInv) /\ [Next]_vars => [Step]_vars
  <2> SUFFICES ASSUME TypeOK, WorkersAgree, ControlInv, MemIsDisk, CoverInv, Next,
                      NEW k \in Keys, Covered(k), Unresolved(k), Unresolved(k)',
                      ~Covered(k)'
               PROVE  \E r \in Refs : ReconcileTip(r) /\ tip[r] = k[2]
    OBVIOUS
  <2>1. PICK p \in Refs : Marks(p, k)
    BY MarkedIsCovered
  <2>2. \A q \in Refs : ~Marks(q, k)'
    BY DEF Covered, Marks
  <2>3. k[2] # NoSha /\ k = <<k[1], k[2]>>
    BY EngineAssumption DEF Keys, EngineAssumption
  <2>4. disk'.inFlight # disk.inFlight
    BY <2>1, <2>2 DEF Marks
  <2>5. ASSUME NEW r \in Refs, Reconcile(r)
        PROVE  ReconcileTip(r) /\ tip[r] = k[2]
    <3>1. mode = "reconcile" /\ mem = disk
      BY <2>5 DEF Reconcile, ReconcileTip, ReconcileStale, ReconcileKeep,
                  ReconcileClear, Reconciling, MemIsDisk
    <3>2. p = r
      BY <2>1, <2>2, <2>5, <3>1, CoverReconcile DEF Marks
    <3>3. ~ReconcileClear(r)
      BY <2>1, <2>3, <3>2 DEF ReconcileClear, CoverInv, Placed, Marks, Key
    <3>4. ~ReconcileStale(r) /\ ~ReconcileKeep(r)
      BY <2>4 DEF ReconcileStale, ReconcileKeep, store
    <3> QED
      BY <2>1, <2>5, <3>1, <3>2, <3>3, <3>4 DEF Reconcile, ReconcileTip, Marks
  <2>6. ASSUME NEW r \in Refs, Worker(r) \/ Watcher(r) PROVE FALSE
    <3>1. mem = disk
      BY <2>6, WorkerStep DEF MemIsDisk
    <3>2. WorkerMarks(r)
      BY <2>6, <3>1, CoverWorker
    <3>3. PICK c \in Reports : status'[k][c] = "pending"
      BY DEF Unresolved
    <3>4. status[k][c] = "pending"
      BY <2>2, <3>2, <3>3 DEF WorkerMarks
    <3>5. PICK q \in Refs : Marks(q, k) /\ ~Spoken(worker[q], c)
      BY <2>1, <3>4 DEF CoverInv, OneWillSpeak
    <3> QED
      BY <2>2, <3>2, <3>3, <3>5 DEF WorkerMarks, Marks
  <2>7. CASE \E r \in Refs : Dispatch(r)
    BY <2>4, <2>7 DEF Dispatch, store
  <2>8. CASE Users \/ Terminate \/ Crash \/ Main
    BY <2>4, <2>8 DEF Users, Push, Terminate, Crash, Main, Start, Exit, BeginPoll,
                      EndSweep, Down, store
  <2> QED
    BY <2>5, <2>6, <2>7, <2>8 DEF Next
<1>2. Spec => [][Step]_vars
  BY <1>1, ControlAlways, CoverAlways, PTL DEF Spec
<1> QED
  BY <1>2 DEF CoverOutlivesPending

=============================================================================
