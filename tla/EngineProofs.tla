---------------------------- MODULE EngineProofs ----------------------------
(***************************************************************************)
(* Safety of Engine for every set of repositories, branches and commits,   *)
(* every concurrency, and any number of pushes, failed calls, stops and    *)
(* crashes.  PromotedOnlyWhenGreen, NoFalseGreen and PromoteIsTrue relate  *)
(* what GitHub shows to what was judged; they are not inductive, because   *)
(* between the gate and the post the only trace of the verdict is what the *)
(* worker remembers: WorkersAgree says that its memory is true.            *)
(***************************************************************************)
EXTENDS Engine, FiniteSetTheorems, TLAPS

\* What a worker remembers of its run, w, is known and has happened, given the
\* verdicts V and the promotions P of the history.
Agrees(r, w, V, P) ==
    /\ w.pc \notin {"idle", "poll", "resolved"} => w.sampled \in Shas
    /\ w.pc \notin {"idle", "poll", "resolved", "clone"} => w.sha \in Shas
    /\ w.passed => [ref |-> r, sha |-> w.sha, ok |-> TRUE] \in V
    /\ w.pc = "clone" => ~w.passed
    /\ w.pc \in {"promote", "ff"} => w.passed
    /\ w.pc = "ffok" => [ref |-> r, sha |-> w.sha] \in P

WorkersAgree == \A r \in Refs : Agrees(r, worker[r], verdicts, promoted)

Shown == PromotedOnlyWhenGreen /\ NoFalseGreen /\ PromoteIsTrue

EngineInv == TypeOK /\ WorkersAgree /\ Shown

-----------------------------------------------------------------------------
(* Types.                                                                  *)

LEMMA SaveType ==
    ASSUME TypeOK, NEW new \in StoreType, Save(new)
    PROVE  mem' \in StoreType /\ disk' \in StoreType /\ faults' \in Nat
BY DEF TypeOK, Save, Fail

LEMMA MarkerType ==
    ASSUME TypeOK, NEW r \in Refs, NEW s \in Shas \cup {NoSha}, SetInFlight(r, s)
    PROVE  mem' \in StoreType /\ disk' \in StoreType /\ faults' \in Nat
<1> DEFINE new == [mem EXCEPT !.inFlight[r] = s]
<1>1. new \in StoreType
  BY DEF TypeOK, StoreType
<1> QED
  BY <1>1, SaveType DEF SetInFlight

LEMMA ClearType ==
    ASSUME TypeOK, NEW r \in Refs, ClearInFlight(r)
    PROVE  mem' \in StoreType /\ disk' \in StoreType /\ faults' \in Nat
<1>1. CASE UNCHANGED <<store, faults>>
  BY <1>1 DEF store, TypeOK
<1>2. CASE SetInFlight(r, NoSha)
  BY <1>2, MarkerType
<1> QED
  BY <1>1, <1>2 DEF ClearInFlight, SetInFlight

LEMMA MarkType ==
    ASSUME TypeOK, NEW r \in Refs, NEW s \in Shas, NEW t \in Shas,
           Mark(r, s) \/ MarkBranch(r, t, s)
    PROVE  mem' \in StoreType /\ disk' \in StoreType /\ faults' \in Nat
<1>1. Key(r, s) \in Keys /\ Key(r, t) \in Keys
  BY EngineAssumption DEF EngineAssumption, Key, Keys, Repos
<1>2. CASE Mark(r, s)
  <2>1. [mem EXCEPT !.seen = @ \cup {Key(r, s)}] \in StoreType
    BY <1>1 DEF TypeOK, StoreType
  <2> QED
    BY <1>2, <2>1, SaveType DEF Mark
<1>3. CASE MarkBranch(r, t, s)
  <2>1. [mem EXCEPT !.seen = @ \cup {Key(r, t), Key(r, s)}, !.last[r] = s]
            \in StoreType
    BY <1>1 DEF TypeOK, StoreType
  <2> QED
    BY <1>3, <2>1, SaveType DEF MarkBranch
<1> QED
  BY <1>2, <1>3

LEMMA PostType ==
    ASSUME TypeOK, NEW k, NEW c \in Contexts, NEW s \in States, Post(k, c, s)
    PROVE  status' \in [Keys -> [Contexts -> States]] /\ faults' \in Nat
BY DEF TypeOK, Post, Fail

LEMMA IdleType ==
    Idle \in WorkerType /\ [Idle EXCEPT !.pc = "poll"] \in WorkerType
BY DEF Idle, WorkerType, Pcs

-----------------------------------------------------------------------------
(* A worker moves; the others, and the history, keep what they agree on.   *)

LEMMA Becomes ==
    ASSUME TypeOK, WorkersAgree, NEW r \in Refs, NEW w \in WorkerType,
           Become(r, w), verdicts \subseteq verdicts', promoted \subseteq promoted',
           Agrees(r, w, verdicts', promoted')
    PROVE  worker' \in [Refs -> WorkerType] /\ WorkersAgree'
<1>1. worker' \in [Refs -> WorkerType]
  BY DEF TypeOK, Become
<1>2. ASSUME NEW q \in Refs PROVE Agrees(q, worker'[q], verdicts', promoted')
  <2>1. CASE q = r
    BY <2>1 DEF TypeOK, Become
  <2>2. CASE q # r
    <3>1. worker'[q] = worker[q]
      BY <2>2 DEF TypeOK, Become
    <3> QED
      BY <3>1 DEF WorkersAgree, Agrees
  <2> QED
    BY <2>1, <2>2
<1> QED
  BY <1>1, <1>2 DEF WorkersAgree

LEMMA Goes ==
    ASSUME TypeOK, WorkersAgree, NEW r \in Refs, NEW pc \in Pcs, Goto(r, pc),
           verdicts \subseteq verdicts', promoted \subseteq promoted',
           Agrees(r, [worker[r] EXCEPT !.pc = pc], verdicts', promoted')
    PROVE  worker' \in [Refs -> WorkerType] /\ WorkersAgree'
<1>1. [worker[r] EXCEPT !.pc = pc] \in WorkerType
  BY DEF TypeOK, WorkerType
<1> QED
  BY <1>1, Becomes DEF Goto

LEMMA Leaves ==
    ASSUME TypeOK, WorkersAgree, NEW r \in Refs, NEW b, Leave(r) \/ Return(r, b),
           UNCHANGED history
    PROVE  worker' \in [Refs -> WorkerType] /\ WorkersAgree'
<1>1. /\ Agrees(r, Idle, verdicts', promoted')
      /\ Agrees(r, [Idle EXCEPT !.pc = "poll"], verdicts', promoted')
  BY DEF Agrees, Idle
<1> QED
  BY <1>1, IdleType, Becomes DEF Leave, Return, history

\* Nothing GitHub shows green changes.
LEMMA Quiet ==
    ASSUME TypeOK, Shown, UNCHANGED history,
           \/ UNCHANGED status
           \/ \E k \in Keys, c \in Contexts, s \in States :
                 Post(k, c, s) /\ (c = "check" \/ s # "success")
    PROVE  Shown'
BY DEF TypeOK, Shown, PromotedOnlyWhenGreen, NoFalseGreen, PromoteIsTrue, history,
       Post, Contexts

LEMMA RunKey ==
    ASSUME TypeOK, WorkersAgree, NEW r \in Refs,
           worker[r].pc \notin {"idle", "poll", "resolved", "clone"}
    PROVE  worker[r].sha \in Shas /\ KeyOf(r) \in Keys
BY EngineAssumption
DEF EngineAssumption, WorkersAgree, Agrees, KeyOf, Key, Keys, Repos

LEMMA RollupShown ==
    ASSUME TypeOK, WorkersAgree, Shown, NEW r \in Refs, Rollup(r)
    PROVE  Shown'
<1>1. worker[r].sha \in Shas /\ KeyOf(r) \in Keys
  BY RunKey DEF Rollup, At
<1>2. CASE worker[r].completed /\ worker[r].passed
  <2>1. [ref |-> r, sha |-> worker[r].sha, ok |-> TRUE] \in verdicts
    BY <1>2 DEF WorkersAgree, Agrees
  <2> QED
    BY <1>1, <1>2, <2>1
    DEF TypeOK, Rollup, KeyOf, Post, history, Shown, PromotedOnlyWhenGreen,
        NoFalseGreen, PromoteIsTrue, Contexts
<1>3. CASE ~(worker[r].completed /\ worker[r].passed)
  BY <1>1, <1>3, Quiet DEF Rollup, Verdict, Contexts, States
<1> QED
  BY <1>2, <1>3

LEMMA PromotedStep ==
    ASSUME PromotedOnlyWhenGreen, NEW r \in Refs, NEW s \in Shas \cup {NoSha},
           [ref |-> r, sha |-> s, ok |-> TRUE] \in verdicts,
           promoted' = promoted \cup {[ref |-> r, sha |-> s]}, UNCHANGED verdicts
    PROVE  PromotedOnlyWhenGreen'
<1> SUFFICES ASSUME NEW p \in promoted'
             PROVE  [ref |-> p.ref, sha |-> p.sha, ok |-> TRUE] \in verdicts
  BY DEF PromotedOnlyWhenGreen
<1>1. CASE p \in promoted
  BY <1>1 DEF PromotedOnlyWhenGreen
<1>2. CASE p = [ref |-> r, sha |-> s]
  BY <1>2
<1> QED
  BY <1>1, <1>2

LEMMA InvStep == EngineInv /\ [Next]_vars => EngineInv'
<1> SUFFICES ASSUME TypeOK, WorkersAgree, Shown, [Next]_vars PROVE EngineInv'
  BY DEF EngineInv
<1>1. ASSUME NEW b \in Branches, NEW s \in Shas, Push(b, s)
      PROVE  EngineInv'
  <2>1. WorkersAgree' /\ Shown'
    BY <1>1, Quiet DEF Push, history, WorkersAgree
  <2> QED
    BY <1>1, <2>1 DEF TypeOK, EngineInv, Push, store, sched, history
<1>2. ASSUME Terminate PROVE EngineInv'
  <2>1. worker' \in [Refs -> WorkerType]
    BY <1>2 DEF TypeOK, Terminate, WorkerType
  <2>2. WorkersAgree'
    BY <1>2 DEF TypeOK, Terminate, WorkersAgree, Agrees, history, WorkerType
  <2>3. Shown'
    BY <1>2, Quiet DEF Terminate
  <2> QED
    BY <1>2, <2>1, <2>2, <2>3 DEF TypeOK, EngineInv, Terminate, store, history
<1>3. ASSUME Down, UNCHANGED stops \/ stops' = stops + 1 PROVE EngineInv'
  <2>1. mem' \in StoreType /\ worker' \in [Refs -> WorkerType]
    BY <1>3, IdleType DEF Down, EmptyStore, StoreType
  <2>2. WorkersAgree'
    BY <1>3 DEF Down, WorkersAgree, Agrees, Idle, history
  <2>3. Shown'
    BY <1>3, Quiet DEF Down
  <2>4. stops' \in Nat
    BY <1>3 DEF TypeOK
  <2> QED
    BY <1>3, <2>1, <2>2, <2>3, <2>4 DEF TypeOK, EngineInv, Down, history
<1>4. ASSUME Start \/ BeginPoll \/ EndSweep PROVE EngineInv'
  <2>1. WorkersAgree' /\ Shown'
    BY <1>4, Quiet DEF Start, BeginPoll, EndSweep, history, WorkersAgree
  <2> QED
    BY <1>4, <2>1
    DEF TypeOK, EngineInv, Start, BeginPoll, EndSweep, store, history, env
<1>5. ASSUME NEW r \in Refs, ReconcileTip(r) PROVE EngineInv'
  <2>1. mem' \in StoreType /\ disk' \in StoreType /\ faults' \in Nat
    BY <1>5, ClearType DEF ReconcileTip, Fail, TypeOK, store
  <2>2. WorkersAgree' /\ Shown'
    BY <1>5, Quiet DEF ReconcileTip, history, WorkersAgree
  <2> QED
    BY <1>5, <2>1, <2>2
    DEF TypeOK, EngineInv, ReconcileTip, Visited, history, env
<1>6. ASSUME NEW r \in Refs, ReconcileKeep(r) PROVE EngineInv'
  <2>1. mem' \in StoreType /\ disk' \in StoreType /\ faults' \in Nat
    BY <1>6, ClearType DEF ReconcileKeep, Fail, TypeOK, store
  <2>2. WorkersAgree' /\ Shown'
    BY <1>6, Quiet DEF ReconcileKeep, history, WorkersAgree
  <2> QED
    BY <1>6, <2>1, <2>2
    DEF TypeOK, EngineInv, ReconcileKeep, Visited, history, env
<1>7. ASSUME NEW r \in Refs, ReconcileStale(r) PROVE EngineInv'
  <2>1. PICK dropped \in SUBSET Contexts :
            status' = [status EXCEPT ![Key(r, mem.inFlight[r])] =
                [c \in Contexts |-> IF @[c] = "pending" /\ c \notin dropped
                                    THEN "error" ELSE @[c]]]
    BY <1>7 DEF ReconcileStale
  <2>7. status' \in [Keys -> [Contexts -> States]]
    BY <2>1 DEF TypeOK, States
  <2>2. worker[r] \in WorkerType /\ Agrees(r, worker[r], verdicts, promoted)
    BY DEF TypeOK, WorkersAgree
  <2>3. Agrees(r, [worker[r] EXCEPT !.pc = "resolved"], verdicts', promoted')
    BY <1>7, <2>2 DEF WorkerType, ReconcileStale, history, Agrees
  <2>4. worker' \in [Refs -> WorkerType] /\ WorkersAgree'
    BY <1>7, <2>3, Goes DEF ReconcileStale, history, Pcs
  <2>5. Shown'
    BY <1>7, <2>1
    DEF TypeOK, Shown, PromotedOnlyWhenGreen, NoFalseGreen, PromoteIsTrue,
      history, ReconcileStale, Contexts
  <2>6. faults' \in Nat
    BY <1>7 DEF TypeOK, ReconcileStale, Fail
  <2> QED
    BY <1>7, <2>4, <2>5, <2>6, <2>7
    DEF TypeOK, EngineInv, ReconcileStale, Visited, store, history, env
<1>8. ASSUME NEW r \in Refs, ReconcileClear(r) PROVE EngineInv'
  <2>1. mem' \in StoreType /\ disk' \in StoreType /\ faults' \in Nat
    BY <1>8, ClearType DEF ReconcileClear
  <2>2. worker' \in [Refs -> WorkerType] /\ WorkersAgree'
    BY <1>8, Leaves DEF ReconcileClear
  <2>3. Shown'
    BY <1>8, Quiet DEF ReconcileClear
  <2> QED
    BY <1>8, <2>1, <2>2, <2>3
    DEF TypeOK, EngineInv, ReconcileClear, sched, history, env
<1>9. ASSUME NEW r \in Refs, Dispatch(r) PROVE EngineInv'
  <2>1. worker[r] \in WorkerType /\ Agrees(r, worker[r], verdicts, promoted)
    BY DEF TypeOK, WorkersAgree
  <2>2. Agrees(r, [worker[r] EXCEPT !.pc = "poll"], verdicts', promoted')
    BY <1>9, <2>1 DEF WorkerType, Dispatch, history, Agrees
  <2>3. worker' \in [Refs -> WorkerType] /\ WorkersAgree'
    BY <1>9, <2>2, Goes DEF Dispatch, history, Pcs
  <2>4. Shown'
    BY <1>9, Quiet DEF Dispatch
  <2> QED
    BY <1>9, <2>1, <2>2, <2>3, <2>4
    DEF TypeOK, EngineInv, Dispatch, store, history, env
<1>10. ASSUME NEW r \in Refs, GitFails(r) PROVE EngineInv'
  <2>1. worker' \in [Refs -> WorkerType] /\ WorkersAgree'
    BY <1>10, Leaves DEF GitFails
  <2>2. Shown'
    BY <1>10, Quiet DEF GitFails
  <2>3. faults' \in Nat
    BY <1>10 DEF TypeOK, GitFails, Fail
  <2> QED
    BY <1>10, <2>1, <2>2, <2>3
    DEF TypeOK, EngineInv, GitFails, store, sched, history, env
<1>11. ASSUME NEW r \in Refs, LsRemote(r) PROVE EngineInv'
  <2> DEFINE w == IF Has(r, tip[r]) THEN Idle
             ELSE [Idle EXCEPT !.pc = "clone", !.sampled = tip[r]]
  <2>1. tip[r] \in Shas
    BY EngineAssumption DEF EngineAssumption, TypeOK
  <2>2. w \in WorkerType
    BY <2>1, IdleType DEF Idle, WorkerType, Pcs
  <2>3. Agrees(r, w, verdicts', promoted')
    BY <2>1 DEF Agrees, Idle
  <2>4. Become(r, w) /\ UNCHANGED history
    BY <1>11 DEF LsRemote, Rest, history
  <2>5. worker' \in [Refs -> WorkerType] /\ WorkersAgree'
    BY <2>2, <2>3, <2>4, Becomes DEF history
  <2>6. Shown'
    BY <1>11, Quiet DEF LsRemote, Rest
  <2> QED
    BY <1>11, <2>1, <2>2, <2>3, <2>4, <2>5, <2>6
    DEF TypeOK, EngineInv, LsRemote, Rest, store, sched, history, env
<1>12. ASSUME NEW r \in Refs, CloneSeen(r) PROVE EngineInv'
  <2>1. worker[r].sampled \in Shas
    BY <1>12 DEF CloneSeen, At, WorkersAgree, Agrees
  <2>2. mem' \in StoreType /\ disk' \in StoreType /\ faults' \in Nat
    BY <1>12, <2>1, MarkType DEF CloneSeen
  <2>3. worker' \in [Refs -> WorkerType] /\ WorkersAgree'
    BY <1>12, Leaves DEF CloneSeen
  <2>4. Shown'
    BY <1>12, Quiet DEF CloneSeen
  <2> QED
    BY <1>12, <2>1, <2>2, <2>3, <2>4
    DEF TypeOK, EngineInv, CloneSeen, sched, history, env
<1>13. ASSUME NEW r \in Refs, CloneNew(r) PROVE EngineInv'
  <2>1. tip[r] \in Shas
    BY EngineAssumption DEF EngineAssumption, TypeOK
  <2>2. mem' \in StoreType /\ disk' \in StoreType /\ faults' \in Nat
    BY <1>13, <2>1, MarkerType DEF CloneNew
  <2> "config" \in Pcs
    BY DEF Pcs, InRun
  <2>3. [worker[r] EXCEPT !.pc = "config", !.sha = tip[r]] \in WorkerType
    BY <2>1 DEF TypeOK, WorkerType
  <2>4. Agrees(r, [worker[r] EXCEPT !.pc = "config", !.sha = tip[r]],
              verdicts', promoted')
    BY <1>13, <2>1 DEF TypeOK, WorkerType, CloneNew, At, WorkersAgree, Agrees
  <2>5. worker' \in [Refs -> WorkerType] /\ WorkersAgree'
    BY <1>13, <2>3, <2>4, Becomes DEF CloneNew, history
  <2>6. Shown'
    BY <1>13, Quiet DEF CloneNew
  <2> QED
    BY <1>13, <2>1, <2>2, <2>3, <2>4, <2>5, <2>6
    DEF TypeOK, EngineInv, CloneNew, sched, history, env
<1>14. ASSUME NEW r \in Refs, WatchSee(r) PROVE EngineInv'
  <2>1. [worker[r] EXCEPT !.newer = TRUE] \in WorkerType
    BY DEF TypeOK, WorkerType
  <2>2. Agrees(r, [worker[r] EXCEPT !.newer = TRUE], verdicts', promoted')
    BY <1>14
    DEF TypeOK, WorkerType, WatchSee, Rest, history, WorkersAgree, Agrees
  <2>3. worker' \in [Refs -> WorkerType] /\ WorkersAgree'
    BY <1>14, <2>1, <2>2, Becomes DEF WatchSee, Rest, history
  <2>4. Shown'
    BY <1>14, Quiet DEF WatchSee, Rest
  <2> QED
    BY <1>14, <2>1, <2>2, <2>3, <2>4
    DEF TypeOK, EngineInv, WatchSee, Rest, store, sched, history, env
<1>15. ASSUME NEW r \in Refs, WatchCancel(r) PROVE EngineInv'
  <2>1. [worker[r] EXCEPT !.cause = "superseded"] \in WorkerType
    BY DEF TypeOK, WorkerType
  <2>2. Agrees(r, [worker[r] EXCEPT !.cause = "superseded"], verdicts', promoted')
    BY <1>15
    DEF TypeOK, WorkerType, WatchCancel, Rest, history, WorkersAgree, Agrees
  <2>3. worker' \in [Refs -> WorkerType] /\ WorkersAgree'
    BY <1>15, <2>1, <2>2, Becomes DEF WatchCancel, Rest, history
  <2>4. Shown'
    BY <1>15, Quiet DEF WatchCancel, Rest
  <2> QED
    BY <1>15, <2>1, <2>2, <2>3, <2>4
    DEF TypeOK, EngineInv, WatchCancel, Rest, store, sched, history, env
<1>16. ASSUME NEW r \in Refs, Config(r) PROVE EngineInv'
  <2> DEFINE bad == worker[r].sha \in BadConfig
        w == [worker[r] EXCEPT !.pc = IF bad THEN "settle" ELSE "queue",
                               !.completed = bad]
  <2>1. KeyOf(r) \in Keys
    BY <1>16, RunKey DEF Config, At
  <2>2. worker[r] \in WorkerType /\ bad \in BOOLEAN
    BY DEF TypeOK
  <2>3. w \in WorkerType
    BY <2>2 DEF WorkerType, Pcs, InRun
  <2>4. Agrees(r, w, verdicts', promoted')
    BY <1>16, <2>2 DEF WorkerType, Config, At, history, WorkersAgree, Agrees
  <2>5. Become(r, w) /\ UNCHANGED history
    BY <1>16 DEF Config
  <2>6. worker' \in [Refs -> WorkerType] /\ WorkersAgree'
    BY <2>3, <2>4, <2>5, Becomes DEF history
  <2>7. Shown'
    BY <1>16, <2>1, Quiet DEF Config, Contexts, States
  <2>8. status' \in [Keys -> [Contexts -> States]] /\ faults' \in Nat
    BY <1>16, <2>1, PostType DEF Config, Contexts, States
  <2> QED
    BY <1>16, <2>6, <2>7, <2>8
    DEF TypeOK, EngineInv, Config, store, sched,
      history, env
<1>17. ASSUME NEW r \in Refs, Queue(r) PROVE EngineInv'
  <2>1. KeyOf(r) \in Keys
    BY <1>17, RunKey DEF Queue, At
  <2>2. worker' \in [Refs -> WorkerType] /\ WorkersAgree'
    BY <1>17, Goes
    DEF TypeOK, WorkerType, Queue, At, history, Pcs, InRun, Agrees,
      WorkersAgree
  <2>3. Shown'
    BY <1>17, <2>1, Quiet DEF Queue, Contexts, States
  <2>4. status' \in [Keys -> [Contexts -> States]] /\ faults' \in Nat
    BY <1>17, <2>1, PostType DEF Queue, Contexts, States
  <2> QED
    BY <1>17, <2>2, <2>3, <2>4
    DEF TypeOK, EngineInv, Queue, store, sched,
      history, env
<1>18. ASSUME NEW r \in Refs, NEW ok \in BOOLEAN, GateEnds(r, ok)
       PROVE  EngineInv'
  <2>1. worker[r].sha \in Shas /\ KeyOf(r) \in Keys
    BY <1>18, RunKey DEF GateEnds, At
  <2>2. worker[r] \in WorkerType
    BY DEF TypeOK
  <2>3. [worker[r] EXCEPT !.pc = "rollup", !.completed = TRUE, !.passed = ok]
           \in WorkerType
    BY <2>2 DEF WorkerType, Pcs, InRun
  <2>4. Agrees(r, [worker[r] EXCEPT !.pc = "rollup", !.completed = TRUE,
           !.passed = ok], verdicts', promoted')
    BY <1>18 DEF TypeOK, WorkerType, GateEnds, At, WorkersAgree, Agrees
  <2>5. worker' \in [Refs -> WorkerType] /\ WorkersAgree'
    BY <1>18, <2>3, <2>4, Becomes DEF GateEnds
  <2>6. Shown'
    BY <1>18, <2>1
    DEF TypeOK, GateEnds, Post, Shown, PromotedOnlyWhenGreen, NoFalseGreen,
      PromoteIsTrue, Contexts
  <2>7. status' \in [Keys -> [Contexts -> States]] /\ faults' \in Nat
    BY <1>18, <2>1, PostType DEF GateEnds, Verdict, Contexts, States
  <2> QED
    BY <1>18, <2>1, <2>2, <2>3, <2>4, <2>5, <2>6, <2>7
    DEF TypeOK, EngineInv, GateEnds, store, sched, env
<1>19. ASSUME NEW r \in Refs, GateCut(r) PROVE EngineInv'
  <2>1. worker' \in [Refs -> WorkerType] /\ WorkersAgree'
    BY <1>19, Goes
    DEF TypeOK, WorkerType, GateCut, At, Rest, history, Pcs, InRun, Promotable,
      Agrees, WorkersAgree
  <2>2. Shown'
    BY <1>19, Quiet DEF GateCut, Rest
  <2> QED
    BY <1>19, <2>1, <2>2
    DEF TypeOK, EngineInv, GateCut, Rest, store, sched, history, env
<1>20. ASSUME NEW r \in Refs, SettleDone(r) PROVE EngineInv'
  <2>1. worker' \in [Refs -> WorkerType] /\ WorkersAgree'
    BY <1>20, Goes
    DEF TypeOK, WorkerType, SettleDone, At, Rest, history, Pcs, InRun,
      Promotable, Agrees, WorkersAgree
  <2>2. Shown'
    BY <1>20, Quiet DEF SettleDone, Rest
  <2> QED
    BY <1>20, <2>1, <2>2
    DEF TypeOK, EngineInv, SettleDone, Rest, store, sched, history, env
<1>21. ASSUME NEW r \in Refs, Rollup(r) PROVE EngineInv'
  <2>1. worker[r].sha \in Shas /\ KeyOf(r) \in Keys
    BY <1>21, RunKey DEF Rollup, At
  <2>2. worker' \in [Refs -> WorkerType] /\ WorkersAgree'
    BY <1>21, Goes
    DEF TypeOK, WorkerType, Rollup, At, history, Pcs, InRun, Agrees,
      WorkersAgree
  <2>3. status' \in [Keys -> [Contexts -> States]] /\ faults' \in Nat
    BY <1>21, <2>1, PostType DEF TypeOK, Rollup, Verdict, Contexts, States
  <2>4. Shown'
    BY <1>21, <2>1, RollupShown
  <2> QED
    BY <1>21, <2>1, <2>2, <2>3, <2>4
    DEF TypeOK, EngineInv, Rollup, store, sched, history, env
<1>22. ASSUME NEW r \in Refs, SettleAbandon(r) PROVE EngineInv'
  <2>1. KeyOf(r) \in Keys
    BY <1>22, RunKey DEF SettleAbandon, At
  <2>2. worker' \in [Refs -> WorkerType] /\ WorkersAgree'
    BY <1>22, Goes
    DEF TypeOK, WorkerType, SettleAbandon, At, history, Pcs, Agrees,
      WorkersAgree
  <2>3. Shown'
    BY <1>22, <2>1, Quiet DEF SettleAbandon, Contexts, States
  <2>4. status' \in [Keys -> [Contexts -> States]] /\ faults' \in Nat
    BY <1>22, <2>1, PostType DEF SettleAbandon, Contexts, States
  <2> QED
    BY <1>22, <2>2, <2>3, <2>4
    DEF TypeOK, EngineInv, SettleAbandon, store, sched,
      history, env
<1>23. ASSUME NEW r \in Refs, SettleStop(r) PROVE EngineInv'
  <2>1. worker' \in [Refs -> WorkerType] /\ WorkersAgree'
    BY <1>23, Leaves DEF SettleStop, Rest
  <2>2. Shown'
    BY <1>23, Quiet DEF SettleStop, Rest
  <2> QED
    BY <1>23, <2>1, <2>2
    DEF TypeOK, EngineInv, SettleStop, Rest, store, sched, history, env
<1>24. ASSUME NEW r \in Refs, AbandonClear(r) PROVE EngineInv'
  <2>1. mem' \in StoreType /\ disk' \in StoreType /\ faults' \in Nat
    BY <1>24, ClearType DEF AbandonClear
  <2>2. worker' \in [Refs -> WorkerType] /\ WorkersAgree'
    BY <1>24, Leaves DEF AbandonClear
  <2>3. Shown'
    BY <1>24, Quiet DEF AbandonClear
  <2> QED
    BY <1>24, <2>1, <2>2, <2>3
    DEF TypeOK, EngineInv, AbandonClear, sched, history, env
<1>25. ASSUME NEW r \in Refs, MarkClear(r) PROVE EngineInv'
  <2>1. mem' \in StoreType /\ disk' \in StoreType /\ faults' \in Nat
    BY <1>25, ClearType DEF MarkClear
  <2>2. worker' \in [Refs -> WorkerType] /\ WorkersAgree'
    BY <1>25, Leaves DEF MarkClear
  <2>3. Shown'
    BY <1>25, Quiet DEF MarkClear
  <2> QED
    BY <1>25, <2>1, <2>2, <2>3
    DEF TypeOK, EngineInv, MarkClear, sched, history, env
<1>26. ASSUME NEW r \in Refs, PromoteStart(r) PROVE EngineInv'
  <2>1. KeyOf(r) \in Keys
    BY <1>26, RunKey DEF PromoteStart, At
  <2>2. worker' \in [Refs -> WorkerType] /\ WorkersAgree'
    BY <1>26, Goes
    DEF TypeOK, WorkerType, PromoteStart, At, history, Pcs, Agrees,
      WorkersAgree
  <2>3. Shown'
    BY <1>26, <2>1, Quiet DEF PromoteStart, Contexts, States
  <2>4. status' \in [Keys -> [Contexts -> States]] /\ faults' \in Nat
    BY <1>26, <2>1, PostType DEF PromoteStart, Contexts, States
  <2> QED
    BY <1>26, <2>2, <2>3, <2>4
    DEF TypeOK, EngineInv, PromoteStart, store, sched,
      history, env
<1>27. ASSUME NEW r \in Refs, FastForward(r) PROVE EngineInv'
  <2>1. worker[r].sha \in Shas
    BY <1>27, RunKey DEF FastForward, At
  <2>2. worker' \in [Refs -> WorkerType] /\ WorkersAgree'
    BY <1>27, Goes
    DEF TypeOK, WorkerType, FastForward, At, Pcs, Agrees, WorkersAgree
  <2>3. [ref |-> r, sha |-> worker[r].sha, ok |-> TRUE] \in verdicts
    BY <1>27 DEF FastForward, At, Agrees, WorkersAgree
  <2>4. PromotedOnlyWhenGreen'
    BY <1>27, <2>1, <2>3, PromotedStep DEF FastForward, Shown
  <2>5. NoFalseGreen' /\ PromoteIsTrue'
    BY <1>27 DEF FastForward, Shown, NoFalseGreen, PromoteIsTrue
  <2>6. Shown'
    BY <2>4, <2>5 DEF Shown
  <2>7. tip' \in [Branches -> Shas]
    BY <1>27, <2>1 DEF TypeOK, FastForward
  <2>8. promoted' \subseteq [ref : Refs, sha : Shas]
    BY <1>27, <2>1 DEF TypeOK, FastForward
  <2>9. faults' \in Nat
    BY <1>27 DEF TypeOK, FastForward, Fail
  <2> QED
    BY <1>27, <2>1, <2>2, <2>3, <2>4, <2>5, <2>6, <2>7, <2>8, <2>9
    DEF TypeOK, EngineInv, FastForward, store, sched, env
<1>28. ASSUME NEW r \in Refs, FastForwardRefused(r) PROVE EngineInv'
  <2>1. worker' \in [Refs -> WorkerType] /\ WorkersAgree'
    BY <1>28, Goes, Leaves
    DEF TypeOK, WorkerType, FastForwardRefused, At, Rest, history, Pcs, Agrees,
      WorkersAgree
  <2>2. Shown'
    BY <1>28, Quiet DEF FastForwardRefused, Rest
  <2> QED
    BY <1>28, <2>1, <2>2
    DEF TypeOK, EngineInv, FastForwardRefused, Rest, store, sched, history, env
<1>29. ASSUME NEW r \in Refs, PromoteEnd(r) PROVE EngineInv'
  <2>1. worker[r].sha \in Shas /\ KeyOf(r) \in Keys
    BY <1>29, RunKey DEF PromoteEnd, At
  <2>2. worker' \in [Refs -> WorkerType] /\ WorkersAgree'
    BY <1>29, Goes, Leaves
    DEF TypeOK, WorkerType, PromoteEnd, At, history, Pcs, Agrees, WorkersAgree
  <2>3. worker[r].pc = "ffok" => [ref |-> r, sha |-> worker[r].sha] \in promoted
    BY DEF Agrees, WorkersAgree
  <2>4. Shown'
    BY <1>29, <2>1, <2>3
    DEF TypeOK, PromoteEnd, At, KeyOf, Post, history, Shown,
      PromotedOnlyWhenGreen, NoFalseGreen, PromoteIsTrue, Contexts
  <2>5. status' \in [Keys -> [Contexts -> States]] /\ faults' \in Nat
    BY <1>29, <2>1, PostType DEF PromoteEnd, Contexts, States
  <2> QED
    BY <1>29, <2>2, <2>4, <2>5
    DEF TypeOK, EngineInv, PromoteEnd, store, sched,
      history, env
<1>30. ASSUME NEW r \in Refs, MarkTested(r) PROVE EngineInv'
  <2>1. worker[r].sampled \in Shas /\ worker[r].sha \in Shas
    BY <1>30 DEF MarkTested, At, WorkersAgree, Agrees
  <2>2. mem' \in StoreType /\ disk' \in StoreType /\ faults' \in Nat
    BY <1>30, <2>1, MarkType DEF MarkTested
  <2>3. \A e \in BOOLEAN :
           [worker[r] EXCEPT !.pc = "clear", !.err = e] \in WorkerType
    BY DEF TypeOK, WorkerType, Pcs
  <2>4. \A e \in BOOLEAN : Agrees(r, [worker[r] EXCEPT !.pc = "clear", !.err = e],
           verdicts', promoted')
    BY <1>30, <2>1
    DEF TypeOK, WorkerType, MarkTested, history, WorkersAgree, Agrees
  <2>5. worker' \in [Refs -> WorkerType] /\ WorkersAgree'
    BY <1>30, <2>3, <2>4, Becomes DEF MarkTested, history
  <2>6. Shown'
    BY <1>30, Quiet DEF MarkTested
  <2> QED
    BY <1>30, <2>1, <2>2, <2>3, <2>4, <2>5, <2>6
    DEF TypeOK, EngineInv, MarkTested, sched, history, env
<1>31. CASE UNCHANGED vars
  <2>1. TypeOK'
    BY <1>31 DEF TypeOK, vars
  <2>2. WorkersAgree' /\ Shown'
    BY <1>31, Quiet DEF vars, history, WorkersAgree
  <2> QED
    BY <2>1, <2>2 DEF EngineInv
<1> QED
  BY <1>1, <1>2, <1>3, <1>4, <1>5, <1>6, <1>7, <1>8, <1>9, <1>10, <1>11, <1>12,
    <1>13, <1>14, <1>15, <1>16, <1>17, <1>18, <1>19, <1>20, <1>21, <1>22,
    <1>23, <1>24, <1>25, <1>26, <1>27, <1>28, <1>29, <1>30, <1>31
  DEF Next, Users, Main, Reconcile, Watcher, Worker, Crash, Exit

LEMMA InitInv == Init => EngineInv
<1> SUFFICES ASSUME Init PROVE EngineInv
  OBVIOUS
<1>1. EmptyStore \in StoreType
  BY DEF EmptyStore, StoreType
<1>2. TypeOK
  BY <1>1, IdleType DEF Init, TypeOK, Contexts, States
<1>3. WorkersAgree
  BY DEF Init, WorkersAgree, Agrees, Idle
<1>4. Shown
  BY DEF Init, Shown, PromotedOnlyWhenGreen, NoFalseGreen, PromoteIsTrue, Contexts
<1> QED
  BY <1>2, <1>3, <1>4 DEF EngineInv

LEMMA Invariance == Spec => []EngineInv
BY InitInv, InvStep, PTL DEF Spec

-----------------------------------------------------------------------------
\* Engine's state always has the declared types: in particular a worker never
\* marks, promotes or reports a commit it does not know.
THEOREM TypeCorrect == Spec => []TypeOK
<1>1. EngineInv => TypeOK
  BY DEF EngineInv
<1> QED
  BY <1>1, Invariance, PTL

\* Only commits whose own gate passed, for the branch that promotes them, ever
\* reach a promote branch, whatever is pushed, fails, stops or crashes.
THEOREM PromotionCorrect == Spec => []PromotedOnlyWhenGreen
<1>1. EngineInv => PromotedOnlyWhenGreen
  BY DEF EngineInv, Shown
<1> QED
  BY <1>1, Invariance, PTL

\* A commit that shows ci=success had a gate that completed and passed.
THEOREM GreenCorrect == Spec => []NoFalseGreen
<1>1. EngineInv => NoFalseGreen
  BY DEF EngineInv, Shown
<1> QED
  BY <1>1, Invariance, PTL

\* A commit that shows ci/promote=success was really promoted.
THEOREM PromoteStatusCorrect == Spec => []PromoteIsTrue
<1>1. EngineInv => PromoteIsTrue
  BY DEF EngineInv, Shown
<1> QED
  BY <1>1, Invariance, PTL

-----------------------------------------------------------------------------
(* What the engine knows to be processed.  A record is never lost, for any *)
(* interleaving; and with refs swept one at a time the look at the store   *)
(* after the clone still holds at the end of the run, since nobody else    *)
(* records in between.  The argument follows the seen maps: only CloneSeen *)
(* and MarkTested add to memory's, a save makes the file's either what it  *)
(* was or what memory's is, and start-up reads it back.                    *)

\* CONCURRENCY = 1, over a configuration, which lists finitely many refs.
Serial == Concurrency = 1 /\ IsFiniteSet(Refs)

\* A process that is up knows what the file knows.
MemKnows == mode # "down" => disk.seen \subseteq mem.seen

\* A process that is down has no workers.
DownIdle == mode = "down" => \A r \in Refs : worker[r].pc = "idle"

Solo == \A q, r \in Refs : worker[q].pc # "idle" /\ worker[r].pc # "idle" => q = r

\* After a run that is not abandoned, up to its record.
Past == {"promote", "ff", "ffok", "fferr", "mark"}

\* What a worker runs or is about to record is not recorded in memory either.
RunsUnknown == \A r \in Refs :
    worker[r].pc \in InRun \cup Past => KeyOf(r) \notin mem.seen

SoloInv == Solo /\ RunsUnknown

-----------------------------------------------------------------------------
(* The store.                                                              *)

\* The records of memory grow, and the file has them or what it had.
SeenGrows == /\ mem.seen \subseteq mem'.seen
             /\ disk'.seen \in {disk.seen, mem'.seen}

\* They stay.
SeenStays == mem'.seen = mem.seen /\ disk'.seen \in {disk.seen, mem.seen}

LEMMA MarkerStays ==
    ASSUME TypeOK, NEW r \in Refs, NEW s,
           SetInFlight(r, s) \/ ClearInFlight(r) \/ UNCHANGED store
    PROVE  SeenStays
BY DEF TypeOK, StoreType, SetInFlight, ClearInFlight, Save, SeenStays, store

LEMMA RecordGrows ==
    ASSUME TypeOK, NEW r \in Refs, NEW s, NEW t, Mark(r, s) \/ MarkBranch(r, t, s)
    PROVE  SeenGrows
<1>1. CASE Mark(r, s)
  BY <1>1 DEF TypeOK, StoreType, Mark, Save, SeenGrows
<1>2. CASE MarkBranch(r, t, s)
  BY <1>2 DEF TypeOK, StoreType, MarkBranch, Save, SeenGrows
<1> QED
  BY <1>1, <1>2

-----------------------------------------------------------------------------
(* The steps: who is at work, on what, and what becomes of the store.      *)

\* A run goes on, or starts on what memory has not recorded.
RunsOn(r) ==
    worker'[r].pc \in InRun \cup Past =>
        /\ mem'.seen = mem.seen
        /\ \/ worker[r].pc \in InRun \cup Past /\ worker'[r].sha = worker[r].sha
           \/ Key(r, worker'[r].sha) \notin mem.seen

Others(r) == \A q \in Refs : q # r => worker'[q] = worker[q]

LEMMA BecomeIs ==
    ASSUME TypeOK, NEW r \in Refs, NEW w, Become(r, w)
    PROVE  worker'[r] = w /\ Others(r)
BY DEF TypeOK, Become, Others

LEMMA Gone ==
    ASSUME TypeOK, NEW r \in Refs, NEW b,
           \/ Leave(r) \/ Return(r, b) \/ Become(r, [Idle EXCEPT !.pc = "poll"])
    PROVE  Others(r) /\ worker'[r].pc \in {"idle", "poll"}
<1>1. Idle.pc = "idle" /\ [Idle EXCEPT !.pc = "poll"].pc = "poll"
  BY DEF Idle
<1>2. PICK w \in {Idle, [Idle EXCEPT !.pc = "poll"]} : Become(r, w)
  BY DEF Leave, Return
<1>3. worker'[r] = w /\ Others(r)
  BY <1>2, BecomeIs
<1> QED
  BY <1>1, <1>2, <1>3

\* The worker's own steps, by what they do to the store.
LEMMA WorkerStep ==
    ASSUME TypeOK, NEW r \in Refs, Watcher(r) \/ Worker(r)
    PROVE  /\ mode = "poll" /\ mode' = mode
           /\ worker[r].pc # "idle"
           /\ SeenGrows
           /\ Others(r) /\ RunsOn(r)
<1> USE DEF RunsOn, InRun, Past, At, sched
<1>0. worker[r] \in WorkerType
  BY DEF TypeOK
<1>1. SeenStays => SeenGrows
  BY DEF SeenStays, SeenGrows
<1>2. UNCHANGED store => SeenStays
  BY DEF store, SeenStays
<1>3. CASE Watcher(r)
  <2>1. PICK w \in {[worker[r] EXCEPT !.newer = TRUE],
                    [worker[r] EXCEPT !.cause = "superseded"]} : Become(r, w)
    BY <1>3 DEF Watcher, WatchSee, WatchCancel
  <2>2. w.pc = worker[r].pc /\ w.sha = worker[r].sha
    BY <1>0, <2>1 DEF WorkerType
  <2>3. UNCHANGED <<store, sched>> /\ worker[r].pc \in InRun /\ mode = "poll"
    BY <1>3 DEF Watcher, WatchSee, WatchCancel, Rest
  <2>4. mem' = mem
    BY <2>3 DEF store
  <2> QED
    BY <2>1, <2>2, <2>3, <2>4, BecomeIs, <1>1, <1>2
<1>4. CASE GitFails(r) \/ LsRemote(r)
  <2>1. UNCHANGED <<store, sched>> /\ mode = "poll" /\ worker[r].pc # "idle"
    BY <1>4 DEF GitFails, LsRemote, Rest
  <2>2. CASE Leave(r)
    BY <2>1, <2>2, Gone, <1>1, <1>2
  <2>3. CASE Become(r, IF Has(r, tip[r]) THEN Idle
                       ELSE [Idle EXCEPT !.pc = "clone", !.sampled = tip[r]])
    <3> DEFINE w == IF Has(r, tip[r]) THEN Idle
                    ELSE [Idle EXCEPT !.pc = "clone", !.sampled = tip[r]]
    <3>0. Become(r, w)
      BY <2>3
    <3>00. w.pc \in {"idle", "clone"}
      BY DEF Idle
    <3>1. worker'[r].pc \in {"idle", "clone"} /\ Others(r)
      <4> HIDE DEF w
      <4> QED
        BY <3>0, <3>00, BecomeIs
    <3> QED
      BY <2>1, <3>1, <1>1, <1>2
  <2> QED
    BY <1>4, <2>2, <2>3 DEF GitFails, LsRemote
<1>5. CASE CloneSeen(r)
  <2>1. SeenGrows
    BY <1>5, RecordGrows DEF CloneSeen
  <2> QED
    BY <1>5, <2>1, Gone DEF CloneSeen
<1>6. CASE CloneNew(r)
  <2>1. SeenStays
    BY <1>6, MarkerStays DEF CloneNew
  <2>2. worker'[r] = [worker[r] EXCEPT !.pc = "config", !.sha = tip[r]] /\ Others(r)
    BY <1>6, BecomeIs DEF CloneNew
  <2>3. worker'[r].sha = tip[r]
    BY <1>0, <2>2 DEF WorkerType
  <2> QED
    BY <1>6, <2>1, <2>2, <2>3, <1>1 DEF CloneNew, Has, SeenStays
<1>7. CASE Config(r) \/ Queue(r) \/ (\E ok \in BOOLEAN : GateEnds(r, ok))
           \/ GateCut(r) \/ Rollup(r) \/ SettleAbandon(r) \/ SettleDone(r)
  <2>1. /\ UNCHANGED <<store, sched>> /\ mode = "poll"
        /\ worker[r].pc \in InRun
    BY <1>7 DEF Config, Queue, GateEnds, GateCut, Rollup, SettleAbandon,
                SettleDone, Rest
  <2>2. \E w : Become(r, w) /\ w.sha = worker[r].sha
    <3>1. CASE Config(r)
      <4> DEFINE bad == worker[r].sha \in BadConfig
                 w == [worker[r] EXCEPT !.pc = IF bad THEN "settle" ELSE "queue",
                                        !.completed = bad]
      <4>1. Become(r, w)
        BY <3>1 DEF Config
      <4>2. w.sha = worker[r].sha
        BY <1>0 DEF WorkerType
      <4> QED
        BY <4>1, <4>2
    <3>2. CASE Queue(r) \/ GateCut(r) \/ Rollup(r) \/ SettleAbandon(r)
      BY <1>0, <3>2 DEF Queue, GateCut, Rollup, SettleAbandon, Goto, WorkerType
    <3>3. CASE SettleDone(r)
      BY <1>0, <3>3 DEF SettleDone, Goto, WorkerType
    <3>4. ASSUME NEW ok \in BOOLEAN, GateEnds(r, ok)
          PROVE  \E w : Become(r, w) /\ w.sha = worker[r].sha
      <4> DEFINE w == [worker[r] EXCEPT !.pc = "rollup", !.completed = TRUE,
                                        !.passed = ok]
      <4>1. Become(r, w)
        BY <3>4 DEF GateEnds
      <4>2. w.sha = worker[r].sha
        BY <1>0 DEF WorkerType
      <4> QED
        BY <4>1, <4>2
    <3> QED
      BY <1>7, <3>1, <3>2, <3>3, <3>4
  <2>3. worker'[r].sha = worker[r].sha /\ Others(r)
    BY <2>2, BecomeIs
  <2>4. mem' = mem
    BY <2>1 DEF store
  <2> QED
    BY <2>1, <2>3, <2>4, <1>1, <1>2
<1>8. CASE SettleStop(r)
  <2>1. UNCHANGED store
    BY <1>8 DEF SettleStop, Rest
  <2> QED
    BY <1>8, <2>1, Gone, <1>1, <1>2 DEF SettleStop, Rest
<1>9. CASE AbandonClear(r) \/ MarkClear(r)
  <2>1. SeenStays
    BY <1>9, MarkerStays DEF AbandonClear, MarkClear
  <2> QED
    BY <1>9, <2>1, Gone, <1>1 DEF AbandonClear, MarkClear
<1>10. CASE PromoteStart(r) \/ FastForward(r) \/ FastForwardRefused(r)
            \/ PromoteEnd(r)
  <2>1. /\ UNCHANGED <<store, sched>> /\ mode = "poll"
        /\ worker[r].pc \in {"promote", "ff", "ffok", "fferr"}
    BY <1>10 DEF PromoteStart, FastForward, FastForwardRefused, PromoteEnd, Rest
  <2>2. \/ Leave(r) \/ UNCHANGED worker
        \/ \E pc \in {"ff", "ffok", "fferr", "mark"} : Goto(r, pc)
    BY <1>10 DEF PromoteStart, FastForward, FastForwardRefused, PromoteEnd
  <2>3. CASE Leave(r)
    BY <2>1, <2>3, Gone, <1>1, <1>2
  <2>4. CASE UNCHANGED worker
    BY <2>1, <2>4, <1>1, <1>2 DEF Others, store
  <2>5. ASSUME NEW pc \in {"ff", "ffok", "fferr", "mark"}, Goto(r, pc)
        PROVE  worker'[r].pc = pc /\ worker'[r].sha = worker[r].sha /\ Others(r)
    BY <1>0, <2>5, BecomeIs DEF Goto, WorkerType
  <2> QED
    BY <2>1, <2>2, <2>3, <2>4, <2>5, <1>1, <1>2 DEF store
<1>11. CASE MarkTested(r)
  <2>1. SeenGrows
    BY <1>11, RecordGrows DEF MarkTested
  <2>2. worker'[r] = [worker[r] EXCEPT !.pc = "clear", !.err = ~Saved] /\ Others(r)
    BY <1>11, BecomeIs DEF MarkTested
  <2>3. worker'[r].pc = "clear"
    BY <1>0, <2>2 DEF WorkerType
  <2> QED
    BY <1>11, <2>1, <2>2, <2>3 DEF MarkTested
<1> QED
  BY <1>3, <1>4, <1>5, <1>6, <1>7, <1>8, <1>9, <1>10, <1>11 DEF Worker

\* Start-up works while nobody else does, and runs nothing.
LEMMA ReconcileStep ==
    ASSUME TypeOK, NEW r \in Refs, Reconcile(r)
    PROVE  /\ mode = "reconcile" /\ mode' = mode
           /\ SeenStays
           /\ \/ UNCHANGED worker
              \/ /\ Others(r) /\ worker'[r].pc \in {"idle", "resolved"}
                 /\ Busy = {} \/ worker[r].pc # "idle"
<1>0. worker[r] \in WorkerType
  BY DEF TypeOK
<1>1. CASE ReconcileTip(r)
  BY <1>1, MarkerStays DEF ReconcileTip, Reconciling, Visited
<1>2. CASE ReconcileKeep(r)
  BY <1>2, MarkerStays DEF ReconcileKeep, Reconciling, Visited
<1>3. CASE ReconcileStale(r)
  <2>1. worker'[r].pc = "resolved" /\ Others(r)
    BY <1>0, <1>3, BecomeIs DEF ReconcileStale, Goto, WorkerType
  <2> QED
    BY <1>3, <2>1, MarkerStays DEF ReconcileStale, Reconciling, Visited
<1>4. CASE ReconcileClear(r)
  <2>1. worker'[r].pc = "idle" /\ Others(r)
    BY <1>4, BecomeIs DEF ReconcileClear, Leave, Idle
  <2> QED
    BY <1>4, <2>1, MarkerStays DEF ReconcileClear, sched
<1> QED
  BY <1>1, <1>2, <1>3, <1>4 DEF Reconcile

-----------------------------------------------------------------------------
(* A record is never lost.                                                 *)

LEMMA KnowsStep ==
    TypeOK /\ MemKnows /\ DownIdle /\ [Next]_vars =>
        MemKnows' /\ DownIdle' /\ disk.seen \subseteq disk'.seen
        /\ (mode' = "poll" => disk.seen \subseteq mem'.seen)
<1> SUFFICES ASSUME TypeOK, MemKnows, DownIdle, [Next]_vars
             PROVE  /\ MemKnows' /\ DownIdle' /\ disk.seen \subseteq disk'.seen
                    /\ mode' = "poll" => disk.seen \subseteq mem'.seen
  OBVIOUS
<1> USE DEF MemKnows, DownIdle
<1>1. CASE Crash \/ Exit
  BY <1>1 DEF Crash, Exit, Down, Idle
<1>2. CASE Start
  BY <1>2 DEF Start
<1>3. CASE Users \/ UNCHANGED vars
  BY <1>3 DEF Users, Push, vars, store, sched
<1>4. CASE Terminate
  BY <1>4 DEF Terminate, store
<1>5. CASE BeginPoll \/ EndSweep
  BY <1>5 DEF BeginPoll, EndSweep, store
<1>6. ASSUME NEW r \in Refs, Reconcile(r)
      PROVE  mode = "reconcile" /\ mode' = mode /\ SeenStays
  BY <1>6, ReconcileStep
<1>7. ASSUME NEW r \in Refs, Dispatch(r)
      PROVE  mode = "poll" /\ mode' = mode /\ UNCHANGED store
  BY <1>7 DEF Dispatch
<1>8. ASSUME NEW r \in Refs, Watcher(r) \/ Worker(r)
      PROVE  mode = "poll" /\ mode' = mode /\ SeenGrows
  BY <1>8, WorkerStep
<1>9. ASSUME mode # "down", mode' = mode, SeenGrows
      PROVE  /\ MemKnows' /\ DownIdle' /\ disk.seen \subseteq disk'.seen
             /\ mode' = "poll" => disk.seen \subseteq mem'.seen
  BY <1>9 DEF SeenGrows
<1>10. SeenStays \/ UNCHANGED store => SeenGrows
  BY DEF SeenStays, SeenGrows, store
<1>11. CASE \E r \in Refs : Reconcile(r) \/ Dispatch(r) \/ Watcher(r) \/ Worker(r)
  <2>1. mode # "down" /\ mode' = mode /\ SeenGrows
    BY <1>6, <1>7, <1>8, <1>10, <1>11
  <2> QED
    BY <1>9, <2>1
<1> QED
  BY <1>1, <1>2, <1>3, <1>4, <1>5, <1>11 DEF Next, Main

LEMMA KnowsAlways == Spec => [](EngineInv /\ MemKnows /\ DownIdle)
<1>1. Init => MemKnows /\ DownIdle
  BY DEF Init, MemKnows, DownIdle, Idle
<1>2. EngineInv => TypeOK
  BY DEF EngineInv
<1> QED
  BY <1>1, <1>2, InitInv, InvStep, KnowsStep, PTL DEF Spec

\* A commit that was processed stays processed, in memory and in the file, for
\* any number of refs swept at once and whatever write fails or process dies:
\* each save writes what memory has, and start-up reads back what was written.
THEOREM SeenCorrect == Spec => SeenIsForever
<1>1. TypeOK /\ MemKnows /\ DownIdle /\ [Next]_vars
        => [/\ disk.seen \subseteq disk'.seen
            /\ mode' = "poll" => disk.seen \subseteq mem'.seen]_vars
  BY KnowsStep
<1>2. EngineInv => TypeOK
  BY DEF EngineInv
<1> QED
  BY <1>1, <1>2, KnowsAlways, PTL DEF Spec, SeenIsForever

-----------------------------------------------------------------------------
(* One ref at a time.                                                      *)

LEMMA SoloStep ==
    TypeOK /\ DownIdle /\ SoloInv /\ Serial /\ [Next]_vars => SoloInv'
<1> SUFFICES ASSUME TypeOK, DownIdle, SoloInv, Serial, [Next]_vars
             PROVE  SoloInv'
  OBVIOUS
<1> USE DEF SoloInv, Solo, RunsUnknown, KeyOf, InRun, Past
<1>1. ASSUME UNCHANGED <<worker, store>> PROVE SoloInv'
  BY <1>1 DEF store
<1>2. CASE Users \/ BeginPoll \/ EndSweep \/ UNCHANGED vars
  BY <1>1, <1>2 DEF Users, Push, BeginPoll, EndSweep, vars, store
<1>3. CASE Crash \/ Exit
  BY <1>3 DEF Crash, Exit, Down, Idle
<1>4. CASE Start
  BY <1>4 DEF Start, DownIdle
<1>5. CASE Terminate
  <2>1. ASSUME NEW r \in Refs
        PROVE  worker'[r].pc = worker[r].pc /\ worker'[r].sha = worker[r].sha
    BY <1>5 DEF Terminate, TypeOK, WorkerType
  <2> QED
    BY <1>5, <2>1 DEF Terminate, store
<1>6. ASSUME NEW r \in Refs, Reconcile(r) PROVE SoloInv'
  <2>1. mem'.seen = mem.seen
    BY <1>6, ReconcileStep DEF SeenStays
  <2>2. CASE UNCHANGED worker
    BY <2>1, <2>2
  <2>3. CASE /\ Others(r) /\ worker'[r].pc \in {"idle", "resolved"}
             /\ Busy = {} \/ worker[r].pc # "idle"
    BY <2>1, <2>3 DEF Others, Busy
  <2> QED
    BY <1>6, <2>2, <2>3, ReconcileStep
<1>7. ASSUME NEW r \in Refs, Dispatch(r) PROVE SoloInv'
  <2>1. Busy \subseteq Refs /\ IsFiniteSet(Busy)
    BY FS_Subset DEF Busy, Serial
  <2>2. Cardinality(Busy) = 0
    BY <1>7, <2>1, FS_CardinalityType DEF Dispatch, Serial
  <2>3. \A q \in Refs : worker[q].pc = "idle"
    BY <2>1, <2>2, FS_EmptySet DEF Busy
  <2>4. \A q \in Refs : worker'[q].pc = IF q = r THEN "poll" ELSE "idle"
    BY <1>7, <2>3 DEF TypeOK, Dispatch, Goto, Become, WorkerType
  <2> QED
    BY <2>4
<1>8. ASSUME NEW r \in Refs, Watcher(r) \/ Worker(r) PROVE SoloInv'
  <2>1. worker[r].pc # "idle" /\ Others(r) /\ RunsOn(r)
    BY <1>8, WorkerStep
  <2>2. \A q \in Refs : q # r => worker'[q].pc = "idle"
    BY <2>1 DEF Others
  <2>3. worker'[r].pc \in InRun \cup Past => KeyOf(r)' \notin mem'.seen
    BY <2>1 DEF RunsOn, Key
  <2> QED
    BY <2>2, <2>3
<1> QED
  BY <1>2, <1>3, <1>4, <1>5, <1>6, <1>7, <1>8 DEF Next, Main

LEMMA SoloAlways == Spec => [](Serial => SoloInv)
<1>1. Init => (Serial => SoloInv)
  BY DEF Init, SoloInv, Solo, RunsUnknown, Idle, InRun, Past
<1>2. EngineInv /\ MemKnows /\ DownIdle /\ (Serial => SoloInv) /\ [Next]_vars
         => (Serial => SoloInv)'
  BY SoloStep DEF EngineInv, Serial
<1> QED
  BY <1>1, <1>2, KnowsAlways, PTL DEF Spec

\* With refs swept one at a time, what a run works on is not recorded in the
\* state file while it works: the look at the store after the clone holds until
\* the run's own record, through failed writes, watchers, stops and crashes
\* (processBranchOnce, Store).
THEOREM RunsCorrect == Spec => [](Serial => RunsUnseenOnly)
<1>1. MemKnows /\ DownIdle /\ (Serial => SoloInv) => (Serial => RunsUnseenOnly)
  BY DEF MemKnows, DownIdle, SoloInv, RunsUnknown, RunsUnseenOnly, InRun
<1> QED
  BY <1>1, KnowsAlways, SoloAlways, PTL

=============================================================================
