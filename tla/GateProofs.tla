----------------------------- MODULE GateProofs -----------------------------
(***************************************************************************)
(* The promises of Gate for every number of units, every hint, every       *)
(* concurrency and every budget.                                           *)
(*                                                                         *)
(* RollupIsHonest is not inductive: the rollup is computed from a counter  *)
(* and from completed[], which the units write on their own.  GateInv says *)
(* how those agree with where each unit stands, and that a gate nobody     *)
(* cancelled has launched every unit by the time it joins them.            *)
(*                                                                         *)
(* AdmissionHolds speaks of a sum over the running units.  A sum is counted *)
(* here as a set of CPU slots, where one unit more is its share more.      *)
(***************************************************************************)
EXTENDS Gate, FiniteSetTheorems, WellFoundedInduction, TLAPS

\* A unit's result, its context and completed[i] agree with where it stands.
UnitsAgree ==
    \A u \in Units :
        /\ done[u] <=> unit[u] = "done"
        /\ unit[u] = "done" => status[u] = Report(u)
        /\ unit[u] # "done" => status[u] \notin Final
        /\ pc # "announce" => status[u] # "none"

\* The failure counter is positive exactly when a counted unit failed.
CountAgrees ==
    failed > 0 <=> \E u \in Units : unit[u] \in {"posting", "done"} /\ ~ok[u]

\* The launcher goes through the units in order; only a cancelled gate cuts one
\* short or joins before it has launched the last.
LaunchAgrees ==
    /\ \A u \in Units : unit[u] = "queued" <=> u >= next
    /\ cause = "none" => \A u \in Units : unit[u] # "cut"
    /\ cause = "none" /\ pc = "join" => next \notin Units
    /\ pc = "announce" => next = 1

\* What has been rolled up once the launcher's goroutine returned.
ReturnAgrees ==
    /\ pc \in {"announce", "launch", "waiting", "join"} =>
           ~completed /\ rollup \notin Terminal
    /\ completed => /\ AllDone
                    /\ rollup = IF failed = 0 THEN "success" ELSE "failure"
    /\ ~completed => rollup \notin Final
    /\ pc \in {"returned", "over"} /\ ~completed =>
           /\ cause # "none"
           /\ cause = "superseded" => \A u \in Units : status[u] \in Terminal
    /\ pc = "over" /\ ~completed /\ cause = "superseded" => rollup = "error"

GateInv == TypeOK /\ UnitsAgree /\ CountAgrees /\ LaunchAgrees /\ ReturnAgrees

-----------------------------------------------------------------------------
LEMMA InitInv == Init => GateInv
<1> SUFFICES ASSUME Init PROVE GateInv
  OBVIOUS
<1>1. TypeOK
  <2>1. next \in 1 .. Total + 1
    BY GateAssumption DEF GateAssumption, Init
  <2>2. /\ ok \in [Units -> BOOLEAN]
        /\ done \in [Units -> BOOLEAN]
        /\ passed \in BOOLEAN /\ completed \in BOOLEAN
    BY Zenon DEF Init
  <2> QED
    BY <2>1, <2>2 DEF Init, TypeOK, States
<1>2. UnitsAgree
  BY DEF Init, UnitsAgree, Units, Final
<1>3. CountAgrees
  BY DEF Init, CountAgrees
<1>4. LaunchAgrees
  BY GateAssumption DEF GateAssumption, Init, LaunchAgrees, Units
<1>5. ReturnAgrees
  BY DEF Init, ReturnAgrees, Terminal, Final
<1> QED
  BY <1>1, <1>2, <1>3, <1>4, <1>5 DEF GateInv

LEMMA TypeStep == TypeOK /\ [Next]_vars => TypeOK'
<1> SUFFICES ASSUME TypeOK, [Next]_vars PROVE TypeOK'
  OBVIOUS
<1> USE GateAssumption DEF GateAssumption, TypeOK, Live
<1>1. ASSUME NEW why \in {"superseded", "shutdown"}, Cancel(why) PROVE TypeOK'
  BY <1>1 DEF Cancel, counters, results, verdict
<1>2. CASE Announce
  BY <1>2 DEF Announce, counters, results, verdict, States
<1>3. CASE Admit
  <2>1. Clamped(next) \in Int
    BY <1>3 DEF Admit, Clamped, Cost, Units
  <2> QED
    BY <1>3, <2>1 DEF Admit, results, verdict, Units
<1>4. CASE Block \/ StopLaunching
  BY <1>4 DEF Block, StopLaunching, counters, results, verdict
<1>5. ASSUME NEW u \in Units, NEW r \in BOOLEAN, Finish(u, r) PROVE TypeOK'
  <2>1. Clamped(u) \in Int
    BY DEF Clamped, Cost, Units
  <2> QED
    BY <1>5, <2>1 DEF Finish, results, verdict
<1>6. ASSUME NEW u \in Units, Observe(u) PROVE TypeOK'
  BY <1>6 DEF Observe, counters, verdict
<1>7. ASSUME NEW u \in Units, PostResult(u) PROVE TypeOK'
  BY <1>7 DEF PostResult, counters, verdict, Report, States
<1>8. CASE ReturnSuperseded \/ ReturnShutdown
  BY <1>8
  DEF ReturnSuperseded, ReturnShutdown, counters, results, verdict, States
<1>9. CASE ReturnResult \/ Conclude
  BY <1>9 DEF ReturnResult, Conclude, counters, results, verdict, States
<1>10. CASE Over \/ UNCHANGED vars
  BY <1>10 DEF Over, vars
<1> QED
  BY <1>1, <1>2, <1>3, <1>4, <1>5, <1>6, <1>7, <1>8, <1>9, <1>10
  DEF Next, Launcher, Runner

LEMMA InvStep == GateInv /\ [Next]_vars => GateInv'
<1> SUFFICES ASSUME GateInv, [Next]_vars PROVE GateInv'
  OBVIOUS
<1> DEFINE Rest == UnitsAgree /\ CountAgrees /\ LaunchAgrees /\ ReturnAgrees
<1>0. TypeOK /\ TypeOK' /\ Rest
  BY TypeStep DEF GateInv
<1> USE DEF TypeOK, Live, Final, Terminal, AllDone, Report, counters, results,
            verdict
<1>1. ASSUME NEW why \in {"superseded", "shutdown"}, Cancel(why) PROVE Rest'
  <2>1. UnitsAgree'
    BY <1>1, <1>0 DEF UnitsAgree, Cancel
  <2>2. CountAgrees'
    BY <1>1, <1>0 DEF CountAgrees, Cancel
  <2>3. LaunchAgrees'
    BY <1>1, <1>0 DEF LaunchAgrees, Cancel
  <2>4. ReturnAgrees'
    BY <1>1, <1>0 DEF ReturnAgrees, Cancel
  <2> QED
    BY <2>1, <2>2, <2>3, <2>4
<1>2. ASSUME Announce PROVE Rest'
  <2>1. UnitsAgree'
    BY <1>2, <1>0 DEF UnitsAgree, Announce, LaunchAgrees, Units
  <2>2. CountAgrees'
    BY <1>2, <1>0 DEF CountAgrees, Announce
  <2>3. LaunchAgrees'
    BY <1>2, <1>0 DEF LaunchAgrees, Announce
  <2>4. ReturnAgrees'
    BY <1>2, <1>0 DEF ReturnAgrees, Announce
  <2> QED
    BY <2>1, <2>2, <2>3, <2>4
<1>3. ASSUME Admit PROVE Rest'
  <2>1. UnitsAgree'
    BY <1>3, <1>0 DEF UnitsAgree, Admit, LaunchAgrees, Units
  <2>2. CountAgrees'
    BY <1>3, <1>0 DEF CountAgrees, Admit, LaunchAgrees, Units
  <2>3. LaunchAgrees'
    BY <1>3, <1>0 DEF LaunchAgrees, Admit
  <2>4. ReturnAgrees'
    BY <1>3, <1>0 DEF ReturnAgrees, Admit
  <2> QED
    BY <2>1, <2>2, <2>3, <2>4
<1>4. ASSUME Block PROVE Rest'
  <2>1. UnitsAgree'
    BY <1>4, <1>0 DEF UnitsAgree, Block
  <2>2. CountAgrees'
    BY <1>4, <1>0 DEF CountAgrees, Block
  <2>3. LaunchAgrees'
    BY <1>4, <1>0 DEF LaunchAgrees, Block
  <2>4. ReturnAgrees'
    BY <1>4, <1>0 DEF ReturnAgrees, Block
  <2> QED
    BY <2>1, <2>2, <2>3, <2>4
<1>5. ASSUME StopLaunching PROVE Rest'
  <2>1. UnitsAgree'
    BY <1>5, <1>0 DEF UnitsAgree, StopLaunching
  <2>2. CountAgrees'
    BY <1>5, <1>0 DEF CountAgrees, StopLaunching
  <2>3. LaunchAgrees'
    BY <1>5, <1>0 DEF LaunchAgrees, StopLaunching
  <2>4. ReturnAgrees'
    BY <1>5, <1>0 DEF ReturnAgrees, StopLaunching
  <2> QED
    BY <2>1, <2>2, <2>3, <2>4
<1>6. ASSUME NEW u \in Units, NEW r \in BOOLEAN, Finish(u, r) PROVE Rest'
  <2>1. UnitsAgree'
    BY <1>6, <1>0 DEF UnitsAgree, Finish
  <2>2. CountAgrees'
    BY <1>6, <1>0 DEF CountAgrees, Finish
  <2>3. LaunchAgrees'
    BY <1>6, <1>0 DEF LaunchAgrees, Finish
  <2>4. ReturnAgrees'
    BY <1>6, <1>0 DEF ReturnAgrees, Finish
  <2> QED
    BY <2>1, <2>2, <2>3, <2>4
<1>7. ASSUME NEW u \in Units, Observe(u) PROVE Rest'
  <2>1. UnitsAgree'
    BY <1>7, <1>0 DEF UnitsAgree, Observe
  <2>2. CountAgrees'
    BY <1>7, <1>0 DEF CountAgrees, Observe
  <2>3. LaunchAgrees'
    BY <1>7, <1>0 DEF LaunchAgrees, Observe
  <2>4. ReturnAgrees'
    BY <1>7, <1>0 DEF ReturnAgrees, Observe, UnitsAgree
  <2> QED
    BY <2>1, <2>2, <2>3, <2>4
<1>8. ASSUME NEW u \in Units, PostResult(u) PROVE Rest'
  <2>1. UnitsAgree'
    BY <1>8, <1>0 DEF UnitsAgree, PostResult
  <2>2. CountAgrees'
    BY <1>8, <1>0 DEF CountAgrees, PostResult
  <2>3. LaunchAgrees'
    BY <1>8, <1>0 DEF LaunchAgrees, PostResult
  <2>4. ReturnAgrees'
    BY <1>8, <1>0 DEF ReturnAgrees, PostResult
  <2> QED
    BY <2>1, <2>2, <2>3, <2>4
<1>9. ASSUME ReturnSuperseded PROVE Rest'
  <2>1. UnitsAgree'
    BY <1>9, <1>0 DEF UnitsAgree, ReturnSuperseded, Joined
  <2>2. CountAgrees'
    BY <1>9, <1>0 DEF CountAgrees, ReturnSuperseded, Joined
  <2>3. LaunchAgrees'
    BY <1>9, <1>0 DEF LaunchAgrees, ReturnSuperseded, Joined
  <2>4. ReturnAgrees'
    BY <1>9, <1>0 DEF ReturnAgrees, ReturnSuperseded, Joined, UnitsAgree
  <2> QED
    BY <2>1, <2>2, <2>3, <2>4
<1>10. ASSUME ReturnShutdown PROVE Rest'
  <2>1. UnitsAgree'
    BY <1>10, <1>0 DEF UnitsAgree, ReturnShutdown, Joined
  <2>2. CountAgrees'
    BY <1>10, <1>0 DEF CountAgrees, ReturnShutdown, Joined
  <2>3. LaunchAgrees'
    BY <1>10, <1>0 DEF LaunchAgrees, ReturnShutdown, Joined
  <2>4. ReturnAgrees'
    BY <1>10, <1>0 DEF ReturnAgrees, ReturnShutdown, Joined
  <2> QED
    BY <2>1, <2>2, <2>3, <2>4
<1>11. ASSUME ReturnResult PROVE Rest'
  <2>0. AllDone
    <3>1. CASE cause = "none"
      <4>1. /\ next \notin Units
            /\ \A u \in Units : unit[u] # "cut" /\ unit[u] \notin Live
        BY <1>11, <1>0, <3>1 DEF ReturnResult, Joined, LaunchAgrees
      <4>2. ASSUME NEW u \in Units PROVE unit[u] = "done"
        <5>1. u < next
          BY <4>1, <1>0, GateAssumption DEF GateAssumption, Units
        <5>2. unit[u] # "queued"
          BY <5>1, <1>0 DEF LaunchAgrees, Units
        <5> QED
          BY <4>1, <5>2, <1>0
      <4> QED
        BY <4>2, <1>0 DEF UnitsAgree
    <3> QED
      BY <1>11, <3>1 DEF ReturnResult
  <2>1. UnitsAgree'
    BY <1>11, <1>0 DEF UnitsAgree, ReturnResult, Joined
  <2>2. CountAgrees'
    BY <1>11, <1>0 DEF CountAgrees, ReturnResult
  <2>3. LaunchAgrees'
    BY <1>11, <1>0 DEF LaunchAgrees, ReturnResult, Joined
  <2>4. ReturnAgrees'
    BY <1>11, <2>0, <1>0 DEF ReturnAgrees, ReturnResult
  <2> QED
    BY <2>1, <2>2, <2>3, <2>4
<1>12. ASSUME Conclude PROVE Rest'
  <2>1. UnitsAgree'
    BY <1>12, <1>0 DEF UnitsAgree, Conclude
  <2>2. CountAgrees'
    BY <1>12, <1>0 DEF CountAgrees, Conclude
  <2>3. LaunchAgrees'
    BY <1>12, <1>0 DEF LaunchAgrees, Conclude
  <2>4. ReturnAgrees'
    BY <1>12, <1>0 DEF ReturnAgrees, Conclude
  <2> QED
    BY <2>1, <2>2, <2>3, <2>4
<1>13. ASSUME Over \/ UNCHANGED vars PROVE Rest'
  <2>1. UNCHANGED vars
    BY <1>13 DEF Over
  <2>2. UnitsAgree' /\ CountAgrees'
    BY <2>1 DEF vars, results, GateInv, UnitsAgree, CountAgrees, Report
  <2>3. LaunchAgrees'
    BY <2>1 DEF vars, GateInv, LaunchAgrees
  <2>4. ReturnAgrees'
    BY <2>1 DEF vars, results, verdict, GateInv, ReturnAgrees, AllDone
  <2> QED
    BY <2>2, <2>3, <2>4
<1> QED
  BY <1>0, <1>1, <1>2, <1>3, <1>4, <1>5, <1>6, <1>7, <1>8, <1>9, <1>10, <1>11,
     <1>12, <1>13 DEF GateInv, Next, Launcher, Runner

\* Gate's state always has the declared types.
THEOREM TypeCorrect == Spec => []TypeOK
<1>1. Spec => []GateInv
  BY InitInv, InvStep, PTL DEF Spec
<1>2. GateInv => TypeOK
  BY DEF GateInv
<1> QED
  BY <1>1, <1>2, PTL

\* A green ci has every unit completed and passed, a red one has every unit
\* completed and one failed, for every number of units, order and cancellation.
THEOREM RollupCorrect == Spec => []RollupIsHonest
<1>1. Spec => []GateInv
  BY InitInv, InvStep, PTL DEF Spec
<1>2. ASSUME GateInv PROVE RollupIsHonest
  <2>1. ASSUME rollup \in Final
        PROVE  AllDone /\ \A u \in Units : status[u] = Report(u)
    BY <1>2, <2>1 DEF GateInv, ReturnAgrees, UnitsAgree, AllDone
  <2>2. ASSUME rollup = "success" PROVE \A u \in Units : ok[u]
    <3>1. completed /\ ~(failed > 0)
      BY <1>2, <2>2 DEF GateInv, TypeOK, ReturnAgrees, Final
    <3> QED
      BY <1>2, <2>1, <2>2, <3>1
      DEF GateInv, CountAgrees, UnitsAgree, AllDone, Final
  <2>3. ASSUME rollup = "failure" PROVE \E u \in Units : ~ok[u]
    <3>1. completed /\ failed > 0
      BY <1>2, <2>3 DEF GateInv, TypeOK, ReturnAgrees, Final
    <3> QED
      BY <1>2, <3>1 DEF GateInv, CountAgrees
  <2> QED
    BY <2>1, <2>2, <2>3 DEF RollupIsHonest, Report, Final
<1> QED
  BY <1>1, <1>2, PTL

\* A gate that ends other than by a shutdown leaves no context pending.
THEOREM ResolutionCorrect == Spec => []NothingLeftPending
<1>1. Spec => []GateInv
  BY InitInv, InvStep, PTL DEF Spec
<1>2. ASSUME GateInv, pc = "over", cause # "shutdown" \/ completed
      PROVE  rollup \in Terminal /\ \A u \in Units : status[u] \in Terminal
  <2>1. CASE completed
    BY <1>2, <2>1
    DEF GateInv, ReturnAgrees, UnitsAgree, AllDone, Report, Terminal
  <2>2. CASE ~completed
    BY <1>2, <2>2 DEF GateInv, TypeOK, ReturnAgrees, Terminal
  <2> QED
    BY <2>1, <2>2
<1>3. GateInv => NothingLeftPending
  BY <1>2 DEF NothingLeftPending
<1> QED
  BY <1>1, <1>3, PTL

\* A unit's reported result is never overwritten.
THEOREM ResultsCorrect == Spec => ResultsStand
<1>1. ASSUME GateInv, [Next]_vars
      PROVE  [\A u \in Units :
                 status[u] \in Final => status'[u] = status[u]]_vars
  <2> SUFFICES ASSUME Next, NEW u \in Units, status[u] \in Final
               PROVE  status'[u] = status[u]
    BY <1>1
  <2>1. done[u] /\ unit[u] = "done" /\ pc # "announce"
    BY <1>1 DEF GateInv, UnitsAgree, LaunchAgrees, TypeOK, Units
  <2>2. CASE ReturnSuperseded
    BY <2>1, <2>2 DEF ReturnSuperseded
  <2>3. ASSUME NEW v \in Units, PostResult(v) PROVE status'[u] = status[u]
    BY <1>1, <2>1, <2>3 DEF PostResult, GateInv, TypeOK
  <2>4. CASE ~ReturnSuperseded /\ ~\E v \in Units : PostResult(v)
    BY <2>1, <2>4
    DEF Next, Launcher, Runner, Cancel, Announce, Admit, Block, StopLaunching,
        Finish, Observe, ReturnShutdown, ReturnResult, Conclude, Over, vars
  <2> QED
    BY <2>2, <2>3, <2>4
<1> QED
  BY <1>1, InitInv, InvStep, PTL DEF Spec, ResultsStand

-----------------------------------------------------------------------------
(* The shares of a set of units.  The sum of the library is a recursive    *)
(* function over subsets; what it returns is the number of CPU slots the   *)
(* units take, each as many as its share, by induction over the subsets in *)
(* the form of a minimal counterexample.                                   *)

Slots(A) == {p \in Units \X (1 .. Budget) : p[1] \in A /\ p[2] <= Share(p[1])}
Weight(A) == Cardinality(Slots(A))

LEMMA ShareType ==
    ASSUME NEW u \in Units
    PROVE  Share(u) \in 1 .. Budget /\ Clamped(u) = Share(u)
BY GateAssumption DEF GateAssumption, Share, Clamped, Cost, Units

LEMMA UnitsFinite == IsFiniteSet(Units)
BY GateAssumption, FS_Interval DEF GateAssumption, Units

LEMMA WeightType ==
    ASSUME NEW A
    PROVE  IsFiniteSet(Slots(A)) /\ Weight(A) \in Nat
<1>1. IsFiniteSet(Units \X (1 .. Budget))
  <2>1. IsFiniteSet(1 .. Budget)
    BY GateAssumption, FS_Interval DEF GateAssumption
  <2> QED
    BY <2>1, UnitsFinite, FS_Product
<1>2. IsFiniteSet(Slots(A))
  BY <1>1, FS_Subset DEF Slots
<1> QED
  BY <1>2, FS_CardinalityType DEF Weight

LEMMA WeightEmpty == Weight({}) = 0
<1>1. Slots({}) = {}
  BY DEF Slots
<1> QED
  BY <1>1, FS_EmptySet DEF Weight

LEMMA WeightOne ==
    ASSUME NEW u \in Units
    PROVE  Weight({u}) = Share(u)
<1> DEFINE f == [i \in 1 .. Share(u) |-> <<u, i>>]
<1>0. Share(u) \in Nat /\ Share(u) <= Budget /\ Budget \in Nat
  BY ShareType, GateAssumption DEF GateAssumption
<1>1. Slots({u}) = {<<u, i>> : i \in 1 .. Share(u)}
  BY <1>0 DEF Slots
<1>2. f \in Bijection(1 .. Share(u), Slots({u}))
  BY <1>1 DEF Bijection, Injection, Surjection, IsInjective
<1>3. IsFiniteSet(1 .. Share(u)) /\ Cardinality(1 .. Share(u)) = Share(u)
  BY <1>0, FS_Interval
<1> QED
  BY <1>2, <1>3, FS_Bijection DEF ExistsBijection, Weight

\* One unit more is its share more.
LEMMA WeightMore ==
    ASSUME NEW A, NEW u \in Units, u \notin A
    PROVE  Weight(A \cup {u}) = Weight(A) + Share(u)
<1>1. Slots(A \cup {u}) = Slots(A) \cup Slots({u}) /\ Slots(A) \cap Slots({u}) = {}
  BY DEF Slots
<1>2. IsFiniteSet(Slots(A)) /\ IsFiniteSet(Slots({u}))
      /\ Cardinality(Slots(A)) \in Nat /\ Cardinality(Slots({u})) \in Nat
  BY WeightType DEF Weight
<1>3. Cardinality(Slots(A) \cup Slots({u})) =
         Cardinality(Slots(A)) + Cardinality(Slots({u}))
            - Cardinality(Slots(A) \cap Slots({u}))
  BY <1>2, FS_Union
<1>4. Cardinality(Slots(A) \cap Slots({u})) = 0
  BY <1>1, FS_EmptySet
<1> QED
  <2>1. Cardinality(Slots({u})) = Share(u)
    BY WeightOne DEF Weight
  <2>2. Cardinality(Slots(A \cup {u})) =
           Cardinality(Slots(A)) + Cardinality(Slots({u})) - 0
    BY <1>1, <1>3, <1>4
  <2> QED
    BY <1>2, <2>1, <2>2 DEF Weight

\* A set of subsets of a finite set has a member with none below it.
LEMMA MinimalSubset ==
    ASSUME NEW A, IsFiniteSet(A), NEW T, T \subseteq SUBSET A, T # {}
    PROVE  \E s \in T : \A t \in T : t \subseteq s => t = s
<1>1. FiniteSubsetsOf(A) = SUBSET A
  BY FS_FiniteSubsetsOfFinite
<1>2. IsWellFoundedOn(StrictSubsetOrdering(A), SUBSET A)
  BY <1>1, FS_StrictSubsetOrderingWellFounded
<1>3. PICK s \in T : \A t \in T : ~(<<t, s>> \in StrictSubsetOrdering(A))
  BY <1>2, WFMin
<1> QED
  BY <1>3 DEF StrictSubsetOrdering

\* The recursive function behind the sum of A: each subset takes the share of
\* one of its units, and then the sum of the rest.
Pick(s) == CHOOSE x \in s : TRUE
Sums(A, g) ==
    g = [s \in SUBSET A |-> IF s = {} THEN 0 ELSE Share(Pick(s)) + g[s \ {Pick(s)}]]

LEMMA SumIsOne ==
    ASSUME NEW A, NEW h, Sums(A, h)
    PROVE  \E g : Sums(A, g) /\ MapThenSumSet(Share, A) = g[A]
BY Zenon DEF Sums, Pick, MapThenSumSet, MapThenFoldSet

LEMMA WeightSums ==
    ASSUME NEW A, A \subseteq Units
    PROVE  Sums(A, [s \in SUBSET A |-> Weight(s)])
<1> DEFINE h == [s \in SUBSET A |-> Weight(s)]
<1>1. ASSUME NEW s \in SUBSET A, s # {}
      PROVE  h[s] = Share(Pick(s)) + h[s \ {Pick(s)}]
  <2>1. Pick(s) \in s
    BY <1>1 DEF Pick
  <2> DEFINE u == Pick(s)
             t == s \ {u}
  <2>2. u \in Units /\ u \notin t /\ t \cup {u} = s /\ t \in SUBSET A
    BY <2>1
  <2> HIDE DEF u
  <2>3. Weight(t \cup {u}) = Weight(t) + Share(u)
    BY <2>2, WeightMore
  <2>4. Weight(t) \in Nat /\ Share(u) \in Nat
    BY <2>2, WeightType, ShareType, GateAssumption DEF GateAssumption
  <2>5. h[s] = Share(u) + h[t]
    BY <2>2, <2>3, <2>4
  <2> QED
    BY <2>5 DEF u
<1>2. h[{}] = 0
  BY WeightEmpty
<1>3. \A s \in SUBSET A :
         h[s] = IF s = {} THEN 0 ELSE Share(Pick(s)) + h[s \ {Pick(s)}]
  BY <1>1, <1>2
<1> HIDE DEF h
<1>4. h = [s \in SUBSET A |-> h[s]]
  BY DEF h
<1> QED
  BY <1>3, <1>4 DEF Sums, h

\* No other function satisfies the recursion.
LEMMA SumsUnique ==
    ASSUME NEW A, A \subseteq Units, NEW g, Sums(A, g), NEW h, Sums(A, h)
    PROVE  g[A] = h[A]
<1> DEFINE T == {s \in SUBSET A : g[s] # h[s]}
<1>1. SUFFICES ASSUME T # {} PROVE FALSE
  OBVIOUS
<1>2. IsFiniteSet(A)
  BY UnitsFinite, FS_Subset
<1>3. PICK s \in T : \A t \in T : t \subseteq s => t = s
  <2>1. T \subseteq SUBSET A
    OBVIOUS
  <2> HIDE DEF T
  <2> QED
    BY <1>1, <1>2, <2>1, MinimalSubset
<1>4. s # {}
  BY <1>3 DEF Sums
<1>5. Pick(s) \in s
  BY <1>4 DEF Pick
<1>6. g[s \ {Pick(s)}] = h[s \ {Pick(s)}]
  BY <1>3, <1>5
<1> QED
  BY <1>3, <1>4, <1>6 DEF Sums

LEMMA SumIsWeight ==
    ASSUME NEW A, A \subseteq Units
    PROVE  MapThenSumSet(Share, A) = Weight(A)
<1> DEFINE h == [s \in SUBSET A |-> Weight(s)]
<1>1. Sums(A, h)
  BY WeightSums
<1>2. PICK g : Sums(A, g) /\ MapThenSumSet(Share, A) = g[A]
  BY <1>1, SumIsOne
<1>3. g[A] = h[A]
  BY <1>1, <1>2, SumsUnique
<1> QED
  BY <1>2, <1>3

-----------------------------------------------------------------------------
(* Admission.                                                              *)

\* The counters are those of the units that run, and within their limits.
AdmissionInv ==
    /\ running = Cardinality(Executing) /\ running <= Limit
    /\ used = Weight(Executing) /\ used <= Budget

LEMMA ExecutingType ==
    /\ Executing \subseteq Units /\ IsFiniteSet(Executing)
    /\ Cardinality(Executing) \in Nat /\ Weight(Executing) \in Nat
<1>1. Executing \subseteq Units
  BY DEF Executing
<1> QED
  BY <1>1, UnitsFinite, FS_Subset, FS_CardinalityType, WeightType

LEMMA AdmissionAdmit ==
    ASSUME GateInv, AdmissionInv, Admit
    PROVE  AdmissionInv'
<1>1. /\ next \in Units /\ next \notin Executing
      /\ Executing' = Executing \cup {next}
  BY DEF GateInv, TypeOK, LaunchAgrees, Admit, Executing
<1>2. Cardinality(Executing') = Cardinality(Executing) + 1
  BY <1>1, ExecutingType, FS_AddElement
<1>3. Weight(Executing') = Weight(Executing) + Share(next)
  BY <1>1, WeightMore
<1>4. Clamped(next) = Share(next) /\ Share(next) \in 1 .. Budget
  BY <1>1, ShareType
<1>5. running' = running + 1 /\ used' = used + Clamped(next) /\ ~MustWait(next)
  BY DEF Admit
<1>6. running = 0 => used = 0
  BY ExecutingType, FS_EmptySet, WeightEmpty DEF AdmissionInv
<1>7. Limit \in Nat /\ Limit >= 1 /\ Budget \in Nat /\ running \in Nat
  BY ExecutingType, GateAssumption DEF GateAssumption, Limit, AdmissionInv
<1>8. running' <= Limit /\ used' <= Budget
  BY <1>4, <1>5, <1>6, <1>7 DEF MustWait, AdmissionInv
<1> QED
  BY <1>2, <1>3, <1>4, <1>5, <1>8 DEF AdmissionInv

LEMMA AdmissionFinish ==
    ASSUME GateInv, AdmissionInv, NEW u \in Units, NEW r \in BOOLEAN, Finish(u, r)
    PROVE  AdmissionInv'
<1>1. /\ u \in Executing /\ Executing' = Executing \ {u}
      /\ running' = running - 1 /\ used' = used - Clamped(u)
  BY DEF GateInv, TypeOK, Finish, Executing
<1>2. Cardinality(Executing') = Cardinality(Executing) - 1
  BY <1>1, ExecutingType, FS_RemoveElement
<1>3. Weight(Executing) = Weight(Executing') + Share(u)
  <2>1. Executing = (Executing \ {u}) \cup {u}
    BY <1>1
  <2>2. Weight((Executing \ {u}) \cup {u}) = Weight(Executing \ {u}) + Share(u)
    BY WeightMore
  <2> QED
    BY <1>1, <2>1, <2>2
<1>4. Clamped(u) = Share(u) /\ Share(u) \in 1 .. Budget
  BY ShareType
<1>5. Weight(Executing') \in Nat
  BY WeightType
<1>6. Limit \in Nat /\ Budget \in Nat
  BY GateAssumption DEF GateAssumption, Limit
<1> QED
  BY <1>1, <1>2, <1>3, <1>4, <1>5, <1>6, ExecutingType DEF AdmissionInv

LEMMA AdmissionStep == GateInv /\ AdmissionInv /\ [Next]_vars => AdmissionInv'
<1> SUFFICES ASSUME GateInv, AdmissionInv, [Next]_vars PROVE AdmissionInv'
  OBVIOUS
<1>1. ASSUME UNCHANGED <<running, used>>, Executing' = Executing
      PROVE  AdmissionInv'
  BY <1>1 DEF AdmissionInv, Limit
<1>2. ASSUME NEW u \in Units, Observe(u) \/ PostResult(u)
      PROVE  AdmissionInv'
  <2>1. Executing' = Executing /\ UNCHANGED <<running, used>>
    BY <1>2 DEF Observe, PostResult, Executing, GateInv, TypeOK, counters
  <2> QED
    BY <1>1, <2>1
<1>3. CASE \/ \E why \in {"superseded", "shutdown"} : Cancel(why)
           \/ Announce \/ Block \/ StopLaunching \/ ReturnSuperseded
           \/ ReturnShutdown \/ ReturnResult \/ Conclude \/ Over \/ UNCHANGED vars
  <2>1. UNCHANGED <<unit, running, used>>
    BY <1>3 DEF Cancel, Announce, Block, StopLaunching, ReturnSuperseded,
       ReturnShutdown, ReturnResult, Conclude, Over, vars, counters
  <2> QED
    BY <1>1, <2>1 DEF Executing
<1> QED
  BY <1>2, <1>3, AdmissionAdmit, AdmissionFinish DEF Next, Launcher, Runner

\* For every number of units, hints and limits: the counters of runUnits are the
\* number and the CPUs of the units that run, at most Limit and the budget.
THEOREM AdmissionCorrect == Spec => []AdmissionHolds
<1>1. Init => AdmissionInv
  <2> SUFFICES ASSUME Init PROVE AdmissionInv
    OBVIOUS
  <2>1. Executing = {}
    BY DEF Init, Executing
  <2> QED
    BY <2>1, FS_EmptySet, WeightEmpty, GateAssumption
    DEF Init, AdmissionInv, Limit, GateAssumption
<1>2. AdmissionInv => AdmissionHolds
  BY ExecutingType, SumIsWeight DEF AdmissionInv, AdmissionHolds
<1> QED
  BY <1>1, <1>2, InitInv, InvStep, AdmissionStep, PTL DEF Spec

=============================================================================
