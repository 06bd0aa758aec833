--------------------------- MODULE CheckRunProofs ---------------------------
(***************************************************************************)
(* Theorems about CheckRun, for any engines, units, containers and bounds. *)
(* The argument follows a container: while a unit holds its id, the        *)
(* container carries the label of that unit's engine, and no other unit    *)
(* holds the same id; what a sweep has listed carries the sweeper's label, *)
(* whose units are all idle.  Engines with labels of their own therefore   *)
(* never meet.                                                             *)
(***************************************************************************)
EXTENDS CheckRun, TLAPS

\* instanceID differs from engine to engine: what the sweep relies on.
DistinctLabels == \A e, f \in Engines : Label[e] = Label[f] => e = f

UnitType == [pc : Pcs, cid : Cids \cup {NoCid}, ok : BOOLEAN,
             ctx : {"live", "timeout", "cancelled"}]
ConType == [state : {"none", "created", "running", "exited"},
            label : Labels \cup {NoCid}, zero : BOOLEAN]

\* Only a swept engine has units at work, and only a sweeping one a list.
UpOnly == \A u \in Units : unit[u].pc # "idle" => engine[Of[u]] = "up"
SweepOnly == \A e \in Engines : engine[e] # "sweep" => stale[e] = {}

\* A unit holds an id from its create to its rm, and no two hold the same.
HoldsId ==
    \A u \in Units : unit[u].cid = NoCid <=> unit[u].pc \in {"idle", "create"}
OneHolder ==
    \A u, v \in Units : unit[u].cid = unit[v].cid /\ unit[u].cid # NoCid => u = v

CheckInv == TypeOK /\ UpOnly /\ SweepOnly /\ HoldsId /\ OneHolder

\* The container of an id that a unit holds is there, with its engine's label.
Labelled ==
    \A u \in Units : unit[u].cid # NoCid =>
        /\ con[unit[u].cid].state # "none"
        /\ con[unit[u].cid].label = Label[Of[u]]

\* What is listed for removal carries the label of the engine that listed it.
ListedOwn ==
    \A e \in Engines : \A c \in stale[e] :
        con[c].state = "none" \/ con[c].label = Label[e]

\* What runs with an engine's label is listed, or held by one of its units.
Accounted ==
    \A e \in Engines, c \in Cids :
        con[c].state = "running" /\ con[c].label = Label[e] =>
            /\ engine[e] = "sweep" => c \in stale[e]
            /\ engine[e] = "up" =>
                  \E u \in Units : Of[u] = e /\ unit[u].cid = c

OwnInv == DistinctLabels => Labelled /\ ListedOwn
StrayInv == DistinctLabels /\ faults = 0 => Accounted

-----------------------------------------------------------------------------
\* A step of one unit that keeps the id it holds, and its place before or after
\* the create, keeps what CheckInv says of all of them.
LEMMA UnitMoves ==
    ASSUME CheckInv, NEW u \in Units, NEW w \in UnitType,
           unit' = [unit EXCEPT ![u] = w], w.cid = unit[u].cid,
           w.pc \in {"idle", "create"} <=> unit[u].pc \in {"idle", "create"},
           w.pc = "idle" \/ engine[Of[u]] = "up",
           UNCHANGED <<engine, stale, con, kills>>,
           faults' \in 0 .. MaxFaults
    PROVE  CheckInv'
<1>1. TypeOK'
  BY DEF CheckInv, TypeOK, UnitType
<1>2. \A v \in Units : unit'[v] = IF v = u THEN w ELSE unit[v]
  BY DEF CheckInv, TypeOK
<1>3. UpOnly' /\ SweepOnly'
  BY <1>2 DEF CheckInv, UpOnly, SweepOnly
<1>4. HoldsId' /\ OneHolder'
  BY <1>2 DEF CheckInv, HoldsId, OneHolder
<1> QED
  BY <1>1, <1>3, <1>4 DEF CheckInv

\* The steps of that kind.
Moves(u) ==
    \/ Begin(u) \/ CopyIn(u) \/ Detach(u) \/ Look(u) \/ Inspect(u) \/ Wait(u)
    \/ \E why \in {"timeout", "cancelled"} : Expire(u, why)

LEMMA MovesAre ==
    ASSUME CheckInv, NEW u \in Units, Moves(u)
    PROVE  \E w \in UnitType :
              /\ unit' = [unit EXCEPT ![u] = w] /\ w.cid = unit[u].cid
              /\ w.pc \in {"idle", "create"} <=> unit[u].pc \in {"idle", "create"}
              /\ w.pc = "idle" \/ engine[Of[u]] = "up"
              /\ UNCHANGED <<engine, stale, con, kills>>
              /\ faults' \in 0 .. MaxFaults /\ (faults' = 0 => faults = 0)
<1>0. /\ unit \in [Units -> UnitType] /\ con \in [Cids -> ConType]
      /\ unit[u] \in UnitType /\ faults \in 0 .. MaxFaults
  BY DEF CheckInv, TypeOK, UnitType, ConType
<1>1. CASE Begin(u)
  <2> DEFINE w == [unit[u] EXCEPT !.pc = "create"]
  <2>1. w \in UnitType /\ w.cid = unit[u].cid /\ w.pc = "create"
    BY <1>0 DEF UnitType, Pcs
  <2>2. unit' = [unit EXCEPT ![u] = w] /\ engine[Of[u]] = "up"
        /\ unit[u].pc = "idle"
        /\ UNCHANGED <<engine, stale, con, kills, faults>>
    BY <1>0, <1>1 DEF Begin, Goto, Only, At
  <2> QED
    BY <1>0, <2>1, <2>2
<1>2. CASE \E why \in {"timeout", "cancelled"} : Expire(u, why)
  <2>1. PICK why \in {"timeout", "cancelled"} : Expire(u, why)
    BY <1>2
  <2> DEFINE w == [unit[u] EXCEPT !.ctx = why]
  <2>2. w \in UnitType /\ w.cid = unit[u].cid /\ w.pc = unit[u].pc
    BY <1>0 DEF UnitType
  <2>3. unit' = [unit EXCEPT ![u] = w] /\ unit[u].pc # "idle"
        /\ UNCHANGED <<engine, stale, con, kills, faults>>
    BY <1>0, <2>1 DEF Expire, Only
  <2>4. engine[Of[u]] = "up"
    BY <2>3 DEF CheckInv, UpOnly
  <2> QED
    BY <1>0, <2>2, <2>3, <2>4
<1>3. ASSUME NEW p \in Pcs \ {"idle", "create"}, NEW k \in BOOLEAN,
             unit' = [unit EXCEPT ![u] = [@ EXCEPT !.pc = p, !.ok = k]],
             unit[u].pc \notin {"idle", "create"},
             UNCHANGED <<engine, stale, con, kills>>,
             UNCHANGED faults \/ Fault
      PROVE  \E w \in UnitType :
              /\ unit' = [unit EXCEPT ![u] = w] /\ w.cid = unit[u].cid
              /\ w.pc \in {"idle", "create"} <=> unit[u].pc \in {"idle", "create"}
              /\ w.pc = "idle" \/ engine[Of[u]] = "up"
              /\ UNCHANGED <<engine, stale, con, kills>>
              /\ faults' \in 0 .. MaxFaults /\ (faults' = 0 => faults = 0)
  <2> DEFINE w == [unit[u] EXCEPT !.pc = p, !.ok = k]
  <2>1. w \in UnitType /\ w.cid = unit[u].cid /\ w.pc = p
    BY <1>0 DEF UnitType
  <2>2. unit' = [unit EXCEPT ![u] = w]
    BY <1>0, <1>3
  <2>3. engine[Of[u]] = "up"
    BY <1>3 DEF CheckInv, UpOnly
  <2>4. faults' \in 0 .. MaxFaults /\ (faults' = 0 => faults = 0)
    BY <1>0, <1>3, CheckRunAssumption DEF Fault, CheckRunAssumption
  <2> QED
    BY <1>3, <2>1, <2>2, <2>3, <2>4
<1>4. ASSUME CopyIn(u) \/ Detach(u) \/ Look(u) \/ Inspect(u) \/ Wait(u)
      PROVE  \E p \in Pcs \ {"idle", "create"}, k \in BOOLEAN :
                /\ unit' = [unit EXCEPT ![u] = [@ EXCEPT !.pc = p, !.ok = k]]
                /\ unit[u].pc \notin {"idle", "create"}
                /\ UNCHANGED <<engine, stale, con, kills>>
                /\ UNCHANGED faults \/ Fault
  <2>1. /\ unit[u].pc \notin {"idle", "create"}
        /\ UNCHANGED <<engine, stale, con, kills>>
        /\ UNCHANGED faults \/ Fault
    BY <1>4 DEF CopyIn, Detach, Look, Inspect, Wait, At, Only
  <2>2. \/ \E p \in {"start", "look", "inspect", "wait"} : Goto(u, p)
        \/ \E k \in BOOLEAN : Decide(u, k)
    <3>1. con[unit[u].cid].zero \in BOOLEAN \/ unit[u].cid \notin Cids
      BY <1>0 DEF ConType
    <3>2. unit[u].cid \in Cids
      BY <1>0, <2>1 DEF CheckInv, HoldsId, UnitType
    <3>3. CASE CopyIn(u)
      BY <3>3 DEF CopyIn
    <3>4. CASE Detach(u) \/ Look(u)
      BY <3>4 DEF Detach, Look
    <3>5. CASE Inspect(u)
      BY <3>1, <3>2, <3>5 DEF Inspect
    <3>6. CASE Wait(u)
      BY <3>1, <3>2, <3>6 DEF Wait
    <3> QED
      BY <1>4, <3>3, <3>4, <3>5, <3>6
  <2>3. CASE \E p \in {"start", "look", "inspect", "wait"} : Goto(u, p)
    <3>1. PICK p \in {"start", "look", "inspect", "wait"} : Goto(u, p)
      BY <2>3
    <3>2. unit' = [unit EXCEPT ![u] =
                      [unit[u] EXCEPT !.pc = p, !.ok = unit[u].ok]]
      BY <1>0, <3>1 DEF Goto, UnitType
    <3>3. p \in Pcs \ {"idle", "create"} /\ unit[u].ok \in BOOLEAN
      BY <1>0 DEF Pcs, UnitType
    <3> QED
      BY <1>0, <2>1, <3>2, <3>3
  <2>4. CASE \E k \in BOOLEAN : Decide(u, k)
    <3>1. PICK k \in BOOLEAN : Decide(u, k)
      BY <2>4
    <3>2. unit' = [unit EXCEPT ![u] =
                      [unit[u] EXCEPT !.pc = "remove", !.ok = k]]
      BY <1>0, <3>1 DEF Decide
    <3> QED
      BY <1>0, <2>1, <3>2 DEF Pcs
  <2> QED
    BY <2>2, <2>3, <2>4
<1> QED
  BY <1>1, <1>2, <1>3, <1>4 DEF Moves

-----------------------------------------------------------------------------
LEMMA CheckInit == Init => CheckInv /\ OwnInv /\ StrayInv
<1> SUFFICES ASSUME Init PROVE CheckInv /\ OwnInv /\ StrayInv
  OBVIOUS
<1>1. TypeOK
  BY CheckRunAssumption
     DEF CheckRunAssumption, Init, TypeOK, Idle, NoCon, Pcs
<1>2. UpOnly /\ SweepOnly /\ HoldsId /\ OneHolder
  BY DEF Init, UpOnly, SweepOnly, HoldsId, OneHolder, Idle
<1>3. OwnInv /\ StrayInv
  BY DEF Init, OwnInv, StrayInv, Labelled, ListedOwn, Accounted, Idle, NoCon
<1> QED
  BY <1>1, <1>2, <1>3 DEF CheckInv

\* What a unit's steps need to know of it.
LEMMA UnitFields ==
    ASSUME CheckInv
    PROVE  /\ unit \in [Units -> UnitType] /\ con \in [Cids -> ConType]
           /\ engine \in [Engines -> {"down", "sweep", "up"}]
           /\ stale \in [Engines -> SUBSET Cids]
           /\ faults \in 0 .. MaxFaults /\ kills \in 0 .. MaxKills
           /\ NoCid \notin Cids /\ MaxFaults \in Nat /\ MaxKills \in Nat
           /\ \A u \in Units : Of[u] \in Engines /\ Label[Of[u]] \in Labels
           /\ \A u \in Units : unit[u].pc \notin {"idle", "create"} =>
                                   unit[u].cid \in Cids
<1>1. /\ unit \in [Units -> UnitType] /\ con \in [Cids -> ConType]
      /\ engine \in [Engines -> {"down", "sweep", "up"}]
      /\ stale \in [Engines -> SUBSET Cids]
      /\ faults \in 0 .. MaxFaults /\ kills \in 0 .. MaxKills
  BY DEF CheckInv, TypeOK, UnitType, ConType
<1>2. /\ NoCid \notin Cids /\ MaxFaults \in Nat /\ MaxKills \in Nat
      /\ \A u \in Units : Of[u] \in Engines /\ Label[Of[u]] \in Labels
  BY CheckRunAssumption DEF CheckRunAssumption, Labels
<1>3. \A u \in Units : unit[u].pc \notin {"idle", "create"} =>
                           unit[u].cid \in Cids
  BY <1>1 DEF CheckInv, HoldsId, UnitType
<1> QED
  BY <1>1, <1>2, <1>3

\* A container is made: an unused id gets the label of the unit's engine.
Fresh(u) == [NoCon EXCEPT !.state = "created", !.label = Label[Of[u]]]

LEMMA FreshType ==
    ASSUME CheckInv, NEW u \in Units
    PROVE  /\ Fresh(u) \in ConType /\ NoCon \in ConType
           /\ Fresh(u).state = "created" /\ Fresh(u).label = Label[Of[u]]
           /\ NoCon.state = "none"
  BY UnitFields DEF Fresh, NoCon, ConType

\* An engine that starts, sweeps or has swept leaves the units alone, and its
\* own are idle.
LEMMA StartUpStep ==
    ASSUME CheckInv, NEW e \in Engines, StartUp(e)
    PROVE  /\ CheckInv' /\ UNCHANGED unit
           /\ \A u \in Units : Of[u] = e => unit[u].cid = NoCid
<1>1. CASE Boot(e)
  <2>1. /\ UNCHANGED <<unit, con, kills>> /\ engine[e] = "down"
        /\ engine' = [engine EXCEPT ![e] = "sweep"]
        /\ faults' \in 0 .. MaxFaults
        /\ \E l \in SUBSET Cids : stale' = [stale EXCEPT ![e] = l]
    <3>1. stale = [stale EXCEPT ![e] = stale[e]] /\ stale[e] \in SUBSET Cids
      BY UnitFields
    <3>2. UNCHANGED faults \/ Fault => faults' \in 0 .. MaxFaults
      BY UnitFields DEF Fault
    <3>3. \E l \in SUBSET Cids : stale' = [stale EXCEPT ![e] = l]
      BY <1>1, <3>1 DEF Boot
    <3> QED
      BY <1>1, <3>2, <3>3 DEF Boot
  <2>2. TypeOK'
    BY <2>1, UnitFields DEF CheckInv, TypeOK
  <2>3. /\ UpOnly' /\ SweepOnly' /\ HoldsId' /\ OneHolder'
        /\ \A u \in Units : Of[u] = e => unit[u].cid = NoCid
    BY <2>1, UnitFields
       DEF CheckInv, UpOnly, SweepOnly, HoldsId, OneHolder
  <2> QED
    BY <2>1, <2>2, <2>3 DEF CheckInv
<1>2. CASE \E c \in Cids : Sweep(e, c)
  <2>1. PICK c \in Cids : Sweep(e, c)
    BY <1>2
  <2>2. /\ UNCHANGED <<unit, engine, kills>> /\ engine[e] = "sweep"
        /\ stale' = [stale EXCEPT ![e] = @ \ {c}]
        /\ con' \in [Cids -> ConType]
        /\ faults' \in 0 .. MaxFaults
    <3>1. NoCon \in ConType
      BY DEF NoCon, ConType
    <3> QED
      BY <2>1, <3>1, UnitFields DEF Sweep, Fault
  <2>3. TypeOK'
    BY <2>2, UnitFields DEF CheckInv, TypeOK, ConType
  <2>4. /\ UpOnly' /\ SweepOnly' /\ HoldsId' /\ OneHolder'
        /\ \A u \in Units : Of[u] = e => unit[u].cid = NoCid
    BY <2>2, UnitFields
       DEF CheckInv, UpOnly, SweepOnly, HoldsId, OneHolder
  <2> QED
    BY <2>2, <2>3, <2>4 DEF CheckInv
<1>3. CASE Swept(e)
  <2>1. /\ UNCHANGED <<unit, stale, con, faults, kills>>
        /\ engine[e] = "sweep" /\ stale[e] = {}
        /\ engine' = [engine EXCEPT ![e] = "up"]
    BY <1>3 DEF Swept
  <2>2. TypeOK'
    BY <2>1, UnitFields DEF CheckInv, TypeOK
  <2>3. /\ UpOnly' /\ SweepOnly' /\ HoldsId' /\ OneHolder'
        /\ \A u \in Units : Of[u] = e => unit[u].cid = NoCid
    BY <2>1, UnitFields
       DEF CheckInv, UpOnly, SweepOnly, HoldsId, OneHolder
  <2> QED
    BY <2>1, <2>2, <2>3 DEF CheckInv
<1> QED
  BY <1>1, <1>2, <1>3 DEF StartUp

\* A dead engine's units are forgotten; its containers stay.
LEMMA KillStep ==
    ASSUME CheckInv, NEW e \in Engines, Kill(e)
    PROVE  CheckInv'
<1>1. /\ kills' \in 0 .. MaxKills /\ UNCHANGED <<con, faults>>
      /\ engine' = [engine EXCEPT ![e] = "down"]
      /\ stale' = [stale EXCEPT ![e] = {}]
      /\ unit' = [u \in Units |-> IF Of[u] = e THEN Idle ELSE unit[u]]
  BY UnitFields DEF Kill
<1>2. Idle \in UnitType /\ Idle.cid = NoCid /\ Idle.pc = "idle"
  BY DEF Idle, UnitType, Pcs
<1>3. TypeOK'
  BY <1>1, <1>2, UnitFields DEF CheckInv, TypeOK, UnitType
<1>4. UpOnly' /\ SweepOnly' /\ HoldsId' /\ OneHolder'
  BY <1>1, <1>2, UnitFields
     DEF CheckInv, UpOnly, SweepOnly, HoldsId, OneHolder
<1> QED
  BY <1>3, <1>4 DEF CheckInv

\* A unit and one container change together.
LEMMA UnitAndCon ==
    ASSUME CheckInv, NEW u \in Units, NEW w \in UnitType,
           unit' = [unit EXCEPT ![u] = w], con' \in [Cids -> ConType],
           w.cid \in {NoCid, unit[u].cid}
              \/ \A v \in Units : unit[v].cid # w.cid,
           w.cid = NoCid <=> w.pc \in {"idle", "create"},
           w.pc = "idle" \/ engine[Of[u]] = "up",
           UNCHANGED <<engine, stale, kills>>, faults' \in 0 .. MaxFaults
    PROVE  CheckInv'
<1>1. TypeOK'
  BY UnitFields DEF CheckInv, TypeOK, UnitType, ConType
<1>2. \A v \in Units : unit'[v] = IF v = u THEN w ELSE unit[v]
  BY UnitFields
<1>3. UpOnly' /\ SweepOnly'
  BY <1>2 DEF CheckInv, UpOnly, SweepOnly
<1>4. HoldsId' /\ OneHolder'
  BY <1>2 DEF CheckInv, HoldsId, OneHolder
<1> QED
  BY <1>1, <1>3, <1>4 DEF CheckInv

\* What the four steps that touch a container do.
LEMMA CreateIs ==
    ASSUME CheckInv, NEW u \in Units, NEW c \in Cids, Create(u, c)
    PROVE  /\ con' = [con EXCEPT ![c] = Fresh(u)] /\ Free(c)
           /\ \E w \in UnitType : /\ unit' = [unit EXCEPT ![u] = w]
                                  /\ w.cid = c /\ w.pc = "copy"
           /\ engine[Of[u]] = "up" /\ unit[u].cid = NoCid
           /\ UNCHANGED <<engine, stale, faults, kills>>
<1> DEFINE w == [unit[u] EXCEPT !.pc = "copy", !.cid = c]
<1>0. unit[u] \in UnitType
  BY UnitFields
<1>1. w \in UnitType /\ w.cid = c /\ w.pc = "copy"
  BY <1>0 DEF UnitType, Pcs
<1>2. unit' = [unit EXCEPT ![u] = w] /\ unit[u].pc = "create"
      /\ con' = [con EXCEPT ![c] = Fresh(u)] /\ Free(c)
      /\ UNCHANGED <<engine, stale, faults, kills>>
  BY UnitFields DEF Create, At, Fresh
<1>3. engine[Of[u]] = "up" /\ unit[u].cid = NoCid
  BY <1>2 DEF CheckInv, UpOnly, HoldsId
<1> QED
  BY <1>1, <1>2, <1>3

LEMMA CreateFailsIs ==
    ASSUME CheckInv, NEW u \in Units, CreateFails(u)
    PROVE  /\ \/ UNCHANGED con
              \/ \E c \in Cids : Free(c) /\ con' = [con EXCEPT ![c] = Fresh(u)]
           /\ unit' = [unit EXCEPT ![u] = Idle] /\ Idle \in UnitType
           /\ Idle.cid = NoCid /\ Idle.pc = "idle" /\ unit[u].cid = NoCid
           /\ UNCHANGED <<engine, stale, faults, kills>>
<1>1. unit[u].pc = "create"
  BY DEF CreateFails, At
<1>2. unit[u].cid = NoCid
  BY <1>1 DEF CheckInv, HoldsId
<1> QED
  BY <1>2 DEF CreateFails, Fresh, Idle, UnitType, Pcs

LEMMA StartIs ==
    ASSUME CheckInv, NEW u \in Units, Start(u)
    PROVE  /\ \/ UNCHANGED con
              \/ con' = [con EXCEPT ![unit[u].cid] =
                            [con[unit[u].cid] EXCEPT !.state = "running"]]
           /\ \E w \in UnitType : /\ unit' = [unit EXCEPT ![u] = w]
                                  /\ w.cid = unit[u].cid
                                  /\ w.pc \in {"attached", "look"}
           /\ engine[Of[u]] = "up" /\ unit[u].cid \in Cids
           /\ UNCHANGED <<engine, stale, faults, kills>>
<1>1. /\ unit[u].pc = "start"
      /\ UNCHANGED <<engine, stale, faults, kills>>
      /\ \/ UNCHANGED con
         \/ con' = [con EXCEPT ![unit[u].cid] =
                       [con[unit[u].cid] EXCEPT !.state = "running"]]
      /\ \E p \in {"attached", "look"} : Goto(u, p)
  BY UnitFields DEF Start, At
<1>2. PICK p \in {"attached", "look"} : Goto(u, p)
  BY <1>1
<1> DEFINE w == [unit[u] EXCEPT !.pc = p]
<1>3. w \in UnitType /\ w.cid = unit[u].cid /\ w.pc = p
  BY UnitFields DEF UnitType, Pcs
<1>4. unit' = [unit EXCEPT ![u] = w]
  BY <1>2, UnitFields DEF Goto
<1>5. engine[Of[u]] = "up" /\ unit[u].cid \in Cids
  BY <1>1, UnitFields DEF CheckInv, UpOnly
<1> QED
  BY <1>1, <1>3, <1>4, <1>5

LEMMA RemoveIs ==
    ASSUME CheckInv, NEW u \in Units, Remove(u)
    PROVE  /\ \/ con' = [con EXCEPT ![unit[u].cid] = NoCon] /\ UNCHANGED faults
              \/ UNCHANGED con /\ Fault
           /\ unit' = [unit EXCEPT ![u] = Idle] /\ Idle \in UnitType
           /\ Idle.cid = NoCid /\ Idle.pc = "idle" /\ unit[u].cid \in Cids
           /\ UNCHANGED <<engine, stale, kills>>
<1>1. unit[u].pc = "remove"
  BY DEF Remove, At
<1> QED
  BY <1>1, UnitFields DEF Remove, Idle, UnitType, Pcs

-----------------------------------------------------------------------------
LEMMA InvStep == CheckInv /\ [Next]_vars => CheckInv'
<1> SUFFICES ASSUME CheckInv, [Next]_vars PROVE CheckInv'
  OBVIOUS
<1>1. CASE UNCHANGED vars
  BY <1>1 DEF vars, CheckInv, TypeOK, UpOnly, SweepOnly, HoldsId, OneHolder
<1>2. ASSUME NEW e \in Engines, StartUp(e) PROVE CheckInv'
  BY <1>2, StartUpStep
<1>3. ASSUME NEW e \in Engines, Kill(e) PROVE CheckInv'
  BY <1>3, KillStep
<1>4. ASSUME NEW c \in Cids, NEW zero \in BOOLEAN, ConExits(c, zero)
      PROVE  CheckInv'
  <2>1. /\ con' \in [Cids -> ConType]
        /\ UNCHANGED <<engine, stale, unit, faults, kills>>
    BY <1>4, UnitFields DEF ConExits, ConType
  <2>2. TypeOK'
    BY <2>1, UnitFields DEF CheckInv, TypeOK, ConType
  <2> QED
    BY <2>1, <2>2 DEF CheckInv, UpOnly, SweepOnly, HoldsId, OneHolder
<1>5. ASSUME NEW u \in Units, Moves(u) PROVE CheckInv'
  BY <1>5, MovesAre, UnitMoves
<1>6. ASSUME NEW u \in Units, NEW c \in Cids, Create(u, c) PROVE CheckInv'
  <2>1. con' \in [Cids -> ConType]
    BY <1>6, CreateIs, FreshType, UnitFields
  <2>2. \A v \in Units : unit[v].cid # c
    BY <1>6, CreateIs DEF Free
  <2>3. c # NoCid /\ faults' \in 0 .. MaxFaults
    BY <1>6, CreateIs, UnitFields
  <2> QED
    BY <1>6, <2>1, <2>2, <2>3, CreateIs, UnitAndCon
<1>7. ASSUME NEW u \in Units, CreateFails(u) PROVE CheckInv'
  <2>1. con' \in [Cids -> ConType] /\ faults' \in 0 .. MaxFaults
    BY <1>7, CreateFailsIs, FreshType, UnitFields
  <2> QED
    BY <1>7, <2>1, CreateFailsIs, UnitAndCon
<1>8. ASSUME NEW u \in Units, Start(u) PROVE CheckInv'
  <2>1. unit[u].cid \in Cids /\ unit[u].cid # NoCid
        /\ faults' \in 0 .. MaxFaults
    BY <1>8, StartIs, UnitFields
  <2>2. con' \in [Cids -> ConType]
    <3>1. con[unit[u].cid] \in ConType
      BY <2>1, UnitFields
    <3>2. [con[unit[u].cid] EXCEPT !.state = "running"] \in ConType
      BY <3>1 DEF ConType
    <3> QED
      BY <1>8, <3>2, StartIs, UnitFields
  <2> QED
    BY <1>8, <2>1, <2>2, StartIs, UnitAndCon
<1>9. ASSUME NEW u \in Units, Remove(u) PROVE CheckInv'
  <2>1. con' \in [Cids -> ConType] /\ faults' \in 0 .. MaxFaults
    BY <1>9, RemoveIs, FreshType, UnitFields DEF Fault
  <2> QED
    BY <1>9, <2>1, RemoveIs, UnitAndCon
<1> QED
  BY <1>1, <1>2, <1>3, <1>4, <1>5, <1>6, <1>7, <1>8, <1>9
     DEF Next, Step, Moves

-----------------------------------------------------------------------------
\* Labels keep the engines apart.
LEMMA OwnStep == CheckInv /\ OwnInv /\ [Next]_vars => OwnInv'
<1> SUFFICES ASSUME CheckInv, OwnInv, [Next]_vars, DistinctLabels
             PROVE  Labelled' /\ ListedOwn'
  BY DEF OwnInv, DistinctLabels
<1>0. Labelled /\ ListedOwn
  BY DEF OwnInv
<1>a. \A u \in Units : unit[u].cid \in Cids \cup {NoCid}
  BY UnitFields DEF UnitType
<1>1. CASE UNCHANGED vars
  BY <1>0, <1>1 DEF vars, Labelled, ListedOwn
<1>2. ASSUME NEW e \in Engines, Boot(e) PROVE Labelled' /\ ListedOwn'
  <2>1. UNCHANGED <<unit, con>>
        /\ \A f \in Engines : \A c \in stale'[f] :
              c \in stale[f] \/ con[c].label = Label[f]
    BY <1>2, UnitFields DEF Boot
  <2> QED
    BY <1>0, <2>1 DEF Labelled, ListedOwn
<1>3. ASSUME NEW e \in Engines, NEW c \in Cids, Sweep(e, c)
      PROVE  Labelled' /\ ListedOwn'
  <2>1. /\ UNCHANGED unit /\ c \in stale[e]
        /\ \A d \in Cids : con'[d] = con[d] \/ (d = c /\ con'[d] = NoCon)
        /\ \A f \in Engines : stale'[f] \subseteq stale[f]
    BY <1>3, UnitFields DEF Sweep
  <2>2. \A u \in Units : unit[u].cid = c => Of[u] = e
    BY <1>0, <2>1, UnitFields DEF Labelled, ListedOwn, DistinctLabels
  <2>3. \A u \in Units : unit[u].cid # c
    BY <1>3, <2>2, StartUpStep, UnitFields DEF StartUp
  <2>4. NoCon.state = "none"
    BY DEF NoCon
  <2> QED
    BY <1>0, <1>a, <2>1, <2>3, <2>4, UnitFields DEF Labelled, ListedOwn
<1>4. ASSUME NEW e \in Engines, Swept(e) PROVE Labelled' /\ ListedOwn'
  BY <1>0, <1>4 DEF Swept, Labelled, ListedOwn
<1>5. ASSUME NEW e \in Engines, Kill(e) PROVE Labelled' /\ ListedOwn'
  <2>1. /\ UNCHANGED con
        /\ \A u \in Units : unit'[u] = unit[u] \/ unit'[u].cid = NoCid
        /\ \A f \in Engines : stale'[f] \subseteq stale[f]
    BY <1>5, UnitFields DEF Kill, Idle
  <2> QED
    BY <1>0, <2>1 DEF Labelled, ListedOwn
<1>6. ASSUME NEW c \in Cids, NEW zero \in BOOLEAN, ConExits(c, zero)
      PROVE  Labelled' /\ ListedOwn'
  <2>1. /\ UNCHANGED <<unit, stale>>
        /\ \A d \in Cids : /\ con'[d].label = con[d].label
                           /\ con'[d].state = "none" <=> con[d].state = "none"
    BY <1>6, UnitFields DEF ConExits, ConType
  <2> QED
    BY <1>0, <1>a, <2>1, UnitFields DEF Labelled, ListedOwn
<1>7. ASSUME NEW u \in Units, Moves(u) PROVE Labelled' /\ ListedOwn'
  <2>1. /\ \A v \in Units : unit'[v].cid = unit[v].cid
        /\ UNCHANGED <<stale, con>>
    BY <1>7, MovesAre, UnitFields
  <2> QED
    BY <1>0, <2>1 DEF Labelled, ListedOwn
\* A new container is nobody else's, and on nobody's list.
<1>8. ASSUME NEW u \in Units, NEW c \in Cids, Free(c),
             con' = [con EXCEPT ![c] = Fresh(u)], UNCHANGED stale,
             \A v \in Units : unit'[v].cid \in {unit[v].cid, NoCid}
                                 \/ (v = u /\ unit'[v].cid = c)
      PROVE  Labelled' /\ ListedOwn'
  <2>1. /\ con'[c].state = "created" /\ con'[c].label = Label[Of[u]]
        /\ \A d \in Cids : d # c => con'[d] = con[d]
    BY <1>8, FreshType, UnitFields
  <2>2. /\ \A v \in Units : unit[v].cid # c
        /\ \A e \in Engines : c \notin stale[e] /\ stale[e] \subseteq Cids
    BY <1>8, UnitFields DEF Free
  <2> QED
    BY <1>0, <1>8, <1>a, <2>1, <2>2 DEF Labelled, ListedOwn
<1>9. ASSUME NEW u \in Units, NEW c \in Cids, Create(u, c)
      PROVE  Labelled' /\ ListedOwn'
  <2>1. \A v \in Units : unit'[v].cid = unit[v].cid
                            \/ (v = u /\ unit'[v].cid = c)
    BY <1>9, CreateIs, UnitFields
  <2> QED
    BY <1>8, <1>9, <2>1, CreateIs
<1>10. ASSUME NEW u \in Units, CreateFails(u) PROVE Labelled' /\ ListedOwn'
  <2>1. \A v \in Units : unit'[v].cid \in {unit[v].cid, NoCid}
    BY <1>10, CreateFailsIs, UnitFields
  <2>2. UNCHANGED stale
    BY <1>10, CreateFailsIs
  <2>3. CASE UNCHANGED con
    BY <1>0, <2>1, <2>2, <2>3 DEF Labelled, ListedOwn
  <2>4. CASE \E c \in Cids : Free(c) /\ con' = [con EXCEPT ![c] = Fresh(u)]
    <3>1. PICK c \in Cids : Free(c) /\ con' = [con EXCEPT ![c] = Fresh(u)]
      BY <2>4
    <3> QED
      BY <1>8, <2>1, <2>2, <3>1
  <2> QED
    BY <1>10, <2>3, <2>4, CreateFailsIs
<1>11. ASSUME NEW u \in Units, Start(u) PROVE Labelled' /\ ListedOwn'
  <2>1. /\ \A v \in Units : unit'[v].cid = unit[v].cid
        /\ UNCHANGED stale
    BY <1>11, StartIs, UnitFields
  <2>2. con[unit[u].cid].state # "none" /\ unit[u].cid \in Cids
    BY <1>0, <1>11, StartIs, UnitFields DEF Labelled
  <2>3. \A d \in Cids : /\ con'[d].label = con[d].label
                        /\ con'[d].state = "none" <=> con[d].state = "none"
    <3> DEFINE n == [con[unit[u].cid] EXCEPT !.state = "running"]
    <3>1. n.label = con[unit[u].cid].label /\ n.state = "running"
      BY <2>2, UnitFields DEF ConType
    <3>2. \A d \in Cids : \/ con'[d] = con[d]
                          \/ d = unit[u].cid /\ con'[d] = n
      BY <1>11, <2>2, StartIs, UnitFields
    <3> HIDE DEF n
    <3> QED
      BY <2>2, <3>1, <3>2
  <2> QED
    BY <1>0, <1>a, <2>1, <2>3, UnitFields DEF Labelled, ListedOwn
<1>12. ASSUME NEW u \in Units, Remove(u) PROVE Labelled' /\ ListedOwn'
  <2>1. /\ \A v \in Units : unit'[v] = IF v = u THEN Idle ELSE unit[v]
        /\ UNCHANGED stale /\ unit[u].cid \in Cids /\ Idle.cid = NoCid
        /\ \A d \in Cids : \/ con'[d] = con[d]
                           \/ d = unit[u].cid /\ con'[d] = NoCon
    BY <1>12, RemoveIs, UnitFields
  <2>2. \A v \in Units : v # u => unit[v].cid # unit[u].cid
    BY <2>1, UnitFields DEF CheckInv, OneHolder
  <2>3. NoCon.state = "none"
    BY DEF NoCon
  <2> QED
    BY <1>0, <1>a, <2>1, <2>2, <2>3, UnitFields DEF Labelled, ListedOwn
<1> QED
  BY <1>1, <1>2, <1>3, <1>4, <1>5, <1>6, <1>7, <1>9, <1>10, <1>11, <1>12
     DEF Next, StartUp, Step, Moves

-----------------------------------------------------------------------------
\* What keeps Accounted: what runs ran before, every such container stays
\* listed or held as it was, and an engine only starts to sweep with a full
\* list, or to be up with an empty one.
LEMMA Kept ==
    ASSUME CheckInv, Accounted,
           \A d \in Cids : con'[d].state = "running" =>
               con[d].state = "running" /\ con'[d].label = con[d].label,
           UNCHANGED engine,
           \A e \in Engines, d \in Cids :
               d \in stale[e] /\ d \notin stale'[e] => con'[d].state = "none",
           \A u \in Units : \/ unit'[u].cid = unit[u].cid
                            \/ unit[u].cid \notin Cids
                            \/ con'[unit[u].cid].state = "none"
    PROVE  Accounted'
  BY DEF Accounted

LEMMA StrayStep ==
    CheckInv /\ OwnInv /\ StrayInv /\ [Next]_vars => StrayInv'
<1> SUFFICES ASSUME CheckInv, OwnInv, StrayInv, [Next]_vars,
                    DistinctLabels, faults' = 0
             PROVE  Accounted'
  BY DEF StrayInv, DistinctLabels
<1>0. Labelled /\ (faults = 0 => Accounted)
  BY DEF OwnInv, StrayInv
<1>f. ~Fault
  BY UnitFields DEF Fault
<1>n. NoCon.state = "none" /\ NoCon.state # "running"
  BY DEF NoCon
<1>1. CASE UNCHANGED vars
  BY <1>0, <1>1 DEF vars, Accounted
<1>2. ASSUME NEW e \in Engines, Boot(e) PROVE Accounted'
  <2>1. /\ UNCHANGED <<unit, con, faults>>
        /\ engine' = [engine EXCEPT ![e] = "sweep"]
        /\ stale' = [stale EXCEPT ![e] =
              {c \in Cids : con[c].state # "none" /\ con[c].label = Label[e]}]
    BY <1>2, <1>f DEF Boot
  <2> QED
    BY <1>0, <2>1, UnitFields DEF Accounted
<1>3. ASSUME NEW e \in Engines, NEW c \in Cids, Sweep(e, c)
      PROVE  Accounted'
  <2>1. /\ UNCHANGED <<unit, engine, faults>>
        /\ con' = [con EXCEPT ![c] = NoCon]
        /\ stale' = [stale EXCEPT ![e] = @ \ {c}]
    BY <1>3, <1>f DEF Sweep
  <2> QED
    BY <1>0, <1>n, <2>1, Kept, UnitFields
<1>4. ASSUME NEW e \in Engines, Swept(e) PROVE Accounted'
  <2>1. /\ UNCHANGED <<unit, con, stale, faults>>
        /\ engine[e] = "sweep" /\ stale[e] = {}
        /\ engine' = [engine EXCEPT ![e] = "up"]
    BY <1>4 DEF Swept
  <2> QED
    BY <1>0, <2>1, UnitFields DEF Accounted
<1>5. ASSUME NEW e \in Engines, Kill(e) PROVE Accounted'
  <2>1. /\ UNCHANGED <<con, faults>>
        /\ engine' = [engine EXCEPT ![e] = "down"]
        /\ stale' = [stale EXCEPT ![e] = {}]
        /\ \A u \in Units : Of[u] # e => unit'[u] = unit[u]
    BY <1>5 DEF Kill
  <2> QED
    BY <1>0, <2>1, UnitFields DEF Accounted
<1>6. ASSUME NEW c \in Cids, NEW zero \in BOOLEAN, ConExits(c, zero)
      PROVE  Accounted'
  <2>1. /\ UNCHANGED <<unit, stale, engine, faults>>
        /\ \A d \in Cids : d # c => con'[d] = con[d]
        /\ con'[c].state = "exited"
    BY <1>6, UnitFields DEF ConExits, ConType
  <2> QED
    BY <1>0, <2>1, Kept
<1>7. ASSUME NEW u \in Units, Moves(u) PROVE Accounted'
  <2>1. /\ \A v \in Units : unit'[v].cid = unit[v].cid
        /\ UNCHANGED <<stale, con, engine>> /\ faults = 0
    BY <1>7, MovesAre, UnitFields
  <2> QED
    BY <1>0, <2>1, Kept
<1>8. ASSUME NEW u \in Units, NEW c \in Cids, Create(u, c) PROVE Accounted'
  <2>1. /\ \A v \in Units : v # u => unit'[v] = unit[v]
        /\ UNCHANGED <<stale, engine, faults>> /\ unit[u].cid \notin Cids
    BY <1>8, CreateIs, UnitFields
  <2>2. \A d \in Cids : \/ con'[d] = con[d]
                        \/ con'[d].state = "created"
    BY <1>8, CreateIs, FreshType, UnitFields
  <2> QED
    BY <1>0, <2>1, <2>2, Kept
<1>9. ASSUME NEW u \in Units, CreateFails(u) PROVE Accounted'
  <2>1. /\ \A v \in Units : v # u => unit'[v] = unit[v]
        /\ UNCHANGED <<stale, engine, faults>> /\ unit[u].cid \notin Cids
    BY <1>9, CreateFailsIs, UnitFields
  <2>2. \A d \in Cids : \/ con'[d] = con[d]
                        \/ con'[d].state = "created"
    BY <1>9, CreateFailsIs, FreshType, UnitFields
  <2> QED
    BY <1>0, <2>1, <2>2, Kept
\* What a unit starts is its own, and its engine does not sweep.
<1>10. ASSUME NEW u \in Units, Start(u) PROVE Accounted'
  <2>1. /\ \A v \in Units : unit'[v].cid = unit[v].cid
        /\ UNCHANGED <<stale, engine, faults>>
        /\ engine[Of[u]] = "up" /\ unit[u].cid \in Cids
    BY <1>10, StartIs, UnitFields
  <2> DEFINE n == [con[unit[u].cid] EXCEPT !.state = "running"]
  <2>2. n.label = con[unit[u].cid].label
    BY <2>1, UnitFields DEF ConType
  <2>3. \A d \in Cids : \/ con'[d] = con[d]
                        \/ d = unit[u].cid /\ con'[d] = n
    BY <1>10, <2>1, StartIs, UnitFields
  <2>4. con[unit[u].cid].label = Label[Of[u]]
    BY <1>0, <2>1, UnitFields DEF Labelled
  <2> HIDE DEF n
  <2>5. SUFFICES ASSUME NEW e \in Engines, NEW d \in Cids,
                        con'[d].state = "running", con'[d].label = Label[e]
                 PROVE  /\ engine'[e] = "sweep" => d \in stale'[e]
                        /\ engine'[e] = "up" =>
                              \E v \in Units : Of[v] = e /\ unit'[v].cid = d
    BY DEF Accounted
  <2>6. CASE con'[d] = con[d]
    BY <1>0, <2>1, <2>5, <2>6 DEF Accounted
  <2>7. CASE d = unit[u].cid /\ con'[d] = n
    <3>1. e = Of[u]
      BY <2>2, <2>4, <2>5, <2>7, UnitFields DEF DistinctLabels
    <3> QED
      BY <2>1, <2>7, <3>1
  <2> QED
    BY <2>3, <2>6, <2>7
<1>11. ASSUME NEW u \in Units, Remove(u) PROVE Accounted'
  <2>1. /\ \A v \in Units : v # u => unit'[v] = unit[v]
        /\ UNCHANGED <<stale, engine, faults>> /\ unit[u].cid \in Cids
        /\ con' = [con EXCEPT ![unit[u].cid] = NoCon]
    BY <1>11, <1>f, RemoveIs, UnitFields
  <2> QED
    BY <1>0, <1>n, <2>1, Kept, UnitFields
<1> QED
  BY <1>1, <1>2, <1>3, <1>4, <1>5, <1>6, <1>7, <1>8, <1>9, <1>10, <1>11
     DEF Next, StartUp, Step, Moves

-----------------------------------------------------------------------------
LEMMA Invariance == Spec => [](CheckInv /\ OwnInv /\ StrayInv)
  BY CheckInit, InvStep, OwnStep, StrayStep, PTL DEF Spec

\* For any engines, units, containers and numbers of faults and kills, the
\* variables keep their types.
THEOREM TypeCorrect == Spec => []TypeOK
<1>1. CheckInv => TypeOK
  BY DEF CheckInv
<1> QED
  BY <1>1, Invariance, PTL

\* With labels of their own, no number of engines on one daemon ever takes a
\* container away from a unit of another: runCheck finds its container at each
\* of its steps, whoever starts, sweeps and dies beside it.
THEOREM UsedCorrect == Spec => [](DistinctLabels => UsedIsThere)
<1>1. OwnInv => (DistinctLabels => UsedIsThere)
  BY DEF OwnInv, Labelled, UsedIsThere
<1> QED
  BY <1>1, Invariance, PTL

\* With labels of their own, and as long as no call fails, an engine that has
\* swept runs nothing but what its own units hold.
THEOREM StrayCorrect == Spec => [](DistinctLabels => NoStrayRunning)
<1>1. StrayInv => (DistinctLabels => NoStrayRunning)
  BY DEF StrayInv, Accounted, NoStrayRunning
<1> QED
  BY <1>1, Invariance, PTL

LEMMA PassStep ==
    ASSUME CheckInv, [Next]_vars, NEW v \in Units,
           ~unit[v].ok, unit'[v].ok
    PROVE  con[unit[v].cid].state = "exited" /\ con[unit[v].cid].zero
<1>0. /\ unit \in [Units -> UnitType] /\ unit[v] \in UnitType
      /\ Idle.ok = FALSE
  BY UnitFields DEF Idle
<1>1. \A u \in Units, p \in Pcs : Goto(u, p) => unit'[v].ok = unit[v].ok
  BY <1>0 DEF Goto, UnitType
<1>2. \A u \in Units : Decide(u, FALSE) => unit'[v].ok \in {unit[v].ok, FALSE}
  BY <1>0 DEF Decide, UnitType
<1>3. \A u \in Units, ok \in BOOLEAN : Decide(u, ok) => v = u /\ ok
  BY <1>0 DEF Decide, UnitType
<1>4. unit' # unit
  OBVIOUS
<1>5. ASSUME NEW e \in Engines, StartUp(e) \/ Kill(e) PROVE FALSE
  BY <1>0, <1>4, <1>5, StartUpStep DEF Kill
<1>6. ASSUME NEW c \in Cids, NEW zero \in BOOLEAN, ConExits(c, zero)
      PROVE  FALSE
  BY <1>4, <1>6 DEF ConExits
<1>7. ASSUME NEW u \in Units, NEW c \in Cids, Create(u, c) PROVE FALSE
  BY <1>0, <1>7 DEF Create, UnitType
<1>8. ASSUME NEW u \in Units, CreateFails(u) \/ Remove(u) PROVE FALSE
  BY <1>0, <1>8 DEF CreateFails, Remove
<1>9. ASSUME NEW u \in Units,
             Begin(u) \/ Start(u) \/ Detach(u) \/ Look(u) \/ CopyIn(u)
      PROVE  FALSE
  BY <1>1, <1>2, <1>9 DEF Begin, Start, Detach, Look, CopyIn, Pcs
<1>10. ASSUME NEW u \in Units, NEW why \in {"timeout", "cancelled"},
              Expire(u, why)
       PROVE  FALSE
  BY <1>0, <1>10 DEF Expire, UnitType
<1>11. ASSUME NEW u \in Units, Inspect(u) \/ Wait(u)
       PROVE  con[unit[v].cid].state = "exited" /\ con[unit[v].cid].zero
  <2>1. unit[u].cid \in Cids /\ con[unit[u].cid].zero \in BOOLEAN
    BY <1>11, UnitFields DEF Inspect, Wait, At, ConType
  <2>2. CASE Inspect(u)
    BY <1>1, <1>2, <1>3, <2>1, <2>2 DEF Inspect, State, Pcs
  <2>3. CASE Wait(u)
    BY <1>1, <1>2, <1>3, <2>1, <2>3 DEF Wait, State, Pcs
  <2> QED
    BY <1>11, <2>2, <2>3
<1> QED
  BY <1>4, <1>5, <1>6, <1>7, <1>8, <1>9, <1>10, <1>11 DEF Next, Step, vars

\* The result of a unit is real: whatever breaks, times out or dies, the step
\* that makes it a pass has read the code zero of its container, exited.
THEOREM PassCorrect == Spec => PassIsReal
<1> DEFINE Real == \A u \in Units : ~unit[u].ok /\ unit'[u].ok =>
               con[unit[u].cid].state = "exited" /\ con[unit[u].cid].zero
<1>1. CheckInv /\ [Next]_vars => [Real]_vars
  BY PassStep
<1> QED
  BY <1>1, Invariance, PTL DEF Spec, PassIsReal

=============================================================================
