------------------------------ MODULE CheckRun ------------------------------
(***************************************************************************)
(* One unit in its container (runner.go: runCheck, runScan, dockerOutcome, *)
(* dockerRemove) and the sweep of stale containers at start-up             *)
(* (sweepOrphans): engines that share a Docker daemon create, fill, start, *)
(* inspect and remove containers through the docker CLI, which is killed   *)
(* when the unit's context ends; the attach stream may break while the     *)
(* container runs on; an engine may die and leave its containers behind.   *)
(* Output, resource limits and the cache mounts (best-effort copies that   *)
(* change no result) are left out.                                         *)
(***************************************************************************)
EXTENDS Naturals

CONSTANTS
    Engines,   \* poll-ci processes on one daemon
    Units,     \* the goroutines that run units
    Of,        \* the engine a unit belongs to
    Label,     \* instanceID of each engine: a hash of its state file's path
    Cids,      \* container ids, a bound on live containers; reused once free
    NoCid,
    MaxFaults, \* bound on calls to the daemon that fail and streams that break
    MaxKills   \* bound on deaths of engines

ASSUME CheckRunAssumption ==
    /\ Of \in [Units -> Engines]
    /\ NoCid \notin Cids
    /\ MaxFaults \in Nat /\ MaxKills \in Nat

VARIABLES
    engine,  \* "down", "sweep" or "up"
    stale,   \* the containers the sweep of an engine still has to remove
    unit,    \* the goroutine of each unit
    con,     \* the daemon's containers
    faults, kills

vars == <<engine, stale, unit, con, faults, kills>>

-----------------------------------------------------------------------------
Labels == {Label[e] : e \in Engines}
Idle == [pc |-> "idle", cid |-> NoCid, ctx |-> "live", ok |-> FALSE]
NoCon == [state |-> "none", label |-> NoCid, zero |-> FALSE]

Pcs == {"idle", "create", "copy", "start", "attached", "look", "inspect",
        "wait", "remove"}

TypeOK ==
    /\ engine \in [Engines -> {"down", "sweep", "up"}]
    /\ stale \in [Engines -> SUBSET Cids]
    /\ unit \in [Units -> [pc : Pcs, cid : Cids \cup {NoCid}, ok : BOOLEAN,
                           ctx : {"live", "timeout", "cancelled"}]]
    /\ con \in [Cids -> [state : {"none", "created", "running", "exited"},
                         label : Labels \cup {NoCid}, zero : BOOLEAN]]
    /\ faults \in 0 .. MaxFaults /\ kills \in 0 .. MaxKills

Init ==
    /\ engine = [e \in Engines |-> "down"]
    /\ stale = [e \in Engines |-> {}]
    /\ unit = [u \in Units |-> Idle]
    /\ con = [c \in Cids |-> NoCon]
    /\ faults = 0 /\ kills = 0

Fault == faults < MaxFaults /\ faults' = faults + 1
Free(c) == /\ con[c].state = "none"
           /\ \A u \in Units : unit[u].cid # c
           /\ \A e \in Engines : c \notin stale[e]

At(u, pc) == unit[u].pc = pc
Expired(u) == unit[u].ctx # "live"
State(u) == con[unit[u].cid].state
Goto(u, pc) == unit' = [unit EXCEPT ![u].pc = pc]
Decide(u, ok) == unit' = [unit EXCEPT ![u].pc = "remove", ![u].ok = ok]
Only(u) == UNCHANGED <<engine, stale, con, faults, kills>>

-----------------------------------------------------------------------------
(* Engines start, sweep and die; the daemon's containers exit.             *)

\* Seeded faults: the sweep lists by the label all instances share; it takes only
\* what does not run.
BootAll(e) ==
    /\ engine[e] = "down"
    /\ stale' = [stale EXCEPT ![e] = {c \in Cids : con[c].state # "none"}]
    /\ engine' = [engine EXCEPT ![e] = "sweep"]
    /\ UNCHANGED <<unit, con, faults, kills>>
BootPrune(e) ==
    /\ engine[e] = "down"
    /\ stale' = [stale EXCEPT ![e] = {c \in Cids :
          con[c].state \in {"created", "exited"} /\ con[c].label = Label[e]}]
    /\ engine' = [engine EXCEPT ![e] = "sweep"]
    /\ UNCHANGED <<unit, con, faults, kills>>

\* ps -aq, filtered by the engine's own label; when it fails nothing is swept.
Boot(e) ==
    /\ engine[e] = "down"
    /\ \/ /\ stale' = [stale EXCEPT ![e] =
                {c \in Cids : con[c].state # "none" /\ con[c].label = Label[e]}]
          /\ UNCHANGED faults
       \/ Fault /\ UNCHANGED stale
    /\ engine' = [engine EXCEPT ![e] = "sweep"]
    /\ UNCHANGED <<unit, con, kills>>

\* rm -f: what fails is not retried.
Sweep(e, c) ==
    /\ engine[e] = "sweep" /\ c \in stale[e]
    /\ stale' = [stale EXCEPT ![e] = @ \ {c}]
    /\ \/ con' = [con EXCEPT ![c] = NoCon] /\ UNCHANGED faults
       \/ Fault /\ UNCHANGED con
    /\ UNCHANGED <<engine, unit, kills>>

Swept(e) ==
    /\ engine[e] = "sweep" /\ stale[e] = {}
    /\ engine' = [engine EXCEPT ![e] = "up"]
    /\ UNCHANGED <<stale, unit, con, faults, kills>>

Kill(e) ==
    /\ engine[e] # "down" /\ kills < MaxKills
    /\ kills' = kills + 1
    /\ engine' = [engine EXCEPT ![e] = "down"]
    /\ stale' = [stale EXCEPT ![e] = {}]
    /\ unit' = [u \in Units |-> IF Of[u] = e THEN Idle ELSE unit[u]]
    /\ UNCHANGED <<con, faults>>

ConExits(c, zero) ==
    /\ con[c].state = "running"
    /\ con' = [con EXCEPT ![c].state = "exited", ![c].zero = zero]
    /\ UNCHANGED <<engine, stale, unit, faults, kills>>

-----------------------------------------------------------------------------
(* A unit, call by call.                                                   *)

Begin(u) ==
    /\ engine[Of[u]] = "up" /\ At(u, "idle")
    /\ Goto(u, "create")
    /\ Only(u)

\* The unit's own deadline, or the run is cancelled.
Expire(u, why) ==
    /\ unit[u].pc \notin {"idle", "remove"} /\ ~Expired(u)
    /\ unit' = [unit EXCEPT ![u].ctx = why]
    /\ Only(u)

Create(u, c) ==
    /\ At(u, "create") /\ ~Expired(u) /\ Free(c)
    /\ con' = [con EXCEPT ![c] = [NoCon EXCEPT !.state = "created",
                                               !.label = Label[Of[u]]]]
    /\ unit' = [unit EXCEPT ![u].pc = "copy", ![u].cid = c]
    /\ UNCHANGED <<engine, stale, faults, kills>>

\* create fails (no such image), or its CLI is killed before it prints the id:
\* the daemon may have made a container nobody will remove.
CreateFails(u) ==
    /\ At(u, "create")
    /\ \/ UNCHANGED con
       \/ /\ Expired(u)
          /\ \E c \in {c \in Cids : Free(c)} :
                con' = [con EXCEPT ![c] = [NoCon EXCEPT !.state = "created",
                                                        !.label = Label[Of[u]]]]
    /\ unit' = [unit EXCEPT ![u] = Idle]
    /\ UNCHANGED <<engine, stale, faults, kills>>

CopyIn(u) ==
    /\ At(u, "copy")
    /\ \/ /\ IF Expired(u) \/ State(u) = "none" THEN Decide(u, FALSE)
                                               ELSE Goto(u, "start")
          /\ UNCHANGED faults
       \/ Fault /\ Decide(u, FALSE)
    /\ UNCHANGED <<engine, stale, con, kills>>

\* docker start -a: the daemon starts the container and the CLI attaches, or the
\* start fails and the container stays as created.
Start(u) ==
    /\ At(u, "start")
    /\ \/ /\ State(u) = "created"
          /\ con' = [con EXCEPT ![unit[u].cid].state = "running"]
          /\ Goto(u, "attached")
       \/ Goto(u, "look") /\ UNCHANGED con
    /\ UNCHANGED <<engine, stale, faults, kills>>

\* The CLI returns: the container is no longer running, or the CLI was killed,
\* or the stream broke under it.
Detach(u) ==
    /\ At(u, "attached")
    /\ \/ (State(u) # "running" \/ Expired(u)) /\ UNCHANGED faults
       \/ State(u) = "running" /\ ~Expired(u) /\ Fault
    /\ Goto(u, "look")
    /\ UNCHANGED <<engine, stale, con, kills>>

Look(u) ==
    /\ At(u, "look")
    /\ IF Expired(u) THEN Decide(u, FALSE) ELSE Goto(u, "inspect")
    /\ Only(u)

\* Seeded fault: the code of a running container, zero, is trusted.
InspectNaive(u) ==
    /\ At(u, "inspect")
    /\ Decide(u, State(u) = "running" \/ con[unit[u].cid].zero)
    /\ Only(u)

\* dockerOutcome, and the context looked at again after it: only the code of a
\* container that exited counts; one still running is waited for.
Inspect(u) ==
    /\ At(u, "inspect")
    /\ \/ /\ State(u) = "exited"
          /\ Decide(u, con[unit[u].cid].zero /\ ~Expired(u))
          /\ UNCHANGED faults
       \/ State(u) = "running" /\ Goto(u, "wait") /\ UNCHANGED faults
       \/ /\ \/ State(u) \in {"created", "none"} /\ UNCHANGED faults
             \/ Fault
          /\ Decide(u, FALSE)
    /\ UNCHANGED <<engine, stale, con, kills>>

\* Seeded fault: docker wait does not run under the unit's context.
WaitForever(u) ==
    /\ At(u, "wait") /\ State(u) = "exited"
    /\ Decide(u, con[unit[u].cid].zero /\ ~Expired(u))
    /\ Only(u)

Wait(u) ==
    /\ At(u, "wait")
    /\ \/ /\ State(u) = "exited" /\ ~Expired(u)
          /\ Decide(u, con[unit[u].cid].zero)
          /\ UNCHANGED faults
       \/ /\ \/ (State(u) = "none" \/ Expired(u)) /\ UNCHANGED faults
             \/ Fault
          /\ Decide(u, FALSE)
    /\ UNCHANGED <<engine, stale, con, kills>>

\* The deferred rm -f, whose failure nobody sees.
Remove(u) ==
    /\ At(u, "remove")
    /\ \/ con' = [con EXCEPT ![unit[u].cid] = NoCon] /\ UNCHANGED faults
       \/ Fault /\ UNCHANGED con
    /\ unit' = [unit EXCEPT ![u] = Idle]
    /\ UNCHANGED <<engine, stale, kills>>

-----------------------------------------------------------------------------
StartUp(e) == Boot(e) \/ Swept(e) \/ \E c \in Cids : Sweep(e, c)
Step(u) == \/ \E c \in Cids : Create(u, c)
           \/ CreateFails(u) \/ CopyIn(u) \/ Start(u) \/ Detach(u) \/ Look(u)
           \/ Inspect(u) \/ Wait(u) \/ Remove(u)

Next == \/ \E e \in Engines : StartUp(e) \/ Kill(e)
        \/ \E c \in Cids, zero \in BOOLEAN : ConExits(c, zero)
        \/ \E u \in Units : \/ Begin(u) \/ Step(u) \/ Expire(u, "timeout")
                            \/ Expire(u, "cancelled")

Spec == Init /\ [][Next]_vars

\* Goroutines run, CLI calls return or are killed with their context, and the
\* unit's timer fires.  A container owes nobody an exit.
FairSpec == /\ Spec
            /\ \A e \in Engines : WF_vars(StartUp(e))
            /\ \A u \in Units : /\ WF_vars(Step(u))
                                /\ WF_vars(Expire(u, "timeout"))

-----------------------------------------------------------------------------
(* What a unit's run promises.                                             *)

\* A unit passes only when its container really exited, with code zero: a
\* running container, a broken attach, a timeout or a failed start is no pass.
PassIsReal ==
    [][\A u \in Units : ~unit[u].ok /\ unit'[u].ok =>
          con[unit[u].cid].state = "exited" /\ con[unit[u].cid].zero]_vars

\* No engine disturbs a container in use: until its own unit is done with it, a
\* container is there ("co-located instances sharing a daemon are untouched").
UsedIsThere ==
    \A u \in Units : unit[u].cid # NoCid => con[unit[u].cid].state # "none"

\* When nothing fails, an engine that is up runs only containers its units own:
\* the leftovers of a dead predecessor are gone before the first unit starts.
NoStrayRunning ==
    faults = 0 => \A e \in Engines, c \in Cids :
        engine[e] = "up" /\ con[c].state = "running" /\ con[c].label = Label[e]
            => \E u \in Units : Of[u] = e /\ unit[u].cid = c

\* Every unit that starts ends, whatever its container does.
UnitEnds == \A u \in Units : []<>(unit[u].pc = "idle")

=============================================================================
