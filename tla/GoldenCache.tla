---------------------------- MODULE GoldenCache ----------------------------
(***************************************************************************)
(* The dependency cache of one repository and branch (cache.go): a branch  *)
(* run re-primes it when it must, and harvests each path out of the prime  *)
(* container into its golden directory by way of two renames; every run,   *)
(* of a pull request or of another process (--once) too, copies from it.   *)
(* Calls fail, and the process may die at any point; directories stay.     *)
(*                                                                         *)
(* A directory's content is the generation it was primed for (a lockfile   *)
(* hash); what docker cp has not finished writing is Partial.              *)
(***************************************************************************)
EXTENDS Naturals, FiniteSets

CONSTANTS
    Paths,       \* cachePlan.paths
    Runs,        \* runs that may be under way at once
    Here,        \* those of this process, which share cacheLocks
    Primers,     \* those with canPrime: watched-branch runs
    DepsOf,      \* the lockfile hashes the commit of each run may have
    NoDir, Partial, NoMeta, NoPath, Free,
    MaxMishaps   \* bound on failed calls and deaths of the process together

Deps == UNION {DepsOf[r] : r \in Runs}
BranchDeps == UNION {DepsOf[r] : r \in Primers}

ASSUME GoldenCacheAssumption ==
    /\ Primers \subseteq Here /\ Here \subseteq Runs /\ Free \notin Runs
    /\ NoPath \notin Paths
    /\ {NoDir, Partial, NoMeta} \cap Deps = {} /\ NoDir # Partial
    /\ MaxMishaps \in Nat

VARIABLES
    golden, tmp, old,  \* the directories of each path
    meta,              \* meta.json: the lockfile hash of the last prime
    fresh,             \* the refresh window has not lapsed since
    lock,              \* cacheLock
    run,               \* prepareCache and the copies of each run
    settled,           \* history: the deps of the last undisturbed prime
    faults, crashes

vars == <<golden, tmp, old, meta, fresh, lock, run, settled, faults, crashes>>
dirs == <<golden, tmp, old>>
env == <<faults, crashes>>

-----------------------------------------------------------------------------
Content == Deps \cup {NoDir, Partial}
\* path is the one being harvested, left the others; ok says that nothing of
\* this run has failed; mounts is what its checks copy from, once at "copy".
Pcs == {"idle", "lock", "decide", "prime", "next", "copyout", "aside", "swap",
        "tidy", "meta", "mount", "copy"}
Idle == [pc |-> "idle", dep |-> NoMeta, path |-> NoPath, left |-> {},
         mounts |-> {}, ok |-> TRUE]
RunType == [pc : Pcs, dep : Deps \cup {NoMeta}, path : Paths \cup {NoPath},
            left : SUBSET Paths, mounts : SUBSET Paths, ok : BOOLEAN]

TypeOK ==
    /\ golden \in [Paths -> Content]
    /\ tmp \in [Paths -> Content]
    /\ old \in [Paths -> Content]
    /\ meta \in Deps \cup {NoMeta}
    /\ fresh \in BOOLEAN
    /\ lock \in Here \cup {Free}
    /\ run \in [Runs -> RunType]
    /\ settled \in Deps \cup {NoMeta}
    /\ faults \in Nat /\ crashes \in Nat

Init ==
    /\ golden = [p \in Paths |-> NoDir]
    /\ tmp = [p \in Paths |-> NoDir]
    /\ old = [p \in Paths |-> NoDir]
    /\ meta = NoMeta /\ fresh = TRUE
    /\ lock = Free
    /\ run = [r \in Runs |-> Idle]
    /\ settled = NoMeta
    /\ faults = 0 /\ crashes = 0

-----------------------------------------------------------------------------
At(r, pc) == run[r].pc = pc
Become(r, w) == run' = [run EXCEPT ![r] = w]
Goto(r, pc) == Become(r, [run[r] EXCEPT !.pc = pc])
Mishap == faults + crashes < MaxMishaps
Fault == Mishap /\ faults' = faults + 1 /\ UNCHANGED crashes
Failed(r, pc) ==
    Become(r, [run[r] EXCEPT !.pc = pc, !.path = NoPath, !.ok = FALSE])
Put(dir, p, c) == [dir EXCEPT ![p] = c]

\* A run starts on a commit, whose lockfiles may be any.
Begin(r) ==
    /\ At(r, "idle")
    /\ \E d \in DepsOf[r] : Become(r, [Idle EXCEPT !.pc = "lock", !.dep = d])
    /\ UNCHANGED <<dirs, meta, fresh, lock, settled, env>>

\* Seeded fault: the lock is not taken.
LockNothing(r) ==
    /\ At(r, "lock")
    /\ Goto(r, "decide")
    /\ UNCHANGED <<dirs, meta, fresh, lock, settled, env>>

\* cacheLock is a mutex of the process: a run of another one does not have it.
Lock(r) ==
    /\ At(r, "lock")
    /\ IF r \in Here THEN lock = Free /\ lock' = r ELSE UNCHANGED lock
    /\ Goto(r, "decide")
    /\ UNCHANGED <<dirs, meta, fresh, settled, env>>

\* Seeded fault: missing directories are not looked for.
NeedsPrimeBlind(r) == meta # run[r].dep \/ ~fresh

\* Seeded fault: the lockfiles are not compared.
NeedsPrimeStale(r) ==
    (\E p \in Paths : golden[p] = NoDir) \/ meta = NoMeta \/ ~fresh

\* cacheNeedsPrime.
NeedsPrime(r) ==
    (\E p \in Paths : golden[p] = NoDir) \/ meta # run[r].dep \/ ~fresh

\* Seeded fault: whoever finds the cache out of date primes it.
DecideAny(r) ==
    /\ At(r, "decide")
    /\ Goto(r, IF NeedsPrime(r) THEN "prime" ELSE "mount")
    /\ UNCHANGED <<dirs, meta, fresh, lock, settled, env>>

Decide(r) ==
    /\ At(r, "decide")
    /\ Goto(r, IF r \in Primers /\ NeedsPrime(r) THEN "prime" ELSE "mount")
    /\ UNCHANGED <<dirs, meta, fresh, lock, settled, env>>

\* primeCache: the prime command runs in its container, seeded from golden.
Prime(r) ==
    /\ At(r, "prime")
    /\ Become(r, [run[r] EXCEPT !.pc = "next", !.left = Paths])
    /\ settled' = NoMeta
    /\ UNCHANGED <<dirs, meta, fresh, lock, env>>

\* Seeded fault: a failed prime returns with the lock held.
PrimeFailsLocked(r) ==
    /\ At(r, "prime") /\ Fault
    /\ Become(r, Idle)
    /\ UNCHANGED <<dirs, meta, fresh, lock, settled>>

PrimeFails(r) ==
    /\ At(r, "prime") /\ Fault
    /\ Failed(r, "mount")
    /\ UNCHANGED <<dirs, meta, fresh, lock, settled>>

\* harvestCachePath: a new temporary directory, and docker cp into it ...
Harvest(r, p) ==
    /\ At(r, "next") /\ p \in run[r].left
    /\ tmp' = Put(tmp, p, Partial)
    /\ Become(r, [run[r] EXCEPT !.pc = "copyout", !.path = p, !.left = @ \ {p}])
    /\ UNCHANGED <<golden, old, meta, fresh, lock, settled, env>>

CopyOut(r) ==
    /\ At(r, "copyout")
    /\ tmp' = Put(tmp, run[r].path, run[r].dep)
    /\ Goto(r, "aside")
    /\ UNCHANGED <<golden, old, meta, fresh, lock, settled, env>>

CopyOutFails(r) ==
    /\ At(r, "copyout") /\ Fault
    /\ tmp' = Put(tmp, run[r].path, NoDir)
    /\ Failed(r, "next")
    /\ UNCHANGED <<golden, old, meta, fresh, lock, settled>>

\* ... the golden directory is put aside, and the new one moved into place.
Aside(r) ==
    LET p == run[r].path IN
    /\ At(r, "aside")
    /\ old' = Put(old, p, golden[p])
    /\ golden' = Put(golden, p, NoDir)
    /\ Goto(r, "swap")
    /\ UNCHANGED <<tmp, meta, fresh, lock, settled, env>>

AsideFails(r) ==
    LET p == run[r].path IN
    /\ At(r, "aside") /\ golden[p] # NoDir /\ Fault
    /\ tmp' = Put(tmp, p, NoDir)
    /\ old' = Put(old, p, NoDir)
    /\ Failed(r, "next")
    /\ UNCHANGED <<golden, meta, fresh, lock, settled>>

Swap(r) ==
    LET p == run[r].path IN
    /\ At(r, "swap")
    /\ golden' = Put(golden, p, tmp[p])
    /\ tmp' = Put(tmp, p, NoDir)
    /\ Goto(r, "tidy")
    /\ UNCHANGED <<old, meta, fresh, lock, settled, env>>

\* The rename fails: the old directory is put back.
SwapFails(r) ==
    LET p == run[r].path IN
    /\ At(r, "swap") /\ Fault
    /\ golden' = Put(golden, p, old[p])
    /\ tmp' = Put(tmp, p, NoDir)
    /\ old' = Put(old, p, NoDir)
    /\ Failed(r, "next")
    /\ UNCHANGED <<meta, fresh, lock, settled>>

Tidy(r) ==
    /\ At(r, "tidy")
    /\ old' = Put(old, run[r].path, NoDir)
    /\ Become(r, [run[r] EXCEPT !.pc = "next", !.path = NoPath])
    /\ UNCHANGED <<golden, tmp, meta, fresh, lock, settled, env>>

\* Every path was harvested, or was tried: the prime counts as done.
Harvested(r) ==
    /\ At(r, "next") /\ run[r].left = {}
    /\ Goto(r, "meta")
    /\ UNCHANGED <<dirs, meta, fresh, lock, settled, env>>

\* Seeded fault: what the cache was primed from is not recorded.
WriteMetaNever(r) ==
    /\ At(r, "meta")
    /\ settled' = IF run[r].ok THEN run[r].dep ELSE NoMeta
    /\ Goto(r, "mount")
    /\ UNCHANGED <<dirs, meta, fresh, lock, env>>

WriteMeta(r) ==
    /\ At(r, "meta")
    /\ meta' = run[r].dep /\ fresh' = TRUE
    /\ settled' = IF run[r].ok THEN run[r].dep ELSE NoMeta
    /\ Goto(r, "mount")
    /\ UNCHANGED <<dirs, lock, env>>

WriteMetaFails(r) ==
    /\ At(r, "meta") /\ Fault
    /\ Failed(r, "mount")
    /\ UNCHANGED <<dirs, meta, fresh, lock, settled>>

\* The directories that are there are mounted, and the lock is given back.
Mount(r) ==
    /\ At(r, "mount")
    /\ Become(r, [run[r] EXCEPT !.pc = "copy", !.dep = NoMeta,
                     !.mounts = {p \in Paths : golden[p] # NoDir}])
    /\ lock' = IF lock = r THEN Free ELSE lock
    /\ UNCHANGED <<dirs, meta, fresh, settled, env>>

\* runCheck has copied each mounted directory into its containers, as it was at
\* that moment; one that was gone is logged, and the check runs colder.
End(r) ==
    /\ At(r, "copy")
    /\ Become(r, Idle)
    /\ UNCHANGED <<dirs, meta, fresh, lock, settled, env>>

\* CACHE_REFRESH_HOURS have passed since the last prime.
Lapse ==
    /\ fresh /\ meta # NoMeta
    /\ fresh' = FALSE /\ settled' = NoMeta
    /\ UNCHANGED <<dirs, meta, lock, run, env>>

\* The process dies with its runs and its lock.
Crash ==
    /\ Mishap /\ crashes' = crashes + 1
    /\ run' = [r \in Runs |-> IF r \in Here THEN Idle ELSE run[r]]
    /\ lock' = Free
    /\ UNCHANGED <<dirs, meta, fresh, settled, faults>>

PrepareCache(r) ==
    \/ Lock(r) \/ Decide(r) \/ Prime(r) \/ PrimeFails(r)
    \/ (\E p \in Paths : Harvest(r, p)) \/ CopyOut(r) \/ CopyOutFails(r)
    \/ Aside(r) \/ AsideFails(r) \/ Swap(r) \/ SwapFails(r) \/ Tidy(r)
    \/ Harvested(r) \/ WriteMeta(r) \/ WriteMetaFails(r) \/ Mount(r)

Next == \/ Lapse \/ Crash
        \/ \E r \in Runs : Begin(r) \/ PrepareCache(r) \/ End(r)

Spec == Init /\ [][Next]_vars

\* Docker calls end (each has a timeout), and Go's mutex is not starved.
Fairness == \A r \in Runs : /\ WF_vars(PrepareCache(r)) /\ SF_vars(Lock(r))
                            /\ WF_vars(End(r))
FairSpec == Spec /\ Fairness

-----------------------------------------------------------------------------
(* What the cache promises.                                                *)

\* "it cannot be poisoned by a run or a PR": a golden directory, and the one
\* put aside for it, only ever holds a whole generation primed from a commit of
\* the branch, at every moment and after any crash.  Whole says that the prime
\* exited with 0 and docker cp with it: the commands of the presets end in
\* "|| true" (cache.go:128, 130), so their own failures do not show.
GoldenIsClean ==
    \A p \in Paths : {golden[p], old[p]} \subseteq BranchDeps \cup {NoDir}

\* While the process lives, a directory mounted for a run is there for its
\* copies, but for the moment in which another run swaps it: a rename that
\* fails puts the old one back.
MountedIsThere ==
    crashes = 0 => \A r \in Runs : At(r, "copy") =>
        \A p \in run[r].mounts :
            \/ golden[p] # NoDir
            \/ \E h \in Runs : At(h, "swap") /\ run[h].path = p

\* A branch run in which nothing failed mounts every path: a directory that a
\* crash between two renames, or a failed harvest, left missing is noticed and
\* made again, though meta.json may say that the cache is current.  What it is
\* about to mount is of its own lockfiles, primed by it or before it, as long as
\* the last prime is undisturbed: the run of a prime in which a harvest failed,
\* and the runs after it, may have an older generation of that path.
BranchRunIsWarm ==
    \A r \in Primers : run[r].ok =>
        /\ At(r, "copy") => run[r].mounts = Paths
        /\ At(r, "mount") /\ settled # NoMeta => \A p \in Paths : golden[p] = run[r].dep

\* "re-primed only ... when the lockfiles change ... or CACHE_REFRESH_HOURS
\* lapses": no run primes for the lockfiles of the last undisturbed prime.
PrimedOnce == [][\A r \in Runs : Prime(r) => run[r].dep # settled]_vars

\* "never failing the run": every run that prepares its cache gets to its
\* checks, whatever fails, and whichever process dies beside it.
RunsEnd ==
    \A r \in Here : At(r, "lock") ~> At(r, "copy") \/ At(r, "idle")

=============================================================================
