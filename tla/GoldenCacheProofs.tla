------------------------- MODULE GoldenCacheProofs -------------------------
(***************************************************************************)
(* The cache for any paths, runs, lockfiles and number of failed calls and *)
(* crashes.  What a golden directory receives was decided several steps    *)
(* before, in another directory: the proofs follow one run from the lock   *)
(* to the swap, and need that no other run of this process is there too    *)
(* (HolderOnly), and that runs of other processes never are (PrimersOnly). *)
(***************************************************************************)
EXTENDS GoldenCache, TLAPS

Critical == {"decide", "prime", "next", "copyout", "aside", "swap", "tidy",
             "meta", "mount"}
Priming == Critical \ {"decide", "mount"}
OnPath == {"copyout", "aside", "swap", "tidy"}

\* A run of this process between cacheLock and its mounts holds the lock.
HolderOnly == \A r \in Here : run[r].pc \in Critical => lock = r

\* Only a branch run of this process primes, and with its own lockfiles.
PrimersOnly == \A r \in Runs : run[r].pc \in Priming => r \in Primers
OwnDeps == \A r \in Runs : run[r].pc \in Critical \cup {"lock"} =>
                               run[r].dep \in DepsOf[r]

\* It knows the path it harvests, and what is swapped in is whole.
KnowsPath == \A r \in Runs : run[r].pc \in OnPath => run[r].path \in Paths
TmpIsWhole == \A r \in Runs : run[r].pc \in {"aside", "swap"} =>
                                  tmp[run[r].path] = run[r].dep

\* The paths a run that saw no failure knows to be there.
Expected(w) ==
    CASE w.pc = "next" -> Paths \ w.left
      [] w.pc \in {"copyout", "aside", "swap"} -> Paths \ (w.left \cup {w.path})
      [] w.pc = "tidy" -> Paths \ w.left
      [] w.pc \in {"meta", "mount"} -> Paths
      [] OTHER -> {}
\* They hold something, and while it primes, what it harvested.
Shows(w, c) == c # NoDir /\ (w.pc \in Priming => c = w.dep)
Warm ==
    \A r \in Primers : run[r].ok =>
        /\ \A p \in Expected(run[r]) : Shows(run[r], golden[p])
        /\ run[r].pc = "copy" => run[r].mounts = Paths

\* What is put aside while a run has it mounted can be put back.
OldIsKept ==
    crashes = 0 => \A r, h \in Runs :
        run[r].pc = "copy" /\ run[h].pc = "swap" /\ run[h].path \in run[r].mounts
            => old[run[h].path] # NoDir

CacheInv == /\ TypeOK /\ HolderOnly /\ PrimersOnly /\ OwnDeps /\ KnowsPath
            /\ TmpIsWhole /\ GoldenIsClean

-----------------------------------------------------------------------------
\* Two runs are never both between the decision to prime and the mounts.
LEMMA OnePrimer ==
    ASSUME CacheInv, NEW r \in Runs, NEW h \in Runs,
           run[r].pc \in Priming, run[h].pc \in Priming
    PROVE  r = h
BY GoldenCacheAssumption DEF CacheInv, HolderOnly, PrimersOnly, Priming

\* The steps of one run, seen from its local state w afterwards.
LEMMA Moved ==
    ASSUME TypeOK, NEW r \in Runs, NEW w \in RunType, Become(r, w)
    PROVE  /\ run' \in [Runs -> RunType] /\ run'[r] = w
           /\ \A h \in Runs \ {r} : run'[h] = run[h]
BY DEF TypeOK, Become

LEMMA ControlStep ==
    ASSUME CacheInv, NEW r \in Runs, NEW w \in RunType, Become(r, w),
           r \in Here /\ w.pc \in Critical => lock' = r,
           UNCHANGED lock \/ lock \in {r, Free},
           w.pc \in Priming => r \in Primers,
           w.pc \in Critical \cup {"lock"} => w.dep \in DepsOf[r],
           w.pc \in OnPath => w.path \in Paths
    PROVE  HolderOnly' /\ PrimersOnly' /\ OwnDeps' /\ KnowsPath'
<1>1. /\ run'[r] = w /\ \A h \in Runs \ {r} : run'[h] = run[h]
  BY Moved DEF CacheInv
<1>2. HolderOnly'
  BY <1>1, GoldenCacheAssumption DEF CacheInv, HolderOnly
<1> QED
  BY <1>1, <1>2 DEF CacheInv, PrimersOnly, OwnDeps, KnowsPath

LEMMA TmpStep ==
    ASSUME CacheInv, NEW r \in Runs, NEW w \in RunType, Become(r, w),
           UNCHANGED tmp \/ run[r].pc \in Priming,
           w.pc \in {"aside", "swap"} => tmp'[w.path] = w.dep
    PROVE  TmpIsWhole'
<1>1. /\ run'[r] = w /\ \A h \in Runs \ {r} : run'[h] = run[h]
  BY Moved DEF CacheInv
<1> SUFFICES ASSUME NEW h \in Runs, run'[h].pc \in {"aside", "swap"}
             PROVE  tmp'[run'[h].path] = run'[h].dep
  BY DEF TmpIsWhole
<1>2. CASE h = r
  BY <1>1, <1>2
<1>3. CASE h # r
  <2>1. run'[h] = run[h] /\ run[h].pc \in Priming
    BY <1>1, <1>3 DEF Priming, Critical
  <2>2. UNCHANGED tmp
    BY <1>3, <2>1, OnePrimer
  <2> QED
    BY <2>1, <2>2 DEF CacheInv, TmpIsWhole
<1> QED
  BY <1>2, <1>3

\* Steps that leave the directories alone.
LEMMA QuietStep ==
    ASSUME CacheInv, NEW r \in Runs, NEW w \in RunType, Become(r, w),
           r \in Here /\ w.pc \in Critical => lock' = r,
           UNCHANGED lock \/ lock \in {r, Free},
           w.pc \in Priming => r \in Primers,
           w.pc \in Critical \cup {"lock"} => w.dep \in DepsOf[r],
           w.pc \notin OnPath, UNCHANGED dirs,
           lock' \in Here \cup {Free}, meta' \in Deps \cup {NoMeta},
           fresh' \in BOOLEAN, settled' \in Deps \cup {NoMeta},
           faults' \in Nat, crashes' \in Nat
    PROVE  CacheInv'
<1>1. HolderOnly' /\ PrimersOnly' /\ OwnDeps' /\ KnowsPath'
  BY ControlStep
<1>2. TmpIsWhole'
  BY TmpStep DEF OnPath, dirs
<1>3. TypeOK'
  BY Moved DEF CacheInv, TypeOK, dirs
<1>4. GoldenIsClean'
  BY DEF CacheInv, GoldenIsClean, dirs
<1> QED
  BY <1>1, <1>2, <1>3, <1>4 DEF CacheInv

-----------------------------------------------------------------------------
LEMMA InvInit == Init => CacheInv
BY GoldenCacheAssumption
   DEF Init, CacheInv, TypeOK, RunType, Pcs, Content, Idle, HolderOnly,
       PrimersOnly, OwnDeps, KnowsPath, TmpIsWhole, GoldenIsClean, Critical,
       Priming, OnPath

\* The record a run keeps, field by field.
LEMMA RunFields ==
    ASSUME TypeOK, NEW r \in Runs
    PROVE  /\ run[r] \in RunType
           /\ run[r].dep \in Deps \cup {NoMeta}
           /\ run[r].path \in Paths \cup {NoPath}
           /\ run[r].left \in SUBSET Paths /\ run[r].mounts \in SUBSET Paths
           /\ run[r].ok \in BOOLEAN
BY DEF TypeOK, RunType

LEMMA InvStep == CacheInv /\ [Next]_vars => CacheInv'
<1> SUFFICES ASSUME CacheInv, [Next]_vars PROVE CacheInv'
  OBVIOUS
<1>1. ASSUME NEW r \in Runs, Begin(r) PROVE CacheInv'
  <2>1. PICK d \in DepsOf[r] :
            Become(r, [Idle EXCEPT !.pc = "lock", !.dep = d])
    BY <1>1 DEF Begin
  <2> DEFINE w == [Idle EXCEPT !.pc = "lock", !.dep = d]
  <2>2. w \in RunType /\ w.pc = "lock" /\ w.dep = d
    BY DEF Idle, RunType, Pcs, Deps
  <2> QED
    BY <1>1, <2>1, <2>2, QuietStep
       DEF Begin, CacheInv, TypeOK, Critical, Priming, OnPath, env
<1>2. ASSUME NEW r \in Runs, Lock(r) PROVE CacheInv'
  <2> DEFINE w == [run[r] EXCEPT !.pc = "decide"]
  <2>1. w \in RunType /\ w.pc = "decide" /\ w.dep = run[r].dep
    BY RunFields DEF RunType, Pcs, CacheInv
  <2>2. w.pc \in Critical => w.dep \in DepsOf[r]
    BY <1>2, <2>1 DEF Lock, At, CacheInv, OwnDeps, Critical
  <2>3. Become(r, w)
    BY <1>2 DEF Lock, Goto, Failed
  <2>4. /\ r \in Here /\ w.pc \in Critical => lock' = r
        /\ UNCHANGED lock \/ lock \in {r, Free}
        /\ w.pc \in Priming => r \in Primers
    BY <1>2, <2>1
       DEF Lock, At, CacheInv, HolderOnly, PrimersOnly, Critical, Priming
  <2>5. /\ UNCHANGED dirs /\ lock' \in Here \cup {Free}
        /\ meta' \in Deps \cup {NoMeta} /\ fresh' \in BOOLEAN
        /\ settled' \in Deps \cup {NoMeta}
        /\ faults' \in Nat /\ crashes' \in Nat
    BY <1>2, RunFields
       DEF Lock, Fault, Mishap, CacheInv, TypeOK, dirs, env
  <2>6. w.pc \notin OnPath /\ w.pc # "lock"
    BY <2>1 DEF OnPath
  <2> HIDE DEF w
  <2> QED
    BY <2>1, <2>2, <2>3, <2>4, <2>5, <2>6, QuietStep
<1>3. ASSUME NEW r \in Runs, Decide(r) PROVE CacheInv'
  <2> DEFINE w == [run[r] EXCEPT !.pc =
                      IF r \in Primers /\ NeedsPrime(r) THEN "prime" ELSE "mount"]
  <2>1. w \in RunType /\ w.pc = (IF r \in Primers /\ NeedsPrime(r) THEN "prime"
                                   ELSE "mount") /\ w.dep = run[r].dep
    BY RunFields DEF RunType, Pcs, CacheInv
  <2>2. w.pc \in Critical => w.dep \in DepsOf[r]
    BY <1>3, <2>1 DEF Decide, At, CacheInv, OwnDeps, Critical
  <2>3. Become(r, w)
    BY <1>3 DEF Decide, Goto, Failed
  <2>4. /\ r \in Here /\ w.pc \in Critical => lock' = r
        /\ UNCHANGED lock \/ lock \in {r, Free}
        /\ w.pc \in Priming => r \in Primers
    BY <1>3, <2>1
       DEF Decide, At, CacheInv, HolderOnly, PrimersOnly, Critical, Priming
  <2>5. /\ UNCHANGED dirs /\ lock' \in Here \cup {Free}
        /\ meta' \in Deps \cup {NoMeta} /\ fresh' \in BOOLEAN
        /\ settled' \in Deps \cup {NoMeta}
        /\ faults' \in Nat /\ crashes' \in Nat
    BY <1>3, RunFields
       DEF Decide, Fault, Mishap, CacheInv, TypeOK, dirs, env
  <2>6. w.pc \notin OnPath /\ w.pc # "lock"
    BY <2>1 DEF OnPath
  <2> HIDE DEF w
  <2> QED
    BY <2>1, <2>2, <2>3, <2>4, <2>5, <2>6, QuietStep
<1>4. ASSUME NEW r \in Runs, Prime(r) PROVE CacheInv'
  <2> DEFINE w == [run[r] EXCEPT !.pc = "next", !.left = Paths]
  <2>1. w \in RunType /\ w.pc = "next" /\ w.dep = run[r].dep
    BY RunFields DEF RunType, Pcs, CacheInv
  <2>2. w.pc \in Critical => w.dep \in DepsOf[r]
    BY <1>4, <2>1 DEF Prime, At, CacheInv, OwnDeps, Critical
  <2>3. Become(r, w)
    BY <1>4 DEF Prime, Goto, Failed
  <2>4. /\ r \in Here /\ w.pc \in Critical => lock' = r
        /\ UNCHANGED lock \/ lock \in {r, Free}
        /\ w.pc \in Priming => r \in Primers
    BY <1>4, <2>1
       DEF Prime, At, CacheInv, HolderOnly, PrimersOnly, Critical, Priming
  <2>5. /\ UNCHANGED dirs /\ lock' \in Here \cup {Free}
        /\ meta' \in Deps \cup {NoMeta} /\ fresh' \in BOOLEAN
        /\ settled' \in Deps \cup {NoMeta}
        /\ faults' \in Nat /\ crashes' \in Nat
    BY <1>4, RunFields
       DEF Prime, Fault, Mishap, CacheInv, TypeOK, dirs, env
  <2>6. w.pc \notin OnPath /\ w.pc # "lock"
    BY <2>1 DEF OnPath
  <2> HIDE DEF w
  <2> QED
    BY <2>1, <2>2, <2>3, <2>4, <2>5, <2>6, QuietStep
<1>5. ASSUME NEW r \in Runs, PrimeFails(r) PROVE CacheInv'
  <2> DEFINE w == [run[r] EXCEPT !.pc = "mount", !.path = NoPath,
                          !.ok = FALSE]
  <2>1. w \in RunType /\ w.pc = "mount" /\ w.dep = run[r].dep
    BY RunFields DEF RunType, Pcs, CacheInv
  <2>2. w.pc \in Critical => w.dep \in DepsOf[r]
    BY <1>5, <2>1 DEF PrimeFails, At, CacheInv, OwnDeps, Critical
  <2>3. Become(r, w)
    BY <1>5 DEF PrimeFails, Goto, Failed
  <2>4. /\ r \in Here /\ w.pc \in Critical => lock' = r
        /\ UNCHANGED lock \/ lock \in {r, Free}
        /\ w.pc \in Priming => r \in Primers
    BY <1>5, <2>1
       DEF PrimeFails, At, CacheInv, HolderOnly, PrimersOnly, Critical, Priming
  <2>5. /\ UNCHANGED dirs /\ lock' \in Here \cup {Free}
        /\ meta' \in Deps \cup {NoMeta} /\ fresh' \in BOOLEAN
        /\ settled' \in Deps \cup {NoMeta}
        /\ faults' \in Nat /\ crashes' \in Nat
    BY <1>5, RunFields
       DEF PrimeFails, Fault, Mishap, CacheInv, TypeOK, dirs, env
  <2>6. w.pc \notin OnPath /\ w.pc # "lock"
    BY <2>1 DEF OnPath
  <2> HIDE DEF w
  <2> QED
    BY <2>1, <2>2, <2>3, <2>4, <2>5, <2>6, QuietStep
<1>6. ASSUME NEW r \in Runs, Harvested(r) PROVE CacheInv'
  <2> DEFINE w == [run[r] EXCEPT !.pc = "meta"]
  <2>1. w \in RunType /\ w.pc = "meta" /\ w.dep = run[r].dep
    BY RunFields DEF RunType, Pcs, CacheInv
  <2>2. w.pc \in Critical => w.dep \in DepsOf[r]
    BY <1>6, <2>1 DEF Harvested, At, CacheInv, OwnDeps, Critical
  <2>3. Become(r, w)
    BY <1>6 DEF Harvested, Goto, Failed
  <2>4. /\ r \in Here /\ w.pc \in Critical => lock' = r
        /\ UNCHANGED lock \/ lock \in {r, Free}
        /\ w.pc \in Priming => r \in Primers
    BY <1>6, <2>1
       DEF Harvested, At, CacheInv, HolderOnly, PrimersOnly, Critical, Priming
  <2>5. /\ UNCHANGED dirs /\ lock' \in Here \cup {Free}
        /\ meta' \in Deps \cup {NoMeta} /\ fresh' \in BOOLEAN
        /\ settled' \in Deps \cup {NoMeta}
        /\ faults' \in Nat /\ crashes' \in Nat
    BY <1>6, RunFields
       DEF Harvested, Fault, Mishap, CacheInv, TypeOK, dirs, env
  <2>6. w.pc \notin OnPath /\ w.pc # "lock"
    BY <2>1 DEF OnPath
  <2> HIDE DEF w
  <2> QED
    BY <2>1, <2>2, <2>3, <2>4, <2>5, <2>6, QuietStep
<1>7. ASSUME NEW r \in Runs, WriteMeta(r) PROVE CacheInv'
  <2> DEFINE w == [run[r] EXCEPT !.pc = "mount"]
  <2>1. w \in RunType /\ w.pc = "mount" /\ w.dep = run[r].dep
    BY RunFields DEF RunType, Pcs, CacheInv
  <2>2. w.pc \in Critical => w.dep \in DepsOf[r]
    BY <1>7, <2>1 DEF WriteMeta, At, CacheInv, OwnDeps, Critical
  <2>3. Become(r, w)
    BY <1>7 DEF WriteMeta, Goto, Failed
  <2>4. /\ r \in Here /\ w.pc \in Critical => lock' = r
        /\ UNCHANGED lock \/ lock \in {r, Free}
        /\ w.pc \in Priming => r \in Primers
    BY <1>7, <2>1
       DEF WriteMeta, At, CacheInv, HolderOnly, PrimersOnly, Critical, Priming
  <2>5. /\ UNCHANGED dirs /\ lock' \in Here \cup {Free}
        /\ meta' \in Deps \cup {NoMeta} /\ fresh' \in BOOLEAN
        /\ settled' \in Deps \cup {NoMeta}
        /\ faults' \in Nat /\ crashes' \in Nat
    BY <1>7, RunFields
       DEF WriteMeta, Fault, Mishap, CacheInv, TypeOK, dirs, env
  <2>6. w.pc \notin OnPath /\ w.pc # "lock"
    BY <2>1 DEF OnPath
  <2> HIDE DEF w
  <2> QED
    BY <2>1, <2>2, <2>3, <2>4, <2>5, <2>6, QuietStep
<1>8. ASSUME NEW r \in Runs, WriteMetaFails(r) PROVE CacheInv'
  <2> DEFINE w == [run[r] EXCEPT !.pc = "mount", !.path = NoPath,
                          !.ok = FALSE]
  <2>1. w \in RunType /\ w.pc = "mount" /\ w.dep = run[r].dep
    BY RunFields DEF RunType, Pcs, CacheInv
  <2>2. w.pc \in Critical => w.dep \in DepsOf[r]
    BY <1>8, <2>1 DEF WriteMetaFails, At, CacheInv, OwnDeps, Critical
  <2>3. Become(r, w)
    BY <1>8 DEF WriteMetaFails, Goto, Failed
  <2>4. /\ r \in Here /\ w.pc \in Critical => lock' = r
        /\ UNCHANGED lock \/ lock \in {r, Free}
        /\ w.pc \in Priming => r \in Primers
    BY <1>8, <2>1
       DEF WriteMetaFails, At, CacheInv, HolderOnly, PrimersOnly, Critical,
           Priming
  <2>5. /\ UNCHANGED dirs /\ lock' \in Here \cup {Free}
        /\ meta' \in Deps \cup {NoMeta} /\ fresh' \in BOOLEAN
        /\ settled' \in Deps \cup {NoMeta}
        /\ faults' \in Nat /\ crashes' \in Nat
    BY <1>8, RunFields
       DEF WriteMetaFails, Fault, Mishap, CacheInv, TypeOK, dirs, env
  <2>6. w.pc \notin OnPath /\ w.pc # "lock"
    BY <2>1 DEF OnPath
  <2> HIDE DEF w
  <2> QED
    BY <2>1, <2>2, <2>3, <2>4, <2>5, <2>6, QuietStep
<1>9. ASSUME NEW r \in Runs, Mount(r) PROVE CacheInv'
  <2> DEFINE w == [run[r] EXCEPT !.pc = "copy", !.dep = NoMeta,
                          !.mounts = {p \in Paths : golden[p] # NoDir}]
  <2>1. w \in RunType /\ w.pc = "copy" /\ w.dep = NoMeta
    BY RunFields DEF RunType, Pcs, CacheInv
  <2>2. w.pc \in Critical => w.dep \in DepsOf[r]
    BY <1>9, <2>1 DEF Mount, At, CacheInv, OwnDeps, Critical
  <2>3. Become(r, w)
    BY <1>9 DEF Mount, Goto, Failed
  <2>4. /\ r \in Here /\ w.pc \in Critical => lock' = r
        /\ UNCHANGED lock \/ lock \in {r, Free}
        /\ w.pc \in Priming => r \in Primers
    BY <1>9, <2>1
       DEF Mount, At, CacheInv, HolderOnly, PrimersOnly, Critical, Priming
  <2>5. /\ UNCHANGED dirs /\ lock' \in Here \cup {Free}
        /\ meta' \in Deps \cup {NoMeta} /\ fresh' \in BOOLEAN
        /\ settled' \in Deps \cup {NoMeta}
        /\ faults' \in Nat /\ crashes' \in Nat
    BY <1>9, RunFields
       DEF Mount, Fault, Mishap, CacheInv, TypeOK, dirs, env
  <2>6. w.pc \notin OnPath /\ w.pc # "lock"
    BY <2>1 DEF OnPath
  <2> HIDE DEF w
  <2> QED
    BY <2>1, <2>2, <2>3, <2>4, <2>5, <2>6, QuietStep
<1>10. ASSUME NEW r \in Runs, End(r) PROVE CacheInv'
  <2> DEFINE w == Idle
  <2>1. w \in RunType /\ w.pc = "idle" /\ w.dep = NoMeta
    BY DEF Idle, RunType, Pcs
  <2>2. w.pc \in Critical => w.dep \in DepsOf[r]
    BY <1>10, <2>1 DEF End, At, CacheInv, OwnDeps, Critical
  <2>3. Become(r, w)
    BY <1>10 DEF End, Goto, Failed
  <2>4. /\ r \in Here /\ w.pc \in Critical => lock' = r
        /\ UNCHANGED lock \/ lock \in {r, Free}
        /\ w.pc \in Priming => r \in Primers
    BY <1>10, <2>1
       DEF End, At, CacheInv, HolderOnly, PrimersOnly, Critical, Priming
  <2>5. /\ UNCHANGED dirs /\ lock' \in Here \cup {Free}
        /\ meta' \in Deps \cup {NoMeta} /\ fresh' \in BOOLEAN
        /\ settled' \in Deps \cup {NoMeta}
        /\ faults' \in Nat /\ crashes' \in Nat
    BY <1>10, RunFields
       DEF End, Fault, Mishap, CacheInv, TypeOK, dirs, env
  <2>6. w.pc \notin OnPath /\ w.pc # "lock"
    BY <2>1 DEF OnPath
  <2> HIDE DEF w
  <2> QED
    BY <2>1, <2>2, <2>3, <2>4, <2>5, <2>6, QuietStep
<1>11. ASSUME NEW r \in Runs, NEW p \in Paths, Harvest(r, p) PROVE CacheInv'
  <2> DEFINE w == [run[r] EXCEPT !.pc = "copyout", !.path = p, !.left = @ \ {p}]
             q == p
  <2>1. /\ w \in RunType /\ w.pc = "copyout" /\ w.dep = run[r].dep
        /\ w.path = p
    BY RunFields DEF RunType, Pcs, CacheInv
  <2>2. /\ r \in Primers /\ r \in Here /\ lock = r
        /\ run[r].dep \in DepsOf[r] /\ q \in Paths
    BY <1>11, RunFields, GoldenCacheAssumption
       DEF Harvest, At, CacheInv, HolderOnly, PrimersOnly, OwnDeps, KnowsPath,
           Critical, Priming, OnPath
  <2>3. Become(r, w) /\ run[r].pc \in Priming
    BY <1>11 DEF Harvest, At, Goto, Failed, Priming, Critical
  <2>4. HolderOnly' /\ PrimersOnly' /\ OwnDeps' /\ KnowsPath'
    BY <1>11, <2>1, <2>2, <2>3, ControlStep
       DEF Harvest, Critical, Priming, OnPath
  <2>5. TmpIsWhole'
    BY <1>11, <2>1, <2>2, <2>3, TmpStep
       DEF Harvest, At, Put, CacheInv, TypeOK, TmpIsWhole
  <2>6. TypeOK'
    BY <1>11, <2>1, <2>2, <2>3, Moved
       DEF Harvest, Put, Fault, Mishap, CacheInv, TypeOK, Content, Deps, env
  <2>7. GoldenIsClean'
    BY <1>11, <2>2
       DEF Harvest, At, Put, CacheInv, TypeOK, GoldenIsClean, TmpIsWhole,
           BranchDeps
  <2> QED
    BY <2>4, <2>5, <2>6, <2>7 DEF CacheInv
<1>12. ASSUME NEW r \in Runs, CopyOut(r) PROVE CacheInv'
  <2> DEFINE w == [run[r] EXCEPT !.pc = "aside"]
             q == run[r].path
  <2>1. /\ w \in RunType /\ w.pc = "aside" /\ w.dep = run[r].dep
        /\ w.path = q
    BY RunFields DEF RunType, Pcs, CacheInv
  <2>2. /\ r \in Primers /\ r \in Here /\ lock = r
        /\ run[r].dep \in DepsOf[r] /\ q \in Paths
    BY <1>12, RunFields, GoldenCacheAssumption
       DEF CopyOut, At, CacheInv, HolderOnly, PrimersOnly, OwnDeps, KnowsPath,
           Critical, Priming, OnPath
  <2>3. Become(r, w) /\ run[r].pc \in Priming
    BY <1>12 DEF CopyOut, At, Goto, Failed, Priming, Critical
  <2>4. HolderOnly' /\ PrimersOnly' /\ OwnDeps' /\ KnowsPath'
    BY <1>12, <2>1, <2>2, <2>3, ControlStep
       DEF CopyOut, Critical, Priming, OnPath
  <2>5. TmpIsWhole'
    BY <1>12, <2>1, <2>2, <2>3, TmpStep
       DEF CopyOut, At, Put, CacheInv, TypeOK, TmpIsWhole
  <2>6. TypeOK'
    BY <1>12, <2>1, <2>2, <2>3, Moved
       DEF CopyOut, Put, Fault, Mishap, CacheInv, TypeOK, Content, Deps, env
  <2>7. GoldenIsClean'
    BY <1>12, <2>2
       DEF CopyOut, At, Put, CacheInv, TypeOK, GoldenIsClean, TmpIsWhole,
           BranchDeps
  <2> QED
    BY <2>4, <2>5, <2>6, <2>7 DEF CacheInv
<1>13. ASSUME NEW r \in Runs, CopyOutFails(r) PROVE CacheInv'
  <2> DEFINE w == [run[r] EXCEPT !.pc = "next", !.path = NoPath,
                          !.ok = FALSE]
             q == run[r].path
  <2>1. /\ w \in RunType /\ w.pc = "next" /\ w.dep = run[r].dep
        /\ w.path = NoPath
    BY RunFields DEF RunType, Pcs, CacheInv
  <2>2. /\ r \in Primers /\ r \in Here /\ lock = r
        /\ run[r].dep \in DepsOf[r] /\ q \in Paths
    BY <1>13, RunFields, GoldenCacheAssumption
       DEF CopyOutFails, At, CacheInv, HolderOnly, PrimersOnly, OwnDeps,
           KnowsPath,
           Critical, Priming, OnPath
  <2>3. Become(r, w) /\ run[r].pc \in Priming
    BY <1>13 DEF CopyOutFails, At, Goto, Failed, Priming, Critical
  <2>4. HolderOnly' /\ PrimersOnly' /\ OwnDeps' /\ KnowsPath'
    BY <1>13, <2>1, <2>2, <2>3, ControlStep
       DEF CopyOutFails, Critical, Priming, OnPath
  <2>5. TmpIsWhole'
    BY <1>13, <2>1, <2>2, <2>3, TmpStep
       DEF CopyOutFails, At, Put, CacheInv, TypeOK, TmpIsWhole
  <2>6. TypeOK'
    BY <1>13, <2>1, <2>2, <2>3, Moved
       DEF CopyOutFails, Put, Fault, Mishap, CacheInv, TypeOK, Content, Deps,
           env
  <2>7. GoldenIsClean'
    BY <1>13, <2>2
       DEF CopyOutFails, At, Put, CacheInv, TypeOK, GoldenIsClean, TmpIsWhole,
           BranchDeps
  <2> QED
    BY <2>4, <2>5, <2>6, <2>7 DEF CacheInv
<1>14. ASSUME NEW r \in Runs, Aside(r) PROVE CacheInv'
  <2> DEFINE w == [run[r] EXCEPT !.pc = "swap"]
             q == run[r].path
  <2>1. /\ w \in RunType /\ w.pc = "swap" /\ w.dep = run[r].dep
        /\ w.path = q
    BY RunFields DEF RunType, Pcs, CacheInv
  <2>2. /\ r \in Primers /\ r \in Here /\ lock = r
        /\ run[r].dep \in DepsOf[r] /\ q \in Paths
    BY <1>14, RunFields, GoldenCacheAssumption
       DEF Aside, At, CacheInv, HolderOnly, PrimersOnly, OwnDeps, KnowsPath,
           Critical, Priming, OnPath
  <2>3. Become(r, w) /\ run[r].pc \in Priming
    BY <1>14 DEF Aside, At, Goto, Failed, Priming, Critical
  <2>4. HolderOnly' /\ PrimersOnly' /\ OwnDeps' /\ KnowsPath'
    BY <1>14, <2>1, <2>2, <2>3, ControlStep
       DEF Aside, Critical, Priming, OnPath
  <2>5. TmpIsWhole'
    BY <1>14, <2>1, <2>2, <2>3, TmpStep
       DEF Aside, At, Put, CacheInv, TypeOK, TmpIsWhole
  <2>6. TypeOK'
    BY <1>14, <2>1, <2>2, <2>3, Moved
       DEF Aside, Put, Fault, Mishap, CacheInv, TypeOK, Content, Deps, env
  <2>7. GoldenIsClean'
    BY <1>14, <2>2
       DEF Aside, At, Put, CacheInv, TypeOK, GoldenIsClean, TmpIsWhole,
           BranchDeps
  <2> QED
    BY <2>4, <2>5, <2>6, <2>7 DEF CacheInv
<1>15. ASSUME NEW r \in Runs, AsideFails(r) PROVE CacheInv'
  <2> DEFINE w == [run[r] EXCEPT !.pc = "next", !.path = NoPath,
                          !.ok = FALSE]
             q == run[r].path
  <2>1. /\ w \in RunType /\ w.pc = "next" /\ w.dep = run[r].dep
        /\ w.path = NoPath
    BY RunFields DEF RunType, Pcs, CacheInv
  <2>2. /\ r \in Primers /\ r \in Here /\ lock = r
        /\ run[r].dep \in DepsOf[r] /\ q \in Paths
    BY <1>15, RunFields, GoldenCacheAssumption
       DEF AsideFails, At, CacheInv, HolderOnly, PrimersOnly, OwnDeps,
           KnowsPath,
           Critical, Priming, OnPath
  <2>3. Become(r, w) /\ run[r].pc \in Priming
    BY <1>15 DEF AsideFails, At, Goto, Failed, Priming, Critical
  <2>4. HolderOnly' /\ PrimersOnly' /\ OwnDeps' /\ KnowsPath'
    BY <1>15, <2>1, <2>2, <2>3, ControlStep
       DEF AsideFails, Critical, Priming, OnPath
  <2>5. TmpIsWhole'
    BY <1>15, <2>1, <2>2, <2>3, TmpStep
       DEF AsideFails, At, Put, CacheInv, TypeOK, TmpIsWhole
  <2>6. TypeOK'
    BY <1>15, <2>1, <2>2, <2>3, Moved
       DEF AsideFails, Put, Fault, Mishap, CacheInv, TypeOK, Content, Deps, env
  <2>7. GoldenIsClean'
    BY <1>15, <2>2
       DEF AsideFails, At, Put, CacheInv, TypeOK, GoldenIsClean, TmpIsWhole,
           BranchDeps
  <2> QED
    BY <2>4, <2>5, <2>6, <2>7 DEF CacheInv
<1>16. ASSUME NEW r \in Runs, Swap(r) PROVE CacheInv'
  <2> DEFINE w == [run[r] EXCEPT !.pc = "tidy"]
             q == run[r].path
  <2>1. /\ w \in RunType /\ w.pc = "tidy" /\ w.dep = run[r].dep
        /\ w.path = q
    BY RunFields DEF RunType, Pcs, CacheInv
  <2>2. /\ r \in Primers /\ r \in Here /\ lock = r
        /\ run[r].dep \in DepsOf[r] /\ q \in Paths
    BY <1>16, RunFields, GoldenCacheAssumption
       DEF Swap, At, CacheInv, HolderOnly, PrimersOnly, OwnDeps, KnowsPath,
           Critical, Priming, OnPath
  <2>3. Become(r, w) /\ run[r].pc \in Priming
    BY <1>16 DEF Swap, At, Goto, Failed, Priming, Critical
  <2>4. HolderOnly' /\ PrimersOnly' /\ OwnDeps' /\ KnowsPath'
    BY <1>16, <2>1, <2>2, <2>3, ControlStep
       DEF Swap, Critical, Priming, OnPath
  <2>5. TmpIsWhole'
    BY <1>16, <2>1, <2>2, <2>3, TmpStep
       DEF Swap, At, Put, CacheInv, TypeOK, TmpIsWhole
  <2>6. TypeOK'
    BY <1>16, <2>1, <2>2, <2>3, Moved
       DEF Swap, Put, Fault, Mishap, CacheInv, TypeOK, Content, Deps, env
  <2>7. GoldenIsClean'
    BY <1>16, <2>2
       DEF Swap, At, Put, CacheInv, TypeOK, GoldenIsClean, TmpIsWhole,
           BranchDeps
  <2> QED
    BY <2>4, <2>5, <2>6, <2>7 DEF CacheInv
<1>17. ASSUME NEW r \in Runs, SwapFails(r) PROVE CacheInv'
  <2> DEFINE w == [run[r] EXCEPT !.pc = "next", !.path = NoPath,
                          !.ok = FALSE]
             q == run[r].path
  <2>1. /\ w \in RunType /\ w.pc = "next" /\ w.dep = run[r].dep
        /\ w.path = NoPath
    BY RunFields DEF RunType, Pcs, CacheInv
  <2>2. /\ r \in Primers /\ r \in Here /\ lock = r
        /\ run[r].dep \in DepsOf[r] /\ q \in Paths
    BY <1>17, RunFields, GoldenCacheAssumption
       DEF SwapFails, At, CacheInv, HolderOnly, PrimersOnly, OwnDeps, KnowsPath,
           Critical, Priming, OnPath
  <2>3. Become(r, w) /\ run[r].pc \in Priming
    BY <1>17 DEF SwapFails, At, Goto, Failed, Priming, Critical
  <2>4. HolderOnly' /\ PrimersOnly' /\ OwnDeps' /\ KnowsPath'
    BY <1>17, <2>1, <2>2, <2>3, ControlStep
       DEF SwapFails, Critical, Priming, OnPath
  <2>5. TmpIsWhole'
    BY <1>17, <2>1, <2>2, <2>3, TmpStep
       DEF SwapFails, At, Put, CacheInv, TypeOK, TmpIsWhole
  <2>6. TypeOK'
    BY <1>17, <2>1, <2>2, <2>3, Moved
       DEF SwapFails, Put, Fault, Mishap, CacheInv, TypeOK, Content, Deps, env
  <2>7. GoldenIsClean'
    BY <1>17, <2>2
       DEF SwapFails, At, Put, CacheInv, TypeOK, GoldenIsClean, TmpIsWhole,
           BranchDeps
  <2> QED
    BY <2>4, <2>5, <2>6, <2>7 DEF CacheInv
<1>18. ASSUME NEW r \in Runs, Tidy(r) PROVE CacheInv'
  <2> DEFINE w == [run[r] EXCEPT !.pc = "next", !.path = NoPath]
             q == run[r].path
  <2>1. /\ w \in RunType /\ w.pc = "next" /\ w.dep = run[r].dep
        /\ w.path = NoPath
    BY RunFields DEF RunType, Pcs, CacheInv
  <2>2. /\ r \in Primers /\ r \in Here /\ lock = r
        /\ run[r].dep \in DepsOf[r] /\ q \in Paths
    BY <1>18, RunFields, GoldenCacheAssumption
       DEF Tidy, At, CacheInv, HolderOnly, PrimersOnly, OwnDeps, KnowsPath,
           Critical, Priming, OnPath
  <2>3. Become(r, w) /\ run[r].pc \in Priming
    BY <1>18 DEF Tidy, At, Goto, Failed, Priming, Critical
  <2>4. HolderOnly' /\ PrimersOnly' /\ OwnDeps' /\ KnowsPath'
    BY <1>18, <2>1, <2>2, <2>3, ControlStep
       DEF Tidy, Critical, Priming, OnPath
  <2>5. TmpIsWhole'
    BY <1>18, <2>1, <2>2, <2>3, TmpStep
       DEF Tidy, At, Put, CacheInv, TypeOK, TmpIsWhole
  <2>6. TypeOK'
    BY <1>18, <2>1, <2>2, <2>3, Moved
       DEF Tidy, Put, Fault, Mishap, CacheInv, TypeOK, Content, Deps, env
  <2>7. GoldenIsClean'
    BY <1>18, <2>2
       DEF Tidy, At, Put, CacheInv, TypeOK, GoldenIsClean, TmpIsWhole,
           BranchDeps
  <2> QED
    BY <2>4, <2>5, <2>6, <2>7 DEF CacheInv
<1>19. CASE Lapse
  BY <1>19 DEF Lapse, dirs, env, CacheInv, TypeOK, HolderOnly, PrimersOnly,
     OwnDeps,
              KnowsPath, TmpIsWhole, GoldenIsClean
<1>20. CASE Crash
  <2>1. /\ run' \in [Runs -> RunType] /\ Idle.pc = "idle"
        /\ \A r \in Runs : run'[r] = IF r \in Here THEN Idle ELSE run[r]
    BY <1>20 DEF Crash, CacheInv, TypeOK, Idle, RunType, Pcs
  <2>2. TypeOK' /\ GoldenIsClean'
    BY <1>20, <2>1 DEF Crash, Mishap, CacheInv, TypeOK, GoldenIsClean, dirs
  <2>3. HolderOnly' /\ PrimersOnly' /\ OwnDeps' /\ KnowsPath' /\ TmpIsWhole'
    BY <1>20, <2>1, GoldenCacheAssumption
       DEF Crash, CacheInv, HolderOnly, PrimersOnly, OwnDeps, KnowsPath,
           TmpIsWhole, Critical, Priming, OnPath, dirs
  <2> QED
    BY <2>2, <2>3 DEF CacheInv
<1>21. CASE UNCHANGED vars
  BY <1>21 DEF vars, CacheInv, TypeOK, HolderOnly, PrimersOnly, OwnDeps,
     KnowsPath,
              TmpIsWhole, GoldenIsClean
<1> QED
  BY <1>1, <1>2, <1>3, <1>4, <1>5, <1>6, <1>7, <1>8, <1>9, <1>10, <1>11, <1>12,
     <1>13, <1>14, <1>15, <1>16, <1>17, <1>18, <1>19, <1>20, <1>21 DEF Next,
     PrepareCache

\* TypeOK is an invariant of GoldenCache, whatever the constants.
THEOREM TypeCorrect == Spec => []TypeOK
<1>1. Spec => []CacheInv
  BY InvInit, InvStep, PTL DEF Spec
<1> QED
  BY <1>1, PTL DEF CacheInv

\* No golden directory ever holds anything but a whole generation primed by a
\* branch run from its own lockfiles, for any number of paths, runs and crashes.
THEOREM CleanCorrect == Spec => []GoldenIsClean
<1>1. Spec => []CacheInv
  BY InvInit, InvStep, PTL DEF Spec
<1> QED
  BY <1>1, PTL DEF CacheInv

-----------------------------------------------------------------------------
(* What a run mounts.                                                      *)

LEMMA WarmMove ==
    ASSUME CacheInv, Warm, NEW r \in Runs, NEW w \in RunType, Become(r, w),
           UNCHANGED golden \/ run[r].pc \in Priming,
           r \in Primers /\ w.ok => /\ \A p \in Expected(w) : Shows(w, golden'[p])
                                    /\ w.pc = "copy" => w.mounts = Paths
    PROVE  Warm'
<1>1. /\ run'[r] = w /\ \A h \in Runs \ {r} : run'[h] = run[h]
  BY Moved DEF CacheInv
<1> SUFFICES ASSUME NEW h \in Primers, run'[h].ok
             PROVE  /\ \A p \in Expected(run'[h]) : Shows(run'[h], golden'[p])
                    /\ run'[h].pc = "copy" => run'[h].mounts = Paths
  BY DEF Warm, Expected, Shows
<1>2. CASE h = r
  BY <1>1, <1>2
<1>3. CASE h # r
  <2>1. h \in Here /\ h \in Runs /\ run'[h] = run[h]
    BY <1>1, <1>3, GoldenCacheAssumption
  <2>2. CASE UNCHANGED golden
    BY <2>1, <2>2 DEF Warm
  <2>3. CASE run[r].pc \in Priming
    <3>1. r \in Here /\ lock = r
      BY <2>3, GoldenCacheAssumption
         DEF CacheInv, PrimersOnly, HolderOnly, Priming
    <3>2. run[h].pc \notin Critical
      BY <1>3, <2>1, <3>1 DEF CacheInv, HolderOnly
    <3>3. Expected(run[h]) = {}
      BY <3>2 DEF Expected, Critical
    <3> QED
      BY <2>1, <3>3 DEF Warm
  <2> QED
    BY <2>2, <2>3
<1> QED
  BY <1>2, <1>3

LEMMA WarmInit == Init => Warm
BY GoldenCacheAssumption DEF Init, Idle, Warm, Expected

LEMMA WarmStep == CacheInv /\ Warm /\ [Next]_vars => Warm'
<1> SUFFICES ASSUME CacheInv, Warm, [Next]_vars PROVE Warm'
  OBVIOUS
<1> USE DEF At
<1>1. ASSUME NEW r \in Runs, Begin(r) PROVE Warm'
  <2>1. PICK d \in DepsOf[r] :
            Become(r, [Idle EXCEPT !.pc = "lock", !.dep = d])
    BY <1>1 DEF Begin
  <2> DEFINE w == [Idle EXCEPT !.pc = "lock", !.dep = d]
  <2>2. w \in RunType /\ w.pc = "lock"
    BY DEF Idle, RunType, Pcs, Deps
  <2> QED
    BY <1>1, <2>1, <2>2, WarmMove DEF Begin, Expected, dirs
<1>2. ASSUME NEW r \in Runs, Lock(r) PROVE Warm'
  <2> DEFINE w == [run[r] EXCEPT !.pc = "decide"]
  <2>1. w \in RunType /\ w.pc = "decide"
    BY <1>2, RunFields DEF Lock, RunType, Pcs, CacheInv
  <2>2. Become(r, w)
    BY <1>2 DEF Lock, Goto, Failed
  <2> QED
    BY <1>2, <2>1, <2>2, WarmMove DEF Lock, Expected, dirs
<1>3. ASSUME NEW r \in Runs, Decide(r) PROVE Warm'
  <2> DEFINE w == [run[r] EXCEPT !.pc =
                 IF r \in Primers /\ NeedsPrime(r) THEN "prime" ELSE "mount"]
  <2>1. w \in RunType /\ w.pc = IF r \in Primers /\ NeedsPrime(r)
                               THEN "prime" ELSE "mount"
    BY <1>3, RunFields DEF Decide, RunType, Pcs, CacheInv
  <2>2. Become(r, w)
    BY <1>3 DEF Decide, Goto, Failed
  <2>3. r \in Primers => \A p \in Expected(w) : Shows(w, golden'[p])
    BY <1>3, <2>1 DEF Decide, NeedsPrime, Expected, Shows, Priming, Critical, dirs
  <2>4. w.pc # "copy" /\ UNCHANGED golden
    BY <1>3, <2>1 DEF Decide, dirs
  <2> HIDE DEF w
  <2> QED
    BY <2>1, <2>2, <2>3, <2>4, WarmMove
<1>4. ASSUME NEW r \in Runs, Prime(r) PROVE Warm'
  <2> DEFINE w == [run[r] EXCEPT !.pc = "next", !.left = Paths]
  <2>1. w \in RunType /\ w.pc = "next" /\ w.left = Paths
    BY <1>4, RunFields DEF Prime, RunType, Pcs, CacheInv
  <2>2. Become(r, w)
    BY <1>4 DEF Prime, Goto, Failed
  <2> QED
    BY <1>4, <2>1, <2>2, WarmMove DEF Prime, Expected, dirs
<1>5. ASSUME NEW r \in Runs, PrimeFails(r) PROVE Warm'
  <2> DEFINE w == [run[r] EXCEPT !.pc = "mount", !.path = NoPath,
                          !.ok = FALSE]
  <2>1. w \in RunType /\ w.ok = FALSE
    BY <1>5, RunFields DEF PrimeFails, RunType, Pcs, CacheInv
  <2>2. Become(r, w)
    BY <1>5 DEF PrimeFails, Goto, Failed
  <2> QED
    BY <1>5, <2>1, <2>2, WarmMove DEF PrimeFails, Priming, Critical
<1>6. ASSUME NEW r \in Runs, NEW p \in Paths, Harvest(r, p) PROVE Warm'
  <2> DEFINE w == [run[r] EXCEPT !.pc = "copyout", !.path = p,
                          !.left = @ \ {p}]
  <2>1. w \in RunType /\ w.pc = "copyout" /\ w.path = p /\ w.ok = run[r].ok
        /\ w.dep = run[r].dep
        /\ w.left = run[r].left \ {p}
    BY <1>6, RunFields DEF Harvest, RunType, Pcs, CacheInv
  <2>2. Become(r, w)
    BY <1>6 DEF Harvest, Goto, Failed
  <2>3. r \in Primers /\ w.ok => \A q \in Expected(w) : Shows(w, golden'[q])
    BY <1>6, <2>1 DEF Harvest, Warm, Expected, Shows, Priming, Critical
  <2> QED
    BY <1>6, <2>1, <2>2, <2>3, WarmMove DEF Harvest
<1>7. ASSUME NEW r \in Runs, CopyOut(r) PROVE Warm'
  <2> DEFINE w == [run[r] EXCEPT !.pc = "aside"]
  <2>1. w \in RunType /\ w.pc = "aside" /\ w.path = run[r].path /\ w.ok = run[r].ok
        /\ w.dep = run[r].dep
        /\ w.left = run[r].left
    BY <1>7, RunFields DEF CopyOut, RunType, Pcs, CacheInv
  <2>2. Become(r, w)
    BY <1>7 DEF CopyOut, Goto, Failed
  <2>3. r \in Primers /\ w.ok => \A p \in Expected(w) : Shows(w, golden'[p])
    BY <1>7, <2>1 DEF CopyOut, Warm, Expected, Shows, Priming, Critical
  <2> QED
    BY <1>7, <2>1, <2>2, <2>3, WarmMove DEF CopyOut
<1>8. ASSUME NEW r \in Runs, CopyOutFails(r) PROVE Warm'
  <2> DEFINE w == [run[r] EXCEPT !.pc = "next", !.path = NoPath,
                          !.ok = FALSE]
  <2>1. w \in RunType /\ w.ok = FALSE
    BY <1>8, RunFields DEF CopyOutFails, RunType, Pcs, CacheInv
  <2>2. Become(r, w)
    BY <1>8 DEF CopyOutFails, Goto, Failed
  <2> QED
    BY <1>8, <2>1, <2>2, WarmMove DEF CopyOutFails, Priming, Critical
<1>9. ASSUME NEW r \in Runs, Aside(r) PROVE Warm'
  <2> DEFINE w == [run[r] EXCEPT !.pc = "swap"]
  <2>1. w \in RunType /\ w.pc = "swap" /\ w.path = run[r].path /\ w.ok = run[r].ok
        /\ w.dep = run[r].dep
        /\ w.left = run[r].left
    BY <1>9, RunFields DEF Aside, RunType, Pcs, CacheInv
  <2>2. Become(r, w)
    BY <1>9 DEF Aside, Goto, Failed
  <2>3. r \in Primers /\ w.ok => \A p \in Expected(w) : Shows(w, golden'[p])
    BY <1>9, <2>1 DEF Aside, Put, Warm, Expected, Shows, Priming, Critical,
           CacheInv, TypeOK
  <2> QED
    BY <1>9, <2>1, <2>2, <2>3, WarmMove DEF Aside, Priming, Critical
<1>10. ASSUME NEW r \in Runs, AsideFails(r) PROVE Warm'
  <2> DEFINE w == [run[r] EXCEPT !.pc = "next", !.path = NoPath,
                          !.ok = FALSE]
  <2>1. w \in RunType /\ w.ok = FALSE
    BY <1>10, RunFields DEF AsideFails, RunType, Pcs, CacheInv
  <2>2. Become(r, w)
    BY <1>10 DEF AsideFails, Goto, Failed
  <2> QED
    BY <1>10, <2>1, <2>2, WarmMove DEF AsideFails, Priming, Critical
<1>11. ASSUME NEW r \in Runs, Swap(r) PROVE Warm'
  <2> DEFINE w == [run[r] EXCEPT !.pc = "tidy"]
  <2>1. w \in RunType /\ w.pc = "tidy" /\ w.path = run[r].path /\ w.ok = run[r].ok
        /\ w.dep = run[r].dep
        /\ w.left = run[r].left
    BY <1>11, RunFields DEF Swap, RunType, Pcs, CacheInv
  <2>2. Become(r, w)
    BY <1>11 DEF Swap, Goto, Failed
  <2>3. /\ run[r].path \in Paths /\ tmp[run[r].path] = run[r].dep
        /\ run[r].dep # NoDir
    BY <1>11, GoldenCacheAssumption
       DEF Swap, CacheInv, KnowsPath, TmpIsWhole, OwnDeps, OnPath, Critical,
           Deps
  <2>4. r \in Primers /\ w.ok => \A p \in Expected(w) : Shows(w, golden'[p])
    BY <1>11, <2>1, <2>3 DEF Swap, Put, Warm, Expected, Shows, Priming, Critical,
           CacheInv, TypeOK
  <2> QED
    BY <1>11, <2>1, <2>2, <2>4, WarmMove DEF Swap, Priming, Critical
<1>12. ASSUME NEW r \in Runs, SwapFails(r) PROVE Warm'
  <2> DEFINE w == [run[r] EXCEPT !.pc = "next", !.path = NoPath,
                          !.ok = FALSE]
  <2>1. w \in RunType /\ w.ok = FALSE
    BY <1>12, RunFields DEF SwapFails, RunType, Pcs, CacheInv
  <2>2. Become(r, w)
    BY <1>12 DEF SwapFails, Goto, Failed
  <2> QED
    BY <1>12, <2>1, <2>2, WarmMove DEF SwapFails, Priming, Critical
<1>13. ASSUME NEW r \in Runs, Tidy(r) PROVE Warm'
  <2> DEFINE w == [run[r] EXCEPT !.pc = "next", !.path = NoPath]
  <2>1. w \in RunType /\ w.pc = "next" /\ w.ok = run[r].ok
        /\ w.dep = run[r].dep /\ w.left = run[r].left
    BY <1>13, RunFields DEF Tidy, RunType, Pcs, CacheInv
  <2>2. Become(r, w)
    BY <1>13 DEF Tidy, Goto, Failed
  <2>3. r \in Primers /\ w.ok => \A p \in Expected(w) : Shows(w, golden'[p])
    BY <1>13, <2>1 DEF Tidy, Warm, Expected, Shows, Priming, Critical
  <2> QED
    BY <1>13, <2>1, <2>2, <2>3, WarmMove DEF Tidy
<1>14. ASSUME NEW r \in Runs, Harvested(r) PROVE Warm'
  <2> DEFINE w == [run[r] EXCEPT !.pc = "meta"]
  <2>1. w \in RunType /\ w.pc = "meta" /\ w.ok = run[r].ok
        /\ w.dep = run[r].dep /\ w.left = run[r].left
    BY <1>14, RunFields DEF Harvested, RunType, Pcs, CacheInv
  <2>2. Become(r, w)
    BY <1>14 DEF Harvested, Goto, Failed
  <2>3. r \in Primers /\ w.ok => \A p \in Expected(w) : Shows(w, golden'[p])
    BY <1>14, <2>1 DEF Harvested, Warm, Expected, Shows, Priming, Critical, dirs
  <2> QED
    BY <1>14, <2>1, <2>2, <2>3, WarmMove DEF Harvested, dirs
<1>15. ASSUME NEW r \in Runs, WriteMeta(r) PROVE Warm'
  <2> DEFINE w == [run[r] EXCEPT !.pc = "mount"]
  <2>1. w \in RunType /\ w.pc = "mount" /\ w.ok = run[r].ok
        /\ w.dep = run[r].dep
    BY <1>15, RunFields DEF WriteMeta, RunType, Pcs, CacheInv
  <2>2. Become(r, w)
    BY <1>15 DEF WriteMeta, Goto, Failed
  <2>3. r \in Primers /\ w.ok => \A p \in Expected(w) : Shows(w, golden'[p])
    BY <1>15, <2>1 DEF WriteMeta, Warm, Expected, Shows, Priming, Critical, dirs
  <2> QED
    BY <1>15, <2>1, <2>2, <2>3, WarmMove DEF WriteMeta, dirs
<1>16. ASSUME NEW r \in Runs, WriteMetaFails(r) PROVE Warm'
  <2> DEFINE w == [run[r] EXCEPT !.pc = "mount", !.path = NoPath,
                          !.ok = FALSE]
  <2>1. w \in RunType /\ w.ok = FALSE
    BY <1>16, RunFields DEF WriteMetaFails, RunType, Pcs, CacheInv
  <2>2. Become(r, w)
    BY <1>16 DEF WriteMetaFails, Goto, Failed
  <2> QED
    BY <1>16, <2>1, <2>2, WarmMove DEF WriteMetaFails, Priming, Critical
<1>17. ASSUME NEW r \in Runs, Mount(r) PROVE Warm'
  <2> DEFINE w == [run[r] EXCEPT !.pc = "copy", !.dep = NoMeta,
                          !.mounts = {p \in Paths : golden[p] # NoDir}]
  <2>1. w \in RunType /\ w.pc = "copy" /\ w.ok = run[r].ok
        /\ w.mounts = {p \in Paths : golden[p] # NoDir}
    BY <1>17, RunFields DEF Mount, RunType, Pcs, CacheInv
  <2>2. Become(r, w)
    BY <1>17 DEF Mount, Goto, Failed
  <2>3. r \in Primers /\ w.ok => w.mounts = Paths
    BY <1>17, <2>1 DEF Mount, Warm, Expected, Shows
  <2>4. Expected(w) = {}
    BY <2>1 DEF Expected
  <2> QED
    BY <1>17, <2>1, <2>2, <2>3, <2>4, WarmMove DEF Mount, dirs
<1>18. ASSUME NEW r \in Runs, End(r) PROVE Warm'
  <2> DEFINE w == Idle
  <2>1. w \in RunType /\ w.pc = "idle"
    BY DEF Idle, RunType, Pcs
  <2>2. Become(r, w)
    BY <1>18 DEF End, Goto, Failed
  <2> QED
    BY <1>18, <2>1, <2>2, WarmMove DEF End, Expected, dirs
<1>19. CASE Lapse \/ UNCHANGED vars
  BY <1>19 DEF Lapse, vars, dirs, Warm, Expected
<1>20. CASE Crash
  <2>1. Idle.pc = "idle" /\ UNCHANGED golden
        /\ \A r \in Primers : run'[r] = Idle
    BY <1>20, GoldenCacheAssumption DEF Crash, Idle, dirs
  <2> QED
    BY <2>1 DEF Warm, Expected
<1> QED
  BY <1>1, <1>2, <1>3, <1>4, <1>5, <1>6, <1>7, <1>8, <1>9, <1>10, <1>11, <1>12,
     <1>13, <1>14, <1>15, <1>16, <1>17, <1>18, <1>19, <1>20
     DEF Next, PrepareCache

-----------------------------------------------------------------------------
(* What is mounted stays there.                                            *)

\* During a swap the golden directory is absent.
SwapGone == \A h \in Runs : run[h].pc = "swap" => golden[run[h].path] = NoDir

MountInv == SwapGone /\ MountedIsThere /\ OldIsKept

LEMMA MountInit == Init => MountInv
BY DEF Init, Idle, MountInv, SwapGone, MountedIsThere, OldIsKept, At

\* Steps of runs that touch neither golden nor old, and begin no copy or swap.
LEMMA MountQuiet ==
    ASSUME CacheInv, MountInv, NEW r \in Runs, NEW w \in RunType, Become(r, w),
           UNCHANGED <<golden, old, crashes>>,
           run[r].pc # "swap", w.pc \notin {"swap", "copy"}
    PROVE  MountInv'
<1>1. /\ run'[r] = w /\ \A h \in Runs \ {r} : run'[h] = run[h]
  BY Moved DEF CacheInv
<1>2. SwapGone' /\ OldIsKept'
  BY <1>1 DEF MountInv, SwapGone, OldIsKept
<1>3. MountedIsThere'
  BY <1>1 DEF MountInv, MountedIsThere, At
<1> QED
  BY <1>2, <1>3 DEF MountInv

\* Steps of the run that harvests the path q: no other run is near it.
LEMMA MountSwap ==
    ASSUME CacheInv, MountInv, NEW r \in Runs, NEW w \in RunType, Become(r, w),
           run[r].pc \in {"aside", "swap", "tidy"}, UNCHANGED crashes,
           NEW q \in Paths, q = run[r].path,
           \A p \in Paths \ {q} : golden'[p] = golden[p],
           \/ w.pc = "swap" /\ w.path = q /\ golden'[q] = NoDir /\ old'[q] = golden[q]
              /\ run[r].pc = "aside"
           \/ w.pc \in {"tidy", "next"} /\ golden'[q] = golden[q]
              /\ run[r].pc # "swap"
           \/ w.pc \in {"tidy", "next"} /\ golden'[q] \in {old[q], run[r].dep}
              /\ run[r].pc = "swap"
    PROVE  MountInv'
<1>1. /\ run'[r] = w /\ \A h \in Runs \ {r} : run'[h] = run[h]
  BY Moved DEF CacheInv
<1>2. \A h \in Runs \ {r} : run[h].pc \notin Priming
  BY OnePrimer DEF Priming, Critical
<1>3. \A h \in Runs : run'[h].pc = "swap" => h = r /\ w.pc = "swap"
  BY <1>1, <1>2 DEF Priming, Critical
<1>4. \A h \in Runs : run[h].pc = "swap" => h = r
  BY <1>2 DEF Priming, Critical
<1>5. run[r].dep # NoDir
  BY GoldenCacheAssumption DEF CacheInv, OwnDeps, Critical, Deps
<1>6. SwapGone'
  BY <1>1, <1>3 DEF SwapGone
<1>7. ASSUME crashes' = 0, NEW k \in Runs, run'[k].pc = "copy",
             NEW p \in run'[k].mounts
      PROVE  /\ p \in Paths /\ k # r /\ run[k].pc = "copy" /\ p \in run[k].mounts
             /\ golden[p] # NoDir \/ (run[r].pc = "swap" /\ p = q)
  <2>1. k # r
    BY <1>1, <1>7
  <2>2. run'[k] = run[k] /\ p \in Paths
    BY <1>1, <1>7, <2>1, RunFields DEF CacheInv
  <2> QED
    BY <1>4, <1>7, <2>1, <2>2 DEF MountInv, MountedIsThere, At
<1>8. OldIsKept'
  BY <1>1, <1>3, <1>7 DEF OldIsKept
<1>9. MountedIsThere'
  <2> SUFFICES ASSUME crashes' = 0, NEW k \in Runs, run'[k].pc = "copy",
                      NEW p \in run'[k].mounts
               PROVE  \/ golden'[p] # NoDir
                      \/ \E h \in Runs : run'[h].pc = "swap" /\ run'[h].path = p
    BY DEF MountedIsThere, At
  <2>1. CASE p # q
    BY <1>7, <2>1
  <2>2. CASE p = q /\ w.pc = "swap"
    BY <1>1, <2>2
  <2>3. CASE p = q /\ w.pc # "swap" /\ run[r].pc # "swap"
    BY <1>7, <2>3
  <2>4. CASE p = q /\ w.pc # "swap" /\ run[r].pc = "swap"
    BY <1>5, <1>7, <2>4 DEF MountInv, OldIsKept
  <2> QED
    BY <2>1, <2>2, <2>3, <2>4
<1> QED
  BY <1>6, <1>8, <1>9 DEF MountInv

LEMMA MountStep == CacheInv /\ MountInv /\ [Next]_vars => MountInv'
<1> SUFFICES ASSUME CacheInv, MountInv, [Next]_vars PROVE MountInv'
  OBVIOUS
<1>1. ASSUME NEW r \in Runs, Begin(r) PROVE MountInv'
  <2>1. PICK d \in DepsOf[r] :
            Become(r, [Idle EXCEPT !.pc = "lock", !.dep = d])
    BY <1>1 DEF Begin
  <2> DEFINE w == [Idle EXCEPT !.pc = "lock", !.dep = d]
  <2>2. w \in RunType /\ w.pc = "lock"
    BY DEF Idle, RunType, Pcs, Deps
  <2> QED
    BY <1>1, <2>1, <2>2, MountQuiet DEF Begin, At, dirs, env
<1>2. ASSUME NEW r \in Runs, Lock(r) PROVE MountInv'
  <2> DEFINE w == [run[r] EXCEPT !.pc = "decide"]
  <2>1. w \in RunType /\ w.pc = "decide"
    BY <1>2, RunFields DEF Lock, RunType, Pcs, CacheInv
  <2>2. Become(r, w)
    BY <1>2 DEF Lock, Goto, Failed
  <2>3. UNCHANGED <<golden, old, crashes>> /\ run[r].pc # "swap"
    BY <1>2 DEF Lock, At, Fault, dirs, env
  <2> HIDE DEF w
  <2> QED
    BY <2>1, <2>2, <2>3, MountQuiet
<1>3. ASSUME NEW r \in Runs, Decide(r) PROVE MountInv'
  <2> DEFINE w == [run[r] EXCEPT !.pc =
                 IF r \in Primers /\ NeedsPrime(r) THEN "prime" ELSE "mount"]
  <2>1. w \in RunType /\ w.pc \in {"prime", "mount"}
    BY <1>3, RunFields DEF Decide, RunType, Pcs, CacheInv
  <2>2. Become(r, w)
    BY <1>3 DEF Decide, Goto, Failed
  <2>3. UNCHANGED <<golden, old, crashes>> /\ run[r].pc # "swap"
    BY <1>3 DEF Decide, At, Fault, dirs, env
  <2> HIDE DEF w
  <2> QED
    BY <2>1, <2>2, <2>3, MountQuiet
<1>4. ASSUME NEW r \in Runs, Prime(r) PROVE MountInv'
  <2> DEFINE w == [run[r] EXCEPT !.pc = "next", !.left = Paths]
  <2>1. w \in RunType /\ w.pc = "next"
    BY <1>4, RunFields DEF Prime, RunType, Pcs, CacheInv
  <2>2. Become(r, w)
    BY <1>4 DEF Prime, Goto, Failed
  <2>3. UNCHANGED <<golden, old, crashes>> /\ run[r].pc # "swap"
    BY <1>4 DEF Prime, At, Fault, dirs, env
  <2> HIDE DEF w
  <2> QED
    BY <2>1, <2>2, <2>3, MountQuiet
<1>5. ASSUME NEW r \in Runs, PrimeFails(r) PROVE MountInv'
  <2> DEFINE w == [run[r] EXCEPT !.pc = "mount", !.path = NoPath,
                          !.ok = FALSE]
  <2>1. w \in RunType /\ w.pc = "mount"
    BY <1>5, RunFields DEF PrimeFails, RunType, Pcs, CacheInv
  <2>2. Become(r, w)
    BY <1>5 DEF PrimeFails, Goto, Failed
  <2>3. UNCHANGED <<golden, old, crashes>> /\ run[r].pc # "swap"
    BY <1>5 DEF PrimeFails, At, Fault, dirs, env
  <2> HIDE DEF w
  <2> QED
    BY <2>1, <2>2, <2>3, MountQuiet
<1>6. ASSUME NEW r \in Runs, NEW p \in Paths, Harvest(r, p) PROVE MountInv'
  <2> DEFINE w == [run[r] EXCEPT !.pc = "copyout", !.path = p,
                          !.left = @ \ {p}]
  <2>1. w \in RunType /\ w.pc = "copyout"
    BY <1>6, RunFields DEF Harvest, RunType, Pcs, CacheInv
  <2>2. Become(r, w)
    BY <1>6 DEF Harvest, Goto, Failed
  <2>3. UNCHANGED <<golden, old, crashes>> /\ run[r].pc # "swap"
    BY <1>6 DEF Harvest, At, Fault, dirs, env
  <2> HIDE DEF w
  <2> QED
    BY <2>1, <2>2, <2>3, MountQuiet
<1>7. ASSUME NEW r \in Runs, CopyOut(r) PROVE MountInv'
  <2> DEFINE w == [run[r] EXCEPT !.pc = "aside"]
  <2>1. w \in RunType /\ w.pc = "aside"
    BY <1>7, RunFields DEF CopyOut, RunType, Pcs, CacheInv
  <2>2. Become(r, w)
    BY <1>7 DEF CopyOut, Goto, Failed
  <2>3. UNCHANGED <<golden, old, crashes>> /\ run[r].pc # "swap"
    BY <1>7 DEF CopyOut, At, Fault, dirs, env
  <2> HIDE DEF w
  <2> QED
    BY <2>1, <2>2, <2>3, MountQuiet
<1>8. ASSUME NEW r \in Runs, CopyOutFails(r) PROVE MountInv'
  <2> DEFINE w == [run[r] EXCEPT !.pc = "next", !.path = NoPath,
                          !.ok = FALSE]
  <2>1. w \in RunType /\ w.pc = "next"
    BY <1>8, RunFields DEF CopyOutFails, RunType, Pcs, CacheInv
  <2>2. Become(r, w)
    BY <1>8 DEF CopyOutFails, Goto, Failed
  <2>3. UNCHANGED <<golden, old, crashes>> /\ run[r].pc # "swap"
    BY <1>8 DEF CopyOutFails, At, Fault, dirs, env
  <2> HIDE DEF w
  <2> QED
    BY <2>1, <2>2, <2>3, MountQuiet
<1>9. ASSUME NEW r \in Runs, Harvested(r) PROVE MountInv'
  <2> DEFINE w == [run[r] EXCEPT !.pc = "meta"]
  <2>1. w \in RunType /\ w.pc = "meta"
    BY <1>9, RunFields DEF Harvested, RunType, Pcs, CacheInv
  <2>2. Become(r, w)
    BY <1>9 DEF Harvested, Goto, Failed
  <2>3. UNCHANGED <<golden, old, crashes>> /\ run[r].pc # "swap"
    BY <1>9 DEF Harvested, At, Fault, dirs, env
  <2> HIDE DEF w
  <2> QED
    BY <2>1, <2>2, <2>3, MountQuiet
<1>10. ASSUME NEW r \in Runs, WriteMeta(r) PROVE MountInv'
  <2> DEFINE w == [run[r] EXCEPT !.pc = "mount"]
  <2>1. w \in RunType /\ w.pc = "mount"
    BY <1>10, RunFields DEF WriteMeta, RunType, Pcs, CacheInv
  <2>2. Become(r, w)
    BY <1>10 DEF WriteMeta, Goto, Failed
  <2>3. UNCHANGED <<golden, old, crashes>> /\ run[r].pc # "swap"
    BY <1>10 DEF WriteMeta, At, Fault, dirs, env
  <2> HIDE DEF w
  <2> QED
    BY <2>1, <2>2, <2>3, MountQuiet
<1>11. ASSUME NEW r \in Runs, WriteMetaFails(r) PROVE MountInv'
  <2> DEFINE w == [run[r] EXCEPT !.pc = "mount", !.path = NoPath,
                          !.ok = FALSE]
  <2>1. w \in RunType /\ w.pc = "mount"
    BY <1>11, RunFields DEF WriteMetaFails, RunType, Pcs, CacheInv
  <2>2. Become(r, w)
    BY <1>11 DEF WriteMetaFails, Goto, Failed
  <2>3. UNCHANGED <<golden, old, crashes>> /\ run[r].pc # "swap"
    BY <1>11 DEF WriteMetaFails, At, Fault, dirs, env
  <2> HIDE DEF w
  <2> QED
    BY <2>1, <2>2, <2>3, MountQuiet
<1>12. ASSUME NEW r \in Runs, End(r) PROVE MountInv'
  <2> DEFINE w == Idle
  <2>1. w \in RunType /\ w.pc = "idle"
    BY <1>12, RunFields DEF End, Idle, RunType, Pcs, CacheInv
  <2>2. Become(r, w)
    BY <1>12 DEF End, Goto, Failed
  <2>3. UNCHANGED <<golden, old, crashes>> /\ run[r].pc # "swap"
    BY <1>12 DEF End, At, Fault, dirs, env
  <2> HIDE DEF w
  <2> QED
    BY <2>1, <2>2, <2>3, MountQuiet
<1>13. ASSUME NEW r \in Runs, Aside(r) PROVE MountInv'
  <2> DEFINE w == [run[r] EXCEPT !.pc = "swap"]
             q == run[r].path
  <2>1. w \in RunType /\ w.pc = "swap" /\ w.path = q
    BY <1>13, RunFields DEF Aside, RunType, Pcs, CacheInv
  <2>2. q \in Paths
    BY <1>13 DEF Aside, At, CacheInv, KnowsPath, OnPath
  <2>3. Become(r, w)
    BY <1>13 DEF Aside, Goto, Failed
  <2>4. /\ run[r].pc = "aside" /\ UNCHANGED crashes
        /\ \A p \in Paths \ {q} : golden'[p] = golden[p]
    BY <1>13 DEF Aside, At, Put, Fault, env, CacheInv, TypeOK
  <2>5. golden'[q] = NoDir /\ old'[q] = golden[q]
    BY <1>13, <2>2 DEF Aside, At, Put, CacheInv, TypeOK, TmpIsWhole
  <2> HIDE DEF w, q
  <2> QED
    BY <2>1, <2>2, <2>3, <2>4, <2>5, MountSwap DEF q
<1>14. ASSUME NEW r \in Runs, AsideFails(r) PROVE MountInv'
  <2> DEFINE w == [run[r] EXCEPT !.pc = "next", !.path = NoPath,
                          !.ok = FALSE]
             q == run[r].path
  <2>1. w \in RunType /\ w.pc = "next" /\ w.path = NoPath
    BY <1>14, RunFields DEF AsideFails, RunType, Pcs, CacheInv
  <2>2. q \in Paths
    BY <1>14 DEF AsideFails, At, CacheInv, KnowsPath, OnPath
  <2>3. Become(r, w)
    BY <1>14 DEF AsideFails, Goto, Failed
  <2>4. /\ run[r].pc = "aside" /\ UNCHANGED crashes
        /\ \A p \in Paths \ {q} : golden'[p] = golden[p]
    BY <1>14 DEF AsideFails, At, Put, Fault, env, CacheInv, TypeOK
  <2>5. golden'[q] = golden[q]
    BY <1>14, <2>2 DEF AsideFails, At, Put, CacheInv, TypeOK, TmpIsWhole
  <2> HIDE DEF w, q
  <2> QED
    BY <2>1, <2>2, <2>3, <2>4, <2>5, MountSwap DEF q
<1>15. ASSUME NEW r \in Runs, Swap(r) PROVE MountInv'
  <2> DEFINE w == [run[r] EXCEPT !.pc = "tidy"]
             q == run[r].path
  <2>1. w \in RunType /\ w.pc = "tidy" /\ w.path = q
    BY <1>15, RunFields DEF Swap, RunType, Pcs, CacheInv
  <2>2. q \in Paths
    BY <1>15 DEF Swap, At, CacheInv, KnowsPath, OnPath
  <2>3. Become(r, w)
    BY <1>15 DEF Swap, Goto, Failed
  <2>4. /\ run[r].pc = "swap" /\ UNCHANGED crashes
        /\ \A p \in Paths \ {q} : golden'[p] = golden[p]
    BY <1>15 DEF Swap, At, Put, Fault, env, CacheInv, TypeOK
  <2>5. golden'[q] = run[r].dep
    BY <1>15, <2>2 DEF Swap, At, Put, CacheInv, TypeOK, TmpIsWhole
  <2> HIDE DEF w, q
  <2> QED
    BY <2>1, <2>2, <2>3, <2>4, <2>5, MountSwap DEF q
<1>16. ASSUME NEW r \in Runs, SwapFails(r) PROVE MountInv'
  <2> DEFINE w == [run[r] EXCEPT !.pc = "next", !.path = NoPath,
                          !.ok = FALSE]
             q == run[r].path
  <2>1. w \in RunType /\ w.pc = "next" /\ w.path = NoPath
    BY <1>16, RunFields DEF SwapFails, RunType, Pcs, CacheInv
  <2>2. q \in Paths
    BY <1>16 DEF SwapFails, At, CacheInv, KnowsPath, OnPath
  <2>3. Become(r, w)
    BY <1>16 DEF SwapFails, Goto, Failed
  <2>4. /\ run[r].pc = "swap" /\ UNCHANGED crashes
        /\ \A p \in Paths \ {q} : golden'[p] = golden[p]
    BY <1>16 DEF SwapFails, At, Put, Fault, env, CacheInv, TypeOK
  <2>5. golden'[q] = old[q]
    BY <1>16, <2>2 DEF SwapFails, At, Put, CacheInv, TypeOK, TmpIsWhole
  <2> HIDE DEF w, q
  <2> QED
    BY <2>1, <2>2, <2>3, <2>4, <2>5, MountSwap DEF q
<1>17. ASSUME NEW r \in Runs, Tidy(r) PROVE MountInv'
  <2> DEFINE w == [run[r] EXCEPT !.pc = "next", !.path = NoPath]
             q == run[r].path
  <2>1. w \in RunType /\ w.pc = "next" /\ w.path = NoPath
    BY <1>17, RunFields DEF Tidy, RunType, Pcs, CacheInv
  <2>2. q \in Paths
    BY <1>17 DEF Tidy, At, CacheInv, KnowsPath, OnPath
  <2>3. Become(r, w)
    BY <1>17 DEF Tidy, Goto, Failed
  <2>4. /\ run[r].pc = "tidy" /\ UNCHANGED crashes
        /\ \A p \in Paths \ {q} : golden'[p] = golden[p]
    BY <1>17 DEF Tidy, At, Put, Fault, env, CacheInv, TypeOK
  <2>5. golden'[q] = golden[q]
    BY <1>17, <2>2 DEF Tidy, At, Put, CacheInv, TypeOK, TmpIsWhole
  <2> HIDE DEF w, q
  <2> QED
    BY <2>1, <2>2, <2>3, <2>4, <2>5, MountSwap DEF q
<1>18. ASSUME NEW r \in Runs, Mount(r) PROVE MountInv'
  <2> DEFINE w == [run[r] EXCEPT !.pc = "copy", !.dep = NoMeta,
                          !.mounts = {p \in Paths : golden[p] # NoDir}]
  <2>1. /\ w \in RunType /\ w.pc = "copy"
        /\ w.mounts = {p \in Paths : golden[p] # NoDir}
    BY <1>18, RunFields DEF RunType, Pcs, CacheInv
  <2>2. /\ run'[r] = w /\ run[r].pc = "mount"
        /\ \A h \in Runs \ {r} : run'[h] = run[h]
    BY <1>18, <2>1, Moved DEF Mount, At, CacheInv
  <2>3. UNCHANGED <<golden, old, crashes>>
    BY <1>18 DEF Mount, dirs, env
  <2> HIDE DEF w
  <2>4. SwapGone' /\ OldIsKept'
    BY <2>1, <2>2, <2>3 DEF MountInv, SwapGone, OldIsKept
  <2>5. MountedIsThere'
    BY <2>1, <2>2, <2>3 DEF MountInv, MountedIsThere, At
  <2> QED
    BY <2>4, <2>5 DEF MountInv
<1>19. CASE Lapse \/ UNCHANGED vars
  <2>1. UNCHANGED <<golden, old, run, crashes>>
    BY <1>19 DEF Lapse, vars, dirs, env
  <2> QED
    BY <2>1 DEF MountInv, SwapGone, MountedIsThere, OldIsKept, At
<1>20. CASE Crash
  <2>1. crashes' # 0 /\ UNCHANGED golden /\ Idle.pc = "idle"
    BY <1>20 DEF Crash, CacheInv, TypeOK, Idle, dirs
  <2>2. \A r \in Runs : run'[r] = IF r \in Here THEN Idle ELSE run[r]
    BY <1>20 DEF Crash
  <2> QED
    BY <2>1, <2>2 DEF MountInv, SwapGone, MountedIsThere, OldIsKept
<1> QED
  BY <1>1, <1>2, <1>3, <1>4, <1>5, <1>6, <1>7, <1>8, <1>9, <1>10, <1>11, <1>12,
     <1>13, <1>14, <1>15, <1>16, <1>17, <1>18, <1>19, <1>20
     DEF Next, PrepareCache

\* Until a process dies, what a run has mounted is in its place, or another run
\* is between its two renames, or has put back what it moved aside.
THEOREM MountedCorrect == Spec => []MountedIsThere
<1>1. Spec => [](CacheInv /\ MountInv)
  BY InvInit, InvStep, MountInit, MountStep, PTL DEF Spec
<1> QED
  BY <1>1, PTL DEF MountInv

-----------------------------------------------------------------------------
(* What the last prime left, and that it does for a set of lockfiles.      *)

\* While the last prime stands undisturbed, every path is of its lockfiles, nobody
\* is replacing any, whoever decided to prime has other lockfiles, and a branch
\* run about to mount has the same.
SettledInv ==
    settled # NoMeta =>
        /\ meta = settled /\ fresh
        /\ \A p \in Paths : golden[p] = settled
        /\ \A r \in Runs : run[r].pc \in Priming =>
               run[r].pc = "prime" /\ run[r].dep # settled
        /\ \A r \in Primers : run[r].pc = "mount" /\ run[r].ok =>
               run[r].dep = settled

LEMMA SettledQuiet ==
    ASSUME CacheInv, SettledInv, NEW r \in Runs, NEW w \in RunType, Become(r, w),
           UNCHANGED <<golden, meta, fresh, settled>>,
           settled # NoMeta /\ w.pc \in Priming =>
               w.pc = "prime" /\ w.dep # settled,
           settled # NoMeta /\ r \in Primers /\ w.pc = "mount" /\ w.ok =>
               w.dep = settled
    PROVE  SettledInv'
<1>1. /\ run'[r] = w /\ \A h \in Runs \ {r} : run'[h] = run[h]
  BY Moved DEF CacheInv
<1>2. Primers \subseteq Runs
  BY GoldenCacheAssumption
<1> QED
  BY <1>1, <1>2 DEF SettledInv

LEMMA SettledStep == CacheInv /\ Warm /\ SettledInv /\ [Next]_vars => SettledInv'
<1> SUFFICES ASSUME CacheInv, Warm, SettledInv, [Next]_vars PROVE SettledInv'
  OBVIOUS
<1> USE DEF At
<1>1. ASSUME NEW r \in Runs, Begin(r) PROVE SettledInv'
  <2>1. PICK d \in DepsOf[r] :
            Become(r, [Idle EXCEPT !.pc = "lock", !.dep = d])
    BY <1>1 DEF Begin
  <2> DEFINE w == [Idle EXCEPT !.pc = "lock", !.dep = d]
  <2>2. w \in RunType /\ w.pc = "lock"
    BY DEF Idle, RunType, Pcs, Deps
  <2> QED
    BY <1>1, <2>1, <2>2, SettledQuiet DEF Begin, dirs, Priming, Critical
<1>2. ASSUME NEW r \in Runs, Lock(r) PROVE SettledInv'
  <2> DEFINE w == [run[r] EXCEPT !.pc = "decide"]
  <2>1. w \in RunType /\ w.pc = "decide"
    BY RunFields DEF RunType, Pcs, CacheInv
  <2> QED
    BY <1>2, <2>1, SettledQuiet DEF Lock, Goto, dirs, Priming
<1>3. ASSUME NEW r \in Runs, Decide(r) PROVE SettledInv'
  <2> DEFINE prime == r \in Primers /\ NeedsPrime(r)
             w == [run[r] EXCEPT !.pc = IF prime THEN "prime" ELSE "mount"]
  <2>1. /\ w \in RunType /\ w.dep = run[r].dep
        /\ w.pc = IF prime THEN "prime" ELSE "mount"
    BY RunFields DEF RunType, Pcs, CacheInv
  <2>2. Become(r, w) /\ UNCHANGED <<golden, meta, fresh, settled>>
    BY <1>3 DEF Decide, Goto, dirs
  <2>3. settled # NoMeta /\ prime => run[r].dep # settled
    <3>1. settled # NoMeta => settled # NoDir
      BY GoldenCacheAssumption DEF CacheInv, TypeOK
    <3> QED
      BY <3>1 DEF NeedsPrime, SettledInv
  <2>4. settled # NoMeta /\ r \in Primers /\ ~prime => run[r].dep = settled
    BY DEF NeedsPrime, SettledInv
  <2> HIDE DEF w, prime
  <2> QED
    BY <2>1, <2>2, <2>3, <2>4, SettledQuiet DEF Priming
<1>4. ASSUME NEW r \in Runs, PrimeFails(r) PROVE SettledInv'
  <2> DEFINE w == [run[r] EXCEPT !.pc = "mount", !.path = NoPath, !.ok = FALSE]
  <2>1. w \in RunType /\ w.pc = "mount" /\ w.ok = FALSE
    BY RunFields DEF RunType, Pcs, CacheInv
  <2> QED
    BY <1>4, <2>1, SettledQuiet DEF PrimeFails, Failed, dirs, Priming
<1>5. ASSUME NEW r \in Runs, Mount(r) PROVE SettledInv'
  <2> DEFINE w == [run[r] EXCEPT !.pc = "copy", !.dep = NoMeta,
                      !.mounts = {p \in Paths : golden[p] # NoDir}]
  <2>1. w \in RunType /\ w.pc = "copy"
    BY RunFields DEF RunType, Pcs, CacheInv
  <2> QED
    BY <1>5, <2>1, SettledQuiet DEF Mount, dirs, Priming, Critical
<1>6. ASSUME NEW r \in Runs, End(r) PROVE SettledInv'
  <2>1. Idle \in RunType /\ Idle.pc = "idle"
    BY DEF Idle, RunType, Pcs
  <2> QED
    BY <1>6, <2>1, SettledQuiet DEF End, dirs, Priming, Critical
\* A prime unsettles the cache, and nobody replaces a settled one.
<1>7. ASSUME NEW r \in Runs,
             \/ Prime(r) \/ (\E p \in Paths : Harvest(r, p)) \/ CopyOut(r)
             \/ CopyOutFails(r) \/ Aside(r) \/ AsideFails(r) \/ Swap(r)
             \/ SwapFails(r) \/ Tidy(r) \/ Harvested(r) \/ WriteMetaFails(r)
      PROVE  SettledInv'
  <2>1. \/ settled' = NoMeta
        \/ settled' = settled /\ run[r].pc \in Priming \ {"prime"}
    BY <1>7
    DEF Prime, Harvest, CopyOut, CopyOutFails, Aside, AsideFails, Swap, SwapFails,
        Tidy, Harvested, WriteMetaFails, Priming, Critical
  <2> QED
    BY <2>1 DEF SettledInv
<1>8. ASSUME NEW r \in Runs, WriteMeta(r) PROVE SettledInv'
  <2>1. run[r].pc \in Priming /\ r \in Primers
    BY <1>8 DEF WriteMeta, CacheInv, PrimersOnly, Priming, Critical
  <2>2. \A h \in Runs \ {r} : run[h].pc \notin Priming /\ run'[h] = run[h]
    BY <1>8, <2>1, OnePrimer DEF WriteMeta, Goto, Become, CacheInv, TypeOK
  <2>3. run'[r].pc = "mount" /\ run'[r].dep = run[r].dep
    BY <1>8, RunFields DEF WriteMeta, Goto, Become, CacheInv, TypeOK, RunType
  <2>4. run[r].ok => \A p \in Paths : golden[p] = run[r].dep
    BY <1>8, <2>1 DEF WriteMeta, Warm, Expected, Shows
\* The others of this process are outside the lock.
  <2>5. \A h \in Primers \ {r} : run'[h].pc # "mount"
    BY <2>1, <2>2, GoldenCacheAssumption DEF CacheInv, HolderOnly, Priming, Critical
  <2> QED
    BY <1>8, <2>2, <2>3, <2>4, <2>5 DEF WriteMeta, SettledInv, dirs, Priming
<1>9. CASE Lapse \/ UNCHANGED vars
  BY <1>9 DEF Lapse, vars, dirs, SettledInv
<1>10. CASE Crash
  <2>1. ASSUME NEW r \in Runs, run'[r].pc \in Priming PROVE run'[r] = run[r]
    BY <1>10, <2>1 DEF Crash, Idle, Priming, Critical
  <2>2. \A r \in Primers : run'[r].pc = "idle"
    BY <1>10, GoldenCacheAssumption DEF Crash, Idle
  <2> QED
    BY <1>10, <2>1, <2>2 DEF Crash, dirs, SettledInv
<1> QED
  BY <1>1, <1>2, <1>3, <1>4, <1>5, <1>6, <1>7, <1>8, <1>9, <1>10
  DEF Next, PrepareCache

LEMMA SettledInvariant == Spec => [](CacheInv /\ Warm /\ SettledInv)
<1>1. Init => SettledInv
  BY DEF Init, SettledInv
<1> QED
  BY <1>1, InvInit, InvStep, WarmInit, WarmStep, SettledStep, PTL DEF Spec

\* A branch run in which nothing failed mounts every path, whatever crashes and
\* failed harvests of earlier runs left behind, and as long as the last prime is
\* undisturbed, what it mounts was primed for its lockfiles (prepareCache).
THEOREM WarmCorrect == Spec => []BranchRunIsWarm
<1>1. CacheInv /\ Warm /\ SettledInv => BranchRunIsWarm
  BY DEF Warm, SettledInv, BranchRunIsWarm, At
<1> QED
  BY <1>1, SettledInvariant, PTL

\* While nothing disturbs what a prime has left, no run primes again for the same
\* lockfiles: of those that wait for the lock while one primes, each looks once
\* more when it has it (prepareCache, cacheNeedsPrime).
THEOREM OnceCorrect == Spec => PrimedOnce
<1>1. CacheInv /\ SettledInv /\ [Next]_vars
        => [\A r \in Runs : Prime(r) => run[r].dep # settled]_vars
  <2> SUFFICES ASSUME CacheInv, SettledInv, NEW r \in Runs, Prime(r)
               PROVE  run[r].dep # settled
    OBVIOUS
  <2>1. run[r].dep \in Deps /\ NoMeta \notin Deps
    BY GoldenCacheAssumption
    DEF Prime, At, CacheInv, OwnDeps, Critical, Deps
  <2> QED
    BY <2>1 DEF Prime, At, SettledInv, Priming, Critical
<1> QED
  BY <1>1, SettledInvariant, PTL DEF Spec, PrimedOnce

=============================================================================
