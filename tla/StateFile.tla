----------------------------- MODULE StateFile -----------------------------
(***************************************************************************)
(* The persistence layer (state.go): the Store's maps in memory, and the   *)
(* JSON file each change is written to, by way of a temporary file and a   *)
(* rename.  A change prunes the processed commits older than the retention *)
(* first; writing or renaming may fail, the process may die between any    *)
(* two steps, and time passes.  Every operation holds the Store's mutex    *)
(* from end to end, so one is under way at a time.                         *)
(***************************************************************************)
EXTENDS Naturals

CONSTANTS
    Branches, RepoOf, Shas, NoSha,
    Runs,       \* in-flight keys: "owner/name@branch", "owner/name#<pr>"
    Retention,  \* seenRetention
    MaxTime     \* bound on the clock

ASSUME StateFileAssumption ==
    /\ NoSha \notin Shas
    /\ Retention \in Nat /\ MaxTime \in Nat \ {0}

VARIABLES
    now,    \* the clock
    mem,    \* Store: Seen, Last, InFlight
    file,   \* the state file
    tmp,    \* the temporary file beside it
    pc,     \* "down", "idle", or how far save has come
    saved   \* what the last operation returned: nil or an error

vars == <<now, mem, file, tmp, pc, saved>>

Key(b, s) == <<RepoOf[b], s>>
Keys == {Key(b, s) : b \in Branches, s \in Shas}

\* Seen gives each recorded commit its time, and 0 to the others (Has).
StoreType == [seen : [Keys -> Nat], last : [Branches -> Shas \cup {NoSha}],
              inFlight : [Runs -> Shas \cup {NoSha}]]
EmptyStore == [seen |-> [k \in Keys |-> 0], last |-> [b \in Branches |-> NoSha],
               inFlight |-> [k \in Runs |-> NoSha]]

\* A legacy file holds booleans, here 0 and 1, where a current one holds times.
FileType == [kind : {"missing", "torn", "legacy", "current"}, store : StoreType]
Missing == [kind |-> "missing", store |-> EmptyStore]
Torn == [kind |-> "torn", store |-> EmptyStore]
Legacy == [kind : {"legacy"},
           store : {[EmptyStore EXCEPT !.seen = s] : s \in [Keys -> {0, 1}]}]
Written(s) == [kind |-> "current", store |-> s]

TypeOK ==
    /\ now \in Nat
    /\ mem \in StoreType
    /\ file \in FileType
    /\ tmp \in FileType
    /\ pc \in {"down", "idle", "write", "fill", "rename"}
    /\ saved \in BOOLEAN

Init ==
    /\ now = 1
    /\ mem = EmptyStore
    /\ file \in {Missing} \cup Legacy
    /\ tmp = Missing
    /\ pc = "down"
    /\ saved = TRUE

-----------------------------------------------------------------------------
(* Loading, and the clock.                                                 *)

\* Seeded fault: the flags of a legacy file are dropped.
LoadedRaw(f) ==
    IF f.kind # "legacy" THEN f.store ELSE [f.store EXCEPT !.seen = EmptyStore.seen]

\* UnmarshalJSON: the flags of a legacy file become entries recorded now.
Loaded(f) ==
    IF f.kind # "legacy" THEN f.store
    ELSE [f.store EXCEPT !.seen = [k \in Keys |-> IF @[k] # 0 THEN now ELSE 0]]

\* LoadStore.  A file that does not parse ends the process before it polls.
LoadStore ==
    /\ pc = "down" /\ file.kind # "torn"
    /\ mem' = Loaded(file)
    /\ pc' = "idle" /\ saved' = TRUE
    /\ UNCHANGED <<now, file, tmp>>

Crash ==
    /\ pc # "down"
    /\ mem' = EmptyStore /\ pc' = "down" /\ saved' = TRUE
    /\ UNCHANGED <<now, file, tmp>>

Tick == now < MaxTime /\ now' = now + 1 /\ UNCHANGED <<mem, file, tmp, pc, saved>>

-----------------------------------------------------------------------------
(* The operations: each changes the maps, prunes them, and starts to save. *)

LastKeys(last) == {Key(b, last[b]) : b \in {x \in Branches : last[x] # NoSha}}

\* Seeded faults: an off-by-one cutoff; no exemption for last results.
ExpiredEarly(s, k) == s.seen[k] <= now - Retention /\ k \notin LastKeys(s.last)
ExpiredAll(s, k) == s.seen[k] + Retention < now

Expired(s, k) == s.seen[k] + Retention < now /\ k \notin LastKeys(s.last)
Pruned(s) ==
    [s EXCEPT !.seen = [k \in Keys |-> IF Expired(s, k) THEN 0 ELSE @[k]]]

Change(new) ==
    /\ pc = "idle"
    /\ mem' = Pruned(new)
    /\ pc' = "write"
    /\ UNCHANGED <<now, file, tmp, saved>>

Mark(b, s) == Change([mem EXCEPT !.seen[Key(b, s)] = now])
MarkBranch(b, t, s) ==
    Change([mem EXCEPT !.seen = [k \in Keys |->
                           IF k \in {Key(b, t), Key(b, s)} THEN now ELSE @[k]],
                       !.last[b] = s])
SetInFlight(k, s) == Change([mem EXCEPT !.inFlight[k] = s])

\* Seeded fault: the marker is deleted and the maps are not saved.
ClearInMemory(k) ==
    /\ pc = "idle" /\ mem.inFlight[k] # NoSha
    /\ mem' = [mem EXCEPT !.inFlight[k] = NoSha]
    /\ UNCHANGED <<now, file, tmp, pc, saved>>

\* A key with no marker returns at once.
ClearInFlight(k) ==
    /\ mem.inFlight[k] # NoSha
    /\ Change([mem EXCEPT !.inFlight[k] = NoSha])

-----------------------------------------------------------------------------
(* save: os.WriteFile truncates the temporary file and fills it; rename.   *)

Truncate ==
    /\ pc = "write"
    /\ tmp' = Torn
    /\ pc' = "fill"
    /\ UNCHANGED <<now, mem, file, saved>>

Fill ==
    /\ pc = "fill"
    /\ tmp' = Written(mem)
    /\ pc' = "rename"
    /\ UNCHANGED <<now, mem, file, saved>>

\* Seeded fault: what was written is moved into place whether it is whole.
MoveTorn ==
    /\ pc \in {"write", "fill", "rename"}
    /\ file' = tmp /\ tmp' = Missing
    /\ pc' = "idle" /\ saved' = FALSE
    /\ UNCHANGED <<now, mem>>

Rename ==
    /\ pc = "rename"
    /\ file' = tmp /\ tmp' = Missing
    /\ pc' = "idle" /\ saved' = TRUE
    /\ UNCHANGED <<now, mem>>

\* No space, no permission: save returns with the maps changed all the same.
SaveFails ==
    /\ pc \in {"write", "fill", "rename"}
    /\ pc' = "idle" /\ saved' = FALSE
    /\ UNCHANGED <<now, mem, file, tmp>>

Save == Truncate \/ Fill \/ Rename \/ SaveFails

Next ==
    \/ LoadStore \/ Crash \/ Tick \/ Save
    \/ \E b \in Branches, s \in Shas : Mark(b, s)
    \/ \E b \in Branches, t, s \in Shas : MarkBranch(b, t, s)
    \/ \E k \in Runs, s \in Shas : SetInFlight(k, s)
    \/ \E k \in Runs : ClearInFlight(k)

Spec == Init /\ [][Next]_vars

-----------------------------------------------------------------------------
(* What the state file promises.                                           *)

\* save writes "atomically (temp file + rename)": whatever fails or dies, the
\* state file is never the half-written one, which would stop every restart.
FileIsWhole == file.kind # "torn"

\* "Each branch's last-tested SHA is exempt" from pruning: in memory and in
\* the file, the last result of a branch stays recorded as processed however
\* old it is, through saves that fail and processes that die.
LastStaysSeen ==
    \A s \in {mem, file.store} : \A k \in LastKeys(s.last) : s.seen[k] # 0

\* A commit leaves the file only when the time the file gives it is past the
\* retention, also across restarts and saves that failed in between.
OnlyOldIsForgotten ==
    [][\A k \in Keys : file.store.seen[k] # 0 /\ file'.store.seen[k] = 0 =>
                           file.store.seen[k] + Retention < now]_vars

\* After an operation that returned no error, and from the start, a process
\* that dies hands its whole state to the next one: what Load would read says
\* what memory says of every commit, branch and run.
SavedIsDurable ==
    pc = "idle" /\ saved =>
        /\ \A k \in Keys : (mem.seen[k] # 0) = (file.store.seen[k] # 0)
        /\ mem.last = file.store.last /\ mem.inFlight = file.store.inFlight

\* The maps and the file, times dropped, are the abstract store: changes are
\* made durable whole or not at all, and each process starts where the last
\* durable change left the one before, legacy files included.
Digest(s) == [s EXCEPT !.seen = {k \in Keys : s.seen[k] # 0}]
Promise == INSTANCE Durable WITH up <- pc # "down", live <- Digest(mem),
                                 kept <- Digest(file.store)
ImplementsDurable == Promise!Spec

=============================================================================
