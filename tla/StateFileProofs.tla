-------------------------- MODULE StateFileProofs --------------------------
(***************************************************************************)
(* The state file for any branches, commits, run keys and retention, any   *)
(* number of failed saves and crashes, and a clock without bound.  None of *)
(* the promises is inductive alone: what a save may drop from the file is  *)
(* decided when memory is pruned, several steps and possibly several       *)
(* failed saves before, so Follows keeps the times of the file and of the  *)
(* memory in step.                                                         *)
(***************************************************************************)
EXTENDS StateFile, TLAPS

\* No recorded time lies in the future.
Past == /\ now # 0
        /\ \A k \in Keys : mem.seen[k] <= now /\ file.store.seen[k] <= now

\* While a process runs, a commit of the file is in memory with a time no
\* older, or had passed the retention when it was pruned.
Follows ==
    pc # "down" => \A k \in Keys :
        file.store.seen[k] # 0 =>
            \/ file.store.seen[k] <= mem.seen[k]
            \/ mem.seen[k] = 0 /\ file.store.seen[k] + Retention < now

\* What is about to be renamed is the whole of the memory.
TmpIsWhole == pc = "rename" => tmp = Written(mem)

StateFileInv == /\ TypeOK /\ FileIsWhole /\ LastStaysSeen /\ SavedIsDurable
                /\ Past /\ Follows /\ TmpIsWhole

\* The store an operation makes before it is pruned: entries are only added,
\* at the present time, and the last results are among them.
Grows(new) ==
    /\ new \in StoreType
    /\ \A k \in Keys : new.seen[k] \in {mem.seen[k], now}
    /\ \A k \in LastKeys(new.last) : new.seen[k] # 0

-----------------------------------------------------------------------------
(* The operations.                                                         *)

LEMMA KeyInKeys ==
    ASSUME NEW b \in Branches, NEW s \in Shas
    PROVE  Key(b, s) \in Keys
BY DEF Keys

LEMMA LastKeysAreKeys ==
    ASSUME NEW st \in StoreType
    PROVE  LastKeys(st.last) \subseteq Keys
BY KeyInKeys DEF LastKeys, StoreType

LEMMA EmptyIsStore == EmptyStore \in StoreType
BY DEF EmptyStore, StoreType

LEMMA PrunedType ==
    ASSUME NEW new \in StoreType
    PROVE  /\ Pruned(new) \in StoreType
           /\ Pruned(new).last = new.last
           /\ Pruned(new).inFlight = new.inFlight
           /\ \A k \in Keys : Pruned(new).seen[k] =
                                  IF Expired(new, k) THEN 0 ELSE new.seen[k]
BY DEF Pruned, StoreType

LEMMA MarkGrows ==
    ASSUME StateFileInv, NEW b \in Branches, NEW s \in Shas
    PROVE  Grows([mem EXCEPT !.seen[Key(b, s)] = now])
<1> DEFINE new == [mem EXCEPT !.seen[Key(b, s)] = now]
<1>1. new \in StoreType /\ new.last = mem.last
  BY KeyInKeys DEF StateFileInv, TypeOK, StoreType
<1>2. \A k \in Keys : new.seen[k] = IF k = Key(b, s) THEN now ELSE mem.seen[k]
  BY KeyInKeys DEF StateFileInv, TypeOK, StoreType
<1>3. \A k \in LastKeys(new.last) : new.seen[k] # 0
  BY <1>1, <1>2, LastKeysAreKeys DEF StateFileInv, LastStaysSeen, Past
<1> QED
  BY <1>1, <1>2, <1>3 DEF Grows

LEMMA MarkBranchGrows ==
    ASSUME StateFileInv, NEW b \in Branches, NEW t \in Shas, NEW s \in Shas
    PROVE  Grows([mem EXCEPT !.seen = [k \in Keys |->
                     IF k \in {Key(b, t), Key(b, s)} THEN now ELSE @[k]],
                  !.last[b] = s])
<1> DEFINE new == [mem EXCEPT !.seen = [k \in Keys |->
                     IF k \in {Key(b, t), Key(b, s)} THEN now ELSE @[k]],
                  !.last[b] = s]
<1>1. new \in StoreType /\ new.last = [mem.last EXCEPT ![b] = s]
  BY DEF StateFileInv, TypeOK, StoreType
<1>2. \A k \in Keys :
          new.seen[k] = IF k \in {Key(b, t), Key(b, s)} THEN now ELSE mem.seen[k]
  BY DEF StateFileInv, TypeOK, StoreType
<1>3. LastKeys(new.last) \subseteq LastKeys(mem.last) \cup {Key(b, s)}
  BY <1>1 DEF StateFileInv, TypeOK, StoreType, LastKeys
<1>4. \A k \in LastKeys(new.last) : new.seen[k] # 0
  BY <1>1, <1>2, <1>3, LastKeysAreKeys
     DEF StateFileInv, LastStaysSeen, Past
<1> QED
  BY <1>1, <1>2, <1>4 DEF Grows

LEMMA MarkerGrows ==
    ASSUME StateFileInv, NEW k \in Runs, NEW s \in Shas \cup {NoSha}
    PROVE  Grows([mem EXCEPT !.inFlight[k] = s])
<1> DEFINE new == [mem EXCEPT !.inFlight[k] = s]
<1>1. new \in StoreType /\ new.last = mem.last /\ new.seen = mem.seen
  BY DEF StateFileInv, TypeOK, StoreType
<1> QED
  BY <1>1 DEF Grows, StateFileInv, LastStaysSeen

\* Pruning a grown store keeps the last results and what the file may rely on.
LEMMA ChangeKeeps ==
    ASSUME StateFileInv, NEW new, Grows(new), Change(new)
    PROVE  StateFileInv'
<1>1. /\ mem' \in StoreType /\ mem'.last = new.last /\ mem'.inFlight = new.inFlight
      /\ \A k \in Keys : mem'.seen[k] =
                             IF Expired(new, k) THEN 0 ELSE new.seen[k]
  BY PrunedType DEF Change, Grows
<1>2. UNCHANGED <<now, file, tmp, saved>> /\ pc = "idle" /\ pc' = "write"
  BY DEF Change
<1>3. \A k \in Keys : /\ new.seen[k] \in Nat /\ mem.seen[k] \in Nat
                      /\ mem'.seen[k] \in Nat /\ file.store.seen[k] \in Nat
  BY <1>1 DEF Grows, StateFileInv, TypeOK, StoreType, FileType
<1>4. TypeOK' /\ FileIsWhole' /\ SavedIsDurable' /\ TmpIsWhole'
  BY <1>1, <1>2 DEF StateFileInv, TypeOK, FileIsWhole, SavedIsDurable,
     TmpIsWhole
<1>5. \A k \in LastKeys(mem'.last) : mem'.seen[k] # 0
  <2>1. LastKeys(new.last) \subseteq Keys
    BY LastKeysAreKeys DEF Grows
  <2> QED
    BY <1>1, <2>1 DEF Grows, Expired
<1>6. LastStaysSeen'
  BY <1>2, <1>5 DEF StateFileInv, LastStaysSeen
<1>7. Past'
  BY <1>1, <1>2, <1>3 DEF StateFileInv, Past, Grows, TypeOK
<1>8. Follows'
  <2> SUFFICES ASSUME NEW k \in Keys, file.store.seen[k] # 0
               PROVE  \/ file.store.seen[k] <= mem'.seen[k]
                      \/ mem'.seen[k] = 0 /\ file.store.seen[k] + Retention < now
    BY <1>2 DEF Follows
  <2>1. file.store.seen[k] <= now
    BY DEF StateFileInv, Past
  <2>2. \/ file.store.seen[k] <= mem.seen[k]
        \/ mem.seen[k] = 0 /\ file.store.seen[k] + Retention < now
    BY <1>2 DEF StateFileInv, Follows
  <2>3. new.seen[k] \in {mem.seen[k], now}
    BY DEF Grows
  <2>4. Expired(new, k) => new.seen[k] + Retention < now
    BY DEF Expired
  <2> QED
    BY <1>1, <1>3, <2>1, <2>2, <2>3, <2>4, StateFileAssumption
       DEF StateFileAssumption, StateFileInv, TypeOK
<1> QED
  BY <1>4, <1>6, <1>7, <1>8 DEF StateFileInv

-----------------------------------------------------------------------------
(* The invariant.                                                          *)

LEMMA InitInv == Init => StateFileInv
<1> SUFFICES ASSUME Init PROVE StateFileInv
  OBVIOUS
<1>1. file.kind \in {"missing", "legacy"}
  BY DEF Init, Missing, Legacy
<1>2. /\ file.store \in StoreType /\ file.store.last = EmptyStore.last
      /\ file.store.inFlight = EmptyStore.inFlight
      /\ \A k \in Keys : file.store.seen[k] \in {0, 1}
  BY EmptyIsStore DEF Init, Missing, Legacy, EmptyStore, StoreType
<1>3. file \in FileType /\ tmp \in FileType
  <2>1. tmp \in FileType
    BY EmptyIsStore DEF Init, Missing, FileType
  <2>2. CASE file \in Legacy
    <3>1. PICK s \in [Keys -> {0, 1}] : file =
              [kind |-> "legacy", store |-> [EmptyStore EXCEPT !.seen = s]]
      BY <2>2 DEF Legacy
    <3> QED
      BY <1>2, <2>1, <3>1 DEF FileType
  <2> QED
    BY <2>1, <2>2 DEF Init
<1>4. LastKeys(EmptyStore.last) = {}
  BY DEF LastKeys, EmptyStore
<1>5. TypeOK /\ FileIsWhole /\ TmpIsWhole /\ Follows /\ SavedIsDurable
  BY <1>1, <1>3, EmptyIsStore
     DEF Init, TypeOK, FileIsWhole, TmpIsWhole, Follows, SavedIsDurable
<1>6. LastStaysSeen
  BY <1>2, <1>4 DEF Init, LastStaysSeen
<1>7. Past
  BY <1>2 DEF Init, Past, EmptyStore
<1> QED
  BY <1>5, <1>6, <1>7 DEF StateFileInv

LEMMA LoadedStore ==
    ASSUME StateFileInv
    PROVE  /\ Loaded(file) \in StoreType
           /\ Loaded(file).last = file.store.last
           /\ Loaded(file).inFlight = file.store.inFlight
           /\ \A k \in Keys :
                 Loaded(file).seen[k] =
                     IF file.kind = "legacy" /\ file.store.seen[k] # 0 THEN now
                                             ELSE file.store.seen[k]
<1>1. file.store \in StoreType /\ now \in Nat
  BY DEF StateFileInv, TypeOK, FileType
<1> QED
  BY <1>1 DEF Loaded, StoreType

LEMMA InvStep == StateFileInv /\ [Next]_vars => StateFileInv'
<1> SUFFICES ASSUME StateFileInv, [Next]_vars PROVE StateFileInv'
  OBVIOUS
<1> USE DEF StateFileInv
<1>0. /\ now \in Nat /\ Retention \in Nat
      /\ \A k \in Keys : mem.seen[k] \in Nat /\ file.store.seen[k] \in Nat
  BY StateFileAssumption DEF TypeOK, StoreType, FileType, StateFileAssumption
<1>1. CASE LoadStore
  <2>1. /\ mem' \in StoreType /\ mem'.last = file.store.last
        /\ mem'.inFlight = file.store.inFlight
        /\ \A k \in Keys : mem'.seen[k] =
              IF file.kind = "legacy" /\ file.store.seen[k] # 0 THEN now
                                      ELSE file.store.seen[k]
    BY <1>1, LoadedStore DEF LoadStore
  <2>2. UNCHANGED <<now, file, tmp>> /\ pc' = "idle" /\ saved' = TRUE
    BY <1>1 DEF LoadStore
  <2>3. TypeOK' /\ FileIsWhole' /\ TmpIsWhole'
    BY <2>1, <2>2 DEF TypeOK, FileIsWhole, TmpIsWhole
  <2>4. SavedIsDurable' /\ Past' /\ Follows'
    BY <1>0, <2>1, <2>2 DEF SavedIsDurable, Past, Follows
  <2>5. LastStaysSeen'
    <3>1. LastKeys(file.store.last) \subseteq Keys
      BY LastKeysAreKeys DEF TypeOK, FileType
    <3> QED
      BY <2>1, <2>2, <3>1 DEF LastStaysSeen, Past
  <2> QED
    BY <2>3, <2>4, <2>5
<1>2. CASE Crash
  <2>1. mem' = EmptyStore /\ pc' = "down" /\ UNCHANGED <<now, file, tmp>>
    BY <1>2 DEF Crash
  <2>2. LastKeys(EmptyStore.last) = {}
    BY DEF LastKeys, EmptyStore
  <2>3. \A k \in Keys : EmptyStore.seen[k] = 0
    BY DEF EmptyStore
  <2> QED
    BY <1>0, <1>2, <2>1, <2>2, <2>3, EmptyIsStore
       DEF Crash, TypeOK, FileIsWhole, LastStaysSeen, SavedIsDurable, Past,
           Follows, TmpIsWhole
<1>3. CASE Tick
  BY <1>0, <1>3 DEF Tick, TypeOK, FileIsWhole, LastStaysSeen, SavedIsDurable,
     Past, Follows, TmpIsWhole
<1>4. CASE Truncate
  BY <1>4, EmptyIsStore
     DEF Truncate, Torn, FileType, TypeOK, FileIsWhole, LastStaysSeen,
         SavedIsDurable, Past, Follows, TmpIsWhole
<1>5. CASE Fill
  BY <1>5 DEF Fill, Written, FileType, TypeOK, FileIsWhole, LastStaysSeen,
     SavedIsDurable, Past, Follows, TmpIsWhole
<1>6. CASE Rename
  <2>1. file' = Written(mem) /\ file'.store = mem /\ file'.kind = "current"
    BY <1>6 DEF Rename, TmpIsWhole, Written
  <2>2. UNCHANGED <<now, mem>> /\ pc' = "idle" /\ tmp' = Missing
    BY <1>6 DEF Rename
  <2>3. TypeOK'
    BY <1>6, <2>1, <2>2, EmptyIsStore
       DEF Rename, TypeOK, FileType, Missing, Written
  <2> QED
    BY <1>0, <2>1, <2>2, <2>3
       DEF FileIsWhole, LastStaysSeen, SavedIsDurable, Past, Follows, TmpIsWhole
<1>7. CASE SaveFails
  BY <1>7 DEF SaveFails, TypeOK, FileIsWhole, LastStaysSeen, SavedIsDurable,
     Past, Follows, TmpIsWhole
<1>8. ASSUME NEW b \in Branches, NEW s \in Shas, Mark(b, s)
      PROVE  StateFileInv'
  BY <1>8, MarkGrows, ChangeKeeps DEF Mark
<1>9. ASSUME NEW b \in Branches, NEW t \in Shas, NEW s \in Shas,
             MarkBranch(b, t, s)
      PROVE  StateFileInv'
  BY <1>9, MarkBranchGrows, ChangeKeeps DEF MarkBranch
<1>10. ASSUME NEW k \in Runs, NEW s \in Shas, SetInFlight(k, s)
       PROVE  StateFileInv'
  BY <1>10, MarkerGrows, ChangeKeeps DEF SetInFlight
<1>11. ASSUME NEW k \in Runs, ClearInFlight(k)
       PROVE  StateFileInv'
  BY <1>11, MarkerGrows, ChangeKeeps DEF ClearInFlight
<1>12. CASE UNCHANGED vars
  BY <1>12 DEF vars, TypeOK, FileIsWhole, LastStaysSeen, SavedIsDurable, Past,
     Follows, TmpIsWhole
<1> QED
  BY <1>1, <1>2, <1>3, <1>4, <1>5, <1>6, <1>7, <1>8, <1>9, <1>10, <1>11, <1>12
     DEF Next, Save

LEMMA Invariance == Spec => []StateFileInv
BY InitInv, InvStep, PTL DEF Spec

-----------------------------------------------------------------------------
\* StateFile's variables keep their types, so every map of a loaded file is
\* there to be written to, whatever the file held.
THEOREM TypeCorrect == Spec => []TypeOK
<1>1. StateFileInv => TypeOK
  BY DEF StateFileInv
<1> QED
  BY <1>1, Invariance, PTL

\* No failure and no crash at any point of a save leaves a torn state file.
THEOREM FileCorrect == Spec => []FileIsWhole
<1>1. StateFileInv => FileIsWhole
  BY DEF StateFileInv
<1> QED
  BY <1>1, Invariance, PTL

\* The last result of every branch is exempt from pruning for good.
THEOREM LastCorrect == Spec => []LastStaysSeen
<1>1. StateFileInv => LastStaysSeen
  BY DEF StateFileInv
<1> QED
  BY <1>1, Invariance, PTL

\* An operation that reports success has made the whole store durable.
THEOREM SavedCorrect == Spec => []SavedIsDurable
<1>1. StateFileInv => SavedIsDurable
  BY DEF StateFileInv
<1> QED
  BY <1>1, Invariance, PTL

\* Only commits older than the retention ever leave the state file.
THEOREM RetentionCorrect == Spec => OnlyOldIsForgotten
<1> DEFINE Kept == \A k \in Keys :
               file.store.seen[k] # 0 /\ file'.store.seen[k] = 0 =>
                   file.store.seen[k] + Retention < now
<1>1. StateFileInv /\ [Next]_vars => [Kept]_vars
  <2> SUFFICES ASSUME StateFileInv, Next PROVE Kept
    OBVIOUS
  <2>1. CASE Rename
    <3>1. file'.store = mem
      BY <2>1 DEF Rename, StateFileInv, TmpIsWhole, Written
    <3>2. pc # "down"
      BY <2>1 DEF Rename
    <3>3. \A k \in Keys : file.store.seen[k] \in Nat
      BY DEF StateFileInv, TypeOK, FileType, StoreType
    <3> QED
      BY <3>1, <3>2, <3>3 DEF StateFileInv, Follows
  <2>2. CASE ~Rename
    <3>1. UNCHANGED file
      BY <2>2 DEF Next, Save, LoadStore, Crash, Tick, Truncate, Fill, SaveFails,
         Mark, MarkBranch, SetInFlight, ClearInFlight, Change
    <3> QED
      BY <3>1
  <2> QED
    BY <2>1, <2>2
<1> QED
  BY <1>1, Invariance, PTL DEF Spec, OnlyOldIsForgotten

-----------------------------------------------------------------------------
(* The refinement of Durable.                                              *)

LEMMA DigestIs ==
    ASSUME NEW s \in StoreType
    PROVE  Digest(s) = [seen |-> {k \in Keys : s.seen[k] # 0}, last |-> s.last,
                        inFlight |-> s.inFlight]
BY DEF Digest, StoreType

\* Two stores that agree on what is recorded have one digest.
LEMMA SameDigest ==
    ASSUME NEW s \in StoreType, NEW t \in StoreType, s.last = t.last,
           s.inFlight = t.inFlight,
           \A k \in Keys : (s.seen[k] # 0) = (t.seen[k] # 0)
    PROVE  Digest(s) = Digest(t)
<1>1. {k \in Keys : s.seen[k] # 0} = {k \in Keys : t.seen[k] # 0}
  OBVIOUS
<1> QED
  BY <1>1, DigestIs

\* A change and its pruning are a change of the abstract store, that forgets
\* what is pruned.
LEMMA ChangeForgets ==
    ASSUME StateFileInv, NEW new, Grows(new), Change(new), NEW abs,
           abs = Digest(new)
    PROVE  Promise!Forgetting(abs) /\ UNCHANGED <<pc # "down", Digest(file.store)>>
<1> DEFINE old == {k \in Keys : new.seen[k] # 0 /\ Expired(new, k)}
<1>1. mem' = Pruned(new) /\ new \in StoreType /\ mem' \in StoreType
  BY PrunedType DEF Change, Grows
<1>2. abs = [seen |-> {k \in Keys : new.seen[k] # 0}, last |-> new.last,
             inFlight |-> new.inFlight]
  BY <1>1, DigestIs
<1>3. old \in SUBSET (abs.seen \ Promise!LastKeys(abs.last))
  BY <1>2 DEF Expired, LastKeys, Promise!LastKeys, Key, Promise!Key
<1>4. {k \in Keys : mem'.seen[k] # 0} = abs.seen \ old
  BY <1>1, <1>2, PrunedType
<1>5. Digest(mem') = [seen |-> {k \in Keys : mem'.seen[k] # 0},
                      last |-> mem'.last, inFlight |-> mem'.inFlight]
  BY <1>1, DigestIs
<1>6. Digest(mem') = [abs EXCEPT !.seen = @ \ old]
  BY <1>1, <1>2, <1>4, <1>5, PrunedType
<1>7. Digest(mem)' = Digest(mem')
  BY DEF Digest
<1>8. UNCHANGED <<pc # "down", Digest(file.store)>>
  BY DEF Change, Digest
<1> QED
  BY <1>3, <1>6, <1>7, <1>8 DEF Promise!Forgetting

LEMMA InitRefines == Init => Promise!Init
<1> SUFFICES ASSUME Init PROVE Promise!Init
  OBVIOUS
<1>1. StateFileInv
  BY InitInv
<1>2. Digest(mem) = Promise!Nothing
  <2>1. {k \in Keys : EmptyStore.seen[k] # 0} = {}
    BY DEF EmptyStore
  <2> QED
    BY <2>1, EmptyIsStore, DigestIs DEF Init, EmptyStore, Promise!Nothing
<1>3. /\ file.store \in StoreType /\ file.store.last = Promise!Nothing.last
      /\ file.store.inFlight = Promise!Nothing.inFlight
  BY <1>1 DEF Init, Missing, Legacy, EmptyStore, StateFileInv, TypeOK, FileType,
     Promise!Nothing
<1>4. {k \in Keys : file.store.seen[k] # 0}
          \in SUBSET {Promise!Key(b, s) : b \in Branches, s \in Shas}
  BY DEF Keys, Key, Promise!Key
<1>5. Digest(file.store) = [seen |-> {k \in Keys : file.store.seen[k] # 0},
          last |-> file.store.last, inFlight |-> file.store.inFlight]
  BY <1>3, DigestIs
<1> QED
  BY <1>2, <1>3, <1>4, <1>5 DEF Init, Promise!Init

LEMMA StepRefines ==
    StateFileInv /\ [Next]_vars =>
        [Promise!Next]_<<pc # "down", Digest(mem), Digest(file.store)>>
<1> SUFFICES ASSUME StateFileInv, [Next]_vars
             PROVE  \/ Promise!Next
                    \/ UNCHANGED <<pc # "down", Digest(mem), Digest(file.store)>>
  OBVIOUS
<1>0. mem \in StoreType /\ file.store \in StoreType
  BY DEF StateFileInv, TypeOK, FileType
<1>1. CASE LoadStore
  <2>1. mem' \in StoreType /\ Digest(mem') = Digest(file.store)
    <3>1. mem' = Loaded(file) /\ now # 0
      BY <1>1 DEF LoadStore, StateFileInv, Past
    <3> QED
      BY <1>0, <3>1, LoadedStore, SameDigest
  <2>2. Digest(mem)' = Digest(mem') /\ UNCHANGED Digest(file.store)
    BY <1>1 DEF LoadStore, Digest
  <2>3. pc = "down" /\ pc' = "idle"
    BY <1>1 DEF LoadStore
  <2>4. Promise!Start
    BY <2>1, <2>2, <2>3 DEF Promise!Start
  <2> QED
    BY <2>4 DEF Promise!Next
<1>2. CASE Crash
  <2>1. {k \in Keys : EmptyStore.seen[k] # 0} = {}
    BY DEF EmptyStore
  <2>2. Digest(EmptyStore) = Promise!Nothing
    BY <2>1, EmptyIsStore, DigestIs DEF EmptyStore, Promise!Nothing
  <2>3. Digest(mem)' = Digest(EmptyStore) /\ UNCHANGED Digest(file.store)
    BY <1>2 DEF Crash, Digest
  <2>4. pc # "down" /\ pc' = "down"
    BY <1>2 DEF Crash
  <2>5. Promise!Die
    BY <2>2, <2>3, <2>4 DEF Promise!Die
  <2> QED
    BY <2>5 DEF Promise!Next
<1>3. CASE Tick \/ Truncate \/ Fill \/ SaveFails \/ UNCHANGED vars
  BY <1>3 DEF Tick, Truncate, Fill, SaveFails, vars, Digest
<1>4. CASE Rename
  <2>1. file'.store = mem
    BY <1>4 DEF Rename, StateFileInv, TmpIsWhole, Written
  <2>2. Digest(file.store)' = Digest(mem) /\ UNCHANGED Digest(mem)
    BY <1>4, <2>1 DEF Rename, Digest
  <2>3. pc # "down" /\ pc' # "down"
    BY <1>4 DEF Rename
  <2>4. Promise!Persist
    BY <2>2, <2>3 DEF Promise!Persist
  <2> QED
    BY <2>4 DEF Promise!Next
<1>5. ASSUME NEW b \in Branches, NEW s \in Shas, Mark(b, s)
      PROVE  Promise!Next
  <2> DEFINE new == [mem EXCEPT !.seen[Key(b, s)] = now]
             abs == [Digest(mem) EXCEPT !.seen = @ \cup {Promise!Key(b, s)}]
  <2>1. Change(new) /\ Grows(new)
    BY <1>5, MarkGrows DEF Mark
  <2>2. /\ new \in StoreType /\ new.last = mem.last /\ new.inFlight = mem.inFlight
        /\ \A k \in Keys : new.seen[k] = IF k = Key(b, s) THEN now ELSE mem.seen[k]
    BY <1>0, <2>1, KeyInKeys DEF Grows, StoreType
  <2>3. {k \in Keys : new.seen[k] # 0}
            = {k \in Keys : mem.seen[k] # 0} \cup {Promise!Key(b, s)}
    BY <2>2, KeyInKeys DEF StateFileInv, Past, Key, Promise!Key
  <2>4. abs = Digest(new)
    <3>1. Digest(mem) = [seen |-> {k \in Keys : mem.seen[k] # 0},
                         last |-> mem.last, inFlight |-> mem.inFlight]
      BY <1>0, DigestIs
    <3>2. Digest(new) = [seen |-> {k \in Keys : new.seen[k] # 0},
                         last |-> new.last, inFlight |-> new.inFlight]
      BY <2>2, DigestIs
    <3>3. abs = [seen |-> {k \in Keys : mem.seen[k] # 0} \cup {Promise!Key(b, s)},
                 last |-> mem.last, inFlight |-> mem.inFlight]
      BY <3>1
    <3> HIDE DEF new, abs
    <3> QED
      BY <2>2, <2>3, <3>2, <3>3
  <2>5. Promise!Forgetting(abs) /\ UNCHANGED <<pc # "down", Digest(file.store)>>
    BY <2>1, <2>4, ChangeForgets
  <2>6. Promise!Record(b, s) /\ pc # "down"
    BY <2>1, <2>5 DEF Promise!Record, Change
  <2> QED
    BY <2>5, <2>6 DEF Promise!Next, Promise!Change
<1>6. ASSUME NEW b \in Branches, NEW t \in Shas, NEW s \in Shas,
             MarkBranch(b, t, s)
      PROVE  Promise!Next
  <2> DEFINE new == [mem EXCEPT !.seen = [k \in Keys |->
                         IF k \in {Key(b, t), Key(b, s)} THEN now ELSE @[k]],
                     !.last[b] = s]
             abs == [seen |-> Digest(mem).seen
                                  \cup {Promise!Key(b, t), Promise!Key(b, s)},
                     last |-> [Digest(mem).last EXCEPT ![b] = s],
                     inFlight |-> Digest(mem).inFlight]
  <2>1. Change(new) /\ Grows(new)
    BY <1>6, MarkBranchGrows DEF MarkBranch
  <2>2. /\ new \in StoreType /\ new.last = [mem.last EXCEPT ![b] = s]
        /\ new.inFlight = mem.inFlight
        /\ \A k \in Keys : new.seen[k] =
              IF k \in {Key(b, t), Key(b, s)} THEN now ELSE mem.seen[k]
    BY <1>0, <2>1 DEF Grows, StoreType
  <2>3. {k \in Keys : new.seen[k] # 0}
            = {k \in Keys : mem.seen[k] # 0}
                  \cup {Promise!Key(b, t), Promise!Key(b, s)}
    BY <2>2, KeyInKeys DEF StateFileInv, Past, Key, Promise!Key
  <2>4. abs = Digest(new)
    <3>1. Digest(mem) = [seen |-> {k \in Keys : mem.seen[k] # 0},
                         last |-> mem.last, inFlight |-> mem.inFlight]
      BY <1>0, DigestIs
    <3>2. Digest(new) = [seen |-> {k \in Keys : new.seen[k] # 0},
                         last |-> new.last, inFlight |-> new.inFlight]
      BY <2>2, DigestIs
    <3>3. abs = [seen |-> {k \in Keys : mem.seen[k] # 0}
                             \cup {Promise!Key(b, t), Promise!Key(b, s)},
                 last |-> [mem.last EXCEPT ![b] = s], inFlight |-> mem.inFlight]
      BY <3>1
    <3> HIDE DEF new, abs
    <3> QED
      BY <2>2, <2>3, <3>2, <3>3
  <2>5. Promise!Forgetting(abs) /\ UNCHANGED <<pc # "down", Digest(file.store)>>
    BY <2>1, <2>4, ChangeForgets
  <2>6. Promise!RecordResult(b, t, s) /\ pc # "down"
    BY <2>1, <2>5 DEF Promise!RecordResult, Change
  <2> QED
    BY <2>5, <2>6 DEF Promise!Next, Promise!Change
<1>7. ASSUME NEW k \in Runs, NEW s \in Shas \cup {NoSha},
             Change([mem EXCEPT !.inFlight[k] = s])
      PROVE  Promise!Next
  <2> DEFINE new == [mem EXCEPT !.inFlight[k] = s]
             abs == [Digest(mem) EXCEPT !.inFlight[k] = s]
  <2>1. Grows(new)
    BY MarkerGrows
  <2>2. /\ new \in StoreType /\ new.last = mem.last /\ new.seen = mem.seen
        /\ new.inFlight = [mem.inFlight EXCEPT ![k] = s]
    BY <1>0, <2>1 DEF Grows, StoreType
  <2>3. abs = Digest(new)
    <3>1. Digest(mem) = [seen |-> {x \in Keys : mem.seen[x] # 0},
                         last |-> mem.last, inFlight |-> mem.inFlight]
      BY <1>0, DigestIs
    <3>2. Digest(new) = [seen |-> {x \in Keys : new.seen[x] # 0},
                         last |-> new.last, inFlight |-> new.inFlight]
      BY <2>2, DigestIs
    <3>3. abs = [seen |-> {x \in Keys : mem.seen[x] # 0},
                 last |-> mem.last, inFlight |-> [mem.inFlight EXCEPT ![k] = s]]
      BY <3>1
    <3> HIDE DEF new, abs
    <3> QED
      BY <2>2, <3>2, <3>3
  <2>4. Promise!Forgetting(abs) /\ UNCHANGED <<pc # "down", Digest(file.store)>>
    BY <1>7, <2>1, <2>3, ChangeForgets
  <2>5. Promise!SetMarker(k, s) /\ pc # "down"
    BY <1>7, <2>4 DEF Promise!SetMarker, Change
  <2> QED
    BY <2>4, <2>5 DEF Promise!Next, Promise!Change
<1> QED
  BY <1>1, <1>2, <1>3, <1>4, <1>5, <1>6, <1>7
     DEF Next, Save, SetInFlight, ClearInFlight

\* The Store and its file implement the abstract store, for every retention
\* and history: a process dies with its unsaved changes and nothing else.
THEOREM DurableCorrect == Spec => ImplementsDurable
<1>1. StateFileInv /\ [Next]_vars =>
          [Promise!Next]_<<pc # "down", Digest(mem), Digest(file.store)>>
  BY StepRefines
<1> QED
  BY <1>1, InitRefines, Invariance, PTL
     DEF Spec, ImplementsDurable, Promise!Spec

=============================================================================
