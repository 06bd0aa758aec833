--------------------------- MODULE StatusesProofs ---------------------------
(***************************************************************************)
(* Proofs about Statuses: its types, and that a result on GitHub stands,   *)
(* that a marker is cleared only when the contexts are resolved, and that  *)
(* a listing is recent, for any number of contexts, attempts and pages.    *)
(* The invariant says who posts what (CallsFit), what has been read of a   *)
(* history that grows at its front (ListInv), and that the newest status   *)
(* of a context is what its calls and the listing say (ShowInv).           *)
(***************************************************************************)
EXTENDS Statuses, SequenceTheorems, FiniteSetTheorems, WellFoundedInduction,
        TLAPS

-----------------------------------------------------------------------------
(* The newest status of a context.                                         *)

\* A set of subsets of a finite set has a minimal one.
LEMMA MinimalSubset ==
    ASSUME NEW A, IsFiniteSet(A), NEW T, T \subseteq SUBSET A, T # {}
    PROVE  \E s \in T : \A t \in T : t \subseteq s => t = s
<1>1. FiniteSubsetsOf(A) = SUBSET A
  BY FS_FiniteSubsetsOfFinite
<1>2. IsWellFoundedOn(StrictSubsetOrdering(A), SUBSET A)
  BY <1>1, FS_StrictSubsetOrderingWellFounded
<1>3. PICK s \in T : \A t \in T : ~(<<t, s>> \in StrictSubsetOrdering(A))
  BY <1>2, WFMin
<1> QED
  BY <1>3 DEF StrictSubsetOrdering

LEMMA Smallest ==
    ASSUME NEW S, S \subseteq Nat, S # {}
    PROVE  /\ Min(S) \in S
           /\ \A i \in S : Min(S) <= i
<1>1. PICK m \in S : \A i \in S : m <= i
  <2>1. PICK k \in S : TRUE
    BY Zenon
  <2> DEFINE A == 1..k
             T == {1..m : m \in {i \in S : i <= k}}
  <2>2. T \subseteq SUBSET A /\ T # {}
    BY <2>1
  <2>3. IsFiniteSet(A)
    BY <2>1, FS_Interval
  <2>4. PICK s \in T : \A t \in T : t \subseteq s => t = s
    <3> HIDE DEF A, T
    <3> QED
      BY <2>2, <2>3, MinimalSubset
  <2>5. PICK m \in S : m <= k /\ s = 1..m
    BY <2>4
  <2>6. ASSUME NEW i \in S, i < m
        PROVE  FALSE
    <3>1. 1..i \in T
      BY <2>1, <2>5, <2>6
    <3>2. 1..i \subseteq 1..m /\ m \in 1..m /\ m \notin 1..i
      BY <2>6
    <3> QED
      BY <2>4, <2>5, <3>1, <3>2, Zenon
  <2>7. \A i \in S : m <= i
    BY <2>6
  <2> QED
    BY <2>7, Zenon
<1> QED
  BY <1>1, Zenon DEF Min

\* The first entry of a context is its newest status.
LEMMA NewestIs ==
    ASSUME NEW h \in Seq(Status), NEW c
    PROVE  /\ \A i \in 1..Len(h) :
                 h[i].ctx = c /\ (\A j \in 1..(i - 1) : h[j].ctx # c)
                    => Newest(c, h) = h[i].state
           /\ (\A i \in 1..Len(h) : h[i].ctx # c) => Newest(c, h) = "none"
           /\ \/ \A i \in 1..Len(h) : h[i].ctx # c
              \/ \E i \in 1..Len(h) :
                    h[i].ctx = c /\ \A j \in 1..(i - 1) : h[j].ctx # c
<1> DEFINE I == {i \in DOMAIN h : h[i].ctx = c}
<1>1. Len(h) \in Nat /\ DOMAIN h = 1..Len(h)
  BY LenProperties
<1>2. I \subseteq Nat
  BY <1>1
<1>3. Newest(c, h) = IF I = {} THEN "none" ELSE h[Min(I)].state
  BY DEF Newest
<1>4. I = {} <=> \A i \in 1..Len(h) : h[i].ctx # c
  BY <1>1
<1>5. ASSUME I # {}
      PROVE  /\ Min(I) \in 1..Len(h)
             /\ h[Min(I)].ctx = c
             /\ \A j \in 1..Len(h) : h[j].ctx = c => Min(I) <= j
  <2>1. Min(I) \in I /\ \A i \in I : Min(I) <= i
    BY <1>2, <1>5, Smallest
  <2> QED
    BY <1>1, <2>1
<1>6. ASSUME NEW i \in 1..Len(h), h[i].ctx = c,
             \A j \in 1..(i - 1) : h[j].ctx # c
      PROVE  Newest(c, h) = h[i].state
  <2> HIDE DEF I
  <2>1. I # {}
    BY <1>4, <1>6
  <2>2. Min(I) = i
    BY <1>1, <1>5, <1>6, <2>1
  <2> QED
    BY <1>3, <2>1, <2>2
<1>7. ASSUME I # {}
      PROVE  \E i \in 1..Len(h) :
                h[i].ctx = c /\ \A j \in 1..(i - 1) : h[j].ctx # c
  <2> HIDE DEF I
  <2>1. \A j \in 1..(Min(I) - 1) : h[j].ctx # c
    BY <1>1, <1>5, <1>7
  <2> QED
    BY <1>5, <1>7, <2>1
<1> QED
  BY <1>3, <1>4, <1>6, <1>7

LEMMA NewestAt ==
    ASSUME NEW h \in Seq(Status), NEW c, NEW i \in 1..Len(h), h[i].ctx = c,
           \A j \in 1..(i - 1) : h[j].ctx # c
    PROVE  Newest(c, h) = h[i].state
BY NewestIs

LEMMA NewestNone ==
    ASSUME NEW h \in Seq(Status), NEW c, \A i \in 1..Len(h) : h[i].ctx # c
    PROVE  Newest(c, h) = "none"
BY NewestIs, Zenon

LEMMA NewestSome ==
    ASSUME NEW h \in Seq(Status), NEW c, \E i \in 1..Len(h) : h[i].ctx = c
    PROVE  \E i \in 1..Len(h) : /\ h[i].ctx = c
                                /\ \A j \in 1..(i - 1) : h[j].ctx # c
                                /\ Newest(c, h) = h[i].state
<1>1. PICK i \in 1..Len(h) : h[i].ctx = c /\ \A j \in 1..(i - 1) : h[j].ctx # c
  BY NewestIs
<1>2. Newest(c, h) = h[i].state
  BY <1>1, NewestAt
<1> QED
  BY <1>1, <1>2

\* A status is pushed in front of a history.
LEMMA Pushed ==
    ASSUME NEW S, NEW h \in Seq(S), NEW e \in S
    PROVE  /\ <<e>> \o h \in Seq(S)
           /\ Len(<<e>> \o h) = Len(h) + 1
           /\ (<<e>> \o h)[1] = e
           /\ \A i \in 1..Len(h) : (<<e>> \o h)[i + 1] = h[i]
<1>1. <<e>> \in Seq(S) /\ Len(<<e>>) = 1 /\ <<e>>[1] = e
  OBVIOUS
<1>2. Len(h) \in Nat
  BY LenProperties
<1>3. \A i \in 1..(Len(h) + 1) :
         (<<e>> \o h)[i] = IF i <= 1 THEN <<e>>[i] ELSE h[i - 1]
  BY <1>1, <1>2, ConcatProperties
<1> QED
  BY <1>1, <1>2, <1>3, ConcatProperties

LEMMA NewestPushed ==
    ASSUME NEW h \in Seq(Status), NEW e \in Status, NEW c
    PROVE  Newest(c, <<e>> \o h) = IF e.ctx = c THEN e.state ELSE Newest(c, h)
<1> DEFINE g == <<e>> \o h
<1>1. /\ g \in Seq(Status) /\ Len(h) \in Nat /\ Len(g) = Len(h) + 1 /\ g[1] = e
      /\ \A i \in 1..Len(h) : g[i + 1] = h[i]
  BY Pushed, LenProperties
<1> SUFFICES Newest(c, g) = IF e.ctx = c THEN e.state ELSE Newest(c, h)
  OBVIOUS
<1> HIDE DEF g
<1>2. CASE e.ctx = c
  <2>1. 1 \in 1..Len(g) /\ \A j \in 1..(1 - 1) : g[j].ctx # c
    BY <1>1
  <2>2. Newest(c, g) = g[1].state
    BY <1>1, <1>2, <2>1, NewestAt
  <2> QED
    BY <1>1, <1>2, <2>2
<1>3. CASE e.ctx # c /\ \A i \in 1..Len(h) : h[i].ctx # c
  <2>1. \A i \in 1..Len(g) : g[i].ctx # c
    <3>1. \A i \in 1..Len(g) : i = 1 \/ (i - 1 \in 1..Len(h) /\ g[i] = h[i - 1])
      BY <1>1
    <3> QED
      BY <1>1, <1>3, <3>1
  <2>2. Newest(c, g) = "none" /\ Newest(c, h) = "none"
    BY <1>1, <1>3, <2>1, NewestNone
  <2> QED
    BY <1>3, <2>2
<1>4. CASE e.ctx # c /\ \E i \in 1..Len(h) : h[i].ctx = c
  <2>1. PICK i \in 1..Len(h) : /\ h[i].ctx = c
                               /\ \A j \in 1..(i - 1) : h[j].ctx # c
                               /\ Newest(c, h) = h[i].state
    BY <1>4, NewestSome
  <2>2. i + 1 \in 1..Len(g) /\ g[i + 1] = h[i]
    BY <1>1
  <2>3. \A j \in 1..((i + 1) - 1) : g[j].ctx # c
    <3>1. \A j \in 1..((i + 1) - 1) : j = 1 \/ (j - 1 \in 1..(i - 1) /\ g[j] = h[j - 1])
      BY <1>1
    <3> QED
      BY <1>1, <1>4, <2>1, <3>1
  <2>4. Newest(c, g) = g[i + 1].state
    BY <1>1, <2>1, <2>2, <2>3, NewestAt
  <2> QED
    BY <1>4, <2>1, <2>2, <2>4
<1> QED
  BY <1>2, <1>3, <1>4

\* The newest status is one of the history, if there is one.
LEMMA NewestType ==
    ASSUME NEW h \in Seq(Status), NEW c
    PROVE  /\ Newest(c, h) \in Posted \cup {"none"}
           /\ Newest(c, h) = "none" => \A i \in 1..Len(h) : h[i].ctx # c
<1>1. ASSUME NEW i \in 1..Len(h) PROVE h[i].state \in Posted
  <2>1. h[i] \in Status
    BY ElementOfSeq
  <2> QED
    BY <2>1 DEF Status
<1>2. "none" \notin Posted
  BY DEF Posted
<1> QED
  BY <1>1, <1>2, NewestNone, NewestSome

\* A part of a history.
LEMMA Part ==
    ASSUME NEW h \in Seq(Status), NEW m \in Nat \ {0}, NEW n \in Nat, n <= Len(h)
    PROVE  /\ SubSeq(h, m, n) \in Seq(Status)
           /\ Len(SubSeq(h, m, n)) = IF m <= n THEN n - m + 1 ELSE 0
           /\ \A i \in 1..(n - m + 1) : SubSeq(h, m, n)[i] = h[m + i - 1]
<1>1. \A i \in m..n : h[i] \in Status
  BY ElementOfSeq, LenProperties
<1> QED
  BY <1>1, SubSeqProperties

\* What was the history with n entries still is.
LEMMA AfterPushed ==
    ASSUME history \in Seq(Status), NEW e \in Status, history' = <<e>> \o history,
           NEW n \in 0..Len(history)
    PROVE  After(n)' = After(n)
<1> DEFINE h == history
           g == history'
           k == Len(h)
<1>1. /\ g \in Seq(Status) /\ k \in Nat /\ Len(g) = k + 1
      /\ \A i \in 1..k : g[i + 1] = h[i]
  BY Pushed, LenProperties
<1>2. /\ SubSeq(h, k - n + 1, k) \in Seq(Status)
      /\ Len(SubSeq(h, k - n + 1, k)) = n
      /\ \A i \in 1..n : SubSeq(h, k - n + 1, k)[i] = h[k - n + i]
  BY <1>1, Part
<1>3. /\ SubSeq(g, k - n + 2, k + 1) \in Seq(Status)
      /\ Len(SubSeq(g, k - n + 2, k + 1)) = n
      /\ \A i \in 1..n : SubSeq(g, k - n + 2, k + 1)[i] = g[k - n + i + 1]
  BY <1>1, Part
<1>4. SubSeq(g, k - n + 2, k + 1) = SubSeq(h, k - n + 1, k)
  <2>1. /\ SubSeq(g, k - n + 2, k + 1) \in [1..n -> Status]
        /\ SubSeq(h, k - n + 1, k) \in [1..n -> Status]
    BY <1>2, <1>3, LenProperties
  <2>2. \A i \in 1..n : SubSeq(g, k - n + 2, k + 1)[i] = SubSeq(h, k - n + 1, k)[i]
    BY <1>1, <1>2, <1>3
  <2> QED
    BY <2>1, <2>2
<1>5. Len(g) - n + 1 = k - n + 2
  BY <1>1
<1> QED
  BY <1>1, <1>4, <1>5 DEF After

-----------------------------------------------------------------------------
(* The page that is asked for.                                             *)

\* The entries on the pages before it.
Before == (page - 1) * PageSize

LEMMA Sizes ==
    ASSUME page \in 1..MaxPages
    PROVE  /\ PageSize \in Nat \ {0} /\ MaxPages \in Nat \ {0} /\ page \in Nat
           /\ Before \in Nat /\ page * PageSize = Before + PageSize
           /\ page = 1 => Before = 0
           /\ page = MaxPages => Before + PageSize = MaxPages * PageSize
<1>1. PageSize \in Nat \ {0} /\ MaxPages \in Nat \ {0} /\ page \in Nat /\ page >= 1
  BY StatusesAssumption
<1>2. \A m, n \in Nat : m * n \in Nat
  OBVIOUS
<1>3. \A m, n \in Nat : m >= 1 => m * n = (m - 1) * n + n
  OBVIOUS
<1>4. \A n \in Nat : 0 * n = 0
  OBVIOUS
<1>5. page - 1 \in Nat
  BY <1>1
<1>6. page = 1 => page - 1 = 0
  OBVIOUS
<1> QED
  BY <1>1, <1>2, <1>3, <1>4, <1>5, <1>6 DEF Before

LEMMA PageIs ==
    ASSUME page \in 1..MaxPages, history \in Seq(Status)
    PROVE  /\ Page \in Seq(Status)
           /\ Len(Page) \in 0..PageSize
           /\ \A i \in 1..Len(Page) :
                 Before + i \in 1..Len(history) /\ Page[i] = history[Before + i]
           /\ \A i \in 1..Len(history) :
                 Before < i /\ i <= Before + PageSize => i - Before \in 1..Len(Page)
           /\ Len(Page) < PageSize => Len(history) < Before + PageSize
<1> DEFINE k == Len(history)
           b == Min2(page * PageSize, k)
<1>1. PageSize \in Nat \ {0} /\ Before \in Nat /\ page * PageSize = Before + PageSize
  BY Sizes
<1>2. k \in Nat
  BY LenProperties
<1>3. /\ b \in Nat /\ b <= k /\ b <= Before + PageSize
      /\ b = k \/ b = Before + PageSize
  BY <1>1, <1>2 DEF Min2
<1>4. Page = SubSeq(history, Before + 1, b)
  BY DEF Page, Before
<1> HIDE DEF b
<1>5. /\ Page \in Seq(Status)
      /\ Len(Page) = IF Before + 1 <= b THEN b - (Before + 1) + 1 ELSE 0
      /\ \A i \in 1..(b - (Before + 1) + 1) : Page[i] = history[(Before + 1) + i - 1]
  BY <1>1, <1>3, <1>4, Part
<1>6. \A i \in Nat : (Before + 1) + i - 1 = Before + i
  BY <1>1
<1>7. Len(Page) = IF Before <= b THEN b - Before ELSE 0
  BY <1>1, <1>3, <1>5
<1>8. \A i \in 1..Len(Page) : Page[i] = history[Before + i]
  BY <1>1, <1>3, <1>5, <1>6
<1> QED
  BY <1>1, <1>2, <1>3, <1>5, <1>7, <1>8

LEMMA MergeIs ==
    ASSUME TypeOK
    PROVE  Merge(Page) \in [Contexts -> Posted \cup {"none"}]
<1>1. \A c \in Contexts : Newest(c, Page) \in Posted \cup {"none"}
  BY PageIs, NewestType DEF TypeOK
<1> QED
  BY <1>1 DEF Merge, TypeOK

-----------------------------------------------------------------------------
(* Types.                                                                  *)

LEMMA CallIs ==
    ASSUME NEW x \in Calls
    PROVE  \/ x = Free /\ x.pc = "free"
           \/ /\ x # Free /\ x.pc \in {"sent", "applied"}
              /\ x.status \in Status /\ x.attempt \in 1..Attempts
              /\ x.status.ctx \in Contexts /\ x.status.state \in Posted
BY DEF Calls, Free, Status

LEMMA RetryType ==
    ASSUME TypeOK, NEW t \in Own, call[t].pc # "free", Retry(t)
    PROVE  call' \in [Own -> Calls]
<1>1. /\ call \in [Own -> Calls] /\ Attempts \in Nat
      /\ call[t] \in [pc : {"sent", "applied"}, status : Status, attempt : 1..Attempts]
  BY StatusesAssumption DEF TypeOK, Calls, Free
<1>2. call[t].attempt # Attempts => call[t].attempt + 1 \in 1..Attempts
  BY <1>1
<1> QED
  BY <1>1, <1>2 DEF Retry, Calls

LEMMA SetStatusType ==
    ASSUME TypeOK, NEW t \in Own, NEW c \in Contexts, NEW s \in Posted,
           SetStatus(t, c, s)
    PROVE  call' \in [Own -> Calls]
<1>1. 1 \in 1..Attempts
  BY StatusesAssumption
<1> QED
  BY <1>1 DEF SetStatus, TypeOK, Calls, Status

LEMMA TypeInit == Init => TypeOK
<1>1. 1 \in 1..MaxPages
  BY StatusesAssumption
<1> QED
  BY <1>1 DEF Init, TypeOK, Calls, Contexts, Unlisted

LEMMA PostType ==
    ASSUME TypeOK, NEW t \in Own, Post(t)
    PROVE  TypeOK'
<1>1. CASE Apply(t)
  <2>1. call[t].status \in Status /\ call[t].pc = "sent"
    BY <1>1, CallIs DEF Apply, TypeOK
  <2>2. history' \in Seq(Status)
    BY <1>1, <2>1, Pushed DEF Apply, TypeOK
  <2>3. call' \in [Own -> Calls]
    BY <1>1, <2>1 DEF Apply, TypeOK, Calls, Free
  <2> QED
    BY <1>1, <2>2, <2>3 DEF Apply, TypeOK, main, listing, env
<1>2. CASE Created(t)
  BY <1>2 DEF Created, TypeOK, Calls, github, main, listing, env
<1>3. CASE Refused(t)
  <2>1. call' \in [Own -> Calls]
    BY <1>3, RetryType DEF Refused
  <2> QED
    BY <1>3, <2>1 DEF Refused, Fault, TypeOK, github, main, listing
<1>4. CASE Lost(t)
  <2>1. call' \in [Own -> Calls]
    BY <1>4, RetryType DEF Lost
  <2>2. call[t].status \in Status
    BY <1>4, CallIs DEF Lost, TypeOK
  <2> QED
    BY <1>4, <2>1, <2>2 DEF Lost, Fault, TypeOK, main, listing
<1>5. CASE Denied(t)
  BY <1>5 DEF Denied, TypeOK, Calls, github, main, listing
<1>6. CASE Elapsed(t)
  <2>1. call[t].status \in Status
    BY <1>6, CallIs DEF Elapsed, TypeOK
  <2> QED
    BY <1>6, <2>1 DEF Elapsed, TypeOK, Calls, main, listing
<1> QED
  BY <1>1, <1>2, <1>3, <1>4, <1>5, <1>6 DEF Post

LEMMA RunType ==
    ASSUME TypeOK, Run
    PROVE  TypeOK'
<1>0. /\ Ci \in Own /\ Units \subseteq Own /\ Own \subseteq Contexts
      /\ {"pending", "verdict", "error"} = Posted
  BY DEF Own, Contexts, Posted
<1>1. CASE Queue
  <2>1. call' \in [Own -> Calls]
    BY <1>0, <1>1, SetStatusType DEF Queue, TypeOK
  <2> QED
    BY <1>1, <2>1 DEF Queue, TypeOK, github, listing, env
<1>2. CASE StartUnits
  BY <1>0, <1>2 DEF StartUnits, TypeOK, github, listing, env
<1>3. ASSUME NEW u \in Units, UnitEnds(u)
      PROVE  TypeOK'
  <2>1. call' \in [Own -> Calls]
    BY <1>0, <1>3, SetStatusType DEF UnitEnds
  <2> QED
    BY <1>3, <2>1 DEF UnitEnds, TypeOK, github, listing, env
<1>4. CASE Rollup
  <2>1. call' \in [Own -> Calls]
    BY <1>0, <1>4, SetStatusType DEF Rollup
  <2> QED
    BY <1>4, <2>1 DEF Rollup, TypeOK, github, listing, env
<1>5. CASE Cut
  BY <1>0, <1>5 DEF Cut, TypeOK, github, listing, env
<1>6. CASE Resolve
  <2>1. call' \in [Own -> Calls]
    BY <1>0, <1>6, SetStatusType DEF Resolve, TypeOK
  <2> QED
    BY <1>6, <2>1 DEF Resolve, TypeOK, github, listing, env
<1>7. CASE Clear
  BY <1>7 DEF Clear, TypeOK, github, listing, env
<1> QED
  BY <1>1, <1>2, <1>3, <1>4, <1>5, <1>6, <1>7 DEF Run

LEMMA ReconcileType ==
    ASSUME TypeOK, Reconcile
    PROVE  TypeOK'
<1>0. 1 \in 1..MaxPages /\ MaxPages \in Nat /\ page \in 1..MaxPages
  BY StatusesAssumption DEF TypeOK
<1>1. CASE Restart
  BY <1>1 DEF Restart, TypeOK, github, listing, env
<1>2. CASE NextPage
  <2>1. page + 1 \in 1..MaxPages
    BY <1>0, <1>2 DEF NextPage
  <2>2. Began \in Nat
    BY LenProperties DEF Began, TypeOK
  <2> QED
    BY <1>2, <2>1, <2>2, MergeIs DEF NextPage, TypeOK, main, github, env
<1>3. CASE LastPage
  BY <1>0, <1>3 DEF LastPage, Listed, Unlisted, TypeOK, github, env
<1>4. CASE ListFails
  BY <1>0, <1>4 DEF ListFails, Fault, Unlisted, TypeOK, github
<1> QED
  BY <1>1, <1>2, <1>3, <1>4 DEF Reconcile

LEMMA CrashType ==
    ASSUME TypeOK, Crash
    PROVE  TypeOK'
<1>1. 1 \in 1..MaxPages
  BY StatusesAssumption
<1>2. \A t \in Own : call[t].pc = "sent" => call[t].status \in Status
  BY CallIs DEF TypeOK
<1> QED
  BY <1>1, <1>2 DEF Crash, Unlisted, Calls, TypeOK

LEMMA OthersType ==
    ASSUME TypeOK,
           \/ \E e \in late : ApplyLate(e)
           \/ \E c \in Foreign, s \in {"pending", "verdict"} : ForeignPost(c, s)
    PROVE  TypeOK'
<1>1. ASSUME NEW e \in late, ApplyLate(e)
      PROVE  TypeOK'
  <2>1. e \in Status /\ e.ctx \in Contexts
    BY DEF TypeOK, Status
  <2>2. history' \in Seq(Status)
    BY <1>1, <2>1, Pushed DEF ApplyLate, TypeOK
  <2> QED
    BY <1>1, <2>1, <2>2 DEF ApplyLate, TypeOK, main, listing, env
<1>2. ASSUME NEW c \in Foreign, NEW s \in {"pending", "verdict"}, ForeignPost(c, s)
      PROVE  TypeOK'
  <2>1. [ctx |-> c, state |-> s] \in Status
    BY DEF Status, Contexts, Posted
  <2>2. history' \in Seq(Status)
    BY <1>2, <2>1, Pushed DEF ForeignPost, TypeOK
  <2> QED
    BY <1>2, <2>2 DEF ForeignPost, TypeOK, main, listing
<1> QED
  BY <1>1, <1>2

LEMMA TypeStep == TypeOK /\ [Next]_vars => TypeOK'
<1>1. TypeOK /\ UNCHANGED vars => TypeOK'
  BY DEF vars, TypeOK
<1> QED
  BY <1>1, RunType, ReconcileType, CrashType, PostType, OthersType DEF Next

\* Every reachable state has the declared types: in particular, no more than
\* MaxPages pages are ever read.
THEOREM TypeCorrect == Spec => []TypeOK
BY TypeInit, TypeStep, PTL DEF Spec

-----------------------------------------------------------------------------
(* The inductive invariant.                                                *)

Final == {"verdict", "error"}

\* Goroutine t posts on context c.
Posts(t, c) == call[t] # Free /\ call[t].status.ctx = c

\* No call was beaten by failures.
Smooth == faults < Attempts /\ denials = 0

\* The entries that a listing may read.
Reach == MaxPages * PageSize

\* Who posts what, and that no more attempts were made than failed, but for one.
CallFits(t) ==
    call[t] # Free =>
        LET s == call[t].status IN
        /\ phase \in {"queue", "gate", "resolve"} /\ s.ctx \notin todo
        /\ call[t].attempt <= faults + 1
        /\ phase = "queue" => t = Ci /\ s.state = "pending"
        /\ phase = "gate" => t \in Units /\ s.ctx = t /\ s.state = "verdict"
        /\ phase = "resolve" => t = Ci /\ s.state \in Final

CallsFit == /\ \A t \in Own : CallFits(t)
            /\ phase = "queue" => todo \subseteq Own
            /\ phase = "gate" => todo \subseteq Units

\* What has been read of a history that grows at its front: every entry of the
\* pages before this one, unless it is new, has its context listed.
ListInv ==
    /\ since <= Len(history)
    /\ phase # "list" => page = 1
    /\ page = 1 => out = Unlisted
    /\ \A i \in 1..Len(history) :
          i <= Before /\ i > Len(history) - since => out[history[i].ctx] # "none"
    /\ page > 1 =>
          \A c \in Contexts : out[c] # "none" =>
              \E n \in since..Len(history) : Newest(c, After(n)) = out[c]

\* Context c still waits for a result.
Open(c) == \/ phase = "queue"
           \/ phase = "gate" /\ c \in todo \cup {Ci}
           \/ phase = "resolve" /\ c \in todo

\* What the newest status of context c has to do with the calls that post it,
\* with where the run stands, and with what is listed.
Told(c) ==
    LET n == Newest(c, history) IN
    \A t \in Own : Posts(t, c) /\ (n \in Final \/ call[t].pc = "applied")
                      => n = call[t].status.state
Waits(c) == Open(c) => Newest(c, history) \notin Final
Ended(c) ==
    Smooth /\ phase = "gate" /\ c \in Units \ todo /\ call[c] = Free
        => Newest(c, history) # "pending"
Resolved(c) ==
    Smooth /\ Len(history) <= Reach /\ phase = "resolve" /\ c \notin todo
        => Posts(Ci, c) \/ Newest(c, history) # "pending"
Read(c) ==
    phase = "list" =>
        /\ out[c] # "none" => out[c] = Newest(c, history)
        /\ page > 1 => \A i \in 1..(Len(history) - since) : history[i].ctx # c

\* GitHub shows what was posted, unless it applied a request late.
Shows(c) == Told(c) /\ Waits(c) /\ Ended(c) /\ Resolved(c) /\ Read(c)
ShowInv == \A c \in Own \ overtaken : Shows(c)

StatusesInv == TypeOK /\ CallsFit /\ ListInv /\ ShowInv

-----------------------------------------------------------------------------
(* Requests.                                                               *)

\* A request is applied, or the call goes on or ends without that.
LEMMA PostIs ==
    ASSUME TypeOK, CallsFit, NEW t \in Own, Post(t)
    PROVE  /\ call[t] # Free /\ \A u \in Own \ {t} : call'[u] = call[u]
           /\ UNCHANGED <<phase, todo, marker, page, out, since>>
           /\ faults <= faults' /\ denials <= denials'
           /\ call'[t] # Free => /\ call'[t].status = call[t].status
                                 /\ call'[t].attempt <= faults' + 1
           /\ \/ /\ history' = <<call[t].status>> \o history
                 /\ overtaken' = overtaken \ {call[t].status.ctx}
                 /\ call'[t] # Free
              \/ /\ UNCHANGED <<history, overtaken>>
                 /\ call'[t] = Free => call[t].pc = "applied" \/ ~Smooth'
                 /\ call'[t] # Free => call'[t].pc = "sent"
<1>0. /\ call \in [Own -> Calls] /\ {faults, denials, Attempts} \subseteq Nat
      /\ call[t] # Free => call[t].attempt <= faults + 1
  BY StatusesAssumption DEF TypeOK, CallsFit, CallFits
<1>1. /\ call[t].pc # "free" => call[t] # Free
      /\ call[t] = Free => call[t].pc = "free"
  BY DEF Free
<1>2. CASE Apply(t)
  <2>1. call'[t] # Free /\ call'[t].status = call[t].status
        /\ call'[t].attempt = call[t].attempt
    BY <1>0, <1>1, <1>2, CallIs DEF Apply, Free
  <2> QED
    BY <1>0, <1>1, <1>2, <2>1 DEF Apply, main, listing, env
<1>3. CASE Created(t)
  BY <1>0, <1>1, <1>3 DEF Created, github, main, listing, env
<1>4. ASSUME Retry(t), faults' = faults + 1, call[t].pc # "free"
      PROVE  /\ \A u \in Own \ {t} : call'[u] = call[u]
             /\ call'[t] # Free => /\ call'[t].status = call[t].status
                                   /\ call'[t].attempt <= faults' + 1
                                   /\ call'[t].pc = "sent"
             /\ call'[t] = Free => ~Smooth'
  <2>1. call[t].attempt \in Nat /\ call[t].attempt <= faults + 1
    BY <1>0, <1>1, <1>4, CallIs
  <2>2. \A a, b : [pc |-> "sent", status |-> a, attempt |-> b] # Free
    BY DEF Free
  <2> QED
    BY <1>0, <1>4, <2>1, <2>2 DEF Retry, Smooth
<1>5. CASE Refused(t)
  BY <1>0, <1>1, <1>4, <1>5 DEF Refused, Fault, github, main, listing
<1>6. CASE Lost(t)
  BY <1>0, <1>1, <1>4, <1>6 DEF Lost, Fault, main, listing
<1>7. CASE Denied(t)
  BY <1>0, <1>1, <1>7 DEF Denied, github, main, listing, Smooth
<1>8. CASE Elapsed(t)
  BY <1>0, <1>1, <1>8 DEF Elapsed, main, listing, Smooth
<1> QED
  BY <1>2, <1>3, <1>5, <1>6, <1>7, <1>8 DEF Post

-----------------------------------------------------------------------------
(* Who posts.                                                              *)

LEMMA SetStatusIs ==
    ASSUME TypeOK, NEW t \in Own, NEW c, NEW s, SetStatus(t, c, s)
    PROVE  /\ call'[t] # Free /\ call'[t].pc = "sent" /\ call'[t].attempt = 1
           /\ call'[t].status.ctx = c /\ call'[t].status.state = s
           /\ \A u \in Own \ {t} : call'[u] = call[u]
<1>1. \A x : [pc |-> "sent", attempt |-> 1, status |-> x] # Free
  BY DEF Free
<1> QED
  BY <1>1 DEF SetStatus, TypeOK

LEMMA CallsRun ==
    ASSUME TypeOK, CallsFit, Run
    PROVE  CallsFit'
<1>0. /\ Ci \in Own /\ Units \subseteq Own /\ Ci \notin Units
      /\ faults \in Nat /\ Own = Units \cup {Ci}
      /\ call \in [Own -> Calls]
  BY StatusesAssumption DEF Own, TypeOK
<1>1. CASE Queue
  <2>1. PICK c \in todo : SetStatus(Ci, c, "pending") /\ todo' = todo \ {c}
    BY <1>1 DEF Queue
  <2>2. \A t \in Own : CallFits(t)'
    BY <1>0, <1>1, <2>1, SetStatusIs
    DEF Queue, CallsFit, CallFits, env, Final
  <2> QED
    BY <1>1, <2>1, <2>2 DEF Queue, CallsFit
<1>2. CASE StartUnits
  BY <1>0, <1>2 DEF StartUnits, Returned, CallsFit, CallFits, env
<1>3. ASSUME NEW u \in Units, UnitEnds(u)
      PROVE  CallsFit'
  <2>1. \A t \in Own : CallFits(t)'
    BY <1>0, <1>3, SetStatusIs DEF UnitEnds, CallsFit, CallFits, env, Final
  <2> QED
    BY <1>3, <2>1 DEF UnitEnds, CallsFit
<1>4. CASE Rollup
  <2>1. \A t \in Own : CallFits(t)'
    BY <1>0, <1>4, SetStatusIs DEF Rollup, Returned, CallsFit, CallFits, env, Final
  <2> QED
    BY <1>4, <2>1 DEF Rollup, CallsFit
<1>5. CASE Cut
  BY <1>0, <1>5 DEF Cut, Returned, CallsFit, CallFits, env
<1>6. CASE Resolve
  <2>1. PICK c \in todo : SetStatus(Ci, c, "error") /\ todo' = todo \ {c}
    BY <1>6 DEF Resolve
  <2>2. \A t \in Own : CallFits(t)'
    BY <1>0, <1>6, <2>1, SetStatusIs DEF Resolve, CallsFit, CallFits, env, Final
  <2> QED
    BY <1>6, <2>1, <2>2 DEF Resolve, CallsFit
<1>7. CASE Clear
  BY <1>0, <1>7 DEF Clear, Returned, CallsFit, CallFits, env
<1> QED
  BY <1>1, <1>2, <1>3, <1>4, <1>5, <1>6, <1>7 DEF Run

LEMMA CallsStep == TypeOK /\ CallsFit /\ [Next]_vars => CallsFit'
<1> SUFFICES ASSUME TypeOK, CallsFit, [Next]_vars
             PROVE  CallsFit'
  OBVIOUS
<1>1. CASE Run
  BY <1>1, CallsRun
<1>2. CASE Reconcile
  <2>1. \A t \in Own : call[t] = Free /\ call' = call
    BY <1>2 DEF Reconcile, Restart, NextPage, LastPage, ListFails, main, github,
                listing, env, CallsFit, CallFits
  <2>2. phase' \notin {"queue", "gate"}
    BY <1>2 DEF Reconcile, Restart, NextPage, LastPage, ListFails, main
  <2> QED
    BY <2>1, <2>2 DEF CallsFit, CallFits
<1>3. CASE Crash
  BY <1>3 DEF Crash, CallsFit, CallFits
<1>4. ASSUME NEW t \in Own, Post(t)
      PROVE  CallsFit'
  <2>1. ASSUME NEW u \in Own, u # t
        PROVE  CallFits(u)'
    <3>1. call[u] # Free => call[u].attempt \in Nat
      BY CallIs DEF TypeOK
    <3>2. /\ call'[u] = call[u] /\ phase' = phase /\ todo' = todo
          /\ {faults, faults'} \subseteq Nat /\ faults <= faults'
      BY <1>4, <2>1, PostIs, TypeStep DEF TypeOK
    <3>3. CallFits(u)
      BY DEF CallsFit
    <3> QED
      BY <3>1, <3>2, <3>3 DEF CallFits
  <2>2. CallFits(t)'
    BY <1>4, PostIs DEF CallsFit, CallFits
  <2> QED
    BY <1>4, <2>1, <2>2, PostIs DEF CallsFit
<1>5. CASE \E e \in late : ApplyLate(e)
  BY <1>5 DEF ApplyLate, CallsFit, CallFits, main, env
<1>6. CASE \E c \in Foreign, s \in {"pending", "verdict"} : ForeignPost(c, s)
  BY <1>6 DEF ForeignPost, CallsFit, CallFits, main
<1>7. CASE UNCHANGED vars
  BY <1>7 DEF vars, CallsFit, CallFits
<1> QED
  BY <1>1, <1>2, <1>3, <1>4, <1>5, <1>6, <1>7 DEF Next

-----------------------------------------------------------------------------
(* The listing.                                                            *)

LEMMA BeganIs ==
    ASSUME TypeOK, ListInv
    PROVE  /\ Len(history) \in Nat /\ Began \in 0..Len(history)
           /\ page # 1 => Began = since
           /\ page = 1 => Began = Len(history)
BY LenProperties DEF TypeOK, ListInv, Began

\* A state that is merged was the newest of its context with n entries.
LEMMA MergeRecent ==
    ASSUME TypeOK, ListInv, NEW c \in Contexts, Merge(Page)[c] # "none"
    PROVE  \E n \in Began..Len(history) : Newest(c, After(n)) = Merge(Page)[c]
<1> DEFINE k == Len(history)
<1>0. /\ history \in Seq(Status) /\ page \in 1..MaxPages /\ Before \in Nat
      /\ out \in [Contexts -> Posted \cup {"none"}]
  BY Sizes DEF TypeOK
<1>1. CASE out[c] # "none"
  <2>1. page > 1 /\ Merge(Page)[c] = out[c]
    BY <1>0, <1>1 DEF ListInv, Unlisted, Merge
  <2>2. PICK n \in since..k : Newest(c, After(n)) = out[c]
    BY <1>1, <2>1 DEF ListInv
  <2> QED
    BY <2>1, <2>2, BeganIs
<1>2. CASE out[c] = "none"
  <2>1. Merge(Page)[c] = Newest(c, Page)
    BY <1>2 DEF Merge
  <2>2. PICK i \in 1..Len(Page) : /\ Page[i].ctx = c
                                  /\ \A j \in 1..(i - 1) : Page[j].ctx # c
                                  /\ Newest(c, Page) = Page[i].state
    BY <1>0, <2>1, PageIs, NewestNone, NewestSome
  <2> DEFINE p == Before + i
  <2>3. p \in 1..k /\ history[p] = Page[i] /\ i \in Nat /\ i >= 1
    BY <1>0, <2>2, PageIs
  <2>4. ASSUME NEW j \in 1..(p - 1), j > k - Began
        PROVE  history[j].ctx # c
    <3>1. CASE j <= Before
      <4>1. page # 1 /\ Began = since
        BY <1>0, <2>4, <3>1, Sizes, BeganIs
      <4> QED
        BY <1>2, <2>3, <2>4, <3>1, <4>1, BeganIs DEF ListInv
    <3>2. CASE j > Before
      <4>1. /\ j - Before \in 1..(i - 1) /\ i - 1 <= Len(Page)
            /\ Before + (j - Before) = j
        BY <1>0, <2>3, <2>4, <3>2, PageIs
      <4>2. j - Before \in 1..Len(Page)
        BY <2>2, <2>3, <4>1
      <4>3. Page[j - Before] = history[j]
        BY <1>0, <4>1, <4>2, PageIs
      <4> QED
        BY <2>2, <4>1, <4>3
    <3> QED
      BY <1>0, <2>4, <3>1, <3>2
  <2> DEFINE n == IF p <= k - Began + 1 THEN k - p + 1 ELSE Began
             m == k - n + 1
  <2>5. /\ n \in Began..k /\ m \in 1..p /\ m \in Nat \ {0}
        /\ m = p \/ m = k - Began + 1
    BY <2>3, BeganIs
  <2> HIDE DEF n, m
  <2> DEFINE s == SubSeq(history, m, k)
  <2>6. /\ s \in Seq(Status) /\ Len(s) = k - m + 1
        /\ \A j \in 1..(k - m + 1) : s[j] = history[m + j - 1]
    BY <1>0, <2>3, <2>5, BeganIs, Part
  <2> HIDE DEF s
  <2>7. /\ p - m + 1 \in 1..Len(s) /\ s[p - m + 1] = history[p]
    <3>1. /\ p - m + 1 \in 1..(k - m + 1) /\ m + (p - m + 1) - 1 = p
      BY <2>3, <2>5, BeganIs
    <3> QED
      BY <2>6, <3>1
  <2>8. \A j \in 1..((p - m + 1) - 1) : s[j].ctx # c
    <3> SUFFICES ASSUME NEW j \in 1..((p - m + 1) - 1)
                 PROVE  s[j].ctx # c
      OBVIOUS
    <3>1. s[j] = history[m + j - 1]
      BY <2>3, <2>5, <2>6, BeganIs
    <3>2. m + j - 1 \in 1..(p - 1) /\ m + j - 1 > k - Began
      BY <2>3, <2>5, BeganIs
    <3> QED
      BY <2>4, <3>1, <3>2
  <2>9. Newest(c, s) = history[p].state
    <3> DEFINE q == p - m + 1
    <3>1. q \in 1..Len(s) /\ s[q] = history[p] /\ s[q].ctx = c
      BY <2>2, <2>3, <2>7
    <3>2. \A j \in 1..(q - 1) : s[j].ctx # c
      BY <2>8
    <3> HIDE DEF q
    <3>3. Newest(c, s) = s[q].state
      BY <2>6, <3>1, <3>2, NewestAt
    <3> QED
      BY <3>1, <3>3
  <2>10. After(n) = s
    BY DEF After, s, m
  <2> QED
    BY <2>1, <2>2, <2>3, <2>5, <2>9, <2>10
<1> QED
  BY <1>1, <1>2

\* An entry on a page that was read, this one included, is new or is listed.
LEMMA MergeCovers ==
    ASSUME TypeOK, ListInv, NEW i \in 1..Len(history),
           i <= Before + PageSize, i > Len(history) - Began
    PROVE  Merge(Page)[history[i].ctx] # "none"
<1> DEFINE c == history[i].ctx
<1>0. /\ history \in Seq(Status) /\ page \in 1..MaxPages /\ Before \in Nat
      /\ c \in Contexts
  BY Sizes, ElementOfSeq DEF TypeOK, Status
<1>1. CASE out[c] # "none"
  BY <1>0, <1>1 DEF Merge
<1>2. CASE out[c] = "none"
  <2>1. i > Before
    <3>1. SUFFICES ASSUME i <= Before
                   PROVE  FALSE
      BY <1>0
    <3>2. page # 1
      BY <1>0, <3>1, Sizes
    <3> QED
      BY <1>2, <3>1, <3>2, BeganIs DEF ListInv
  <2>2. i - Before \in 1..Len(Page) /\ Before + (i - Before) = i
    BY <1>0, <2>1, PageIs
  <2>3. Page[i - Before].ctx = c
    BY <1>0, <2>2, PageIs
  <2>4. Newest(c, Page) # "none"
    BY <1>0, <2>2, <2>3, PageIs, NewestType
  <2> QED
    BY <1>0, <1>2, <2>4 DEF Merge
<1> QED
  BY <1>1, <1>2

\* An entry is pushed, and nothing else that ListInv speaks of changes.
LEMMA ListPushed ==
    ASSUME TypeOK, ListInv, NEW e \in Status, history' = <<e>> \o history,
           UNCHANGED <<phase, page, out, since>>
    PROVE  ListInv'
<1> DEFINE k == Len(history)
<1>1. /\ k \in Nat /\ Len(history') = k + 1
      /\ \A i \in 1..k : history'[i + 1] = history[i]
  BY Pushed, LenProperties DEF TypeOK
<1>2. since \in Nat /\ Before \in Nat /\ Before' = Before
  BY Sizes DEF TypeOK, Before
<1>3. \A i \in 1..(k + 1) : i <= Before /\ i > (k + 1) - since =>
         out[history'[i].ctx] # "none"
  <2> SUFFICES ASSUME NEW i \in 1..(k + 1), i <= Before, i > (k + 1) - since
               PROVE  out[history'[i].ctx] # "none"
    OBVIOUS
  <2>1. /\ i - 1 \in 1..k /\ i - 1 <= Before /\ i - 1 > k - since
        /\ (i - 1) + 1 = i
    BY <1>1, <1>2 DEF ListInv
  <2>2. history'[i] = history[i - 1]
    BY <1>1, <2>1
  <2> QED
    BY <2>1, <2>2 DEF ListInv
<1>4. ASSUME page > 1, NEW c \in Contexts, out[c] # "none"
      PROVE  \E n \in since..(k + 1) : Newest(c, After(n)') = out[c]
  <2>1. PICK n \in since..k : Newest(c, After(n)) = out[c]
    BY <1>4 DEF ListInv
  <2>2. n \in 0..Len(history) /\ history \in Seq(Status)
    BY <1>1, <1>2 DEF TypeOK
  <2>3. After(n)' = After(n)
    BY <2>2, AfterPushed
  <2> QED
    BY <1>1, <1>2, <2>1, <2>3
<1>5. \A c, n : Newest(c, After(n))' = Newest(c, After(n)')
  BY DEF Newest, After
<1> QED
  BY <1>1, <1>2, <1>3, <1>4, <1>5 DEF ListInv

LEMMA ListStep == TypeOK /\ CallsFit /\ ListInv /\ [Next]_vars => ListInv'
<1> SUFFICES ASSUME TypeOK, CallsFit, ListInv, [Next]_vars
             PROVE  ListInv'
  OBVIOUS
<1>0. /\ Len(history) \in Nat /\ since \in Nat /\ page \in 1..MaxPages
      /\ history \in Seq(Status)
  BY LenProperties DEF TypeOK
<1>1. ASSUME UNCHANGED <<history, page, out, since>>, phase' = "list" <=> phase = "list"
      PROVE  ListInv'
  <2>1. \A c, n : Newest(c, After(n))' = Newest(c, After(n))
    BY <1>1 DEF After, Newest
  <2> QED
    BY <1>1, <2>1 DEF ListInv, Before
<1>2. ASSUME history' = history, page' = 1, out' = Unlisted, since' = 0
      PROVE  ListInv'
  BY <1>0, <1>2 DEF ListInv, Before
<1>3. CASE Run
  BY <1>1, <1>3 DEF Run, Queue, StartUnits, UnitEnds, Rollup, Cut, Resolve, Clear,
                    github, listing
<1>4. CASE Restart
  <2>1. page' = 1 /\ out' = Unlisted /\ UNCHANGED <<history, since>>
    BY <1>4 DEF Restart, ListInv, github, listing
  <2>2. Before' = 0
    BY <2>1, StatusesAssumption DEF Before
  <2> QED
    BY <1>0, <2>1, <2>2 DEF ListInv
<1>5. CASE NextPage
  <2>1. /\ phase' = "list" /\ page' = page + 1 /\ page' > 1
        /\ out' = Merge(Page) /\ since' = Began /\ history' = history
    BY <1>0, <1>5 DEF NextPage, main, github
  <2>2. Before' = Before + PageSize
    <3>1. page' - 1 = page
      BY <1>0, <2>1
    <3> QED
      BY <1>0, <3>1, Sizes DEF Before
  <2>3. \A c, n : Newest(c, After(n))' = Newest(c, After(n))
    BY <2>1 DEF After, Newest
  <2>4. Began <= Len(history)
    BY BeganIs
  <2>5. \A j \in 1..Len(history') : j <= Before' /\ j > Len(history') - since' =>
             out'[history'[j].ctx] # "none"
    BY <2>1, <2>2, MergeCovers
  <2>6. ASSUME NEW c \in Contexts, out'[c] # "none"
        PROVE  \E n \in since'..Len(history') : Newest(c, After(n))' = out'[c]
    BY <2>1, <2>3, <2>6, MergeRecent
  <2> QED
    BY <2>1, <2>4, <2>5, <2>6 DEF ListInv
<1>6. CASE LastPage \/ ListFails \/ Crash
  BY <1>2, <1>6 DEF LastPage, ListFails, Crash, github
<1>7. ASSUME NEW e \in Status, history' = <<e>> \o history,
             UNCHANGED <<phase, page, out, since>>
      PROVE  ListInv'
  BY <1>7, ListPushed
<1>8. ASSUME NEW t \in Own, Post(t)
      PROVE  ListInv'
  <2>1. call[t].status \in Status
    BY <1>8, PostIs, CallIs DEF TypeOK
  <2> QED
    BY <1>1, <1>7, <1>8, <2>1, PostIs
<1>9. ASSUME NEW e \in late, ApplyLate(e)
      PROVE  ListInv'
  BY <1>7, <1>9 DEF ApplyLate, TypeOK, main, listing
<1>10. ASSUME NEW c \in Foreign, NEW s \in {"pending", "verdict"}, ForeignPost(c, s)
       PROVE  ListInv'
  <2>1. [ctx |-> c, state |-> s] \in Status
    BY DEF Status, Contexts, Posted
  <2> QED
    BY <1>7, <1>10, <2>1 DEF ForeignPost, main, listing
<1>11. CASE UNCHANGED vars
  BY <1>1, <1>11 DEF vars
<1> QED
  BY <1>3, <1>4, <1>5, <1>6, <1>8, <1>9, <1>10, <1>11 DEF Next, Reconcile

LEMMA ReachIs == Reach \in Nat
BY StatusesAssumption DEF Reach

\* The last page that is read reaches as far as any page may.
LEMMA LastReaches ==
    ASSUME TypeOK, LastPage
    PROVE  Min2(MaxPages * PageSize, Len(history)) <= Before + PageSize
<1>1. /\ Len(history) \in Nat /\ Before \in Nat /\ PageSize \in Nat /\ MaxPages \in Nat
      /\ page = MaxPages => Before + PageSize = MaxPages * PageSize
  BY Sizes, LenProperties DEF TypeOK
<1>2. page = MaxPages \/ Len(history) < Before + PageSize
  BY PageIs DEF LastPage, TypeOK
<1> QED
  BY <1>1, <1>2 DEF Min2

\* What is listed of an own context whose statuses arrived in order is its newest
\* status, and when the last page is read nothing pending is missing.
LEMMA OwnListed ==
    ASSUME TypeOK, ListInv, phase = "list", NEW c \in Own, Shows(c)
    PROVE  /\ Merge(Page)[c] # "none" => Merge(Page)[c] = Newest(c, history)
           /\ \A i \in 1..(Len(history) - Began) : history[i].ctx # c
           /\ LastPage /\ Len(history) <= Reach
                 => Merge(Page)[c] = Newest(c, history)
<1> DEFINE k == Len(history)
<1>0. /\ history \in Seq(Status) /\ page \in 1..MaxPages /\ Before \in Nat
      /\ c \in Contexts /\ k \in Nat
  BY Sizes, LenProperties DEF TypeOK, Contexts
<1>1. \A i \in 1..(k - Began) : history[i].ctx # c
  BY <1>0, BeganIs DEF Shows, Read
<1>2. ASSUME Merge(Page)[c] # "none"
      PROVE  Merge(Page)[c] = Newest(c, history)
  <2>1. CASE out[c] # "none"
    BY <1>0, <2>1 DEF Shows, Read, Merge
  <2>2. CASE out[c] = "none"
    <3>1. Merge(Page)[c] = Newest(c, Page)
      BY <1>0, <2>2 DEF Merge
    <3>2. PICK i \in 1..Len(Page) : /\ Page[i].ctx = c
                                    /\ \A j \in 1..(i - 1) : Page[j].ctx # c
                                    /\ Newest(c, Page) = Page[i].state
      BY <1>0, <1>2, <3>1, PageIs, NewestNone, NewestSome
    <3> DEFINE p == Before + i
    <3>3. p \in 1..k /\ history[p] = Page[i] /\ i \in Nat /\ i >= 1
      BY <1>0, <3>2, PageIs
    <3>4. ASSUME NEW j \in 1..(p - 1)
          PROVE  history[j].ctx # c
      <4>1. CASE j <= Before /\ j > k - Began
        <5>1. page # 1 /\ Began = since
          BY <1>0, <4>1, Sizes, BeganIs
        <5> QED
          BY <1>0, <2>2, <3>3, <4>1, <5>1 DEF ListInv
      <4>2. CASE j <= k - Began
        BY <1>1, <4>2, BeganIs
      <4>3. CASE j > Before
        <5>1. /\ j - Before \in 1..(i - 1) /\ Before + (j - Before) = j
          BY <1>0, <3>3, <3>4, <4>3, PageIs
        <5>2. j - Before \in 1..Len(Page)
          BY <1>0, <3>2, <3>3, <5>1, PageIs
        <5>3. Page[j - Before] = history[j]
          BY <1>0, <5>1, <5>2, PageIs
        <5> QED
          BY <3>2, <5>1, <5>3
      <4> QED
        BY <1>0, <4>1, <4>2, <4>3, BeganIs
    <3> HIDE DEF p
    <3>5. Newest(c, history) = history[p].state
      BY <1>0, <3>2, <3>3, <3>4, NewestAt
    <3> QED
      BY <3>1, <3>2, <3>3, <3>5
  <2> QED
    BY <2>1, <2>2
<1>3. ASSUME LastPage, k <= Reach, Merge(Page)[c] = "none"
      PROVE  Newest(c, history) = "none"
  <2>1. Reach \in Nat
    BY ReachIs
  <2>2. k <= Before + PageSize
    BY <1>0, <1>3, <2>1, LastReaches DEF Min2, Reach
  <2>3. ASSUME NEW i \in 1..k, history[i].ctx = c
        PROVE  FALSE
    <3>1. i > k - Began
      BY <1>0, <1>1, <2>3, BeganIs
    <3>2. i <= Before + PageSize
      BY <1>0, <2>2, Sizes
    <3> QED
      BY <1>3, <2>3, <3>1, <3>2, MergeCovers
  <2> QED
    BY <1>0, <2>3, NewestNone
<1> QED
  BY <1>1, <1>2, <1>3

-----------------------------------------------------------------------------
(* What GitHub shows.                                                      *)

LEMMA NewestStays ==
    ASSUME history' = history, NEW c
    PROVE  Newest(c, history)' = Newest(c, history)
BY DEF Newest

\* A status is pushed: what is the newest of a context now.
LEMMA NewestMoves ==
    ASSUME TypeOK, NEW e \in Status, history' = <<e>> \o history, NEW c
    PROVE  /\ Newest(c, history)' =
                 IF e.ctx = c THEN e.state ELSE Newest(c, history)
           /\ Len(history) \in Nat /\ Len(history)' = Len(history) + 1
           /\ history'[1] = e
           /\ \A i \in 1..Len(history) : history'[i + 1] = history[i]
<1>1. Newest(c, history)' = Newest(c, history')
  BY DEF Newest
<1>2. history \in Seq(Status)
  BY DEF TypeOK
<1> QED
  BY <1>1, <1>2, NewestPushed, Pushed, LenProperties

\* A status on another context than c that no goroutine of the run posts.
LEMMA ShowsAside ==
    ASSUME TypeOK, ListInv, NEW c, Shows(c), NEW e \in Status, e.ctx # c,
           history' = <<e>> \o history,
           UNCHANGED <<call, phase, todo, page, out, since, faults, denials>>
    PROVE  Shows(c)'
<1>1. Newest(c, history)' = Newest(c, history)
  BY NewestMoves
<1>2. /\ Len(history) \in Nat /\ Len(history)' = Len(history) + 1
      /\ since \in Nat /\ since <= Len(history) /\ Reach \in Nat
  BY NewestMoves, ReachIs DEF TypeOK, ListInv
<1>3. ASSUME phase = "list", page > 1, NEW i \in 1..(Len(history)' - since)
      PROVE  history'[i].ctx # c
  <2>1. i = 1 \/ (/\ i - 1 \in 1..(Len(history) - since)
                  /\ history'[i] = history[i - 1])
    BY <1>2, NewestMoves
  <2> QED
    BY <1>3, <2>1, NewestMoves DEF Shows, Read
<1>4. Told(c)'
  BY <1>1 DEF Shows, Told, Posts
<1>5. Waits(c)' /\ Ended(c)'
  BY <1>1 DEF Shows, Waits, Ended, Open, Smooth
<1>6. Resolved(c)'
  BY <1>1, <1>2 DEF Shows, Resolved, Posts, Smooth
<1>7. Read(c)'
  BY <1>1, <1>3 DEF Shows, Read
<1> QED
  BY <1>4, <1>5, <1>6, <1>7 DEF Shows

LEMMA ShowsPost ==
    ASSUME TypeOK, CallsFit, NEW t \in Own, Post(t),
           NEW c \in Own, c \notin overtaken', c \notin overtaken => Shows(c)
    PROVE  Shows(c)'
<1> DEFINE n == Newest(c, history)
           s == call[t].status
<1>0. /\ Ci \in Own /\ Units \subseteq Own /\ Ci \notin Units /\ Reach \in Nat
      /\ Own = Units \cup {Ci} /\ Len(history) \in Nat
  BY ReachIs, LenProperties, StatusesAssumption DEF Own, TypeOK
<1>1. /\ call[t] # Free /\ \A u \in Own \ {t} : call'[u] = call[u]
      /\ UNCHANGED <<phase, todo, page, out, since>>
      /\ faults <= faults' /\ denials <= denials'
      /\ call'[t] # Free => call'[t].status = s
  BY PostIs
<1>2. /\ phase \in {"queue", "gate", "resolve"} /\ s.ctx \notin todo
      /\ phase = "queue" => t = Ci /\ s.state = "pending"
      /\ phase = "gate" => t \in Units /\ s.ctx = t /\ s.state = "verdict"
      /\ phase = "resolve" => t = Ci /\ s.state \in Final
  BY <1>1 DEF CallsFit, CallFits
<1>3. Smooth' => Smooth
  <2>1. {faults, denials, faults', denials', Attempts} \subseteq Nat
    BY TypeStep, StatusesAssumption DEF Next, TypeOK
  <2> QED
    BY <1>1, <2>1 DEF Smooth
<1>4. \A u \in Own : Posts(u, s.ctx) => u = t
  BY <1>0, <1>1, <1>2 DEF CallsFit, CallFits, Posts
<1>5. s \in Status
  BY <1>1, CallIs DEF TypeOK
<1>6. Read(c)'
  BY <1>1, <1>2 DEF Read
<1>7. CASE /\ history' = <<s>> \o history
           /\ overtaken' = overtaken \ {s.ctx}
           /\ call'[t] # Free
  <2>1. /\ Newest(c, history)' = IF s.ctx = c THEN s.state ELSE n
        /\ Len(history)' = Len(history) + 1
    BY <1>5, <1>7, NewestMoves
  <2>2. CASE s.ctx = c
    <3>1. Told(c)'
      BY <1>1, <1>4, <2>1, <2>2 DEF Told, Posts
    <3>2. Waits(c)'
      BY <1>0, <1>1, <1>2, <2>1, <2>2 DEF Waits, Open, Final
    <3>3. Ended(c)'
      BY <1>1, <1>2, <2>1, <2>2 DEF Ended
    <3>4. Resolved(c)'
      BY <1>1, <1>2, <2>1, <2>2 DEF Resolved, Final
    <3> QED
      BY <1>6, <3>1, <3>2, <3>3, <3>4 DEF Shows
  <2>3. CASE s.ctx # c
    <3>1. Shows(c) /\ Newest(c, history)' = n
      BY <1>7, <2>1, <2>3
    <3>2. Told(c)'
      BY <1>1, <1>7, <2>3, <3>1 DEF Shows, Told, Posts
    <3>3. Waits(c)'
      BY <1>1, <3>1 DEF Shows, Waits, Open
    <3>4. Ended(c)'
      BY <1>0, <1>1, <1>3, <1>7, <3>1 DEF Shows, Ended
    <3>5. Resolved(c)'
      <4>1. Posts(Ci, c) => Posts(Ci, c)'
        BY <1>0, <1>1, <1>7, <2>3 DEF Posts
      <4> QED
        BY <1>0, <1>1, <1>3, <2>1, <3>1, <4>1 DEF Shows, Resolved
    <3> QED
      BY <1>6, <3>2, <3>3, <3>4, <3>5 DEF Shows
  <2> QED
    BY <2>2, <2>3
<1>8. CASE /\ UNCHANGED <<history, overtaken>>
           /\ call'[t] = Free => call[t].pc = "applied" \/ ~Smooth'
           /\ call'[t] # Free => call'[t].pc = "sent"
  <2>1. Newest(c, history)' = n /\ Shows(c)
    BY <1>8, NewestStays
  <2>2. Told(c)'
    BY <1>1, <1>8, <2>1 DEF Shows, Told, Posts
  <2>3. Waits(c)'
    BY <1>1, <2>1 DEF Shows, Waits, Open
  <2>4. Ended(c)'
    <3>1. c = t /\ phase = "gate" /\ call'[t] = Free /\ Smooth' => n = "verdict"
      BY <1>1, <1>2, <1>8, <2>1 DEF Shows, Told, Posts
    <3> QED
      BY <1>1, <1>3, <2>1, <3>1 DEF Shows, Ended
  <2>5. Resolved(c)'
    <3>1. /\ Posts(Ci, c) /\ ~Posts(Ci, c)' /\ phase = "resolve" /\ Smooth'
          => n \in Final
      BY <1>0, <1>1, <1>2, <1>8, <2>1 DEF Shows, Told, Posts
    <3>2. Len(history)' = Len(history) /\ "pending" \notin Final
      BY <1>8 DEF Final
    <3> QED
      BY <1>1, <1>3, <2>1, <3>1, <3>2 DEF Shows, Resolved
  <2> QED
    BY <1>6, <2>2, <2>3, <2>4, <2>5 DEF Shows
<1> QED
  BY <1>7, <1>8, PostIs

LEMMA ShowsRun ==
    ASSUME TypeOK, CallsFit, Run, NEW c \in Own, Shows(c)
    PROVE  Shows(c)'
<1> DEFINE n == Newest(c, history)
<1>0. /\ Ci \in Own /\ Units \subseteq Own /\ Ci \notin Units /\ Own = Units \cup {Ci}
      /\ "pending" \notin Final
  BY StatusesAssumption DEF Own, Final
<1>1. /\ UNCHANGED <<history, overtaken, page, out, since, faults, denials>>
      /\ phase \in {"queue", "gate", "resolve"}
      /\ phase' \in {"queue", "gate", "resolve", "idle"}
  BY DEF Run, Queue, StartUnits, UnitEnds, Rollup, Cut, Resolve, Clear, github,
         listing, env
<1>2. Newest(c, history)' = n /\ (Smooth' <=> Smooth) /\ Len(history)' = Len(history)
  BY <1>1, NewestStays DEF Smooth
<1>3. Read(c)'
  BY <1>1 DEF Read
<1>4. \A u \in Own : call[u] # Free =>
         /\ phase = "queue" => u = Ci
         /\ phase = "gate" => u \in Units
         /\ phase = "resolve" => u = Ci
  BY DEF CallsFit, CallFits
<1>5. ASSUME NEW t \in Own, NEW d, NEW x, SetStatus(t, d, x), n \in Final => d # c
      PROVE  Told(c)'
  <2>1. \A u \in Own \ {t} : call'[u] = call[u]
    BY <1>5, SetStatusIs
  <2>2. call'[t].pc = "sent" /\ call'[t].status.ctx = d
    BY <1>5, SetStatusIs
  <2> QED
    BY <1>2, <1>5, <2>1, <2>2 DEF Shows, Told, Posts
<1>6. ASSUME call' = call
      PROVE  Told(c)'
  BY <1>2, <1>6 DEF Shows, Told, Posts
<1>7. CASE Queue
  <2>1. PICK d \in todo : SetStatus(Ci, d, "pending")
    BY <1>7 DEF Queue
  <2>2. n \notin Final
    BY <1>7 DEF Queue, Shows, Waits, Open
  <2>3. Told(c)'
    BY <1>0, <1>5, <2>1, <2>2
  <2>4. phase = "queue" /\ phase' = "queue"
    BY <1>7 DEF Queue
  <2> QED
    BY <1>2, <1>3, <2>2, <2>3, <2>4 DEF Shows, Waits, Ended, Resolved
<1>8. CASE StartUnits
  <2>1. /\ phase = "queue" /\ phase' = "gate" /\ todo' = Units /\ call' = call
    BY <1>8 DEF StartUnits
  <2>2. n \notin Final
    BY <2>1 DEF Shows, Waits, Open
  <2> QED
    BY <1>2, <1>3, <1>6, <2>1, <2>2 DEF Shows, Waits, Ended, Resolved
<1>9. ASSUME NEW u \in Units, UnitEnds(u)
      PROVE  Shows(c)'
  <2>1. /\ phase = "gate" /\ phase' = "gate" /\ u \in todo /\ todo' = todo \ {u}
        /\ SetStatus(u, u, "verdict")
    BY <1>9 DEF UnitEnds
  <2>2. Told(c)'
    BY <1>0, <1>5, <2>1 DEF Shows, Waits, Open
  <2>3. Waits(c)'
    BY <1>2, <2>1 DEF Shows, Waits, Open
  <2>4. Ended(c)'
    BY <1>0, <1>2, <2>1, SetStatusIs DEF Shows, Ended
  <2> QED
    BY <1>3, <2>1, <2>2, <2>3, <2>4 DEF Shows, Resolved
<1>10. CASE Rollup
  <2>1. /\ phase = "gate" /\ phase' = "resolve" /\ todo = {} /\ todo' = {}
        /\ SetStatus(Ci, Ci, "verdict") /\ \A t \in Own : call[t] = Free
    BY <1>10 DEF Rollup, Returned
  <2>2. Told(c)'
    BY <1>0, <1>5, <2>1 DEF Shows, Waits, Open
  <2>3. c = Ci => Posts(Ci, c)'
    BY <1>0, <2>1, SetStatusIs DEF Posts
  <2>4. Resolved(c)'
    BY <1>0, <1>2, <2>1, <2>3 DEF Shows, Ended, Resolved
  <2> QED
    BY <1>3, <2>1, <2>2, <2>4 DEF Shows, Waits, Open, Ended
<1>11. CASE Cut
  <2>1. /\ phase = "gate" /\ phase' = "resolve" /\ todo' = todo \cup {Ci}
        /\ call' = call /\ \A t \in Own : call[t] = Free
    BY <1>11 DEF Cut, Returned
  <2>2. Waits(c)'
    BY <1>2, <2>1 DEF Shows, Waits, Open
  <2>3. Resolved(c)'
    BY <1>0, <1>2, <2>1 DEF Shows, Ended, Resolved
  <2> QED
    BY <1>3, <1>6, <2>1, <2>2, <2>3 DEF Shows, Ended
<1>12. CASE Resolve
  <2>1. PICK d \in todo : SetStatus(Ci, d, "error") /\ todo' = todo \ {d}
    BY <1>12 DEF Resolve
  <2>2. phase = "resolve" /\ phase' = "resolve" /\ call[Ci] = Free
    BY <1>12 DEF Resolve, Returned
  <2>3. Told(c)'
    BY <1>0, <1>5, <2>1, <2>2 DEF Shows, Waits, Open
  <2>4. Waits(c)'
    BY <1>2, <2>1, <2>2 DEF Shows, Waits, Open
  <2>5. c = d => Posts(Ci, c)'
    BY <1>0, <2>1, SetStatusIs DEF Posts
  <2>6. Resolved(c)'
    BY <1>2, <2>1, <2>2, <2>5 DEF Shows, Resolved, Posts
  <2> QED
    BY <1>3, <2>2, <2>3, <2>4, <2>6 DEF Shows, Ended
<1>13. CASE Clear
  <2>1. phase' = "idle" /\ call' = call
    BY <1>13 DEF Clear
  <2> QED
    BY <1>3, <1>6, <2>1 DEF Shows, Waits, Open, Ended, Resolved
<1> QED
  BY <1>7, <1>8, <1>9, <1>10, <1>11, <1>12, <1>13 DEF Run

LEMMA ShowsReconcile ==
    ASSUME TypeOK, CallsFit, ListInv, Reconcile, NEW c \in Own, Shows(c)
    PROVE  Shows(c)'
<1>0. /\ c \in Contexts /\ page \in Nat /\ page >= 1 /\ "pending" \notin Final
      /\ Merge(Page) \in [Contexts -> Posted \cup {"none"}]
  BY MergeIs DEF Contexts, TypeOK, Final
<1>1. /\ UNCHANGED <<history, denials, call>> /\ phase \in {"down", "list"}
      /\ phase' \in {"list", "idle", "resolve"}
  BY DEF Reconcile, Restart, NextPage, LastPage, ListFails, github, listing,
         env, main, Fault
<1>2. Newest(c, history)' = Newest(c, history) /\ Len(history)' = Len(history)
  BY <1>1, NewestStays
<1>3. Told(c)' /\ Ended(c)'
  BY <1>1 DEF CallsFit, CallFits, Told, Posts, Ended
<1>4. CASE Restart
  <2>1. phase' \in {"list", "idle"} /\ page' = 1 /\ out' = Unlisted
    BY <1>4 DEF Restart, ListInv, listing
  <2> QED
    BY <1>0, <1>3, <2>1 DEF Shows, Waits, Open, Resolved, Read, Unlisted
<1>5. CASE NextPage
  <2>1. /\ phase = "list" /\ phase' = "list" /\ out' = Merge(Page) /\ since' = Began
    BY <1>5 DEF NextPage, main
  <2>2. Read(c)'
    BY <1>1, <1>2, <2>1, OwnListed DEF Read
  <2> QED
    BY <1>3, <2>1, <2>2 DEF Shows, Waits, Open, Resolved
<1>6. CASE LastPage
  <2>1. /\ phase = "list" /\ phase' = "resolve" /\ todo' = Listed(Merge(Page))
    BY <1>6 DEF LastPage
  <2>2. c \in todo' <=> Merge(Page)[c] = "pending"
    BY <1>0, <2>1 DEF Listed
  <2>3. c \in todo' => Newest(c, history) = "pending"
    BY <2>1, <2>2, OwnListed
  <2>4. Len(history) <= Reach /\ c \notin todo' => Newest(c, history) # "pending"
    BY <1>6, <2>1, <2>2, OwnListed
  <2>5. Waits(c)' /\ Resolved(c)'
    BY <1>0, <1>2, <2>1, <2>3, <2>4 DEF Waits, Open, Resolved
  <2> QED
    BY <1>3, <2>1, <2>5 DEF Shows, Read
<1>7. CASE ListFails
  <2>1. phase' = "idle"
    BY <1>7 DEF ListFails
  <2> QED
    BY <1>3, <2>1 DEF Shows, Waits, Open, Resolved, Read
<1> QED
  BY <1>4, <1>5, <1>6, <1>7 DEF Reconcile

LEMMA ShowStep == StatusesInv /\ [Next]_vars => ShowInv'
<1> SUFFICES ASSUME StatusesInv, [Next]_vars,
                    NEW c \in Own, c \notin overtaken'
             PROVE  Shows(c)'
  BY DEF ShowInv
<1>0. TypeOK /\ CallsFit /\ ListInv /\ (c \notin overtaken => Shows(c))
  BY DEF StatusesInv, ShowInv
<1>1. CASE Run
  BY <1>0, <1>1, ShowsRun DEF Run, Queue, StartUnits, UnitEnds, Rollup, Cut, Resolve,
                              Clear, github
<1>2. CASE Reconcile
  BY <1>0, <1>2, ShowsReconcile DEF Reconcile, Restart, NextPage, LastPage,
                                    ListFails, github
<1>3. CASE Crash
  <2>1. phase' = "down" /\ call' = [t \in Own |-> Free]
    BY <1>3 DEF Crash
  <2> QED
    BY <2>1 DEF Shows, Told, Posts, Waits, Open, Ended, Resolved, Read
<1>4. ASSUME NEW t \in Own, Post(t)
      PROVE  Shows(c)'
  BY <1>0, <1>4, ShowsPost
<1>5. ASSUME NEW e \in late, ApplyLate(e)
      PROVE  Shows(c)'
  <2>1. e \in Status /\ e.ctx # c /\ c \notin overtaken
    BY <1>0, <1>5 DEF ApplyLate, TypeOK
  <2> QED
    BY <1>0, <1>5, <2>1, ShowsAside DEF ApplyLate, main, listing, env
<1>6. ASSUME NEW d \in Foreign, NEW x \in {"pending", "verdict"}, ForeignPost(d, x)
      PROVE  Shows(c)'
  <2> DEFINE e == [ctx |-> d, state |-> x]
  <2>1. e \in Status /\ e.ctx # c
    BY StatusesAssumption DEF Status, Contexts, Posted
  <2>2. /\ history' = <<e>> \o history
        /\ UNCHANGED <<overtaken, call, phase, todo, page, out, since, faults, denials>>
    BY <1>6 DEF ForeignPost, main, listing
  <2> HIDE DEF e
  <2> QED
    BY <1>0, <2>1, <2>2, ShowsAside
<1>7. CASE UNCHANGED vars
  <2>1. Newest(c, history)' = Newest(c, history)
    BY <1>7, NewestStays DEF vars
  <2> QED
    BY <1>0, <1>7, <2>1
    DEF vars, Shows, Told, Posts, Waits, Open, Ended, Resolved, Read, Smooth
<1> QED
  BY <1>1, <1>2, <1>3, <1>4, <1>5, <1>6, <1>7 DEF Next

LEMMA InvInit == Init => StatusesInv
<1> SUFFICES ASSUME Init
             PROVE  StatusesInv
  OBVIOUS
<1>1. TypeOK
  BY TypeInit
<1>2. CallsFit
  BY <1>1 DEF Init, CallsFit, CallFits
<1>3. Len(history) = 0 /\ history \in Seq(Status)
  BY DEF Init
<1>4. ListInv
  BY <1>3 DEF Init, ListInv
<1>5. ASSUME NEW c
      PROVE  Newest(c, history) = "none"
  <2>1. \A i \in 1..Len(history) : history[i].ctx # c
    BY <1>3
  <2> QED
    BY <1>3, <2>1, NewestNone
<1>6. ShowInv
  BY <1>5 DEF Init, ShowInv, Shows, Told, Posts, Waits, Open, Ended, Resolved, Read,
              Final
<1> QED
  BY <1>1, <1>2, <1>4, <1>6 DEF StatusesInv

LEMMA InvAlways == Spec => []StatusesInv
<1>1. StatusesInv /\ [Next]_vars => StatusesInv'
  BY TypeStep, CallsStep, ListStep, ShowStep DEF StatusesInv
<1> QED
  BY <1>1, InvInit, PTL DEF Spec

-----------------------------------------------------------------------------
(* The theorems.                                                           *)

\* However many contexts a run posts, and however many of its requests fail:
\* when its marker is cleared, by the run or by the next process, no context is
\* pending, but for what three attempts, the order of requests and the pages of
\* a listing cannot help.
THEOREM ClearCorrect == Spec => ClearIsEarned
<1> DEFINE Step == marker /\ ~marker' =>
                      \A c \in Own : Newest(c, history) = "pending" => Excused(c)
<1>1. StatusesInv /\ [Next]_vars => [Step]_vars
  <2> SUFFICES ASSUME StatusesInv, Next, marker, ~marker',
                      NEW c \in Own, Newest(c, history) = "pending"
               PROVE  Excused(c)
    OBVIOUS
  <2>1. Clear
    BY DEF Next, Run, Queue, StartUnits, UnitEnds, Rollup, Cut, Resolve,
           Reconcile, Restart, NextPage, LastPage, ListFails, Crash, Post, Apply,
           Created, Refused, Lost, Denied, Elapsed, ApplyLate, ForeignPost, main
  <2>2. c \in overtaken \/ ~Smooth \/ ~(Len(history) <= Reach)
    BY <2>1 DEF Clear, Returned, StatusesInv, ShowInv, Shows, Resolved, Posts
  <2>3. {faults, denials, Attempts, Len(history), Reach} \subseteq Nat
    BY StatusesAssumption, LenProperties, ReachIs DEF StatusesInv, TypeOK
  <2> QED
    BY <2>2, <2>3 DEF Excused, Smooth, Reach
<1> QED
  BY <1>1, InvAlways, PTL DEF Spec, ClearIsEarned

\* No retry of an earlier post, no run and no start-up replaces a result on
\* GitHub, for any number of contexts, attempts and faults.
THEOREM VerdictCorrect == Spec => VerdictStands
<1> DEFINE Step == \A c \in Own :
                      Newest(c, history) \in {"verdict", "error"}
                         /\ Newest(c, history') # Newest(c, history)
                      => c \in overtaken \cup overtaken'
<1>1. StatusesInv /\ [Next]_vars => [Step]_vars
  <2> SUFFICES ASSUME StatusesInv, Next, NEW c \in Own,
                      Newest(c, history) \in Final,
                      c \notin overtaken, c \notin overtaken'
               PROVE  Newest(c, history') = Newest(c, history)
    BY DEF Final
  <2>0. TypeOK /\ CallsFit /\ ListInv /\ Told(c)
    BY DEF StatusesInv, ShowInv, Shows
  <2>1. ASSUME history' = history
        PROVE  Newest(c, history') = Newest(c, history)
    BY <2>1
  <2>2. ASSUME NEW e \in Status, history' = <<e>> \o history,
               e.ctx = c => e.state = Newest(c, history)
        PROVE  Newest(c, history') = Newest(c, history)
    BY <2>0, <2>2, NewestPushed DEF TypeOK
  <2>3. CASE Run \/ Reconcile \/ Crash
    BY <2>1, <2>3 DEF Run, Queue, StartUnits, UnitEnds, Rollup, Cut, Resolve, Clear,
           Reconcile, Restart, NextPage, LastPage, ListFails, Crash, github
  <2>4. ASSUME NEW t \in Own, Post(t)
        PROVE  Newest(c, history') = Newest(c, history)
    <3>1. call[t] # Free /\ call[t].status \in Status
      BY <2>0, <2>4, PostIs, CallIs DEF TypeOK
    <3>2. call[t].status.ctx = c => call[t].status.state = Newest(c, history)
      BY <2>0, <3>1 DEF Told, Posts
    <3> QED
      BY <2>0, <2>1, <2>2, <2>4, <3>1, <3>2, PostIs
  <2>5. ASSUME NEW e \in late, ApplyLate(e)
        PROVE  Newest(c, history') = Newest(c, history)
    BY <2>0, <2>2, <2>5 DEF ApplyLate, TypeOK
  <2>6. ASSUME NEW d \in Foreign, NEW x \in {"pending", "verdict"}, ForeignPost(d, x)
        PROVE  Newest(c, history') = Newest(c, history)
    <3>1. [ctx |-> d, state |-> x] \in Status /\ d # c
      BY StatusesAssumption DEF Status, Contexts, Posted
    <3> QED
      BY <2>2, <2>6, <3>1 DEF ForeignPost
  <2> QED
    BY <2>3, <2>4, <2>5, <2>6 DEF Next
<1> QED
  BY <1>1, InvAlways, PTL DEF Spec, VerdictStands

\* A listing of any number of pages of any size, of a history that grows while
\* it is read, lists of each context a state that was its newest since the
\* listing began, and misses only what lies beyond its last page.
THEOREM ListCorrect == Spec => ListIsRecent
<1> DEFINE Step == LastPage => LET got == Merge(Page) IN
              \A c \in Contexts :
                 /\ got[c] # "none" =>
                       \E n \in Began..Len(history) : Newest(c, After(n)) = got[c]
                 /\ got[c] = "none" =>
                       \A i \in 1..Min2(MaxPages * PageSize, Len(history)) :
                          history[i].ctx = c => i <= Len(history) - Began
<1>1. StatusesInv /\ [Next]_vars => [Step]_vars
  <2> SUFFICES ASSUME StatusesInv, LastPage
               PROVE  Step
    OBVIOUS
  <2>0. TypeOK /\ ListInv
    BY DEF StatusesInv
  <2>1. ASSUME NEW c \in Contexts, Merge(Page)[c] # "none"
        PROVE  \E n \in Began..Len(history) : Newest(c, After(n)) = Merge(Page)[c]
    BY <2>0, <2>1, MergeRecent
  <2>2. ASSUME NEW c \in Contexts, Merge(Page)[c] = "none",
               NEW i \in 1..Min2(MaxPages * PageSize, Len(history)),
               history[i].ctx = c
        PROVE  i <= Len(history) - Began
    <3>1. Reach \in Nat /\ Len(history) \in Nat /\ Before + PageSize \in Nat
      BY <2>0, ReachIs, Sizes, LenProperties DEF TypeOK
    <3>2. Min2(Reach, Len(history)) <= Len(history) /\ Min2(Reach, Len(history)) \in Nat
      BY <3>1 DEF Min2
    <3>3. i \in 1..Len(history) /\ i <= Before + PageSize
      BY <2>0, <2>2, <3>1, <3>2, LastReaches DEF Reach
    <3> QED
      BY <2>0, <2>2, <3>1, <3>3, BeganIs, MergeCovers
  <2> QED
    BY <2>1, <2>2
<1> QED
  BY <1>1, InvAlways, PTL DEF Spec, ListIsRecent

=============================================================================
