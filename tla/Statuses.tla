------------------------------ MODULE Statuses ------------------------------
(***************************************************************************)
(* The commit statuses of one commit, request by request (setStatus in     *)
(* runner.go, SetStatus, retryable and ListStatuses in github.go): a run   *)
(* posts its pending contexts and their results, each POST may be refused, *)
(* lose its answer, or be applied by GitHub after the client has given it  *)
(* up; the process dies, and the next one, which finds that the branch has *)
(* moved on, lists the statuses page by page and resolves what is pending, *)
(* while other systems post statuses of their own.                         *)
(***************************************************************************)
EXTENDS Naturals, Sequences, FiniteSetsExt

CONSTANTS
    Units,        \* contexts of the checks; the rollup is Ci
    Foreign,      \* contexts of other systems
    Ci,
    Attempts,     \* POSTs per setStatus: 3
    PageSize,     \* per_page: 100
    MaxPages,     \* pages ListStatuses reads: 3
    MaxFaults,    \* bound on failed requests
    MaxForeign,   \* bound on posts by other systems
    MaxCrashes    \* bound on deaths of the process

Own == Units \cup {Ci}
Contexts == Own \cup Foreign

ASSUME StatusesAssumption ==
    /\ Ci \notin Units /\ Own \cap Foreign = {}
    /\ {Attempts, PageSize, MaxPages} \subseteq Nat \ {0}
    /\ {MaxFaults, MaxForeign, MaxCrashes} \subseteq Nat

VARIABLES
    history,    \* GitHub: every status of the commit, newest first
    late,       \* GitHub: requests given up by the client, not applied yet
    call,       \* the setStatus call of each goroutine; Ci has the main one
    phase,      \* where the main goroutine stands
    todo,       \* contexts it, or the units, still have to post
    page, out,  \* ListStatuses: the next page, the latest state per context
    marker,     \* the in-flight marker in the state file
    since,      \* history: the length of the history when the listing began
    overtaken,  \* history: contexts whose newest status was applied late
    faults, denials,  \* failed attempts, and attempts that ended their call
    foreign, crashes

vars == <<history, late, call, phase, todo, page, out, marker, since,
          overtaken, faults, denials, foreign, crashes>>
github == <<history, late, overtaken>>
main == <<phase, todo, marker>>
listing == <<page, out, since>>
env == <<faults, denials, foreign, crashes>>

-----------------------------------------------------------------------------
Posted == {"pending", "verdict", "error"}
Status == [ctx : Contexts, state : Posted]
Free == [pc |-> "free"]
Calls == {Free} \cup [pc : {"sent", "applied"}, status : Status,
                      attempt : 1..Attempts]
Unlisted == [c \in Contexts |-> "none"]

TypeOK ==
    /\ history \in Seq(Status)
    /\ late \subseteq Status
    /\ call \in [Own -> Calls]
    /\ phase \in {"idle", "queue", "gate", "resolve", "down", "list"}
    /\ todo \subseteq Contexts
    /\ page \in 1..MaxPages
    /\ out \in [Contexts -> Posted \cup {"none"}]
    /\ marker \in BOOLEAN
    /\ since \in Nat
    /\ overtaken \subseteq Contexts
    /\ {faults, denials, foreign, crashes} \subseteq Nat

Init ==
    /\ history = <<>> /\ late = {} /\ overtaken = {}
    /\ call = [t \in Own |-> Free]
    /\ phase = "queue" /\ todo = Own /\ marker = TRUE
    /\ page = 1 /\ out = Unlisted /\ since = 0
    /\ faults = 0 /\ denials = 0 /\ foreign = 0 /\ crashes = 0

-----------------------------------------------------------------------------
\* The newest status of a context among the given ones, newest first.
Newest(c, h) ==
    LET entries == {i \in DOMAIN h : h[i].ctx = c}
    IN  IF entries = {} THEN "none" ELSE h[Min(entries)].state

Returned(t) == call[t] = Free
Fault ==
    /\ faults + denials < MaxFaults /\ faults' = faults + 1
    /\ UNCHANGED <<denials, foreign, crashes>>

\* setStatus is called by goroutine t.
SetStatus(t, c, s) ==
    call' = [call EXCEPT ![t] = [pc |-> "sent", attempt |-> 1,
                                 status |-> [ctx |-> c, state |-> s]]]

\* GitHub applies a request; a status it applies late may overtake newer ones.
Apply(t) ==
    /\ call[t].pc = "sent"
    /\ history' = <<call[t].status>> \o history
    /\ overtaken' = overtaken \ {call[t].status.ctx}
    /\ call' = [call EXCEPT ![t].pc = "applied"]
    /\ UNCHANGED <<late, main, listing, env>>

ApplyLate(e) ==
    /\ e \in late
    /\ history' = <<e>> \o history
    /\ late' = late \ {e}
    /\ overtaken' = overtaken \cup {e.ctx}
    /\ UNCHANGED <<call, main, listing, env>>

Created(t) ==
    /\ call[t].pc = "applied"
    /\ call' = [call EXCEPT ![t] = Free]
    /\ UNCHANGED <<github, main, listing, env>>

\* Seeded fault: a transient failure is not retried.
GiveUp(t) == call' = [call EXCEPT ![t] = Free]

Retry(t) ==
    call' = [call EXCEPT ![t] =
                IF call[t].attempt = Attempts THEN Free
                ELSE [pc |-> "sent", status |-> call[t].status,
                      attempt |-> call[t].attempt + 1]]

\* 5xx, 429, or 403 with Retry-After: not applied, and retried.
Refused(t) ==
    /\ call[t].pc = "sent" /\ Fault
    /\ Retry(t)
    /\ UNCHANGED <<github, main, listing>>

\* A transport error or the client's timeout: retried, though GitHub may have
\* applied the request, or may do so later.
Lost(t) ==
    /\ call[t].pc # "free" /\ Fault
    /\ late' = IF call[t].pc = "sent" THEN late \cup {call[t].status} ELSE late
    /\ Retry(t)
    /\ UNCHANGED <<history, overtaken, main, listing>>

\* Any other 4xx is logged, and that is the end of the call.
Denied(t) ==
    /\ call[t].pc = "sent" /\ faults + denials < MaxFaults
    /\ denials' = denials + 1
    /\ call' = [call EXCEPT ![t] = Free]
    /\ UNCHANGED <<github, main, listing, faults, foreign, crashes>>

\* Two slow failures, a timeout of 30 s and a Retry-After, say, use up the 90 s
\* of the call: it ends in the wait before its third attempt.
Elapsed(t) ==
    /\ call[t].pc # "free" /\ call[t].attempt = 2 /\ Attempts > 2
    /\ faults + denials < MaxFaults /\ denials' = denials + 1
    /\ \/ UNCHANGED late
       \/ call[t].pc = "sent" /\ late' = late \cup {call[t].status}
    /\ call' = [call EXCEPT ![t] = Free]
    /\ UNCHANGED <<history, overtaken, main, listing, faults, foreign, crashes>>

-----------------------------------------------------------------------------
(* A run: runCommit, its units, and how it ends.                           *)

\* The rollup turns pending first, then every check.
Queue ==
    /\ phase = "queue" /\ Returned(Ci)
    /\ \E c \in todo : /\ Ci \in todo => c = Ci
                       /\ SetStatus(Ci, c, "pending")
                       /\ todo' = todo \ {c}
    /\ UNCHANGED <<phase, marker, github, listing, env>>

\* Seeded fault: the units do not wait for the last pending status.
StartUnitsEarly ==
    /\ phase = "queue" /\ todo = {}
    /\ phase' = "gate" /\ todo' = Units
    /\ UNCHANGED <<marker, call, github, listing, env>>

StartUnits ==
    /\ phase = "queue" /\ todo = {} /\ Returned(Ci)
    /\ phase' = "gate" /\ todo' = Units
    /\ UNCHANGED <<marker, call, github, listing, env>>

UnitEnds(u) ==
    /\ phase = "gate" /\ u \in todo
    /\ SetStatus(u, u, "verdict")
    /\ todo' = todo \ {u}
    /\ UNCHANGED <<phase, marker, github, listing, env>>

Rollup ==
    /\ phase = "gate" /\ todo = {} /\ \A t \in Own : Returned(t)
    /\ SetStatus(Ci, Ci, "verdict")
    /\ phase' = "resolve"
    /\ UNCHANGED <<todo, marker, github, listing, env>>

\* The run is superseded: its contexts without a result are to be resolved.
Cut ==
    /\ phase = "gate" /\ todo # {} /\ \A t \in Own : Returned(t)
    /\ phase' = "resolve" /\ todo' = todo \cup {Ci}
    /\ UNCHANGED <<marker, call, github, listing, env>>

Resolve ==
    /\ phase = "resolve" /\ Returned(Ci)
    /\ \E c \in todo : SetStatus(Ci, c, "error") /\ todo' = todo \ {c}
    /\ UNCHANGED <<phase, marker, github, listing, env>>

\* Seeded fault: the marker goes while the last status is being posted.
ClearEarly ==
    /\ phase = "resolve" /\ todo = {}
    /\ marker' = FALSE
    /\ phase' = "idle"
    /\ UNCHANGED <<todo, call, github, listing, env>>

Clear ==
    /\ phase = "resolve" /\ todo = {} /\ Returned(Ci)
    /\ marker' = FALSE
    /\ phase' = "idle"
    /\ UNCHANGED <<todo, call, github, listing, env>>

-----------------------------------------------------------------------------
(* The process dies; the next one reconciles.                              *)

Crash ==
    /\ phase # "down" /\ crashes < MaxCrashes
    /\ crashes' = crashes + 1
    /\ phase' = "down" /\ todo' = {}
    /\ late' = late \cup
          {call[t].status : t \in {u \in Own : call[u].pc = "sent"}}
    /\ call' = [t \in Own |-> Free]
    /\ page' = 1 /\ out' = Unlisted /\ since' = 0
    /\ UNCHANGED <<history, overtaken, marker, faults, denials, foreign>>

Restart ==
    /\ phase = "down"
    /\ phase' = IF marker THEN "list" ELSE "idle"
    /\ UNCHANGED <<todo, marker, call, github, listing, env>>

Min2(a, b) == IF a <= b THEN a ELSE b

\* The page that is asked for, as GitHub numbers it at this moment.
Page == SubSeq(history, (page - 1) * PageSize + 1,
               Min2(page * PageSize, Len(history)))

\* Seeded fault: the last entry of a context counts.
MergeOld(raw) == [c \in Contexts |-> IF Newest(c, raw) # "none"
                                     THEN Newest(c, raw) ELSE out[c]]

\* The first entry of a context is the newest: later ones are skipped.
Merge(raw) == [c \in Contexts |-> IF out[c] # "none" THEN out[c]
                                  ELSE Newest(c, raw)]

Listed(o) == {c \in Contexts : o[c] = "pending"}

Began == IF page = 1 THEN Len(history) ELSE since

\* Seeded fault: pages are read until one is not full.
NextPageUncapped ==
    /\ phase = "list" /\ Len(Page) = PageSize
    /\ out' = Merge(Page) /\ page' = page + 1 /\ since' = Began
    /\ UNCHANGED <<main, call, github, env>>

NextPage ==
    /\ phase = "list" /\ page < MaxPages /\ Len(Page) = PageSize
    /\ out' = Merge(Page) /\ page' = page + 1 /\ since' = Began
    /\ UNCHANGED <<main, call, github, env>>

LastPage ==
    /\ phase = "list" /\ (page = MaxPages \/ Len(Page) < PageSize)
    /\ phase' = "resolve" /\ todo' = Listed(Merge(Page))
    /\ out' = Unlisted /\ page' = 1 /\ since' = 0
    /\ UNCHANGED <<marker, call, github, env>>

\* A page cannot be read: the marker stays for the next start.
ListFails ==
    /\ phase = "list" /\ Fault
    /\ phase' = "idle"
    /\ out' = Unlisted /\ page' = 1 /\ since' = 0
    /\ UNCHANGED <<todo, marker, call, github>>

ForeignPost(c, s) ==
    /\ foreign < MaxForeign /\ foreign' = foreign + 1
    /\ history' = <<[ctx |-> c, state |-> s]>> \o history
    /\ UNCHANGED <<late, overtaken, call, main, listing, faults, denials,
                   crashes>>

-----------------------------------------------------------------------------
Post(t) == Apply(t) \/ Created(t) \/ Refused(t) \/ Lost(t) \/ Denied(t)
           \/ Elapsed(t)
Run == \/ Queue \/ StartUnits \/ (\E u \in Units : UnitEnds(u)) \/ Rollup
       \/ Cut \/ Resolve \/ Clear
Reconcile == Restart \/ NextPage \/ LastPage \/ ListFails

Next == \/ Run \/ Reconcile \/ Crash \/ \E t \in Own : Post(t)
        \/ \E e \in late : ApplyLate(e)
        \/ \E c \in Foreign, s \in {"pending", "verdict"} : ForeignPost(c, s)

Spec == Init /\ [][Next]_vars

\* Requests end, goroutines run, and the container is started again.
Fairness == /\ WF_vars(Run) /\ WF_vars(Reconcile)
            /\ \A t \in Own : WF_vars(Post(t))
FairSpec == Spec /\ Fairness

-----------------------------------------------------------------------------
(* What the requests add up to.                                            *)

\* What can beat three attempts: as many failures, a permanent one or slow ones,
\* a request applied after a newer one, a status beyond the pages that are read.
Excused(c) == \/ faults >= Attempts \/ denials > 0 \/ c \in overtaken
              \/ Len(history) > MaxPages * PageSize

\* "a dropped POST would otherwise leave that context pending on GitHub
\* forever": when the marker of the run is cleared, by the run itself or by the
\* next process, none of its contexts is pending, whatever two quick failures did.
ClearIsEarned ==
    [][marker /\ ~marker' =>
          \A c \in Own : Newest(c, history) = "pending" => Excused(c)]_vars

\* A context that turned pending is resolved, unless a listing fails at
\* start-up: then the marker is there for the next one.
PendingEnds ==
    \A c \in Own : []<>(\/ Newest(c, history) # "pending" \/ Excused(c)
                        \/ phase = "idle" /\ marker)

\* A result stays on GitHub: no attempt of the pending post before it, and no
\* start-up that resolves what is pending, replaces it, unless GitHub itself
\* applies a request after newer ones.
VerdictStands ==
    [][\A c \in Own :
          Newest(c, history) \in {"verdict", "error"}
             /\ Newest(c, history') # Newest(c, history)
          => c \in overtaken \cup overtaken']_vars

\* The history as it was with n entries.
After(n) == SubSeq(history, Len(history) - n + 1, Len(history))

\* "ListStatuses returns the latest status per context": though statuses are
\* posted between two pages and shift the rest, each listed state was the
\* newest of its context at some moment of the listing, and a context that had
\* one when it began is missing only beyond the last page.
ListIsRecent ==
    [][LastPage => LET got == Merge(Page) IN
          \A c \in Contexts :
             /\ got[c] # "none" =>
                   \E n \in Began..Len(history) : Newest(c, After(n)) = got[c]
             /\ got[c] = "none" =>
                   \A i \in 1..Min2(MaxPages * PageSize, Len(history)) :
                      history[i].ctx = c => i <= Len(history) - Began]_vars

=============================================================================
