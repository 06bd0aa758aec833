------------------------------- MODULE Ledger -------------------------------
(***************************************************************************)
(* What poll-ci promises about a commit, with no word on how: a commit is  *)
(* judged before it is recorded and never after ("each commit runs exactly *)
(* once and survives container/host restarts", state.go); only a commit    *)
(* judged green, for the branch it was judged on, is promoted; the last    *)
(* result of a branch is a commit that was judged.  Engine, sweeping one   *)
(* ref at a time, implements it (ImplementsLedger).                        *)
(***************************************************************************)

CONSTANTS Refs, Shas, NoSha, RepoOf,
          Unjudgeable   \* commits without a usable config: recorded unjudged

VARIABLES verdicts,  \* judgements given
          promoted,  \* promotions made
          recorded,  \* the commits that will not be judged again
          last       \* the last result of each branch

ledger == <<verdicts, promoted, recorded, last>>

Key(r, s) == <<RepoOf[r], s>>
Judged(r, s) == \/ s \in Unjudgeable
                \/ \E v \in verdicts : v.ref = r /\ v.sha = s

Init == /\ verdicts = {} /\ promoted = {} /\ recorded = {}
        /\ last = [r \in Refs |-> NoSha]

Judge(r, s, ok) ==
    /\ Key(r, s) \notin recorded /\ s \notin Unjudgeable
    /\ verdicts' = verdicts \cup {[ref |-> r, sha |-> s, ok |-> ok]}
    /\ UNCHANGED <<promoted, recorded, last>>

Promote(r, s) ==
    /\ Key(r, s) \notin recorded
    /\ [ref |-> r, sha |-> s, ok |-> TRUE] \in verdicts
    /\ promoted' = promoted \cup {[ref |-> r, sha |-> s]}
    /\ UNCHANGED <<verdicts, recorded, last>>

\* A judged commit is recorded, together with the tip that led to it.
Record(r, s, t) ==
    /\ Judged(r, s) /\ Key(r, s) \notin recorded
    /\ recorded' = recorded \cup {Key(r, s), Key(r, t)}
    /\ last' = [last EXCEPT ![r] = s]
    /\ UNCHANGED <<verdicts, promoted>>

\* A tip that had moved to a recorded commit is recorded with it.
Skip(r, s, t) ==
    /\ Key(r, s) \in recorded
    /\ recorded' = recorded \cup {Key(r, t)}
    /\ UNCHANGED <<verdicts, promoted, last>>

Next == \E r \in Refs, s \in Shas :
            \/ \E ok \in BOOLEAN : Judge(r, s, ok)
            \/ Promote(r, s)
            \/ \E t \in Shas : Record(r, s, t) \/ Skip(r, s, t)

Spec == Init /\ [][Next]_ledger

=============================================================================
