------------------------------ MODULE Durable ------------------------------
(***************************************************************************)
(* What the Store promises its callers, with no word on files or times: a  *)
(* change is made in memory at once and becomes durable in one step or not *)
(* at all; a new process starts from what was durable; nothing leaves the  *)
(* store but what a caller clears, and the records of processed commits,   *)
(* which may be forgotten unless they are some branch's last result.       *)
(***************************************************************************)

CONSTANTS Branches, RepoOf, Shas, NoSha, Runs

VARIABLES up,    \* a process is running
          live,  \* its store
          kept   \* what the next process will start from

Key(b, s) == <<RepoOf[b], s>>

\* The records a store with these last results may not forget.
LastKeys(last) == {Key(b, last[b]) : b \in {x \in Branches : last[x] # NoSha}}

Nothing == [seen |-> {}, last |-> [b \in Branches |-> NoSha],
            inFlight |-> [k \in Runs |-> NoSha]]

Init == /\ up = FALSE /\ live = Nothing
        /\ kept \in [seen : SUBSET {Key(b, s) : b \in Branches, s \in Shas},
                     last : {Nothing.last}, inFlight : {Nothing.inFlight}]

\* The store becomes new, less some records it may forget.
Forgetting(new) ==
    \E old \in SUBSET (new.seen \ LastKeys(new.last)) :
        live' = [new EXCEPT !.seen = @ \ old]

Record(b, s) == Forgetting([live EXCEPT !.seen = @ \cup {Key(b, s)}])
RecordResult(b, t, s) ==
    Forgetting([seen |-> live.seen \cup {Key(b, t), Key(b, s)},
                last |-> [live.last EXCEPT ![b] = s],
                inFlight |-> live.inFlight])
SetMarker(k, s) == Forgetting([live EXCEPT !.inFlight[k] = s])

Change ==
    /\ \/ \E b \in Branches, s \in Shas : Record(b, s)
       \/ \E b \in Branches, t, s \in Shas : RecordResult(b, t, s)
       \/ \E k \in Runs, s \in Shas \cup {NoSha} : SetMarker(k, s)
    /\ up /\ UNCHANGED <<up, kept>>

Persist == up /\ kept' = live /\ UNCHANGED <<up, live>>
Die == up /\ up' = FALSE /\ live' = Nothing /\ UNCHANGED kept
Start == ~up /\ up' = TRUE /\ live' = kept /\ UNCHANGED kept

Next == Change \/ Persist \/ Die \/ Start

Spec == Init /\ [][Next]_<<up, live, kept>>

=============================================================================
