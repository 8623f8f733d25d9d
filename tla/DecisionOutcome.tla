--------------------------- MODULE DecisionOutcome ---------------------------
(***************************************************************************)
(* The decision history as docs/HOW_IT_WORKS.md, section 5, promises it: a *)
(* decision keeps the status it was recorded with until a session resolves *)
(* it, once, and the outcome is terminal.  A session resolves by a right   *)
(* it was granted while the decision was PENDING.                          *)
(*                                                                         *)
(* The code keeps the promise except where it lets two sessions hold the   *)
(* right to one decision at once: only such a contested decision may have  *)
(* its outcome replaced, and for one session there is none.                *)
(***************************************************************************)
CONSTANTS Ids, Session

VARIABLES
    outcome,   \* the status of each decision, "ABSENT" before it is recorded
    granted,   \* the decision each session may resolve, or "NOTHING"
    contested  \* the decisions two sessions have held the right to at once

Terminal == {"CONFIRMED", "NOT_EXECUTED"}
Statuses == {"PENDING"} \cup Terminal

Init ==
    /\ outcome = [d \in Ids |-> "ABSENT"]
    /\ granted = [s \in Session |-> "NOTHING"]
    /\ contested = {}

Register(d, st) ==
    /\ outcome[d] = "ABSENT"
    /\ outcome' = [outcome EXCEPT ![d] = st]
    /\ UNCHANGED <<granted, contested>>

Grant(s, d) ==
    /\ granted[s] = "NOTHING" /\ outcome[d] = "PENDING"
    /\ granted' = [granted EXCEPT ![s] = d]
    /\ contested' = contested \cup {c \in {d} : \E t \in Session \ {s} : granted[t] = c}
    /\ UNCHANGED outcome

\* The session uses its right: once, unless the decision is contested.
Resolve(s, st) ==
    /\ granted[s] # "NOTHING"
    /\ outcome[granted[s]] = "PENDING" \/ granted[s] \in contested
    /\ outcome' = [outcome EXCEPT ![granted[s]] = st]
    /\ granted' = [granted EXCEPT ![s] = "NOTHING"]
    /\ UNCHANGED contested

\* The session dies, its write is torn or lands behind a newer outcome.
Drop(s) ==
    /\ granted[s] # "NOTHING"
    /\ granted' = [granted EXCEPT ![s] = "NOTHING"]
    /\ UNCHANGED <<outcome, contested>>

Next ==
    \/ \E d \in Ids, st \in Statuses : Register(d, st)
    \/ \E s \in Session, d \in Ids : Grant(s, d)
    \/ \E s \in Session, st \in Terminal : Resolve(s, st)
    \/ \E s \in Session : Drop(s)

Spec == Init /\ [][Next]_<<outcome, granted, contested>>
=============================================================================
