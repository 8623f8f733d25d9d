--------------------------- MODULE DirectionFlip ---------------------------
(***************************************************************************)
(* One risk asset's confirmation of direction reversals: a review proposes *)
(* an action, the gate may hold it as a WAIT, and the decision that is     *)
(* recorded feeds the history the next review's gate reads.                *)
(*                                                                         *)
(* Weights and deviations are left out: a proposal is an action, whether   *)
(* its reason bypasses the gate, and whether its overshoot is decisive.    *)
(* Rebalance computes the proposals from weights, and implements this      *)
(* specification for each of its assets.                                   *)
(***************************************************************************)
EXTENDS DirectionGate

CONSTANTS
    MaxReviews,       \* bound on the recorded reviews
    MaxDay            \* bound on the calendar

VARIABLES
    today,
    history,          \* [date, action] of the recorded reviews, most recent first
    last,             \* the last review: its proposal and what became of it
    standing,         \* history: the last action really recommended, or "NONE"
    held              \* history: the direction held back last since then, and when

vars == <<today, history, last, standing, held>>

-----------------------------------------------------------------------------
(* A review.                                                               *)

\* What a proposal may become: an increase that no sale or cash funds, or that
\* the deployment caps block, ends as an ordinary WAIT.
Outcomes(p) ==
    IF IsHeld(history, p) THEN {"HELD"}
    ELSE IF p.action \notin Executable THEN {p.action}
    ELSE IF p.action = "INCREASE" THEN {"EXECUTED", "WAIT"}
    ELSE {"EXECUTED"}

Review(p, outcome) ==
    /\ Len(history) < MaxReviews
    /\ outcome \in Outcomes(p)
    /\ history' = <<[date |-> today, action |-> Recorded(p, outcome)]>> \o history
    /\ last' = [proposal |-> p, outcome |-> outcome]
    /\ standing' = IF outcome = "EXECUTED" THEN p.action ELSE standing
    /\ held' = HeldAfter(held, p, outcome, today)
    /\ UNCHANGED today

NextDay ==
    /\ today < MaxDay
    /\ today' = today + 1
    /\ UNCHANGED <<history, last, standing, held>>

Init ==
    /\ today = 1
    /\ history = <<>>
    /\ last = [proposal |-> [action |-> "HOLD", bypass |-> FALSE, decisive |-> FALSE],
               outcome |-> "HOLD"]
    /\ standing = "NONE"
    /\ held = NoHold

Next ==
    \/ \E p \in Proposals, outcome \in {"EXECUTED", "HELD", "HOLD", "WAIT"} : Review(p, outcome)
    \/ NextDay

Spec == Init /\ [][Next]_vars

-----------------------------------------------------------------------------
(* Properties.                                                             *)

\* The recorded history holds only what _validated_direction_history accepts.
TypeOK ==
    /\ today \in Nat
    /\ history \in Seq([date : Nat, action : Actions])
    /\ last \in [proposal : Proposals, outcome : {"EXECUTED", "HELD", "HOLD", "WAIT"}]
    /\ standing \in Executable \cup {"NONE"}
    /\ held \in [direction : {"UP", "DOWN", "NONE"}, date : Nat]

Reviewed == Len(history') > Len(history)

\* A review recommends a reversal of what was really recommended last, with
\* neither a bypass reason nor a decisive overshoot.
MarginalReversal ==
    /\ Reviewed
    /\ last'.outcome = "EXECUTED"
    /\ ~last'.proposal.bypass /\ ~last'.proposal.decisive
    /\ standing # "NONE" /\ IsFlip(standing, last'.proposal.action)

\* With more than one close required, such a reversal never comes out of the
\* blue: since the standing action a review has held its direction back, and
\* none has held the other direction back after that.  How many closes are
\* required makes no difference, and the hold may be of the same day.
HeldFirst ==
    RequiredCloses > 1 /\ MarginalReversal => held.direction = Direction(last'.proposal.action)

\* The gate delays, it does not starve: a direction on hold is not held back
\* again, however many reviews without an action lie between.
HeldOnce ==
    Reviewed /\ last'.outcome = "HELD" => held.direction # Direction(last'.proposal.action)

\* What the docstrings of rebalance.py:86-91 and 162-165 ask of such a
\* reversal: that its direction was proposed on RequiredCloses distinct days,
\* those on which it was held back and this one.
OnDistinctCloses ==
    MarginalReversal => Cardinality({held.date, today}) >= RequiredCloses

=============================================================================
