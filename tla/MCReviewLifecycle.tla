-------------------------- MODULE MCReviewLifecycle --------------------------
(* A small instance of ReviewLifecycle for TLC.                            *)
EXTENDS ReviewLifecycle, TLC

CONSTANTS low, high

Amount(l, h) == [z \in Zones |-> IF z = low THEN l ELSE h]

MCPlans == {
    [action |-> "INCREASE", amount |-> Amount(1, 0)],
    [action |-> "INCREASE", amount |-> Amount(2, 0)],
    [action |-> "INCREASE", amount |-> Amount(1, 1)],
    [action |-> "REDUCE", amount |-> Amount(0, 1)],
    [action |-> "EXIT", amount |-> Amount(0, 1)]}

\* Nothing is claimed of what follows a cause, so the run ends its behaviours there.
UntilACause == causes = {}
=============================================================================
