-------------------------- MODULE MCDecisionLedger --------------------------
(***************************************************************************)
(* DecisionLedger for TLC: sessions are interchangeable.                   *)
(***************************************************************************)
EXTENDS DecisionLedger, TLC

SessionSymmetry == Permutations(Session)
=============================================================================
