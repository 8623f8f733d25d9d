---------------------------- MODULE MCAccounting ----------------------------
(***************************************************************************)
(* Snapshots whose values and flows make market moves, pure flows and the  *)
(* empty portfolio all happen, with every status a snapshot may carry.     *)
(***************************************************************************)
EXTENDS Accounting, TLC

Input(value, status, flow) == [value |-> value, status |-> status, flow |-> flow]
Answer(status, flow) == [status |-> status, flow |-> flow]

MCInputs == {
    Input(2, "ASSUMED_NONE", 0), Input(3, "ASSUMED_NONE", 0), Input(3, "CONFIRMED_AMOUNT", 1),
    Input(0, "CONFIRMED_NONE", 0),
    Input(3, "UNRESOLVED", 0), Input(2, "BASELINE_RESET", 0)}

MCAnswers == {
    Answer("CONFIRMED_AMOUNT", -1), Answer("BASELINE_RESET", 0), Answer("UNRESOLVED", 0)}

\* Ids only name snapshots: they are interchangeable.
MCSymmetry == Permutations(Ids)
=============================================================================
