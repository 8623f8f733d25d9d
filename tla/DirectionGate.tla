---------------------------- MODULE DirectionGate ----------------------------
(***************************************************************************)
(* The gate of engine/rebalance.py that holds back a reversal of direction *)
(* until it has persisted: operators over one asset's recorded history,    *)
(* a sequence of [date, action], most recent first.  The gate is taken to  *)
(* be enabled.                                                             *)
(***************************************************************************)
EXTENDS Integers, Sequences, FiniteSets

CONSTANT RequiredCloses   \* required_closes of direction_flip_confirmation

ASSUME GateAssumption == RequiredCloses \in Nat \ {0}

Executable == {"INCREASE", "REDUCE", "EXIT"}
Actions == Executable \cup {"HOLD", "WAIT"}

\* Only a risk reduction carries a bypass reason.
Proposals ==
    {p \in [action : Actions, bypass : BOOLEAN, decisive : BOOLEAN] :
        p.bypass => p.action \in {"REDUCE", "EXIT"}}

Direction(action) == IF action = "INCREASE" THEN "UP" ELSE "DOWN"

\* REDUCE to EXIT is no reversal.
IsFlip(previous, action) == (previous = "INCREASE") # (action = "INCREASE")

\* The first recorded action that moves the position.
PreviousExecutable(h) ==
    LET at == {i \in DOMAIN h : h[i].action \in Executable}
    IN  IF at = {} THEN "NONE" ELSE h[CHOOSE i \in at : \A j \in at : i <= j].action

\* The distinct dates at the head of the history that carry the action.
StreakDates(h, action) ==
    {h[i].date : i \in {k \in DOMAIN h : \A j \in 1 .. k : h[j].action = action}}

\* Mutant: only a turn upwards is taken for a reversal.
HeldOnlyUpwards(h, p) ==
    /\ p.action = "INCREASE" /\ ~p.bypass
    /\ PreviousExecutable(h) \in {"REDUCE", "EXIT"}
    /\ ~p.decisive
    /\ Cardinality(StreakDates(h, p.action)) < RequiredCloses - 1

\* Mutant: hard reasons wait for their confirmation too.
HeldDespiteBypass(h, p) ==
    /\ p.action \in Executable
    /\ PreviousExecutable(h) # "NONE" /\ IsFlip(PreviousExecutable(h), p.action)
    /\ ~p.decisive
    /\ Cardinality(StreakDates(h, p.action)) < RequiredCloses - 1

IsHeld(h, p) ==
    /\ p.action \in Executable /\ ~p.bypass
    /\ PreviousExecutable(h) # "NONE" /\ IsFlip(PreviousExecutable(h), p.action)
    /\ ~p.decisive
    /\ Cardinality(StreakDates(h, p.action)) < RequiredCloses - 1

-----------------------------------------------------------------------------
(* What the history remembers of a review.                                 *)

\* A held proposal is recorded under its candidate action.
Recorded(p, outcome) ==
    IF outcome \in {"EXECUTED", "HELD"} THEN p.action ELSE outcome

-----------------------------------------------------------------------------
(* What the properties remember: the hold since the last executed action.  *)

NoHold == [direction |-> "NONE", date |-> 0]

HeldAfter(hold, p, outcome, day) ==
    IF outcome = "EXECUTED" THEN NoHold
    ELSE IF outcome = "HELD" THEN [direction |-> Direction(p.action), date |-> day]
    ELSE hold

=============================================================================
