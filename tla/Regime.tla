------------------------------- MODULE Regime -------------------------------
(***************************************************************************)
(* The market-regime classifier of engine/regime.py: a pure function of    *)
(* one review's readings and of the label of the review before it.         *)
(*                                                                         *)
(* A reading gives each ordinary domain RISK_ON, NEUTRAL, RISK_OFF or      *)
(* UNKNOWN, which stand for the source's vocabulary of states through      *)
(* _severity_key.  Severities, domain weights and the two thresholds are   *)
(* percentages, so that a score is a number of ten-thousandths.  A         *)
(* drawdown is a depth, as in EmergencyRecovery.                           *)
(***************************************************************************)
EXTENDS Integers, FiniteSets

CONSTANTS
    WeightedModel,    \* regime_model.mode = "weighted" rather than "vote_count"
    DomainWeight,     \* regime_model.domain_weights
    DomainSeverity,   \* regime_model.severity, per domain and reading
    NormalMax,        \* regime_model.normal_max
    DefensiveMax,     \* regime_model.defensive_max
    Excluded,         \* regime_model.excluded_domains
    MaxNotches,       \* regime_transitions.max_notches_per_review
    ReassessAt,       \* 0.4 of the drawdown budget
    DefensiveAt,      \* 0.6
    PreservationAt,   \* 0.8
    DrawdownBudget    \* max_portfolio_drawdown

Domains == {"trend", "volatility", "flows", "breadth"}
ReadingStates == {"RISK_ON", "NEUTRAL", "RISK_OFF", "UNKNOWN"}
Readings == [Domains -> ReadingStates]

\* What models/policy.py accepts for regime_model and regime_transitions.
ASSUME RegimePolicy ==
    /\ WeightedModel \in BOOLEAN
    /\ DomainWeight \in [Domains -> 0 .. 100]
    /\ DomainSeverity \in [Domains -> [{"RISK_ON", "NEUTRAL", "RISK_OFF"} -> 0 .. 100]]
    /\ {NormalMax, DefensiveMax} \subseteq 1 .. 100 /\ NormalMax < DefensiveMax
    /\ Excluded \subseteq Domains
    /\ MaxNotches \in {1, 2}
    /\ {ReassessAt, DefensiveAt, PreservationAt, DrawdownBudget} \subseteq Nat
    /\ ReassessAt <= DefensiveAt /\ DefensiveAt <= PreservationAt
    /\ PreservationAt <= DrawdownBudget

Labels == {"NORMAL", "DEFENSIVE", "CAPITAL_PRESERVATION"}
Events == {"NORMAL", "ELEVATED", "SEVERE"}

Level(label) == [NORMAL |-> 0, DEFENSIVE |-> 1, CAPITAL_PRESERVATION |-> 2][label]
LabelAt(n) == CASE n = 0 -> "NORMAL" [] n = 1 -> "DEFENSIVE" [] n = 2 -> "CAPITAL_PRESERVATION"

AtLeast(a, b) == IF a >= b THEN a ELSE b
AtMost(a, b) == IF a <= b THEN a ELSE b

-----------------------------------------------------------------------------
(* The two classifiers of the ordinary domains.                            *)

\* A domain adds to the score unless it is unknown or excluded.
DomainScore(reading, d) ==
    IF reading[d] = "UNKNOWN" \/ d \in Excluded
    THEN 0
    ELSE DomainWeight[d] * DomainSeverity[d][reading[d]]

WeightedScore(reading) ==
    DomainScore(reading, "trend") + DomainScore(reading, "volatility")
        + DomainScore(reading, "flows") + DomainScore(reading, "breadth")

WeightedRegime(reading) ==
    CASE WeightedScore(reading) <= 100 * NormalMax -> "NORMAL"
      [] WeightedScore(reading) > 100 * NormalMax
             /\ WeightedScore(reading) <= 100 * DefensiveMax -> "DEFENSIVE"
      [] OTHER -> "CAPITAL_PRESERVATION"

Votes(reading) == Cardinality({d \in Domains \ Excluded : reading[d] = "RISK_OFF"})

VotedRegime(votes) ==
    IF votes >= 3 THEN "CAPITAL_PRESERVATION" ELSE IF votes >= 2 THEN "DEFENSIVE" ELSE "NORMAL"

\* The second opinion of the recovery paths: no floors, events or caps.
MarketOnlyRegime(reading) ==
    IF WeightedModel THEN WeightedRegime(reading) ELSE VotedRegime(Votes(reading))

-----------------------------------------------------------------------------
(* The label: events first, then the domains with the drawdown's vote and  *)
(* floor, then the transition cap with the floor asserted again.           *)

DrawdownFloor(depth) ==
    IF depth >= PreservationAt THEN "CAPITAL_PRESERVATION"
    ELSE IF depth >= DefensiveAt THEN "DEFENSIVE" ELSE "NORMAL"

OrdinaryRegime(reading, depth, withDrawdown) ==
    LET drawdownVote == IF withDrawdown /\ depth >= ReassessAt THEN 1 ELSE 0
        severe == withDrawdown /\ depth > DrawdownBudget
    IN IF WeightedModel THEN WeightedRegime(reading)
       ELSE IF severe THEN "CAPITAL_PRESERVATION"
       ELSE VotedRegime(Votes(reading) + drawdownVote)

\* Mutant: the floor is forgotten once the transition has been bounded.
CapTransitionFloorLost(computed, floor, previous) ==
    IF previous = "NONE" THEN computed
    ELSE LabelAt(AtMost(AtLeast(Level(computed), Level(previous) - MaxNotches),
                        Level(previous) + MaxNotches))

CapTransition(computed, floor, previous) ==
    IF previous = "NONE" THEN computed
    ELSE LET bounded == AtMost(AtLeast(Level(computed), Level(previous) - MaxNotches),
                               Level(previous) + MaxNotches)
         IN LabelAt(AtLeast(bounded, Level(floor)))

DetermineRegime(reading, event, depth, previous, withDrawdown) ==
    IF event \in {"SEVERE", "ELEVATED"} THEN "CAPITAL_PRESERVATION"
    ELSE LET ordinary == OrdinaryRegime(reading, depth, withDrawdown)
             floor == IF withDrawdown THEN DrawdownFloor(depth) ELSE "NORMAL"
             computed == LabelAt(AtLeast(Level(ordinary), Level(floor)))
         IN CapTransition(computed, floor, previous)

=============================================================================
