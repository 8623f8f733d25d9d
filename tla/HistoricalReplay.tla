-------------------------- MODULE HistoricalReplay --------------------------
(***************************************************************************)
(* The review loop of research/orchestrator.py (run_historical_backtest),  *)
(* where the regime classifier, the emergency-recovery machine, the risk   *)
(* overlay, the risk gate and the execution rule meet.  A review reads the *)
(* market and its own drawdown, labels the regime, advances the recovery   *)
(* machine, chooses a target under the cap and is judged by the risk gate; *)
(* then it trades.                                                         *)
(*                                                                         *)
(* The whole book is one number, its risky weight, a percentage out of     *)
(* RiskyLevels; which assets make it up is the allocation's business.  The *)
(* emergency machine's variables keep their names; its `depth' is the      *)
(* drawdown the machine was last shown, `drawdown' the ledger's own.  The  *)
(* carry of stable assets and the costs of trades are left out, and so are *)
(* the errors of the gate about the composition of a target: they drop     *)
(* increases this model allows, and Allocation judges them.                *)
(***************************************************************************)
EXTENDS Regime, EmergencyRecovery

CONSTANTS
    Modes,             \* values of risk_engine.mode to replay
    Markets,           \* what a review may be shown (see Situations)
    RiskyLevels,       \* risky weights of the book
    MinStable,         \* min_stablecoin_weight
    StableTarget,      \* regimes.<label>.stablecoin_target
    RecoveryReviews,   \* drawdown_budget_overlay.recovery_reviews
    RecoveryFloor      \* drawdown_budget_overlay.recovery_risky_floor

Situations ==
    [reading : Readings, event : Events, liveness : LivenessStatuses, volatility : Volatilities]

ASSUME ReplayPolicy ==
    /\ Modes \subseteq {"legacy_drawdown", "volatility_budget"}
    /\ Markets \subseteq Situations
    /\ RiskyLevels \subseteq 0 .. 100 /\ 0 \in RiskyLevels
    /\ MinStable \in 0 .. 100 /\ StableTarget \in [Labels -> 0 .. 100]
    /\ RecoveryReviews \in Nat \ {0} /\ RecoveryFloor \in 0 .. 100
    /\ DrawdownBudget = Budget

VARIABLES
    mode,        \* risk_engine.mode, fixed for a replay
    phase,       \* "decide" or "trade": where in the review the loop stands
    label,       \* previous_regime
    streak,      \* market_recovery_streak
    drawdown,    \* the ledger's drawdown at this review's mark
    risky,       \* the risky weight the book carries
    target,      \* the risky weight the review wants
    hard,        \* the overlay makes reductions RISK_BUDGET_BREACH
    refusals     \* why run_risk_gate returned errors

loopVars == <<mode, phase, label, streak, drawdown, risky, target, hard, refusals>>
replayVars == <<vars, loopVars>>

Refusals == {"DRAWDOWN_BREACH", "CHAIN_LIVENESS"}

-----------------------------------------------------------------------------
(* The stable floor: risk_overlay_floor and what each mode adds to it.     *)

Consumed(d) == IF d >= Budget THEN 100 ELSE (100 * d) \div Budget

LegacyCap(d, normals) ==
    IF normals >= RecoveryReviews
    THEN AtLeast(100 - Consumed(d), RecoveryFloor)
    ELSE 100 - Consumed(d)

OverlayFloor(d, normals, emergencyCap) ==
    IF mode = "volatility_budget" THEN 100 - emergencyCap ELSE 100 - LegacyCap(d, normals)

\* The regime's stable target has floor authority in legacy mode only.
RequiredStable(overlay, newLabel) ==
    IF mode = "volatility_budget" THEN AtLeast(MinStable, overlay)
    ELSE AtLeast(AtLeast(MinStable, StableTarget[newLabel]), overlay)

\* Reductions bypass staging when the overlay asks for more than the label.
HardReductions(overlay, newLabel) ==
    overlay > AtLeast(MinStable, StableTarget[newLabel])

-----------------------------------------------------------------------------
(* The steps of a review.                                                  *)

\* run_risk_gate's errors: a book beyond its budget, an asset bought while its chain is down.
GateRefusals(d, newTarget, weight, liveness) ==
    (IF d > Budget THEN {"DRAWDOWN_BREACH"} ELSE {})
        \cup (IF liveness \in CriticalLiveness /\ newTarget > weight THEN {"CHAIN_LIVENESS"} ELSE {})

NormalCount(market) ==
    IF market # "NORMAL" THEN 0 ELSE IF streak < RecoveryReviews THEN streak + 1 ELSE streak

\* Mutant: the machine's answer is used, its new state is not carried over.
AdvanceForgetting(o) ==
    IF mode = "volatility_budget"
    THEN Observe(o) /\ Remember(o) /\ riskyCap' = LadderCap(o.depth) /\ UNCHANGED <<state, reviewsInState>>
    ELSE UNCHANGED vars

\* In legacy mode the machine is not consulted.
AdvanceRecovery(o) ==
    IF mode = "volatility_budget"
    THEN Observe(o) /\ Remember(o) /\ Advance(o)
    ELSE UNCHANGED vars

\* Since the last review prices moved what was held: a book without risk
\* stands where it stood, any other may have fallen or healed.
Mark == IF risky = 0 THEN {drawdown} ELSE 0 .. MaxDepth

\* One pass of the loop down to its list of actions.  The volatility is the
\* one the review before estimated.
Decide(m) ==
    /\ phase = "decide" /\ phase' = "trade"
    /\ \E d \in Mark :
          LET market == MarketOnlyRegime(m.reading)
              o == [depth |-> d, market |-> market, severe |-> m.event = "SEVERE",
                    liveness |-> m.liveness, volatility |-> m.volatility]
          IN /\ drawdown' = d
             /\ streak' = NormalCount(market)
             /\ label' = DetermineRegime(m.reading, m.event, d, label, mode # "volatility_budget")
             /\ AdvanceRecovery(o)
             /\ LET overlay == OverlayFloor(d, streak', riskyCap')
                IN \E t \in RiskyLevels :
                      /\ t <= 100 - RequiredStable(overlay, label')
                      /\ target' = t
                      /\ hard' = HardReductions(overlay, label')
                      /\ refusals' = GateRefusals(d, t, risky, m.liveness)
    /\ UNCHANGED <<mode, risky>>

\* REDUCE and EXIT run even when the gate refuses; without execution bars
\* nothing runs.  A reduction that is not hard is staged: any part of it.
Reduced(bars) ==
    IF ~bars THEN {risky}
    ELSE IF hard THEN {target} ELSE {r \in RiskyLevels : target <= r /\ r <= risky}

\* Mutant: the gate's errors are logged and nothing else.
IncreasedAnyway(bars) ==
    IF ~bars THEN {risky} ELSE {r \in RiskyLevels : risky <= r /\ r <= target}

\* An INCREASE is dropped when the gate has errors; an entry plan may wait or
\* fill in part.
Increased(bars) ==
    IF ~bars \/ refusals # {} THEN {risky} ELSE {r \in RiskyLevels : risky <= r /\ r <= target}

\* What the finished review computed is not carried over, its label and its
\* streak excepted.
Trade(bars) ==
    /\ phase = "trade" /\ phase' = "decide"
    /\ \/ target < risky /\ risky' \in Reduced(bars)
       \/ target > risky /\ risky' \in Increased(bars)
       \/ target = risky /\ UNCHANGED risky
    /\ target' = 0 /\ hard' = FALSE /\ refusals' = {}
    /\ UNCHANGED <<vars, mode, label, streak, drawdown>>

ReplayInit ==
    /\ Init
    /\ mode \in Modes
    /\ phase = "decide"
    /\ label = "NONE" /\ streak = 0
    /\ drawdown = 0
    /\ risky \in RiskyLevels
    /\ target = 0 /\ hard = FALSE /\ refusals = {}

ReplayNext ==
    \/ \E m \in Markets : Decide(m)
    \/ \E bars \in BOOLEAN : Trade(bars)

ReplaySpec == ReplayInit /\ [][ReplayNext]_replayVars

-----------------------------------------------------------------------------
(* Properties.                                                             *)

\* Every variable of the loop keeps its type; a target is only ever standing
\* between the decision and the trades, and lies under the policy's floor.
ReplayTypeOK ==
    /\ TypeOK
    /\ mode \in Modes /\ phase \in {"decide", "trade"}
    /\ label \in Labels \cup {"NONE"}
    /\ streak \in 0 .. RecoveryReviews
    /\ drawdown \in 0 .. MaxDepth
    /\ risky \in RiskyLevels /\ target \in RiskyLevels
    /\ target <= 100 - MinStable
    /\ hard \in BOOLEAN /\ refusals \subseteq Refusals
    /\ phase = "decide" => target = 0 /\ ~hard /\ refusals = {}

\* Only the replay's own reviews advance the recovery machine, once each,
\* with the market's own opinion and never the label: the loop implements
\* the machine's specification.
DrivesRecovery == Spec

\* In legacy mode no bound on how far the label may move, no calm market and
\* no previous label ever leaves it below the floor of the drawdown.
MandatoryFloor ==
    mode = "legacy_drawdown" /\ label # "NONE" => Level(label) >= Level(DrawdownFloor(drawdown))

\* What holds of every review of the loop.
ReplayInvariant == ReplayTypeOK /\ MandatoryFloor

\* However the review came to its target, a book beyond the drawdown budget
\* never ends the review with more risk than it began it.
BreachNeverAddsRisk ==
    [][phase = "trade" /\ drawdown > Budget => risky' <= risky]_replayVars

\* references/risk-model.md:258, of a book pinned beyond its budget: after
\* the confirmed recovery "the book may re-risk up to recovery_risky_floor".
\* A review that is refused for the drawdown alone must not want more risk
\* while recovery is confirmed.
RecoveryMayReRisk ==
    ~ /\ IF mode = "volatility_budget" THEN state \in RecoveryStates ELSE streak >= RecoveryReviews
      /\ target > risky
      /\ refusals = {"DRAWDOWN_BREACH"}

=============================================================================
