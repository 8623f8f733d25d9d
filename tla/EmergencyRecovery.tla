------------------------- MODULE EmergencyRecovery -------------------------
(***************************************************************************)
(* The staged emergency-recovery machine of engine/risk_recovery.py.       *)
(*                                                                         *)
(* Once per review the machine is shown the portfolio drawdown, the        *)
(* market-only regime, the severe-event and chain-liveness flags and the   *)
(* estimated portfolio volatility, and it answers with the largest risky   *)
(* weight the book may carry.  A drawdown is modelled by its depth, a      *)
(* natural number of percentage points below the high, so a "new low" is a *)
(* greater depth; caps are percentages.                                    *)
(*                                                                         *)
(* Every review counter is only ever compared with a threshold that is at  *)
(* most ReleaseReviews, so the counters saturate there (Tick).             *)
(***************************************************************************)
EXTENDS Integers

CONSTANTS
    MaxDepth,         \* deepest drawdown a review may report
    CautionAt,        \* caution_fraction * budget
    EmergencyAt,      \* emergency_fraction * budget
    Budget,           \* max_portfolio_drawdown; only beyond it is a breach
    CautionCap, EmergencyCap, BreachCap,
    Stage1Cap, Stage2Cap,
    Stage1Reviews, Stage2Reviews, ReleaseReviews

\* What models/policy.py accepts for risk_engine.emergency_overlay and
\* risk_engine.recovery.
ASSUME RecoveryPolicy ==
    /\ {MaxDepth, CautionAt, EmergencyAt, Budget} \subseteq Nat
    /\ {CautionCap, EmergencyCap, BreachCap, Stage1Cap, Stage2Cap} \subseteq 0 .. 100
    /\ {Stage1Reviews, Stage2Reviews, ReleaseReviews} \subseteq Nat \ {0}
    /\ 0 < CautionAt /\ CautionAt < EmergencyAt /\ EmergencyAt < Budget
    /\ BreachCap < EmergencyCap /\ EmergencyCap < CautionCap
    /\ BreachCap < Stage1Cap /\ Stage1Cap < Stage2Cap /\ Stage2Cap < 100
    /\ Stage1Reviews <= Stage2Reviews /\ Stage2Reviews <= ReleaseReviews

VARIABLES
    state,                \* the label of the emergency state
    reviewsInState,
    marketNormalStreak,
    reviewsSinceNewLow,
    lastLow,              \* last_portfolio_low, as a depth
    riskyCap,             \* the cap of the block the last review returned
    depth,                \* the drawdown the last review reported
    quiet,                \* history: consecutive quiet reviews (see Quiet)
    stressed              \* history: the last review was under stress (see Stress)

vars == <<state, reviewsInState, marketNormalStreak, reviewsSinceNewLow,
          lastLow, riskyCap, depth, quiet, stressed>>

FullCap == 100

LadderStates == {"NORMAL", "CAUTION", "EMERGENCY", "BREACH"}
RecoveryStates == {"RECOVERY_1", "RECOVERY_2"}
Regimes == {"NORMAL", "DEFENSIVE", "CAPITAL_PRESERVATION"}
LivenessStatuses == {"HEALTHY", "DEGRADED", "HALTED"}
CriticalLiveness == {"HALTED"}        \* stands for HALTED, UNKNOWN, FAILED, CONFLICT
Volatilities == {"WITHIN", "ABOVE", "UNAVAILABLE"}

Observations ==
    [depth : 0 .. MaxDepth, market : Regimes, severe : BOOLEAN,
     liveness : LivenessStatuses, volatility : Volatilities]

-----------------------------------------------------------------------------
(* The drawdown ladder: emergency_drawdown_state.  breach_fraction only    *)
(* takes part in the policy's ordering check: the breach itself is beyond  *)
(* the whole budget.                                                       *)

LadderState(d) ==
    CASE d > Budget -> "BREACH"
      [] d >= EmergencyAt /\ d <= Budget -> "EMERGENCY"
      [] d >= CautionAt /\ d < EmergencyAt -> "CAUTION"
      [] OTHER -> "NORMAL"

LadderCap(d) ==
    [NORMAL |-> FullCap, CAUTION |-> CautionCap,
     EMERGENCY |-> EmergencyCap, BREACH |-> BreachCap][LadderState(d)]

Severity(s) == [NORMAL |-> 0, CAUTION |-> 1, EMERGENCY |-> 2, BREACH |-> 3][s]

Deep(d) == LadderState(d) \in {"EMERGENCY", "BREACH"}

-----------------------------------------------------------------------------
(* One review.                                                             *)

Tick(n) == IF n < ReleaseReviews THEN n + 1 ELSE n

Larger(a, b) == IF a >= b THEN a ELSE b

\* Mutant: standing at the old low counts as a new one.
NewLowOrEqual(o) == o.depth >= lastLow

NewLow(o) == o.depth > lastLow

SinceNewLow(o) == IF NewLow(o) THEN 0 ELSE Tick(reviewsSinceNewLow)

Severe(o) == o.severe \/ o.liveness \in CriticalLiveness

\* Mutant: the first stage does not wait for the trough clock.
ConditionsOkAtOnce(o) == o.market = "NORMAL" /\ o.volatility = "WITHIN" /\ ~Severe(o)

ConditionsOk(o) ==
    /\ o.market = "NORMAL"
    /\ o.volatility = "WITHIN"
    /\ SinceNewLow(o) >= Stage1Reviews
    /\ ~Severe(o)

\* The drawdown healed out of the deep bands: the ladder takes over again.
Relaxes(o) == ~Deep(o.depth) /\ state \in RecoveryStates \cup {"EMERGENCY", "BREACH"}

\* Everything that knocks the book back onto the drawdown ladder.
Resets(o) ==
    \/ NewLow(o)
    \/ Severe(o)
    \/ o.market # "NORMAL" /\ state \in RecoveryStates
    \/ o.market # "NORMAL" /\ state = "NORMAL" /\ Deep(o.depth)
    \/ /\ state \in {"CAUTION", "EMERGENCY", "BREACH"}
       /\ Severity(LadderState(o.depth)) > Severity(state)

Promotes(o) == ~Relaxes(o) /\ ~Resets(o) /\ ConditionsOk(o)

\* The effective cap: a recovery stage never falls below the ladder's own
\* cap, and a released book is not capped by a ladder that is still deep.
EffectiveCap(s, d) ==
    CASE s = "RECOVERY_1" -> Larger(Stage1Cap, LadderCap(d))
      [] s = "RECOVERY_2" -> Larger(Stage2Cap, LadderCap(d))
      [] s = "NORMAL" /\ Deep(d) -> FullCap
      [] OTHER -> LadderCap(d)

\* What every review does, whichever transition it takes.
Observe(o) ==
    /\ depth' = o.depth
    /\ lastLow' = Larger(lastLow, o.depth)
    /\ reviewsSinceNewLow' = SinceNewLow(o)
    /\ marketNormalStreak' = IF o.market = "NORMAL" THEN Tick(marketNormalStreak) ELSE 0

MoveTo(s, o) ==
    /\ state' = s
    /\ reviewsInState' = IF s = state THEN Tick(reviewsInState) ELSE 0
    /\ riskyCap' = EffectiveCap(s, o.depth)

\* A quiet review: every recovery condition but the trough clock holds and
\* the drawdown has not deepened.
Quiet(o) ==
    /\ o.market = "NORMAL" /\ o.volatility = "WITHIN" /\ ~Severe(o)
    /\ o.depth <= depth

\* The clock that decides when the longest quiet climb must have ended.
QuietBound == ReleaseReviews + 2

Stress(o) == NewLow(o) \/ Severe(o) \/ o.market # "NORMAL"

\* The history variables, which no action reads.
Remember(o) ==
    /\ quiet' = IF ~Quiet(o) THEN 0 ELSE IF quiet < QuietBound THEN quiet + 1 ELSE quiet
    /\ stressed' = Stress(o)

LadderRelaxed(o) == Relaxes(o) /\ MoveTo(LadderState(o.depth), o)

ResetToLadder(o) == ~Relaxes(o) /\ Resets(o) /\ MoveTo(LadderState(o.depth), o)

EnterRecovery1(o) ==
    /\ Promotes(o)
    /\ state \in {"EMERGENCY", "BREACH"}
    /\ MoveTo("RECOVERY_1", o)

EnterRecovery2(o) ==
    /\ Promotes(o)
    /\ state = "RECOVERY_1"
    /\ SinceNewLow(o) >= Stage2Reviews
    /\ MoveTo("RECOVERY_2", o)

ReleaseBook(o) ==
    /\ Promotes(o)
    /\ state = "RECOVERY_2"
    /\ SinceNewLow(o) >= ReleaseReviews
    /\ MoveTo("NORMAL", o)

MayPromote(o) ==
    /\ ConditionsOk(o)
    /\ \/ state \in {"EMERGENCY", "BREACH"}
       \/ state = "RECOVERY_1" /\ SinceNewLow(o) >= Stage2Reviews
       \/ state = "RECOVERY_2" /\ SinceNewLow(o) >= ReleaseReviews

Hold(o) == ~Relaxes(o) /\ ~Resets(o) /\ ~MayPromote(o) /\ MoveTo(state, o)

Advance(o) ==
    \/ LadderRelaxed(o)
    \/ ResetToLadder(o)
    \/ EnterRecovery1(o)
    \/ EnterRecovery2(o)
    \/ ReleaseBook(o)
    \/ Hold(o)

Init ==
    /\ state = "NORMAL"
    /\ reviewsInState = 0
    /\ marketNormalStreak = 0
    /\ reviewsSinceNewLow = 0
    /\ lastLow = 0
    /\ riskyCap = FullCap
    /\ depth = 0
    /\ quiet = 0
    /\ stressed = FALSE

Next == \E o \in Observations : Observe(o) /\ Remember(o) /\ Advance(o)

Spec == Init /\ [][Next]_vars

-----------------------------------------------------------------------------
(* Properties.                                                             *)

\* The persisted state keeps the types RecoveryState.__post_init__ insists on.
TypeOK ==
    /\ state \in LadderStates \cup RecoveryStates
    /\ reviewsInState \in 0 .. ReleaseReviews
    /\ marketNormalStreak \in 0 .. ReleaseReviews
    /\ reviewsSinceNewLow \in 0 .. ReleaseReviews
    /\ lastLow \in 0 .. MaxDepth
    /\ riskyCap \in 0 .. FullCap
    /\ depth \in 0 .. MaxDepth
    /\ quiet \in 0 .. QuietBound
    /\ stressed \in BOOLEAN

\* A book is in a recovery stage only while the clock since its last low has
\* reached that stage's threshold, whatever path of resets, relaxations and
\* promotions led there.
StagesWaitForTrough ==
    /\ state = "RECOVERY_1" => reviewsSinceNewLow >= Stage1Reviews
    /\ state = "RECOVERY_2" => reviewsSinceNewLow >= Stage2Reviews

\* A book labelled with a brake state is never labelled less severe than the
\* ladder of the drawdown it has just reported: a second slide that is not a
\* new low is caught by the severity rule.
BrakeCoversLadder ==
    state \in {"CAUTION", "EMERGENCY", "BREACH"}
        => Severity(LadderState(depth)) <= Severity(state)

\* Every review spent in a recovery stage, the one that entered it included,
\* saw a NORMAL market: one bad reading ends the stage.
StagesNeedNormalMarket ==
    state \in RecoveryStates
        => marketNormalStreak > reviewsInState \/ marketNormalStreak = ReleaseReviews

\* Whatever the recovery ladder had granted, a review that reports a new low,
\* a severe event or critical liveness, or a market that is not NORMAL, ends
\* under the cap of the drawdown ladder.
StressReturnsToLadder == stressed => riskyCap <= LadderCap(depth)

\* A deep drawdown in a quiet market cannot pin the book for ever: after at
\* most ReleaseReviews + 2 quiet reviews in a row the stages have all been
\* climbed and the cap is back at what it would be with no brake.
QuietMarketReleases == quiet = QuietBound /\ Deep(depth) => riskyCap = FullCap

\* What holds of the machine after every review, over all paths of resets,
\* relaxations and promotions: the stages were earned and the brake covers the
\* drawdown, or what stress reports.
RecoveryInvariant ==
    /\ TypeOK
    /\ StagesWaitForTrough /\ StagesNeedNormalMarket
    /\ BrakeCoversLadder /\ StressReturnsToLadder

=============================================================================
