----------------------------- MODULE Allocation -----------------------------
(***************************************************************************)
(* build_target_allocation of engine/allocation.py: how one review turns   *)
(* the regime, the drawdown overlay, the evidence about every asset and    *)
(* the book into target weights, in both of its engines, and how the book  *)
(* follows them from review to review.                                     *)
(*                                                                         *)
(* Weights, caps and fractions are thousandths; a division rounds down,    *)
(* and what rounding leaves over stays in the stable sleeve, which is      *)
(* whatever the risky assets do not hold.  Scores are 0 .. 100.  The view  *)
(* of an asset names the readings of its factors and holds what Scoring    *)
(* derives from them.  An event state of SEVERE also stands for CRITICAL,  *)
(* for a broken thesis and for a severe structural risk of ETH; `complete' *)
(* says that the critical data are there and no event is unresolved.       *)
(* `heads' names what the sources of the asset's chain answer, `chain' is  *)
(* what the liveness provider makes of it, and `where' who is told: the    *)
(* GATE, the TARGET (the argument of build_target_allocation), the         *)
(* ASSESSMENT of the asset.  The gate of engine/risk.py and the rule of    *)
(* research/orchestrator.py that an error of it drops every increase       *)
(* complete the review.  `score' is the decision confidence a host         *)
(* measures and hands to the allocator and the gate; `overlay' is what the *)
(* market overlays allow to be bought of an asset.                         *)
(***************************************************************************)
EXTENDS RiskGate, Scoring, PolicyRules

CONSTANTS
    Satellites,       \* the satellite symbols
    Policy,           \* the numbers of config/policy.json used here, by name
    Regimes,          \* the limits of the regimes reviewed
    Settings,         \* of each chain, the limits on the age of its head
    Situations,       \* [regime, floor, depth, scale, stress, score] a review may meet
    SatelliteViews,   \* what may be known of a satellite
    CoreViews,        \* what may be known of BTC and ETH
    Evidence,         \* by name, what the factors of an asset may read
    Answers,          \* by name and asset, what the sources of a chain may answer
    Books,            \* weights the first review may find
    MaxReviews        \* bound on the reviews

Core == {"BTC", "ETH"}
Assets == Core \cup Satellites
Engines == {"legacy_drawdown", "volatility_budget"}

Least(S) == CHOOSE x \in S : \A y \in S : x <= y
Most(S) == CHOOSE x \in S : \A y \in S : x >= y

ASSUME AllocationPolicy ==
    /\ Satellites # {} /\ IsFiniteSet(Satellites)
    /\ Accepted(Policy, Core, Satellites, Regimes) /\ Scorable(Policy, Assets)
    /\ \A a \in Assets \cap ChainAssets : AcceptedSettings(a, Settings[a])
    /\ \A s \in Situations :
          /\ s.regime \in Regimes /\ s.floor \in Mille /\ s.scale \in Mille
          /\ s.stress \in Mille \cup {None} /\ s.score \in Mille \cup {None}
          /\ s.depth \in Mille
    /\ \A b \in Books : b \in [Assets -> Mille] /\ Total(b) <= 1000

\* What the providers and the normalization of a review hand over.
ASSUME ReviewsAreTyped ==
    /\ \A name \in DOMAIN Evidence : \A f \in DOMAIN Evidence[name] :
          LET r == Evidence[name][f]
          IN /\ r.score \in 0 .. 100 /\ r.part \in Mille /\ r.fresh \in Mille
             /\ r.quality \in Mille
    /\ \A name \in DOMAIN Answers, a \in ChainAssets :
          /\ DOMAIN Answers[name][a] = DOMAIN DefaultSources(a)
          /\ \A i \in DOMAIN Answers[name][a] :
                LET answer == Answers[name][a][i]
                IN answer = None \/ (answer.at \in Int /\ answer.height \in Int)
    /\ SatelliteViews \subseteq
          [readings : DOMAIN Evidence, relative : 0 .. 100 \cup {None}, event : Events,
           complete : BOOLEAN, tier : Mille, alpha : BOOLEAN,
           overlay : Mille, heads : DOMAIN Answers \cup {None}, where : SUBSET {"GATE", "TARGET", "ASSESSMENT"}]
    /\ \A c \in CoreViews :
          c \in [Core -> [readings : DOMAIN Evidence, relative : 0 .. 100 \cup {None},
                         event : Events, complete : BOOLEAN, heads : DOMAIN Answers \cup {None},
                         where : SUBSET {"GATE", "TARGET", "ASSESSMENT"}]]

ASSUME NoneIsNothing ==
    None \notin Nat /\ None \notin Unproven /\ None \notin [Assets -> Mille]

ASSUME ReviewsAreCounted == MaxReviews \in Nat

VARIABLES
    engine,   \* risk_engine.mode
    weights,  \* the risky weights of the book
    inputs,   \* what the standing review saw
    plan,     \* its AllocationResult, None once it was followed
    reviews   \* how many reviews there were

allocationVars == <<engine, weights, inputs, plan, reviews>>

Legacy == engine = "legacy_drawdown"

-----------------------------------------------------------------------------
(* What the evidence about one asset permits.                              *)

\* low_evidence_contract
EvidenceClass(v) ==
    IF ~v.complete \/ v.permission < 1000 * Policy.investable THEN "NOT_ACTIONABLE"
    ELSE IF v.permission < 1000 * Policy.highCoverage THEN "LIMITED" ELSE "ACTIONABLE"

AtLeast(score, threshold) == score # None /\ score >= threshold

\* conviction_state: strength in the market, then in the structure.
Conviction(v) ==
    CASE v.event = "SEVERE" -> "HARD_EXIT"
      [] v.event # "SEVERE" /\ EvidenceClass(v) = "NOT_ACTIONABLE" -> "NO_NEW_RISK"
      [] OTHER -> IF ~AtLeast(v.market, Policy.marketEntry) THEN "WATCH_ONLY"
                  ELSE IF AtLeast(v.structural, Policy.structuralConviction) THEN "FULL_CONVICTION"
                  ELSE "TACTICAL_ONLY"

\* _relative_eligibility
Relative(v) ==
    IF v.relative = None THEN "HOLD_ONLY"
    ELSE IF v.relative >= Policy.relativeIncrease THEN "ELIGIBLE"
    ELSE IF v.relative < Policy.relativeBlock THEN "INELIGIBLE" ELSE "HOLD_ONLY"

\* What an entry rests on is missing: nothing new may be bought on it.
Unevidenced(v) == v.relative = None \/ ~v.complete \/ v.unheard # {}

\* Mutant: missing evidence is read as a failed case.
EligibilityForcingExit(v, holding) ==
    IF \/ Unevidenced(v) \/ v.event = "SEVERE" \/ Relative(v) = "INELIGIBLE"
       \/ v.score = None \/ v.score < Policy.entry
    THEN "INELIGIBLE" ELSE "ELIGIBLE_INCREASE"

\* satellite_eligibility, for an asset held or not.
Eligibility(v, holding) ==
    LET preserved == IF holding THEN "HOLD_OR_REDUCE" ELSE "INELIGIBLE"
    IN IF Conviction(v) = "HARD_EXIT" \/ Relative(v) = "INELIGIBLE" THEN "INELIGIBLE"
       ELSE IF Unevidenced(v) \/ Conviction(v) = "NO_NEW_RISK" THEN preserved
       ELSE IF v.score = None THEN
           IF Conviction(v) = "WATCH_ONLY" \/ Relative(v) = "HOLD_ONLY"
           THEN preserved ELSE "ELIGIBLE_INCREASE"
       ELSE IF v.score < Policy.softExit THEN "INELIGIBLE"
       ELSE IF Relative(v) = "HOLD_ONLY" THEN preserved
       ELSE IF v.score < Policy.exit THEN
           IF holding THEN "SOFT_EXIT" ELSE "INELIGIBLE"
       ELSE IF v.score < Policy.entry THEN preserved ELSE "ELIGIBLE_INCREASE"

\* satellite_target_fraction: linear between the four breakpoints.
Curve(score) ==
    LET between(low, high, base, top) ==
            base + ((score - low) * (top - base)) \div (high - low)
    IN IF score <= Policy.softExit THEN Policy.softExitFraction
       ELSE IF score <= Policy.exit
            THEN between(Policy.softExit, Policy.exit,
                         Policy.softExitFraction, Policy.exitFraction)
       ELSE IF score <= Policy.entry
            THEN between(Policy.exit, Policy.entry,
                         Policy.exitFraction, Policy.entryFraction)
       ELSE IF score <= Policy.full
            THEN between(Policy.entry, Policy.full, Policy.entryFraction, 1000)
       ELSE 1000

\* The score the curve may be read at: the composite, or the market score
\* where both families support the case.
ComparisonScore(v) ==
    IF v.score # None THEN v.score
    ELSE IF Conviction(v) = "FULL_CONVICTION" THEN v.market ELSE None

\* The share of its risk envelope a satellite deserves.
CurveFraction(v, holding) ==
    IF /\ Legacy
       /\ Conviction(v) = "TACTICAL_ONLY"
       /\ Eligibility(v, holding) = "ELIGIBLE_INCREASE"
    THEN Policy.tacticalFraction
    ELSE IF ComparisonScore(v) # None THEN Curve(ComparisonScore(v)) ELSE 0

\* Admitted, unlocked, positive alpha of the asset itself.
AlphaGranted(v) == ~Legacy /\ v.alpha

EventMultiplier(event) == Policy.eventMultiplier[event]

\* The independent deployment caps combine by their minimum, the only way of
\* combining them a policy may name.
DeploymentFactor(v, holding, score) ==
    IF Eligibility(v, holding) # "ELIGIBLE_INCREASE" THEN 0
    ELSE Least({EventMultiplier(v.event), ConfidenceAllowance(Policy, score), v.overlay,
                CASE EvidenceClass(v) = "ACTIONABLE" -> 1000
                  [] EvidenceClass(v) = "LIMITED" -> Policy.limitedFactor
                  [] EvidenceClass(v) = "NOT_ACTIONABLE" -> 0})

\* _btc_core_state: it reads the liveness in the assessment of BTC and not
\* the liveness the review passes beside the assessments.
BtcState(v) ==
    IF v.event = "SEVERE" THEN "INELIGIBLE"
    ELSE IF \/ v.chain \in Unproven /\ "ASSESSMENT" \in v.where
            \/ ~v.complete \/ v.confidence = "LOW" THEN "HOLD_ONLY"
    ELSE "ELIGIBLE_INCREASE"

\* _score: a core asset is judged by the effective score where too little is
\* there to normalize it.
CoreScore(v) == IF v.score = None THEN v.effective ELSE v.score

\* eth_core_eligibility: of the liveness only a halt is heard.
EthState(v) ==
    IF v.event = "SEVERE" \/ (v.chain = "HALTED" /\ "TARGET" \in v.where) THEN "INELIGIBLE"
    ELSE IF ~v.complete THEN "HOLD_ONLY"
    ELSE IF CoreScore(v) < Policy.ethHold THEN "REDUCE"
    ELSE IF v.relative = None THEN "HOLD_ONLY"
    ELSE IF v.relative < Policy.ethRelativeReduce THEN "REDUCE"
    ELSE IF v.relative < Policy.ethRelativeIncrease THEN "UNDERWEIGHT"
    ELSE IF CoreScore(v) < Policy.ethIncrease \/ v.confidence = "LOW" THEN "HOLD_ONLY"
    ELSE "ELIGIBLE_INCREASE"

CoreState(a, views) == IF a = "ETH" THEN EthState(views[a]) ELSE BtcState(views[a])

\* Mutant: poor data stop the baseline too.
BaselineBlockedByData(v) == BtcState(v) # "ELIGIBLE_INCREASE"

\* _core_baseline_blocked: only hard risk stops the default asset.
BaselineBlocked(v) == v.event = "SEVERE" \/ (v.chain \in Unproven /\ "TARGET" \in v.where)

-----------------------------------------------------------------------------
(* Sharing a budget.                                                       *)

\* _bounded_allocate_with_caps: the frozen take what they asked for up to
\* their caps, the others share the rest in proportion to their requests;
\* whoever would pass its cap gets the cap, and the rest is shared again.
Share(requests, budget, caps, frozen) ==
    LET asking == {a \in DOMAIN requests : requests[a] > 0}
        fixed == asking \cap frozen
        taken == [a \in fixed |-> Least({requests[a], caps[a]})]
        pool == Least({budget, SumOver(requests, asking)}) - Total(taken)
        Left(open) == pool - SumOver(caps, (asking \ fixed) \ open)
        open[S \in SUBSET (asking \ fixed)] ==
            LET capped == {a \in S : Left(S) * requests[a] > caps[a] * SumOver(requests, S)}
            IN IF capped = {} THEN S ELSE open[S \ capped]
        sharing == open[asking \ fixed]
    IN [a \in DOMAIN requests |->
            IF a \notin asking \/ budget <= 0 THEN 0
            ELSE IF a \in fixed THEN taken[a]
            ELSE IF Left(asking \ fixed) <= 0 THEN 0
            ELSE IF a \in sharing THEN (Left(sharing) * requests[a]) \div SumOver(requests, sharing)
            ELSE caps[a]]

Uniform(S, x) == [a \in S |-> x]

-----------------------------------------------------------------------------
(* The target.                                                             *)

\* The legacy engine reserves the regime's stable sleeve or the overlay's,
\* the volatility engine the policy minimum.
StableTarget(in) ==
    IF Legacy THEN Most({Policy.minStable, in.regime.stable, in.floor}) ELSE Policy.minStable

RiskyBudget(in) == 1000 - StableTarget(in)

\* Mutant: the envelope of the satellites ignores what the overlay leaves.
SatelliteCapOfRegime(in) == in.regime.satelliteMax

SatelliteCap(in) == Least({in.regime.satelliteMax, RiskyBudget(in)})

Envelope(v, in) == (SatelliteCap(in) * v.tier) \div 1000

Requested(v, holding, in) ==
    IF AlphaGranted(v)
    THEN Least({(Policy.tilt * RiskyBudget(in)) \div 1000, Envelope(v, in)})
    ELSE (Envelope(v, in) * CurveFraction(v, holding)) \div 1000

\* _incomplete_evidence: any missing factor counts here.
Incomplete(v) == v.relative = None \/ ~v.complete \/ v.missing # {}

\* The bucket a satellite of this state falls into: kept as it is, because
\* nothing condemns it and nothing sizes it; kept up to what it deserves,
\* because the volatility engine takes no score as authority; sized by the
\* curve; or none.
Bucket(v, state) ==
    IF state = "INELIGIBLE" THEN "NONE"
    ELSE IF state = "ELIGIBLE_INCREASE"
         THEN IF Legacy \/ AlphaGranted(v) THEN "STRATEGIC" ELSE "CAPPED_HOLD"
    ELSE IF Incomplete(v) \/ ComparisonScore(v) = None THEN "HOLD" ELSE "STRATEGIC"

\* What the review concludes about one satellite.
Verdict(s, v, in) ==
    LET held == weights[s]
        state == Eligibility(v, held > 0)
        requested == Requested(v, held > 0, in)
        bucket == Bucket(v, state)
    IN [bucket |-> bucket,
        factor |-> DeploymentFactor(v, held > 0, in.score),
        hold |-> CASE bucket = "HOLD" -> held
                   [] bucket = "CAPPED_HOLD" -> Least({held, requested})
                   [] OTHER -> 0,
        strategic |-> IF bucket = "STRATEGIC" THEN requested ELSE 0]

\* Mutant: gated sleeves keep the ceiling of the others.
GatedCapOfPeers(a, in, cap) == cap

\* The legacy anchor: shares by quality, confidence and event risk, gated
\* sleeves capped at what they hold.
GatedCap(a, in, cap) ==
    LET state == CoreState(a, in.core)
    IN IF state \in {"HOLD_ONLY", "UNDERWEIGHT"} THEN Least({cap, weights[a]})
       ELSE IF state = "REDUCE" THEN Least({cap, (weights[a] * 3) \div 4}) ELSE cap

AnchorCore(in, budget) ==
    LET quality(a) == 85 + (30 * CoreScore(in.core[a])) \div 100
        certainty(a) == Policy.coreConfidence[in.core[a].confidence]
        raw(a) == IF CoreState(a, in.core) = "INELIGIBLE" THEN 0
                  ELSE (Policy.anchor[a] * quality(a) * certainty(a)
                            * EventMultiplier(in.core[a].event)) \div 1000
        sum == raw("BTC") + raw("ETH")
        desired == [a \in Core |-> IF sum = 0 THEN 0 ELSE (budget * raw(a)) \div sum]
        ceiling(a) == IF a = "ETH"
                      THEN Least({in.regime.single, (budget * Policy.ethMaxShare) \div 1000})
                      ELSE in.regime.single
    IN Share(desired, budget, [a \in Core |-> GatedCap(a, in, ceiling(a))],
             {a \in Core : CoreState(a, in.core) # "ELIGIBLE_INCREASE"})

\* The BTC baseline, the only core mode of the volatility budget modelled, as
\* the shipped policy has it: with the ETH tilt locked and no minimum share for
\* ETH, the whole core budget is BTC's, up to the single-asset cap.
BaselineCore(in, budget) ==
    IF BaselineBlocked(in.core["BTC"]) \/ budget <= 0
    THEN 0 ELSE Least({budget, in.regime.single})

\* The capital hierarchy offers BTC what the core left over, under the same
\* block and the same cap.
Residual(in, budget) ==
    IF BaselineBlocked(in.core["BTC"]) THEN 0
    ELSE Least({Most({0, budget - BaselineCore(in, budget)}),
                in.regime.single - BaselineCore(in, budget)})

CoreTarget(in, budget) ==
    IF Legacy THEN AnchorCore(in, budget)
    ELSE [a \in Core |-> IF a = "BTC"
                         THEN BaselineCore(in, budget) + Residual(in, budget) ELSE 0]

\* combined_risk_cap over the floor, the emergency overlay, the volatility
\* budget and the stress budget: the tightest rules.
RiskCaps(in, raw) ==
    {1000 - Policy.minStable, (raw * in.scale) \div 1000}
        \cup (IF in.floor > 0 THEN {1000 - in.floor} ELSE {})
        \cup (IF in.stress # None THEN {(raw * in.stress) \div 1000} ELSE {})

RiskyTotal(in, raw) == IF raw = 0 THEN 0 ELSE Least({raw} \cup RiskCaps(in, raw))

Sized(in, raw) ==
    IF Legacy \/ Total(raw) = 0 THEN raw
    ELSE [a \in Assets |-> (raw[a] * RiskyTotal(in, Total(raw))) \div Total(raw)]

\* What is known of any asset.
View(a, in) == IF a \in Core THEN in.core[a] ELSE in.satellites[a]

\* The liveness the gate is told of, beside the assessments or in them.
GateChain(v) == IF v.where \cap {"GATE", "ASSESSMENT"} = {} THEN None ELSE v.chain

\* What the review hands to run_risk_gate.  A host that measures its own
\* confidence hands in its actions too.
Proposal(in, target) ==
    [target |-> target, current |-> weights, satellites |-> Satellites, core |-> Core,
     limits |-> in.regime, engine |-> engine, minStable |-> Policy.minStable,
     budget |-> Policy.budget, excluded |-> Policy.excluded,
     mediumConfidence |-> Policy.mediumConfidence, floor |-> in.floor, depth |-> in.depth,
     event |-> [a \in Assets |-> View(a, in).event],
     chain |-> [a \in Assets |-> GateChain(View(a, in))],
     planned |-> in.score # None, score |-> in.score,
     increases |-> IF in.score = None THEN {} ELSE {a \in Assets : target[a] > weights[a]}]

-----------------------------------------------------------------------------
(* Reviews and what follows them.                                          *)

Init ==
    /\ engine \in Engines
    /\ weights \in Books
    /\ inputs = None /\ plan = None
    /\ reviews = 0

Join(f, g) == [x \in DOMAIN f \cup DOMAIN g |-> IF x \in DOMAIN f THEN f[x] ELSE g[x]]

Heads(a, v) ==
    [i \in DOMAIN Answers[v.heads][a] |-> Progress(a, Answers[v.heads][a][i], 0)]

\* What a review knows of an asset: its view, the scores made of its
\* readings, and the liveness of its chain: none if nobody collected it, and
\* a metric that failed if it was collected and not reached.
Known(a, v) ==
    LET reached == Collected(DefaultSources(a), Settings[a], Heads(a, v), None, 0)
        chain == IF v.heads = None THEN None ELSE IF reached = None THEN "FAILED" ELSE reached
    IN Join(v, Join([chain |-> chain], Scored(Policy, a, Evidence[v.readings], v.complete)))

\* There are sources of the heads of four chains only.
KnownOf(a, views) == {Known(a, v) : v \in {u \in views : u.heads = None \/ a \in ChainAssets}}

\* What a review may meet: a situation, and views of all the assets.
Inputs ==
    {[regime |-> s.regime, floor |-> s.floor, depth |-> s.depth, scale |-> s.scale,
      stress |-> s.stress, score |-> s.score, satellites |-> satellites, core |-> core] :
        s \in Situations,
        satellites \in {f \in [Satellites -> UNION {KnownOf(a, SatelliteViews) : a \in Satellites}] :
                          \A a \in Satellites : f[a] \in KnownOf(a, SatelliteViews)},
        core \in {f \in [Core -> UNION {KnownOf(a, {c[a] : c \in CoreViews}) : a \in Core}] :
                    \E c \in CoreViews : \A a \in Core : f[a] = Known(a, c[a])}}

\* build_target_allocation: the preserved satellites first, the others in
\* what the envelope has left, the core in what the budget has left, and in
\* the volatility engine the whole sleeve under the risk caps.
Review ==
    /\ plan = None /\ reviews < MaxReviews
    /\ \E in \in Inputs :
       \E verdict \in {[s \in Satellites |-> Verdict(s, in.satellites[s], in)]} :
       \E kept \in {Share([s \in Satellites |-> verdict[s].hold], SatelliteCap(in),
                          Uniform(Satellites, in.regime.single), {})} :
       \E new \in {Share([s \in Satellites |-> verdict[s].strategic],
                         Most({0, SatelliteCap(in) - Total(kept)}),
                         Uniform(Satellites, in.regime.single), {})} :
       \E core \in {CoreTarget(in, RiskyBudget(in) - Total(kept) - Total(new))} :
       \E raw \in {[a \in Assets |-> IF a \in Core THEN core[a] ELSE kept[a] + new[a]]} :
       \E target \in {Sized(in, raw)} :
          /\ inputs' = in
          /\ plan' = [verdict |-> verdict, raw |-> raw, target |-> target,
                      errors |-> GateErrors(Proposal(in, target))]
    /\ reviews' = reviews + 1
    /\ UNCHANGED <<engine, weights>>

\* Where a full execution leaves an asset: at its target, or as far towards
\* it as the immediate allowance of the review reaches, and not above what
\* it holds under an error of the gate.
Reach(a) ==
    IF plan.target[a] <= weights[a] THEN plan.target[a]
    ELSE IF plan.errors # {} THEN weights[a]
    ELSE IF a \in Core THEN plan.target[a]
    ELSE Least({plan.target[a],
                weights[a] + (plan.target[a] * plan.verdict[a].factor) \div 1000})

\* The operator executes all of the plan, only its reductions, or nothing.
Execute(chosen) ==
    /\ plan # None
    /\ weights' = [a \in Assets |-> IF a \in chosen THEN Reach(a) ELSE weights[a]]
    /\ Total(weights') <= 1000
    /\ plan' = None /\ inputs' = None
    /\ UNCHANGED <<engine, reviews>>

Reductions == {a \in Assets : Reach(a) < weights[a]}

Next ==
    \/ Review
    \/ plan # None /\ \E chosen \in {Assets, Reductions, {}} : Execute(chosen)

AllocationSpec == Init /\ [][Next]_allocationVars

-----------------------------------------------------------------------------
(* Properties.                                                             *)

\* The engine is fixed and every weight of the book and of the plan is one.
AllocationTypeOK ==
    /\ engine \in Engines
    /\ weights \in [Assets -> Mille]
    /\ reviews \in 0 .. MaxReviews
    /\ plan # None => /\ plan.target \in [Assets -> Mille]
                      /\ \A s \in Satellites : plan.verdict[s].factor \in Mille

\* Every limit holds of the finished target at once, however the gates,
\* the caps and the redistribution of what they free interact: the stable
\* sleeve covers its floors, the satellites their envelope, each asset the
\* single-asset cap.
EveryLimitHolds ==
    plan # None =>
        /\ 1000 - Total(plan.target) >= Most({StableTarget(inputs), inputs.floor})
        /\ SumOver(plan.target, Satellites) <= inputs.regime.satelliteMax
        /\ \A a \in Assets : plan.target[a] <= inputs.regime.single

\* Too little is known of a satellite to judge it: its comparison with BTC,
\* its critical data or a factor it is scored by is missing.  A factor that
\* is not of its market side is not enough: those that are there must neither
\* condemn it nor make a case.
Unjudged(s, v) ==
    LET readings == Evidence[v.readings]
        profile == Policy.profiles[ProfileOf(Policy, s)]
        unread == {f \in DOMAIN profile : profile[f] > 0} \ DOMAIN readings
    IN \/ v.relative = None \/ ~v.complete
       \/ unread \cap DOMAIN FamiliesOf(Policy, s).market # {}
       \/ /\ unread # {}
          /\ \A f \in DOMAIN readings :
                /\ readings[f].score >= Policy.softExit
                /\ readings[f].score < Policy.entry /\ readings[f].score < Policy.marketEntry

\* Missing evidence never manufactures an exit: a held satellite about
\* which nothing bad is known, only too little, keeps its whole weight in
\* the legacy target while what is preserved fits the envelope.
MissingEvidenceNeverSells ==
    /\ plan # None /\ Legacy
    /\ Total([s \in Satellites |-> plan.verdict[s].hold]) <= SatelliteCap(inputs)
    => \A s \in Satellites :
            LET v == inputs.satellites[s]
            IN /\ Unjudged(s, v) /\ v.event # "SEVERE"
               /\ v.relative # None => v.relative >= Policy.relativeBlock
               => plan.target[s] >= Least({weights[s], inputs.regime.single})

\* Budget no other case can justify goes to BTC before it becomes cash: in
\* the volatility engine the strategic sleeve falls short of its budget only
\* under a hard risk of BTC itself or at its single-asset cap.
UnusedBudgetIsBtc ==
    plan # None /\ ~Legacy =>
        \/ Total(plan.raw) = RiskyBudget(inputs)
        \/ inputs.core["BTC"].event = "SEVERE"
        \/ inputs.core["BTC"].chain \in Unproven /\ "TARGET" \in inputs.core["BTC"].where
        \/ plan.raw["BTC"] = inputs.regime.single

\* The risk caps are alternatives: the sleeve is as large as the tightest
\* of them allows, up to rounding, and never smaller.
TightestCapRules ==
    plan # None /\ ~Legacy =>
        LET raw == Total(plan.raw)
        IN Total(plan.target) >= Least({raw} \cup RiskCaps(inputs, raw)) - Cardinality(Assets)

\* The allocator and the gate agree: whatever the book was, the allocator's
\* own target breaks none of the limits the gate recomputes; it is refused
\* for what the review knows of the world, and only for a reason that is
\* there to be seen.
GateRefusesForCause ==
    plan # None =>
        \A code \in plan.errors :
            CASE code = "DRAWDOWN_BREACH" -> inputs.depth > Policy.budget
              [] code = "DECISION_CONFIDENCE_BLOCK" -> inputs.score < Policy.mediumConfidence
              [] code = "SEVERE_EVENT_EXPOSURE" ->
                   \E a \in Assets : View(a, inputs).event = "SEVERE" /\ plan.target[a] > 0
              [] code = "CORE_MINIMUM" -> Total(plan.target) > 0
              [] code \in {"CHAIN_LIVENESS_HALTED", "CHAIN_LIVENESS_UNAVAILABLE"} ->
                   \E a \in Assets : View(a, inputs).chain \in Unproven
              [] OTHER -> FALSE

\* Of a chain whose head the review collected: nobody shows a head, or as
\* many independent sources as the policy wants show one head that stands
\* still for too long.  The second is never said of ETH: see QuorumNeverHalts.
Stands(a) ==
    LET v == View(a, inputs)
        p == Heads(a, v)
        stuck == {i \in DOMAIN p : p[i] # None /\ Severe(Settings[a], p[i])}
    IN /\ "GATE" \in v.where
       /\ v.heads # None
       /\ \/ \A i \in DOMAIN p : p[i] = None
          \/ /\ ~Quorum(DefaultSources(a))
             /\ \E same \in SUBSET stuck :
                   /\ Cardinality(GroupsOf(DefaultSources(a), same)) >= Settings[a].needed
                   /\ \A i, j \in same : p[i].height = p[j].height /\ p[i].hash = p[j].hash

\* The case a satellite of either engine needs.
SatelliteCase(v) ==
    /\ v.event # "SEVERE" /\ v.complete /\ v.unheard = {}
    /\ ~(v.permission < 1000 * Policy.investable)
    /\ AtLeast(v.relative, Policy.relativeIncrease)
    /\ v.score # None => ~(v.score < Policy.entry)

\* What the case rests on, by the readings alone: in the profile or on the
\* market side, the factors with a current reading carry the investable
\* share of the weight.
RestsOnEvidence(s, v) ==
    \E share \in {Policy.profiles[ProfileOf(Policy, s)], FamiliesOf(Policy, s).market} :
        SumOver(share, {f \in DOMAIN share \cap DOMAIN Evidence[v.readings] :
                        Evidence[v.readings][f].fresh > 0}) >= Policy.investable

\* The factors of the profile, by the quality of their sources alone, carry
\* the share of it that a confidence above LOW wants covered.
WellSourced(a, v) ==
    LET readings == Evidence[v.readings]
        profile == Policy.profiles[ProfileOf(Policy, a)]
    IN Total([f \in DOMAIN profile \cap DOMAIN readings |-> profile[f] * readings[f].quality])
           >= 1000 * Most({Policy.investable, Policy.mediumCoverage})

\* The case of a core asset: in the volatility engine BTC is the default, in
\* the other one it needs sources that are good enough.
CoreCase(a, v) ==
    IF Legacy
    THEN /\ v.event # "SEVERE" /\ v.complete /\ WellSourced(a, v)
         /\ a = "ETH" => /\ CoreScore(v) >= Policy.ethIncrease
                         /\ AtLeast(v.relative, Policy.ethRelativeIncrease)
    ELSE a = "BTC" /\ v.event # "SEVERE"

\* What may be bought on: stated of the evidence, not of the states the
\* code derives from it.
Entitled(a) ==
    /\ ~Stands(a)
    /\ inputs.score # None => inputs.score >= Policy.mediumConfidence
    /\ inputs.depth <= Policy.budget
    /\ a \in Satellites => /\ SatelliteCase(inputs.satellites[a])
                           /\ RestsOnEvidence(a, inputs.satellites[a])
                           /\ ~Legacy => inputs.satellites[a].alpha
    /\ a \in Core => CoreCase(a, inputs.core[a])

\* Nothing grows on evidence that does not carry it, not even through
\* budget a capped or condemned peer frees.
OnlyTheEntitledGrow ==
    [][\A a \in Assets : weights'[a] > weights[a] => Entitled(a)]_allocationVars

\* What holds of every finished target: all limits at once, each as tight as it
\* says and no tighter.
TargetInvariant ==
    AllocationTypeOK /\ EveryLimitHolds /\ TightestCapRules /\ GateRefusesForCause

=============================================================================
