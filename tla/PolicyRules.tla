----------------------------- MODULE PolicyRules -----------------------------
(***************************************************************************)
(* _parse_policy of models/policy.py: which numbers of config/policy.json  *)
(* a review may run with, for the parts the allocation rests on.           *)
(*                                                                         *)
(* Fractions are thousandths and scores 0 .. 100.  A profile or a family   *)
(* names the factors it weighs; factors of no weight are left out.  The    *)
(* shape of the file, its unknown and its missing fields are left out.     *)
(* with_overrides replaces the universe and two fractions of a policy and  *)
(* repeats the checks of Disjoint and of those fractions only.             *)
(***************************************************************************)
EXTENDS Integers, FiniteSets, Sums

\* Thousandths of a whole.
Mille == 0 .. 1000

Fraction(x) == x \in Mille
Positive(x) == x \in 1 .. 1000
Points(x) == x \in 0 .. 100

Falling(xs) == \A i, j \in DOMAIN xs : i < j => xs[i] >= xs[j]

\* _weighted_map and its kin: fractions that add up to one.
Adds(share, whole) ==
    /\ IsFiniteSet(DOMAIN share)
    /\ \A f \in DOMAIN share : share[f] \in 0 .. whole
    /\ Total(share) = whole

\* _check_overlaps: a symbol has one role.
Disjoint(core, satellites, stable, excluded) ==
    /\ core \cap (satellites \cup stable \cup excluded) = {}
    /\ satellites \cap (stable \cup excluded) = {}
    /\ stable \cap excluded = {}

\* _parse_scoring_profiles, _parse_asset_scoring_profiles
ProfilesAccepted(p) ==
    /\ "default" \in DOMAIN p.profiles
    /\ \A name \in DOMAIN p.profiles : Adds(p.profiles[name], 1000)
    /\ \A a \in DOMAIN p.profileOf : p.profileOf[a] \in DOMAIN p.profiles
    /\ "BTC" \in DOMAIN p.profileOf
    /\ "relative" \notin DOMAIN p.profiles[p.profileOf["BTC"]]

\* _parse_scoring_v3_family_block
FamilyAccepted(family) == Adds(family, 1000) /\ \A f \in DOMAIN family : family[f] > 0

\* _parse_scoring_v3: families need not be there for every profile, and the
\* market family of BTC may weigh its strength relative to BTC; a review of
\* such an asset raises.
FamiliesAccepted(p) ==
    /\ DOMAIN p.families \subseteq DOMAIN p.profiles /\ DOMAIN p.families # {}
    /\ \A families \in {p.families, p.assetFamilies} :
          \A name \in DOMAIN families :
             FamilyAccepted(families[name].market) /\ FamilyAccepted(families[name].structural)
    /\ Points(p.marketEntry) /\ Points(p.structuralConviction)

\* What a review of any asset takes for granted beyond that.
Scorable(p, assets) ==
    \A a \in assets :
        a \in DOMAIN p.assetFamilies
        \/ (IF a \in DOMAIN p.profileOf THEN p.profileOf[a] ELSE "default") \in DOMAIN p.families

CoverageAccepted(p) ==
    /\ {p.investable, p.mediumCoverage, p.highCoverage, p.minNormal} \subseteq Mille
    /\ Falling(<<p.highCoverage, p.mediumCoverage, p.investable>>)
    /\ 0 < p.minNormal /\ p.minNormal <= p.mediumCoverage

\* _parse_confidence
ConfidenceAccepted(p) ==
    /\ Positive(p.mediumConfidence) /\ Positive(p.highConfidence)
    /\ p.mediumConfidence <= p.highConfidence
    /\ Adds(p.dimensions, 1000)
    /\ Fraction(p.incompleteCap)

\* _parse_execution: what confidence and evidence allow at once.
AllowancesAccepted(p) ==
    /\ \A band \in {"HIGH", "MEDIUM", "LOW"} : Fraction(p.confidenceAllowance[band])
    /\ Falling(<<p.confidenceAllowance.HIGH, p.confidenceAllowance.MEDIUM,
                 p.confidenceAllowance.LOW>>)
    /\ Fraction(p.limitedFactor)

\* _parse_event_risk_multipliers
EventsAccepted(p) ==
    /\ \A event \in {"NORMAL", "ELEVATED", "HIGH", "SEVERE"} : Fraction(p.eventMultiplier[event])
    /\ Falling(<<p.eventMultiplier.NORMAL, p.eventMultiplier.ELEVATED,
                 p.eventMultiplier.HIGH, p.eventMultiplier.SEVERE>>)

\* The scores at which a satellite leaves, stays, enters and is full, what
\* each is worth, and the scores of its comparison with BTC.
CurveAccepted(p) ==
    /\ {p.softExit, p.exit, p.entry, p.full, p.relativeBlock, p.relativeIncrease} \subseteq 0 .. 100
    /\ p.softExit < p.exit /\ p.exit < p.entry /\ p.entry < p.full
    /\ {p.softExitFraction, p.exitFraction, p.entryFraction} \subseteq Mille
    /\ p.softExitFraction <= p.exitFraction /\ p.exitFraction <= p.entryFraction
    /\ p.relativeBlock < p.relativeIncrease
    /\ Positive(p.tacticalFraction)

\* _parse_core_allocation
CoreAccepted(p) ==
    /\ DOMAIN p.anchor = {"BTC", "ETH"} /\ Adds(p.anchor, 10)
    /\ {p.ethRelativeReduce, p.ethRelativeIncrease, p.ethHold, p.ethIncrease} \subseteq 0 .. 100
    /\ p.ethRelativeReduce < p.ethRelativeIncrease /\ p.ethRelativeIncrease <= p.ethHold
    /\ p.ethHold <= p.ethIncrease
    /\ Fraction(p.ethMaxShare)
    /\ \A band \in {"HIGH", "MEDIUM", "LOW"} : Fraction(p.coreConfidence[band])
    /\ Falling(<<p.coreConfidence.HIGH, p.coreConfidence.MEDIUM, p.coreConfidence.LOW>>)

RegimeAccepted(limits) ==
    /\ {limits.stable, limits.satelliteMax, limits.single, limits.coreMin} \subseteq Mille
    /\ limits.coreMin + limits.satelliteMax <= 1000

\* _parse_policy
Accepted(p, core, satellites, regimes) ==
    /\ Disjoint(core, satellites, {}, p.excluded)
    /\ ProfilesAccepted(p) /\ FamiliesAccepted(p) /\ CoverageAccepted(p)
    /\ ConfidenceAccepted(p) /\ AllowancesAccepted(p) /\ EventsAccepted(p)
    /\ CurveAccepted(p) /\ CoreAccepted(p)
    /\ \A limits \in regimes : RegimeAccepted(limits)
    /\ Fraction(p.minStable) /\ Positive(p.budget) /\ Positive(p.tilt)

=============================================================================
