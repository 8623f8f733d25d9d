------------------------------- MODULE Scoring -------------------------------
(***************************************************************************)
(* engine/scoring.py and engine/scoring_v3.py: what the readings of its    *)
(* factors say of one asset.                                               *)
(*                                                                         *)
(* `readings' maps the factors that were read, and only those, to          *)
(*   [score, part, fresh, quality, spread]                                 *)
(* a score of 0 .. 100, the share of the factor's inputs that was there,   *)
(* its freshness and the quality of its sources in thousandths, and how    *)
(* redundant they are, in thousandths or None.  A factor that is not read  *)
(* is MISSING.  The numbers `p' of the policy weigh the factors of a       *)
(* profile and of the two families of a profile or an asset; a `profile'   *)
(* is either and adds up to 1000.  Divisions round down.                   *)
(*                                                                         *)
(* A weight times a reliability is in millionths, and so are coverages.    *)
(* scoring_families, empty in the shipped policy, and the attribution      *)
(* fields of the results are left out; so are readings that raise.         *)
(***************************************************************************)
EXTENDS Absence, Integers, Sums

\* Mutant: what was not read weighs as a full reading of 50.
ReliabilityInFull(r) == 1000

\* calculate_factor_reliability, _metadata_reliability
Reliability(r) == (r.part * r.fresh * r.quality) \div 1000000

Weighed(profile, readings) == {f \in DOMAIN profile : profile[f] > 0} \cap DOMAIN readings

\* The weight of each factor, by as much as it is reliable.
Weight(profile, readings) ==
    [f \in Weighed(profile, readings) |-> profile[f] * Reliability(readings[f])]

\* The share of the profile that is there, by weight and reliability.
Coverage(profile, readings) == Total(Weight(profile, readings))

\* How far the factors lean from 50: a reading by as much as it is reliable,
\* a missing factor not at all.
Lean(profile, readings) ==
    Total([f \in Weighed(profile, readings) |->
              Weight(profile, readings)[f] * (readings[f].score - 50)])

\* The effective score, for diagnosis only.
Effective(profile, readings) == 50 + Lean(profile, readings) \div 1000000

\* coverage_normalized_score: what the score would be if all the evidence
\* were like the part that is there; none if too little is.
Normalized(p, profile, readings) ==
    IF Coverage(profile, readings) < 1000 * p.minNormal THEN None
    ELSE 50 + Lean(profile, readings) \div Coverage(profile, readings)

MissingOf(profile, readings) == {f \in DOMAIN profile : profile[f] > 0} \ DOMAIN readings

-----------------------------------------------------------------------------
(* Confidence.                                                             *)

\* _coverage_gate_band
GateBand(p, coverage, complete) ==
    IF ~complete \/ coverage < 1000 * Max({p.investable, p.mediumCoverage}) THEN "LOW"
    ELSE IF coverage < 1000 * p.highCoverage THEN "MEDIUM" ELSE "HIGH"

\* confidence_band
Band(p, score) ==
    IF score >= p.highConfidence THEN "HIGH"
    ELSE IF score >= p.mediumConfidence THEN "MEDIUM" ELSE "LOW"

\* The dimensions of the data confidence that anything is stated of.
Stated(profile, readings, dimension) ==
    {f \in Weighed(profile, readings) : readings[f][dimension] # None}

Dimension(profile, readings, dimension) ==
    IF dimension = "coverage" THEN Coverage(profile, readings) \div 1000
    ELSE LET stated == Stated(profile, readings, dimension)
         IN MapThenSumSet(LAMBDA f : profile[f] * readings[f][dimension], stated)
                \div MapThenSumSet(LAMBDA f : profile[f], stated)

\* The data confidence: the dimensions stated share the weights of all.
DataScore(p, profile, readings, complete) ==
    LET stated == {"coverage"} \cup {d \in {"fresh", "quality", "spread"} :
                                        Stated(profile, readings, d) # {}}
        raw == MapThenSumSet(LAMBDA d : p.dimensions[d] * Dimension(profile, readings, d), stated)
                   \div MapThenSumSet(LAMBDA d : p.dimensions[d], stated)
    IN IF complete THEN raw ELSE Min({raw, p.incompleteCap})

\* Mutant: the better of the two bands names the confidence.
ConfidenceOfEither(p, profile, readings, complete) ==
    LET bands == {GateBand(p, Coverage(profile, readings), complete),
                  Band(p, DataScore(p, profile, readings, complete))}
    IN IF "HIGH" \in bands THEN "HIGH" ELSE IF "MEDIUM" \in bands THEN "MEDIUM" ELSE "LOW"

\* The more defensive of the gate on the coverage and the band of the score.
Confidence(p, profile, readings, complete) ==
    LET bands == {GateBand(p, Coverage(profile, readings), complete),
                  Band(p, DataScore(p, profile, readings, complete))}
    IN IF "LOW" \in bands THEN "LOW" ELSE IF "MEDIUM" \in bands THEN "MEDIUM" ELSE "HIGH"

\* confidence_deployment_factor: what a decision of this confidence may
\* deploy at once; a review that measures none is not held back.
ConfidenceAllowance(p, score) ==
    IF score = None THEN 1000 ELSE p.confidenceAllowance[Band(p, score)]

-----------------------------------------------------------------------------
(* The two families and what they permit.                                  *)

\* scoring_profile_name
ProfileOf(p, asset) == IF asset \in DOMAIN p.profileOf THEN p.profileOf[asset] ELSE "default"

\* scoring_v3_families: an asset's own families come before its profile's.
FamiliesOf(p, asset) ==
    IF asset \in DOMAIN p.assetFamilies THEN p.assetFamilies[asset]
    ELSE p.families[ProfileOf(p, asset)]

\* score_assessment and asset_conviction_state: everything derived from the
\* readings of one asset.  The permission to deploy rests on the coverage of
\* the composite or, while there is no structural score, of the market side.
Scored(p, asset, readings, complete) ==
    LET profile == p.profiles[ProfileOf(p, asset)]
        families == FamiliesOf(p, asset)
        structural == Normalized(p, families.structural, readings)
    IN [score |-> Normalized(p, profile, readings),
        effective |-> Effective(profile, readings),
        confidence |-> Confidence(p, profile, readings, complete),
        missing |-> MissingOf(profile, readings),
        market |-> Normalized(p, families.market, readings),
        unheard |-> MissingOf(families.market, readings),
        structural |-> structural,
        permission |-> IF structural = None THEN Coverage(families.market, readings)
                       ELSE Coverage(profile, readings)]

=============================================================================
