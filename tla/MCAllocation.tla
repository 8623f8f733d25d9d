---------------------------- MODULE MCAllocation ----------------------------
(***************************************************************************)
(* Allocation for TLC: two satellites, the shipped numbers, and views of   *)
(* the assets and their chains that meet every gate.                       *)
(***************************************************************************)
EXTENDS Allocation

TwoSatellites == {"BNB", "SOL"}

ShippedPolicy ==
    [minStable |-> 150, softExit |-> 57, exit |-> 62, entry |-> 67, full |-> 85,
     softExitFraction |-> 0, exitFraction |-> 200, entryFraction |-> 400,
     tacticalFraction |-> 300, tilt |-> 100, limitedFactor |-> 500,
     relativeIncrease |-> 50, relativeBlock |-> 30,
     anchor |-> [BTC |-> 7, ETH |-> 3],
     ethMaxShare |-> 400, ethHold |-> 45, ethIncrease |-> 55,
     ethRelativeReduce |-> 30, ethRelativeIncrease |-> 45,
     budget |-> 150, excluded |-> {}, mediumConfidence |-> 600, highConfidence |-> 800,
     eventMultiplier |-> [NORMAL |-> 1000, ELEVATED |-> 750, HIGH |-> 500, SEVERE |-> 0],
     coreConfidence |-> [HIGH |-> 1000, MEDIUM |-> 750, LOW |-> 250],
     confidenceAllowance |-> [HIGH |-> 1000, MEDIUM |-> 700, LOW |-> 0],
     marketEntry |-> 67, structuralConviction |-> 67,
     minNormal |-> 600, investable |-> 600, mediumCoverage |-> 700, highCoverage |-> 900,
     incompleteCap |-> 590,
     dimensions |-> [coverage |-> 300, fresh |-> 200, quality |-> 200, spread |-> 300],
     profileOf |-> [BTC |-> "btc"],
     profiles |->
        [default |-> [trend |-> 300, valuation |-> 150, fundamentals |-> 200, onchain |-> 100,
                      flows |-> 100, relative |-> 150],
         btc |-> [trend |-> 350, flows |-> 250, btc_valuation |-> 200, macro |-> 200]],
     families |->
        [default |-> [market |-> [trend |-> 450, relative |-> 300, flows |-> 250],
                      structural |-> [valuation |-> 300, fundamentals |-> 450, onchain |-> 250]],
         btc |-> [market |-> [trend |-> 600, flows |-> 400],
                  structural |-> [btc_valuation |-> 550, macro |-> 450]]],
     assetFamilies |->
        [ETH |-> [market |-> [trend |-> 400, relative |-> 250, flows |-> 200, onchain |-> 150],
                  structural |-> [valuation |-> 300, fundamentals |-> 450, onchain |-> 250]]]]

Normal ==
    [name |-> "NORMAL", stable |-> 150, satelliteMax |-> 250, single |-> 500, coreMin |-> 500]
Defensive ==
    [name |-> "DEFENSIVE", stable |-> 300, satelliteMax |-> 150, single |-> 500, coreMin |-> 500]
Preservation ==
    [name |-> "CAPITAL_PRESERVATION", stable |-> 500, satelliteMax |-> 50, single |-> 400,
     coreMin |-> 0]

ShippedRegimes == {Normal, Defensive, Preservation}

ShippedChains == [a \in ChainAssets |-> ShippedSettings(a)]

Situation(regime, floor, depth, scale, stress, score) ==
    [regime |-> regime, floor |-> floor, depth |-> depth, scale |-> scale, stress |-> stress,
     score |-> score]

SampleSituations ==
    {Situation(Normal, 0, 0, 1000, None, None), Situation(Defensive, 400, 80, 700, 900, 700),
     Situation(Preservation, 960, 151, 1000, None, 550)}

-----------------------------------------------------------------------------
(* What the sources of a chain answer, `age' seconds after the head.       *)

HeadOf(age, hash) ==
    [height |-> 100, hash |-> hash, at |-> -age, fin |-> 95, finAt |-> -age, ok |-> TRUE]

\* Every source shows a new head, the same old one, nothing, or an old one
\* of its own.
SampleAnswers ==
    LET each(answer(_)) == [a \in ChainAssets |-> [i \in DOMAIN DefaultSources(a) |-> answer(i)]]
    IN [moving |-> each(LAMBDA i : HeadOf(5, "a")),
        standing |-> each(LAMBDA i : HeadOf(20000, "a")),
        silent |-> each(LAMBDA i : None),
        forked |-> each(LAMBDA i : HeadOf(20000, IF i = 1 THEN "a" ELSE "b"))]

-----------------------------------------------------------------------------
(* What is known of the assets.                                            *)

Market == {"trend", "relative", "flows"}
Structure == {"valuation", "fundamentals", "onchain"}

FactorAt(score) == [score |-> score, part |-> 1000, fresh |-> 1000, quality |-> 1000,
                   spread |-> 800]

\* A satellite's factors: the market side scored `m', the other side `s'.
Factors(m, s) == [f \in Market \cup Structure |-> FactorAt(IF f \in Market THEN m ELSE s)]

Without(readings, factors) == [f \in DOMAIN readings \ factors |-> readings[f]]

WithQuality(readings, quality) == [f \in DOMAIN readings |-> [readings[f] EXCEPT !.quality = quality]]

\* The freshness of the given factors is unknown.
Undated(readings, factors) ==
    [f \in DOMAIN readings |->
        IF f \in factors THEN [readings[f] EXCEPT !.fresh = 0] ELSE readings[f]]

EthFactors(score) == Factors(score, score)
BtcFactors(score) == [f \in {"trend", "flows", "btc_valuation", "macro"} |-> FactorAt(score)]

SampleEvidence ==
    [strong |-> Factors(90, 80), lopsided |-> WithQuality(Factors(90, 37), 750),
     tactical |-> Without(Factors(90, 80), Structure),
     unfounded |-> Without(Factors(60, 62), {"fundamentals"}),
     undated |-> Undated(Factors(90, 80), Market), fading |-> Factors(61, 60),
     btc |-> BtcFactors(60), poor_btc |-> WithQuality(BtcFactors(60), 500),
     eth |-> EthFactors(60), weak_eth |-> EthFactors(40), middling_eth |-> EthFactors(50)]

Strong ==
    [readings |-> "strong", relative |-> 60, event |-> "NORMAL", complete |-> TRUE,
     tier |-> 1000, alpha |-> FALSE, overlay |-> 1000, heads |-> "moving", where |-> {"GATE"}]

SampleSatelliteViews ==
    {[Strong EXCEPT !.alpha = TRUE], [Strong EXCEPT !.heads = "standing", !.event = "ELEVATED"],
     [Strong EXCEPT !.readings = "lopsided"],
     [Strong EXCEPT !.readings = "tactical", !.event = "HIGH"],
     [Strong EXCEPT !.readings = "unfounded", !.tier = 500, !.relative = 40],
     [Strong EXCEPT !.readings = "undated", !.overlay = 500], [Strong EXCEPT !.readings = "fading", !.event = "SEVERE"]}

Sound(readings) ==
    [readings |-> readings, event |-> "NORMAL", heads |-> None, where |-> {"GATE"},
     complete |-> TRUE, relative |-> 50]

SoundBtc == Sound("btc")
SoundEth == Sound("eth")

Pair(b, e) == [a \in {"BTC", "ETH"} |-> IF a = "BTC" THEN b ELSE e]

SampleCoreViews ==
    {Pair(SoundBtc, [SoundEth EXCEPT !.heads = "standing", !.where = {"GATE", "TARGET"}]),
     Pair([SoundBtc EXCEPT !.readings = "poor_btc"],
          [SoundEth EXCEPT !.readings = "middling_eth", !.relative = 40, !.heads = "forked"]),
     Pair([SoundBtc EXCEPT !.event = "SEVERE", !.heads = "standing",
                           !.where = {"GATE", "TARGET", "ASSESSMENT"}],
          [SoundEth EXCEPT !.readings = "weak_eth", !.heads = "silent"])}

Holding(b, e, x, y) ==
    [a \in {"BTC", "ETH"} \cup TwoSatellites |->
        CASE a = "BTC" -> b [] a = "ETH" -> e [] a = "BNB" -> x [] a = "SOL" -> y]

SampleBooks ==
    {Holding(300, 100, 150, 50), Holding(100, 350, 20, 300)}
=============================================================================
