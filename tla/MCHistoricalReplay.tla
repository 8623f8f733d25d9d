------------------------- MODULE MCHistoricalReplay -------------------------
(***************************************************************************)
(* HistoricalReplay for TLC.  Weights, severities and thresholds of the    *)
(* regime are those of config/policy.json.  The readings are a calm        *)
(* market, one noisy domain, a storm and a blackout in which every domain  *)
(* is unknown; events and a halted chain strike in a calm market.          *)
(***************************************************************************)
EXTENDS HistoricalReplay

PolicyWeights == [trend |-> 15, volatility |-> 30, flows |-> 30, breadth |-> 25]

PolicySeverities ==
    [d \in Domains |->
        [RISK_ON |-> 0,
         NEUTRAL |-> IF d = "volatility" THEN 0 ELSE 25,
         RISK_OFF |-> IF d = "volatility" THEN 70 ELSE 100]]

All(s) == [d \in Domains |-> s]

SampleReadings ==
    {All("RISK_ON"),
     [All("NEUTRAL") EXCEPT !["flows"] = "RISK_OFF"],
     All("RISK_OFF"),
     All("UNKNOWN")}

Seen(readings, events, liveness, volatilities) ==
    [reading : readings, event : events, liveness : liveness, volatility : volatilities]

SampleMarkets ==
    Seen(SampleReadings, {"NORMAL"}, {"HEALTHY"}, {"WITHIN", "UNAVAILABLE"})
        \cup Seen({All("RISK_ON")}, {"ELEVATED", "SEVERE"}, {"HEALTHY"}, {"WITHIN"})
        \cup Seen({All("RISK_ON")}, {"NORMAL"}, {"HALTED"}, {"WITHIN"})

NoDomains == {}

PolicyStableTargets == [NORMAL |-> 15, DEFENSIVE |-> 30, CAPITAL_PRESERVATION |-> 50]
=============================================================================
