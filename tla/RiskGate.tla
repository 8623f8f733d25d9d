------------------------------ MODULE RiskGate ------------------------------
(***************************************************************************)
(* run_risk_gate of engine/risk.py: the independent check of a finished    *)
(* target against the limits of its regime, the drawdown, the events and   *)
(* the liveness of the chains.                                             *)
(*                                                                         *)
(* A proposal `g' is                                                       *)
(*   target, current   risky weights in thousandths; current may be None   *)
(*   satellites, core  the two kinds of risky symbols                      *)
(*   limits            [name, stable, satelliteMax, single, coreMin]       *)
(*   engine, minStable, budget, excluded, mediumConfidence                 *)
(*                     the mode and numbers of the policy                  *)
(*   floor             the stable floor of the drawdown overlay            *)
(*   depth             the drawdown, as a loss >= 0, or None               *)
(*   event, chain      of each symbol; chain may be None                   *)
(*   increases         the symbols of the actions handed in that increase, *)
(*   planned           whether any action was handed in                    *)
(*   score             the decision confidence, or None                    *)
(* The stable sleeve is what the risky weights leave of 1000.  Warnings,   *)
(* notes and the deployment caps of the result, which no caller hands on,  *)
(* change nothing and are left out.                                        *)
(***************************************************************************)
EXTENDS ChainLiveness, Sums

Events == {"NORMAL", "ELEVATED", "HIGH", "SEVERE"}

\* Everything but a chain that is seen to move.
Unproven == {"HALTED", "UNKNOWN", "FAILED", "CONFLICT"}

\* Legacy mode stacks the regime's stable target on the policy minimum.
RequiredStable(g) ==
    LET floors == {g.minStable, g.floor}
                    \cup (IF g.engine = "volatility_budget" THEN {} ELSE {g.limits.stable})
    IN CHOOSE f \in floors : \A other \in floors : other <= f

\* The limits of the regime and of the policy, whatever the evidence says.
Broken(g, limit) ==
    LET risky == SumOver(g.target, DOMAIN g.target)
        satellites == SumOver(g.target, g.satellites)
    IN CASE limit = "EXCLUDED_ASSET_TARGET" ->
              \E a \in g.excluded \cap DOMAIN g.target : g.target[a] > 0
         [] limit = "TOTAL_NOT_ONE" -> risky > 1000
         [] limit = "STABLECOIN_FLOOR" -> 1000 - risky < RequiredStable(g)
         [] limit = "SATELLITE_CAP" -> satellites > g.limits.satelliteMax
         [] limit = "SINGLE_ASSET_CAP" -> \E a \in DOMAIN g.target : g.target[a] > g.limits.single
         [] limit = "REGIME_MISMATCH" -> /\ g.limits.name = "CAPITAL_PRESERVATION"
                                         /\ satellites > g.limits.satelliteMax

Limits == {"EXCLUDED_ASSET_TARGET", "TOTAL_NOT_ONE", "STABLECOIN_FLOOR", "SATELLITE_CAP",
           "SINGLE_ASSET_CAP", "REGIME_MISMATCH"}

\* New exposure: an action that increases, or a target above the book; a
\* gate that knows neither takes every target for new.
Exposed(g, a) ==
    \/ a \in g.increases
    \/ g.current # None /\ g.target[a] > g.current[a]
    \/ g.current = None /\ ~g.planned /\ g.target[a] > 0

Stopped(g, statuses) ==
    \E a \in DOMAIN g.target : g.chain[a] \in statuses /\ Exposed(g, a)

\* What the review knows of the world and not of the target alone.
Warned(g, hazard) ==
    CASE hazard = "CORE_MINIMUM" ->
           1000 * SumOver(g.target, g.core) < g.limits.coreMin * SumOver(g.target, DOMAIN g.target)
      [] hazard = "DRAWDOWN_BREACH" -> g.depth # None /\ g.depth > g.budget
      [] hazard = "SEVERE_EVENT_EXPOSURE" ->
           \E a \in DOMAIN g.target \ g.excluded : g.event[a] = "SEVERE" /\ g.target[a] > 0
      [] hazard = "DECISION_CONFIDENCE_BLOCK" ->
           g.score # None /\ g.increases # {} /\ g.score < g.mediumConfidence
      [] hazard = "CHAIN_LIVENESS_HALTED" -> Stopped(g, {"HALTED"})
      [] hazard = "CHAIN_LIVENESS_UNAVAILABLE" -> Stopped(g, Unproven \ {"HALTED"})

Hazards == {"CORE_MINIMUM", "DRAWDOWN_BREACH", "SEVERE_EVENT_EXPOSURE",
            "DECISION_CONFIDENCE_BLOCK", "CHAIN_LIVENESS_HALTED", "CHAIN_LIVENESS_UNAVAILABLE"}

\* The errors of the result; none of them is an approval.
GateErrors(g) == {l \in Limits : Broken(g, l)} \cup {h \in Hazards : Warned(g, h)}

=============================================================================
