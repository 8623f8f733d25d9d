---------------------------- MODULE ChainLiveness ----------------------------
(***************************************************************************)
(* providers/chain_liveness.py: what the heads that independent sources    *)
(* report of one chain say of it.                                          *)
(*                                                                         *)
(* Sources are asked in order, primaries before secondaries, until enough  *)
(* has been heard.  A failed call is a source that does not answer, never  *)
(* a halt.  Times are seconds; heights count blocks or slots; a hash is a  *)
(* model value.  Where a source of the code is an endpoint with an id, a   *)
(* source here is its place in the list that _normalize_sources makes.     *)
(***************************************************************************)
EXTENDS Absence, Integers, Sequences, FiniteSets

ChainAssets == {"BTC", "ETH", "SOL", "BNB"}
LivenessStatuses == {"HEALTHY", "DEGRADED", "HALTED", "UNKNOWN", "CONFLICT"}

-----------------------------------------------------------------------------
(* The catalogue and the thresholds.                                       *)

Source(role, group, priority) == [role |-> role, group |-> group, priority |-> priority]

\* _DEFAULT_SOURCES, sorted; only the catalogue of ETH has a secondary.
DefaultSources(asset) ==
    CASE asset = "BTC" -> <<Source("primary", "blockstream", 10), Source("primary", "mempool", 20)>>
      [] asset = "ETH" -> <<Source("primary", "flashbots", 20), Source("primary", "drpc", 25),
                            Source("secondary", "publicnode", 10)>>
      [] asset = "BNB" -> <<Source("primary", "dataseed", 10), Source("primary", "public", 20)>>
      [] asset = "SOL" -> <<Source("primary", "mainnet", 10), Source("primary", "publicnode", 20)>>

\* chain_liveness_sources: an endpoint of the user's own comes first.
SourcesOf(asset, overridden) ==
    IF overridden THEN <<Source("primary", "override", 0)>> \o DefaultSources(asset)
    ELSE DefaultSources(asset)

\* The limits on the age of a head and of a finalized head; None where the
\* policy has no such limit for the asset.
AgeLimits(healthy, degraded, halted) ==
    [healthy |-> healthy, degraded |-> degraded, halted |-> halted]

NoLimits == AgeLimits(None, None, None)

ShippedSettings(asset) ==
    CASE asset = "BTC" -> [head |-> AgeLimits(3600, 10800, 10800), fin |-> NoLimits, needed |-> 2]
      [] asset = "ETH" -> [head |-> AgeLimits(120, 600, 600),
                           fin |-> AgeLimits(1200, 2700, 2700), needed |-> 2]
      [] asset = "BNB" -> [head |-> AgeLimits(120, 600, 600), fin |-> NoLimits, needed |-> 2]
      [] asset = "SOL" -> [head |-> NoLimits, fin |-> AgeLimits(120, 600, 600), needed |-> 2]

Ordered(limits) ==
    /\ limits.healthy \in Nat \ {0} /\ limits.degraded \in Nat \ {0} /\ limits.halted \in Nat \ {0}
    /\ limits.healthy <= limits.degraded /\ limits.degraded <= limits.halted

\* _parse_chain_liveness: which limits an asset must have, and their order.
AcceptedSettings(asset, settings) ==
    /\ settings.needed \in Nat /\ settings.needed >= 2
    /\ IF asset = "SOL" THEN settings.head = NoLimits ELSE Ordered(settings.head)
    /\ IF asset \in {"ETH", "SOL"} THEN Ordered(settings.fin) ELSE settings.fin = NoLimits

-----------------------------------------------------------------------------
(* What one source says.                                                   *)

ClockSkew == 60

\* _block_age: a head from the near future is new, one from beyond the
\* skew of two clocks is no reading at all.
BlockAge(at, now) ==
    IF at <= now THEN now - at ELSE IF at <= now + ClockSkew THEN 0 ELSE None

\* _Progress
Reading(height, hash, age, fin, finAge, supported) ==
    [height |-> height, hash |-> hash, age |-> age, fin |-> fin, finAge |-> finAge,
     supported |-> supported]

\* _btc_progress, _evm_progress, _solana_progress.  `answer' is what the
\* endpoint holds: a head, for ETH perhaps a finalized block, for SOL its
\* own health.  A finalized block that is wrong is a warning: its height
\* stays in the reading and its age does not.
Progress(asset, answer, now) ==
    IF answer = None \/ BlockAge(answer.at, now) = None \/ (asset = "SOL" /\ ~answer.ok)
    THEN None
    ELSE LET age == BlockAge(answer.at, now)
             finAge == IF answer.fin = None \/ answer.fin > answer.height
                       THEN None ELSE BlockAge(answer.finAt, now)
         IN CASE asset = "SOL" -> Reading(answer.height, None, age, answer.height, age, TRUE)
              [] asset = "ETH" -> Reading(answer.height, answer.hash, age, answer.fin, finAge,
                                          finAge # None)
              [] OTHER -> Reading(answer.height, answer.hash, age, None, None, TRUE)

Beyond(age, limit) == age # None /\ limit # None /\ age > limit

\* _needs_secondary, _severe, _degraded
Stale(t, p) == Beyond(p.age, t.head.degraded) \/ Beyond(p.finAge, t.fin.degraded)
Severe(t, p) == Beyond(p.age, t.head.halted) \/ Beyond(p.finAge, t.fin.halted)
Slow(t, p) == Beyond(p.age, t.head.healthy) \/ Beyond(p.finAge, t.fin.healthy)

Near(x, y) == x - y \in -6 .. 6

Recent(t, p) == \E limit \in {t.head.degraded, t.fin.degraded, 1} : limit # None /\ p.age <= limit

\* _consistent: one height with two hashes never agrees; heights are only
\* compared between readings that are both recent.
Consistent(t, l, r) ==
    /\ ~(l.height = r.height /\ l.hash # None /\ r.hash # None /\ l.hash # r.hash)
    /\ Recent(t, l) /\ Recent(t, r) =>
          /\ Near(l.height, r.height)
          /\ l.fin # None /\ r.fin # None => Near(l.fin, r.fin)

-----------------------------------------------------------------------------
(* What all of them say: `p' maps the places in `sources' to readings.     *)

Agree(t, p, S) == \A i, j \in S : i < j => Consistent(t, p[i], p[j])

First(S) == CHOOSE i \in S : \A j \in S : i <= j

\* _best: the youngest head, then the youngest finalized head, then the
\* priority, then the place.
FinKey(reading) == IF reading.finAge = None THEN -1 ELSE reading.finAge

Better(sources, p, i, j) ==
    \/ p[i].age < p[j].age
    \/ p[i].age = p[j].age /\ FinKey(p[i]) < FinKey(p[j])
    \/ p[i].age = p[j].age /\ FinKey(p[i]) = FinKey(p[j])
          /\ \/ sources[i].priority < sources[j].priority
             \/ sources[i].priority = sources[j].priority /\ i <= j

Best(sources, p, S) == CHOOSE i \in S : \A j \in S : Better(sources, p, i, j)

Quorum(sources) == \E i \in DOMAIN sources : sources[i].role = "secondary"
Heard(p, n) == {i \in 1 .. n : p[i] # None}
InRole(sources, S, role) == {i \in S : sources[i].role = role}
Fresh(t, p, S) == {i \in S : ~Stale(t, p[i])}

\* assess: where the questions stop.  With a quorum two fresh primaries
\* that agree are enough, without one a fresh reading or two of any kind.
Enough(sources, t, p, n) ==
    IF Quorum(sources)
    THEN LET fresh == Fresh(t, p, InRole(sources, Heard(p, n), "primary"))
         IN Cardinality(fresh) >= 2 /\ Agree(t, p, fresh)
    ELSE Cardinality(Heard(p, n)) >= 2 \/ ~Stale(t, p[n])

Asked(sources, t, p) ==
    First({n \in 1 .. Len(sources) : p[n] # None /\ Enough(sources, t, p, n)} \cup {Len(sources)})

GroupsOf(sources, S) == {sources[i].group : i \in S}

Judged(status, confidence, mode, healthy) ==
    [status |-> status, confidence |-> confidence, mode |-> mode, healthy |-> healthy]

\* Mutant: one independent group more is wanted.
PlainVerdictBeyond(sources, t, p, S) ==
    IF ~Agree(t, p, S) THEN Judged("CONFLICT", "LOW", "PLAIN", S)
    ELSE IF Cardinality(GroupsOf(sources, {i \in S : Severe(t, p[i])})) > t.needed
    THEN Judged("HALTED", "HIGH", "PLAIN", S) ELSE Judged("DEGRADED", "LOW", "PLAIN", S)

\* _assessment where every source is a primary.
PlainVerdict(sources, t, p, S) ==
    LET best == p[Best(sources, p, S)]
        severe == GroupsOf(sources, {i \in S : Severe(t, p[i])})
        all == Cardinality(S) = Asked(sources, t, p)
    IN IF ~Agree(t, p, S) THEN Judged("CONFLICT", "LOW", "PLAIN", S)
       ELSE IF Cardinality(severe) >= t.needed THEN Judged("HALTED", "HIGH", "PLAIN", S)
       ELSE IF Slow(t, best) THEN Judged("DEGRADED", "LOW", "PLAIN", S)
       ELSE Judged("HEALTHY", IF all /\ Cardinality(S) = 1 /\ best.supported
                               THEN "HIGH" ELSE "MEDIUM", "PLAIN", S)

\* _quorum_assessment: who decides, and how sure that is.
Deciders(sources, t, p, S) ==
    LET fresh == Fresh(t, p, InRole(sources, S, "primary"))
        agreeing == {i \in fresh : \A j \in fresh \ {i} : Consistent(t, p[i], p[j])}
        corroborating == {j \in Fresh(t, p, InRole(sources, S, "secondary")) :
                             fresh # {} /\ Consistent(t, p[j], p[First(fresh)])}
    IN IF Cardinality(agreeing) >= 2
       THEN [mode |-> "PRIMARY_QUORUM", confidence |-> "HIGH", members |-> agreeing]
       ELSE IF corroborating # {}
       THEN [mode |-> "SECONDARY_CORROBORATION", confidence |-> "MEDIUM",
             members |-> {First(fresh), First(corroborating)}]
       ELSE [mode |-> "INSUFFICIENT_QUORUM", confidence |-> "LOW", members |-> {Best(sources, p, S)}]

QuorumVerdict(sources, t, p, S) ==
    LET decided == Deciders(sources, t, p, S)
        severe == GroupsOf(sources, {i \in decided.members : Severe(t, p[i])})
        chosen == p[Best(sources, p, decided.members)]
        verdict(status, confidence) == Judged(status, confidence, decided.mode, decided.members)
    IN IF ~Agree(t, p, Fresh(t, p, S)) THEN verdict("CONFLICT", "LOW")
       ELSE IF Cardinality(severe) >= t.needed /\ Cardinality(decided.members) >= t.needed
       THEN verdict("HALTED", "HIGH")
       ELSE IF Slow(t, chosen)
       THEN verdict("DEGRADED", IF decided.confidence = "HIGH" THEN "MEDIUM" ELSE decided.confidence)
       ELSE verdict("HEALTHY", decided.confidence)

\* assess; `readings' is what each source would say if it were asked.
Assess(sources, t, readings) ==
    LET heard == Heard(readings, Asked(sources, t, readings))
    IN IF heard = {} THEN Judged("UNKNOWN", "LOW", "NONE", {})
       ELSE IF Quorum(sources) THEN QuorumVerdict(sources, t, readings, heard)
       ELSE PlainVerdict(sources, t, readings, heard)

\* collect: only a status that was reached is an observation, and only of
\* the present: a review of the past gets none.
Collected(sources, t, readings, asOf, now) ==
    LET status == Assess(sources, t, readings).status
    IN IF (asOf # None /\ asOf < now) \/ status \in {"UNKNOWN", "CONFLICT"} THEN None ELSE status

=============================================================================
