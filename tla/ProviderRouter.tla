--------------------------- MODULE ProviderRouter ---------------------------
(***************************************************************************)
(* ProviderRouter.collect of providers/router.py: one review asks for a    *)
(* set of metrics, each with a chain of providers, and the router walks    *)
(* the chains round by round.  In a round the pending metrics that share a *)
(* provider and a request are served together; whatever is not found moves *)
(* to the next provider of its own chain, until it is observed or its      *)
(* chain is exhausted.  Breakers outlive a review, budgets do not.         *)
(*                                                                         *)
(* The router is one thread, so a whole group is one step.  What the cache *)
(* and the provider answer is the environment's choice.  The order of the  *)
(* groups of a round (a dict's) is left open.                              *)
(***************************************************************************)
EXTENDS CircuitBreaker, Sequences, FiniteSets

CONSTANTS
    Metric,           \* (asset, metric key) identities
    Provider,
    Request,          \* dataset, asset and parameters of a ProviderRequest
    RequestOf,        \* the request of each metric
    Kind,             \* of each request: "mutable", "immutable", "series" or "history"
    Chain,            \* the providers of each metric, in order, without repetition
    Disabled,         \* providers that are not configured or have no adapter
    Unsupported,      \* <<provider, metric>> pairs the capabilities leave out
    MaxPerReview,     \* max_requests_per_review
    MaxPerProvider,   \* max_requests_per_provider
    MaxPerCall,       \* bound: client requests one collect() may make (pages, retries)
    MaxReviews        \* bound: reviews in a behaviour

ASSUME RouterAssumption ==
    /\ RequestOf \in [Metric -> Request]
    /\ Kind \in [Request -> {"mutable", "immutable", "series", "history"}]
    /\ Chain \in [Metric -> Seq(Provider) \ {<<>>}]
    /\ Disabled \subseteq Provider
    /\ MaxPerReview \in Nat \ {0} /\ MaxPerProvider \in Nat \ {0}
    /\ MaxPerCall \in Nat \ {0} /\ MaxReviews \in Nat

Modes == {"AUTO", "CACHE_ONLY", "REFRESH"}

VARIABLES
    phase,            \* "idle" between reviews, "collecting" in one
    mode,
    where,            \* of each metric: "pending", "observed" or "exhausted"
    index,            \* its position in its chain
    attempted,        \* the providers that did not yield it, in order
    todo,             \* the groups of this round still to be served, as they were formed
    breaker,          \* of each provider
    calls,            \* _review_requests
    callsTo,          \* _provider_requests
    network,          \* requests the HTTP client really sent
    reviews           \* reviews begun

progress == <<where, index, attempted>>
budget == <<calls, callsTo, network>>
vars == <<phase, mode, where, index, attempted, todo, breaker, calls, callsTo, network, reviews>>

-----------------------------------------------------------------------------

Pending == {m \in Metric : where[m] = "pending"}

Current(m) == Chain[m][index[m] + 1]

GroupOf(p, r, metrics) == [provider |-> p, request |-> r, members |-> metrics]

\* Mutant: groups by provider alone.
RoundByProvider(pending, current) ==
    {GroupOf(current[m], RequestOf[m], {n \in pending : current[n] = current[m]}) : m \in pending}

\* The pending metrics by provider and request, when a round begins.
Round(pending, current) ==
    {GroupOf(current[m], RequestOf[m],
             {n \in pending : current[n] = current[m] /\ RequestOf[n] = RequestOf[m]}) :
        m \in pending}

SupportedIn(g) == {m \in g.members : <<g.provider, m>> \notin Unsupported}

\* _advance for the metrics a provider did not yield, and the removal from
\* pending of those it did.
Resolve(g, found, missing) ==
    /\ index' = [m \in Metric |-> IF m \in missing THEN index[m] + 1 ELSE index[m]]
    /\ attempted' = [m \in Metric |->
                        IF m \in missing THEN Append(attempted[m], g.provider) ELSE attempted[m]]
    /\ where' = [m \in Metric |->
                    IF m \in found THEN "observed"
                    ELSE IF m \in missing /\ index[m] + 1 >= Len(Chain[m]) THEN "exhausted"
                    ELSE where[m]]
    /\ todo' = todo \ {g}

\* Mutant: only the metrics the provider was asked for move on.
YieldSupported(g, found) == Resolve(g, found, SupportedIn(g) \ found)

Yield(g, found) == Resolve(g, found, g.members \ found)

YieldNothing(g) == Yield(g, {})

-----------------------------------------------------------------------------
(* What _collect_one may do for the supported metrics of a group.          *)

\* REFRESH skips the cache for mutable data only; a series or a full history
\* is looked up in every mode.
CacheRead(r) == mode # "REFRESH" \/ Kind[r] # "mutable"

\* Mutant: the limit itself still lets a request through.
HasBudgetAtLimit(p, made) == calls + made <= MaxPerReview /\ callsTo[p] + made <= MaxPerProvider

HasBudget(p, made) == calls + made < MaxPerReview /\ callsTo[p] + made < MaxPerProvider

\* Before it is called for the request itself, a provider with a cached full
\* history may have been called for the missing tail, to no avail.
TailCalls(r) == IF Kind[r] = "history" /\ mode # "CACHE_ONLY" THEN {0, 1} ELSE {0}

\* Mutant: the tail does not ask the breaker.
TailWithinBudget(p, tail) == tail = 1 => HasBudget(p, 0)

TailAllowed(p, tail) == tail = 1 => Allows(breaker[p]) /\ HasBudget(p, 0)

\* The client requests of so many collects.
Sent(made) == IF made = 0 THEN {0} ELSE 0 .. MaxPerCall * made

BreakerAfter(p, tail) == IF tail = 1 THEN RecordSuccess(breaker[p]) ELSE breaker[p]

Spend(p, made, sent) ==
    /\ calls' = calls + made
    /\ callsTo' = [callsTo EXCEPT ![p] = @ + made]
    /\ network' = network + sent

SetBreaker(p, b) == breaker' = [breaker EXCEPT ![p] = b]

SkipDisabled(g) ==
    /\ g.provider \in Disabled
    /\ YieldNothing(g)
    /\ UNCHANGED <<breaker, budget>>

SkipUnsupported(g) ==
    /\ g.provider \notin Disabled
    /\ SupportedIn(g) = {}
    /\ YieldNothing(g)
    /\ UNCHANGED <<breaker, budget>>

\* A usable cache entry, which may hold only some of the metrics.
ServeFromCache(g, found, tail, sent) ==
    /\ CacheRead(g.request)
    /\ TailAllowed(g.provider, tail)
    /\ SetBreaker(g.provider, BreakerAfter(g.provider, tail))
    /\ Spend(g.provider, tail, sent)
    /\ Yield(g, found)

MissInCacheOnly(g) ==
    /\ mode = "CACHE_ONLY"
    /\ YieldNothing(g)
    /\ UNCHANGED <<breaker, budget>>

\* A cached value that cannot be read or parsed.  CacheCorruption carries no
\* diagnostic: it is classified like an unknown network error and counts
\* against the provider, which was never asked.
CacheUnusable(g, retryable) ==
    /\ CacheRead(g.request)
    /\ SetBreaker(g.provider, RecordFailure(breaker[g.provider], retryable))
    /\ YieldNothing(g)
    /\ UNCHANGED budget

RefuseOpenCircuit(g) ==
    /\ mode # "CACHE_ONLY"
    /\ ~Allows(breaker[g.provider])
    /\ YieldNothing(g)
    /\ UNCHANGED <<breaker, budget>>

\* The breaker has already been moved to HALF_OPEN when the budget refuses.
RefuseOverBudget(g, tail, sent) ==
    /\ mode # "CACHE_ONLY"
    /\ TailAllowed(g.provider, tail)
    /\ Allows(BreakerAfter(g.provider, tail))
    /\ ~HasBudget(g.provider, tail)
    /\ SetBreaker(g.provider, Allowed(BreakerAfter(g.provider, tail)))
    /\ Spend(g.provider, tail, sent)
    /\ YieldNothing(g)

MayCall(g, tail) ==
    /\ mode # "CACHE_ONLY"
    /\ TailAllowed(g.provider, tail)
    /\ Allows(BreakerAfter(g.provider, tail))
    /\ HasBudget(g.provider, tail)

CallAnswers(g, found, tail, sent) ==
    /\ MayCall(g, tail)
    /\ SetBreaker(g.provider, RecordSuccess(breaker[g.provider]))
    /\ Spend(g.provider, tail + 1, sent)
    /\ Yield(g, found)

\* The answer arrived and was recorded as a success, but it cannot be used:
\* no completed candle, a conflict with the cached series, a failed save.
CallUnusable(g, tail, sent) ==
    /\ MayCall(g, tail)
    /\ SetBreaker(g.provider, RecordFailure(RecordSuccess(breaker[g.provider]), TRUE))
    /\ Spend(g.provider, tail + 1, sent)
    /\ YieldNothing(g)

CallFails(g, tail, retryable, sent) ==
    /\ MayCall(g, tail)
    /\ SetBreaker(g.provider, RecordFailure(Allowed(BreakerAfter(g.provider, tail)), retryable))
    /\ Spend(g.provider, tail + 1, sent)
    /\ YieldNothing(g)

Serve(g) ==
    /\ phase = "collecting"
    /\ g \in todo
    /\ \/ SkipDisabled(g)
       \/ SkipUnsupported(g)
       \/ /\ g.provider \notin Disabled /\ SupportedIn(g) # {}
          /\ \/ MissInCacheOnly(g)
             \/ RefuseOpenCircuit(g)
             \/ \E retryable \in BOOLEAN : CacheUnusable(g, retryable)
             \/ \E tail \in TailCalls(g.request) :
                  \/ \E sent \in Sent(tail) :
                       \/ RefuseOverBudget(g, tail, sent)
                       \/ \E found \in SUBSET SupportedIn(g) : ServeFromCache(g, found, tail, sent)
                  \/ \E sent \in Sent(tail + 1) :
                       \/ \E found \in SUBSET SupportedIn(g) : CallAnswers(g, found, tail, sent)
                       \/ CallUnusable(g, tail, sent)
                       \/ \E retryable \in BOOLEAN : CallFails(g, tail, retryable, sent)
    /\ UNCHANGED <<phase, mode, reviews>>

\* collect() begins: fresh budgets, every metric at the head of its chain.
Begin(newMode) ==
    /\ phase = "idle" /\ reviews < MaxReviews
    /\ phase' = "collecting"
    /\ mode' = newMode
    /\ where' = [m \in Metric |-> "pending"]
    /\ index' = [m \in Metric |-> 0]
    /\ attempted' = [m \in Metric |-> <<>>]
    /\ todo' = Round(Metric, [m \in Metric |-> Chain[m][1]])
    /\ calls' = 0 /\ callsTo' = [p \in Provider |-> 0] /\ network' = 0
    /\ reviews' = reviews + 1
    /\ UNCHANGED breaker

\* The next round of the while loop.
NextRound ==
    /\ phase = "collecting" /\ todo = {} /\ Pending # {}
    /\ todo' = Round(Pending, [m \in Pending |-> Current(m)])
    /\ UNCHANGED <<phase, mode, progress, breaker, budget, reviews>>

Finish ==
    /\ phase = "collecting" /\ todo = {} /\ Pending = {}
    /\ phase' = "idle"
    /\ UNCHANGED <<mode, progress, todo, breaker, budget, reviews>>

\* The cooldown of an open breaker passes.
CoolDown(p) ==
    /\ breaker[p].state = "OPEN" /\ ~breaker[p].cooled
    /\ SetBreaker(p, CooledDown(breaker[p]))
    /\ UNCHANGED <<phase, mode, progress, todo, budget, reviews>>

Init ==
    /\ phase = "idle"
    /\ mode = "AUTO"
    /\ where = [m \in Metric |-> "pending"]
    /\ index = [m \in Metric |-> 0]
    /\ attempted = [m \in Metric |-> <<>>]
    /\ todo = {}
    /\ breaker = [p \in Provider |-> NewBreaker]
    /\ calls = 0 /\ callsTo = [p \in Provider |-> 0] /\ network = 0
    /\ reviews = 0

Step == NextRound \/ Finish \/ \E g \in todo : Serve(g)

Next ==
    \/ \E newMode \in Modes : Begin(newMode)
    \/ Step
    \/ \E p \in Provider : CoolDown(p)

\* A collect runs to its end in the calling thread; every provider call has a
\* timeout.  Nothing is assumed of new reviews or of time.
Spec == Init /\ [][Next]_vars /\ WF_vars(Step)

-----------------------------------------------------------------------------
(* Properties. *)

Groups == [provider : Provider, request : Request, members : SUBSET Metric]

\* Every variable keeps its type, and the position of a pending metric is
\* inside its chain.
TypeOK ==
    /\ phase \in {"idle", "collecting"} /\ mode \in Modes
    /\ where \in [Metric -> {"pending", "observed", "exhausted"}]
    /\ index \in [Metric -> Nat] /\ attempted \in [Metric -> Seq(Provider)]
    /\ todo \subseteq Groups
    /\ breaker \in [Provider -> Breakers]
    /\ calls \in Nat /\ callsTo \in [Provider -> Nat] /\ network \in Nat
    /\ reviews \in Nat

\* A round serves each metric in at most one group, with the provider at the
\* metric's own position: no metric is asked of two providers at once, and none
\* is forgotten between two rounds (router.py:361-370).
RoundIsAPartition ==
    /\ \A g \in todo : \A m \in g.members :
          where[m] = "pending" /\ g.provider = Current(m) /\ g.request = RequestOf[m]
    /\ \A g, h \in todo : g # h => g.members \cap h.members = {}

\* The providers attempted for a metric are the first ones of its chain, in
\* order and without a gap; it is given up only when the chain is exhausted,
\* and when the review is over every metric is either observed or given up.
FallbackFollowsChain ==
    /\ \A m \in Metric :
          /\ index[m] <= Len(Chain[m])
          /\ attempted[m] = SubSeq(Chain[m], 1, index[m])
          /\ where[m] = "exhausted" <=> index[m] = Len(Chain[m])
    /\ phase = "idle" /\ reviews > 0 => Pending = {}

\* The collects of a review stay within its two budgets, however the chains,
\* the tails of cached histories and the fallbacks combine (router.py:653-665).
BudgetsRespected ==
    /\ calls <= MaxPerReview
    /\ \A p \in Provider : callsTo[p] <= MaxPerProvider

\* A breaker that is not CLOSED has counted the threshold of failures, and a
\* CLOSED one has not, over all the ways a group may end.
BreakersWellFormed == \A p \in Provider : WellFormed(breaker[p])

\* CACHE_ONLY never reaches the network (references/data-providers.md:42).
CacheOnlyIsLocal == phase = "collecting" /\ mode = "CACHE_ONLY" => calls = 0 /\ network = 0

\* While a breaker is open and its cooldown runs, its provider is not called,
\* neither for the request nor for the tail of a history.
OpenCircuitIsNotCalled ==
    [][\A p \in Provider :
          breaker[p].state = "OPEN" /\ ~breaker[p].cooled => callsTo'[p] <= callsTo[p]]_vars

\* Every review ends: each group moves its metrics along finite chains, so the
\* "no progress" exit of the loop is never needed (router.py:545-552).
CollectTerminates == phase = "collecting" ~> phase = "idle"

\* What holds of the router between any two groups: rounds partition the
\* pending metrics, fallback keeps to the chains, the breakers' counts explain
\* their states, and CACHE_ONLY stays at home.
RoutingInvariant ==
    /\ TypeOK /\ RoundIsAPartition /\ FallbackFollowsChain
    /\ BreakersWellFormed /\ CacheOnlyIsLocal

=============================================================================
