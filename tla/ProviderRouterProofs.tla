------------------------ MODULE ProviderRouterProofs ------------------------
(***************************************************************************)
(* The safety of ProviderRouter for any number of metrics, any chains,     *)
(* budgets and breaker threshold, and any number of reviews.  Whatever a   *)
(* group's end, its step is three independent effects: the metrics it      *)
(* resolves, what it does to one breaker, and what it spends.  GroupEnds   *)
(* proves that once; every invariant then looks at the effect it is about. *)
(***************************************************************************)
EXTENDS ProviderRouter, Acquisition, SetSums, SequenceTheorems, TLAPS

\* What a group does to its provider's breaker.
BreakerMoves(g) ==
    \E b \in Breakers : WellFormed(b) /\ SetBreaker(g.provider, b)

\* What a group spends: nothing, or within the budgets at a provider whose
\* breaker allows it.
Spends(g) ==
    \E made \in 0 .. 2, sent \in Nat :
        /\ Spend(g.provider, made, sent)
        /\ \/ made = 0 /\ sent = 0
           \/ /\ mode # "CACHE_ONLY"
              /\ Allows(breaker[g.provider])
              /\ calls + made <= MaxPerReview
              /\ callsTo[g.provider] + made <= MaxPerProvider

Yields(g) == \E found \in SUBSET g.members : Yield(g, found)

IInv ==
    /\ TypeOK /\ RoundIsAPartition /\ FallbackFollowsChain
    /\ BudgetsRespected /\ BreakersWellFormed /\ CacheOnlyIsLocal

-----------------------------------------------------------------------------

\* The breaker's operations keep the counter and the state in agreement
\* (circuit_breaker.py:37-64).
LEMMA BreakerOperations ==
    ASSUME NEW b \in Breakers, WellFormed(b), NEW r \in BOOLEAN
    PROVE  /\ WellFormed(NewBreaker) /\ NewBreaker \in Breakers
           /\ WellFormed(RecordSuccess(b)) /\ RecordSuccess(b) \in Breakers
           /\ WellFormed(CooledDown(b)) /\ CooledDown(b) \in Breakers
           /\ b.state # "OPEN" \/ Allows(b) => WellFormed(Allowed(b)) /\ Allowed(b) \in Breakers
           /\ WellFormed(RecordFailure(b, r)) /\ RecordFailure(b, r) \in Breakers
  <1> USE ThresholdAssumption DEF Breakers, WellFormed, CircuitStates
  <1>1. WellFormed(NewBreaker)
    BY DEF NewBreaker
  <1>2. WellFormed(CooledDown(b))
    BY DEF CooledDown
  <1>3. WellFormed(Allowed(b))
    BY DEF Allowed
  <1>4. WellFormed(RecordFailure(b, r))
    <2>1. CASE ~r \/ b.state = "OPEN"
      BY <2>1 DEF RecordFailure
    <2>2. CASE r /\ b.state = "HALF_OPEN"
      BY <2>2 DEF RecordFailure, Opened
    <2>3. CASE r /\ b.state = "CLOSED"
      <3> DEFINE counted == [b EXCEPT !.failures = @ + 1]
      <3>1. counted \in Breakers /\ counted.failures = b.failures + 1 /\ counted.state = "CLOSED"
        BY <2>3
      <3>2. RecordFailure(b, r) =
              IF counted.failures >= FailureThreshold THEN Opened(counted) ELSE counted
        BY <2>3 DEF RecordFailure
      <3> HIDE DEF counted
      <3>3. WellFormed(Opened(counted)) \/ counted.failures < FailureThreshold
        BY <3>1 DEF Opened
      <3>4. counted.failures < FailureThreshold => WellFormed(counted)
        BY <3>1
      <3> QED
        BY <3>1, <3>2, <3>3, <3>4
    <2>4. b.state \in {"CLOSED", "OPEN", "HALF_OPEN"} /\ (r \/ ~r)
      OBVIOUS
    <2> HIDE DEF Breakers, WellFormed, CircuitStates
    <2> QED
      BY <2>1, <2>2, <2>3, <2>4
  <1> QED
    BY <1>1, <1>2, <1>3, <1>4 DEF RecordSuccess

\* The three effects of a group that reaches _collect_one.
LEMMA GroupEnds ==
    ASSUME TypeOK, RoundIsAPartition, BudgetsRespected, BreakersWellFormed,
           NEW g \in todo, Serve(g)
    PROVE  BreakerMoves(g) /\ Spends(g) /\ Yields(g)
  <1> DEFINE p == g.provider
  <1>1. /\ g \in Groups /\ p \in Provider
        /\ breaker[p] \in Breakers /\ WellFormed(breaker[p])
        /\ SupportedIn(g) \subseteq g.members
        /\ calls \in Nat /\ callsTo[p] \in Nat /\ network \in Nat
        /\ MaxPerReview \in Nat /\ MaxPerProvider \in Nat
        /\ calls <= MaxPerReview /\ callsTo[p] <= MaxPerProvider
    BY RouterAssumption DEF TypeOK, Groups, SupportedIn, BreakersWellFormed, BudgetsRespected
  <1>2. ASSUME UNCHANGED breaker PROVE BreakerMoves(g)
    BY <1>1, <1>2 DEF BreakerMoves, SetBreaker, TypeOK
  <1>3. ASSUME UNCHANGED budget PROVE Spends(g)
    <2>1. Spend(p, 0, 0)
      BY <1>1, <1>3 DEF Spend, budget, TypeOK
    <2> QED
      BY <2>1 DEF Spends
  <1>4. \A made \in {0, 1, 2} : Sent(made) \subseteq Nat
    BY RouterAssumption DEF Sent
  <1>5. ASSUME NEW tail \in {0, 1}
        PROVE  LET b == BreakerAfter(p, tail)
               IN  b \in Breakers /\ WellFormed(b) /\ (Allows(b) => Allowed(b) \in Breakers /\ WellFormed(Allowed(b)))
    <2>1. BreakerAfter(p, tail) \in Breakers /\ WellFormed(BreakerAfter(p, tail))
      BY <1>1, BreakerOperations DEF BreakerAfter
    <2> QED
      BY <2>1, BreakerOperations
  <1>6. ASSUME NEW tail \in {0, 1}, NEW sent \in Sent(tail), TailAllowed(p, tail),
               tail = 1 => mode # "CACHE_ONLY", Spend(p, tail, sent)
        PROVE  Spends(g)
    <2>1. tail = 0 => sent = 0
      BY DEF Sent
    <2>2. tail = 1 => Allows(breaker[p]) /\ calls + 1 <= MaxPerReview /\ callsTo[p] + 1 <= MaxPerProvider
      BY <1>1, <1>6 DEF TailAllowed, HasBudget
    <2> QED
      BY <1>4, <1>6, <2>1, <2>2 DEF Spends
  <1>7. ASSUME NEW tail \in {0, 1}, NEW sent \in Sent(tail + 1), MayCall(g, tail),
               Spend(p, tail + 1, sent)
        PROVE  Spends(g)
    <2>1. Allows(breaker[p])
      BY <1>7 DEF MayCall, TailAllowed, BreakerAfter
    <2>2. /\ mode # "CACHE_ONLY"
          /\ calls + (tail + 1) <= MaxPerReview /\ callsTo[p] + (tail + 1) <= MaxPerProvider
      BY <1>1, <1>7 DEF MayCall, HasBudget
    <2>3. sent \in Nat /\ tail + 1 \in 0 .. 2
      BY <1>4, <1>7
    <2> QED
      BY <1>7, <2>1, <2>2, <2>3 DEF Spends
  <1>8. ASSUME YieldNothing(g) PROVE Yields(g)
    BY <1>8 DEF YieldNothing, Yields
  <1>9. TailCalls(g.request) \subseteq {0, 1} /\ \A t \in TailCalls(g.request) : t = 1 => mode # "CACHE_ONLY"
    BY DEF TailCalls
  <1>10. CASE SkipDisabled(g) \/ SkipUnsupported(g) \/ MissInCacheOnly(g) \/ RefuseOpenCircuit(g)
    BY <1>2, <1>3, <1>8, <1>10 DEF SkipDisabled, SkipUnsupported, MissInCacheOnly, RefuseOpenCircuit
  <1>11. ASSUME NEW r \in BOOLEAN, CacheUnusable(g, r)
         PROVE  BreakerMoves(g) /\ Spends(g) /\ Yields(g)
    BY <1>1, <1>3, <1>8, <1>11, BreakerOperations DEF CacheUnusable, BreakerMoves
  <1>12. ASSUME NEW tail \in TailCalls(g.request), NEW sent \in Sent(tail),
                \/ RefuseOverBudget(g, tail, sent)
                \/ \E found \in SUBSET SupportedIn(g) : ServeFromCache(g, found, tail, sent)
         PROVE  BreakerMoves(g) /\ Spends(g) /\ Yields(g)
    <2>1. tail \in {0, 1} /\ (tail = 1 => mode # "CACHE_ONLY")
      BY <1>9
    <2>2. CASE RefuseOverBudget(g, tail, sent)
      BY <1>5, <1>6, <1>8, <2>1, <2>2 DEF RefuseOverBudget, BreakerMoves
    <2>3. ASSUME NEW found \in SUBSET SupportedIn(g), ServeFromCache(g, found, tail, sent)
          PROVE  BreakerMoves(g) /\ Spends(g) /\ Yields(g)
      BY <1>1, <1>5, <1>6, <2>1, <2>3 DEF ServeFromCache, BreakerMoves, Yields
    <2> QED
      BY <1>12, <2>2, <2>3
  <1>13. ASSUME NEW tail \in TailCalls(g.request), NEW sent \in Sent(tail + 1),
                \/ \E found \in SUBSET SupportedIn(g) : CallAnswers(g, found, tail, sent)
                \/ CallUnusable(g, tail, sent)
                \/ \E r \in BOOLEAN : CallFails(g, tail, r, sent)
         PROVE  BreakerMoves(g) /\ Spends(g) /\ Yields(g)
    <2>1. tail \in {0, 1}
      BY <1>9
    <2>2. RecordSuccess(breaker[p]) \in Breakers /\ WellFormed(RecordSuccess(breaker[p]))
      BY <1>1, BreakerOperations
    <2>3. ASSUME NEW found \in SUBSET SupportedIn(g), CallAnswers(g, found, tail, sent)
          PROVE  BreakerMoves(g) /\ Spends(g) /\ Yields(g)
      BY <1>1, <1>7, <2>1, <2>2, <2>3 DEF CallAnswers, BreakerMoves, Yields
    <2>4. CASE CallUnusable(g, tail, sent)
      <3>1. LET b == RecordFailure(RecordSuccess(breaker[p]), TRUE) IN b \in Breakers /\ WellFormed(b)
        BY <2>2, BreakerOperations
      <3> QED
        BY <1>7, <1>8, <2>1, <2>4, <3>1 DEF CallUnusable, BreakerMoves
    <2>5. ASSUME NEW r \in BOOLEAN, CallFails(g, tail, r, sent)
          PROVE  BreakerMoves(g) /\ Spends(g) /\ Yields(g)
      <3>1. Allows(BreakerAfter(p, tail))
        BY <2>5 DEF CallFails, MayCall
      <3>2. LET b == RecordFailure(Allowed(BreakerAfter(p, tail)), r) IN b \in Breakers /\ WellFormed(b)
        BY <1>5, <2>1, <3>1, BreakerOperations
      <3> QED
        BY <1>7, <1>8, <2>1, <2>5, <3>2 DEF CallFails, BreakerMoves
    <2> QED
      BY <1>13, <2>3, <2>4, <2>5
  <1> QED
    BY <1>10, <1>11, <1>12, <1>13 DEF Serve

-----------------------------------------------------------------------------

\* A round's groups are typed, disjoint and hold exactly the pending metrics,
\* each with its own provider and request (router.py:361-368).
LEMMA RoundFacts ==
    ASSUME NEW P \in SUBSET Metric, NEW cur \in [P -> Provider]
    PROVE  /\ Round(P, cur) \subseteq Groups
           /\ \A g \in Round(P, cur) : \A m \in g.members :
                 m \in P /\ g.provider = cur[m] /\ g.request = RequestOf[m]
           /\ \A g, h \in Round(P, cur) : g # h => g.members \cap h.members = {}
  <1>1. ASSUME NEW g \in Round(P, cur)
        PROVE  /\ g = GroupOf(g.provider, g.request, g.members)
               /\ g.members = {n \in P : cur[n] = g.provider /\ RequestOf[n] = g.request}
    BY DEF Round, GroupOf
  <1>2. Round(P, cur) \subseteq Groups
    BY RouterAssumption DEF Round, GroupOf, Groups
  <1>3. \A g \in Round(P, cur) : \A m \in g.members :
           m \in P /\ g.provider = cur[m] /\ g.request = RequestOf[m]
    BY <1>1
  <1>4. ASSUME NEW g \in Round(P, cur), NEW h \in Round(P, cur), NEW m \in g.members \cap h.members
        PROVE  g = h
    <2>1. g.provider = h.provider /\ g.request = h.request
      BY <1>3
    <2>2. g.members = h.members
      <3>1. \A n : n \in g.members <=> n \in P /\ cur[n] = g.provider /\ RequestOf[n] = g.request
        BY <1>1
      <3>2. \A n : n \in h.members <=> n \in P /\ cur[n] = h.provider /\ RequestOf[n] = h.request
        BY <1>1
      <3> QED
        BY <1>1, <2>1, <3>1, <3>2
    <2> QED
      BY <1>1, <2>1, <2>2
  <1> QED
    BY <1>2, <1>3, <1>4

\* Every chain has a first provider.
LEMMA ChainFacts ==
    ASSUME NEW m \in Metric
    PROVE  Chain[m] \in Seq(Provider) /\ Len(Chain[m]) \in Nat \ {0}
  BY RouterAssumption, EmptySeq

\* A pending metric stands at a provider of its chain.
LEMMA CurrentIsInChain ==
    ASSUME TypeOK, FallbackFollowsChain, NEW m \in Metric, where[m] = "pending"
    PROVE  index[m] + 1 \in 1 .. Len(Chain[m]) /\ Current(m) = Chain[m][index[m] + 1]
           /\ Current(m) \in Provider
  <1>1. index[m] \in Nat /\ index[m] < Len(Chain[m])
    BY ChainFacts DEF TypeOK, FallbackFollowsChain
  <1> QED
    BY <1>1, ChainFacts, ElementOfSeq DEF Current

\* Asking the next provider of a chain extends the attempted prefix by one.
LEMMA PrefixGrows ==
    ASSUME NEW m \in Metric, NEW i \in Nat, i + 1 \in 1 .. Len(Chain[m])
    PROVE  Append(SubSeq(Chain[m], 1, i), Chain[m][i + 1]) = SubSeq(Chain[m], 1, i + 1)
  <1> DEFINE c == Chain[m]
             a == Append(SubSeq(c, 1, i), c[i + 1])
             b == SubSeq(c, 1, i + 1)
  <1>1. c \in Seq(Provider) /\ Len(c) \in Nat
    BY ChainFacts
  <1>2. \A j \in 1 .. i + 1 : c[j] \in Provider
    BY <1>1, ElementOfSeq
  <1>3. /\ SubSeq(c, 1, i) \in Seq(Provider) /\ Len(SubSeq(c, 1, i)) = i
        /\ \A j \in 1 .. i : SubSeq(c, 1, i)[j] = c[j]
    BY <1>2, SubSeqProperties
  <1>4. /\ b \in Seq(Provider) /\ Len(b) = i + 1
        /\ \A j \in 1 .. i + 1 : b[j] = c[j]
    BY <1>2, SubSeqProperties
  <1>5. /\ a \in Seq(Provider) /\ Len(a) = i + 1
        /\ \A j \in 1 .. i + 1 : a[j] = c[j]
    <2>1. c[i + 1] \in Provider
      BY <1>2
    <2> HIDE DEF c
    <2> QED
      BY <1>3, <2>1, AppendProperties
  <1> HIDE DEF a, b
  <1>6. a = b
    BY <1>4, <1>5, SeqEqual
  <1> QED
    BY <1>6 DEF a, b

\* The invariant holds before the first review.
LEMMA InitInv == Init => IInv
  <1> SUFFICES ASSUME Init PROVE IInv
    OBVIOUS
  <1>1. TypeOK
    BY ThresholdAssumption, EmptySeq DEF Init, TypeOK, Modes, Breakers, NewBreaker, CircuitStates
  <1>2. FallbackFollowsChain
    <2>1. \A m \in Metric : SubSeq(Chain[m], 1, 0) = <<>>
      BY SubSeqEmpty
    <2> QED
      BY <2>1, ChainFacts DEF Init, FallbackFollowsChain
  <1>3. BreakersWellFormed
    BY ThresholdAssumption DEF Init, BreakersWellFormed, WellFormed, Breakers, NewBreaker, CircuitStates
  <1> QED
    BY <1>1, <1>2, <1>3, RouterAssumption DEF Init, IInv, RoundIsAPartition, BudgetsRespected, CacheOnlyIsLocal

\* What a group resolves keeps every metric on its chain, and the other groups
\* of the round untouched (router.py:437-502, 627-651).
LEMMA ResolvingInv ==
    ASSUME IInv, NEW g \in todo, Yields(g), phase' = phase, reviews' = reviews
    PROVE  RoundIsAPartition' /\ FallbackFollowsChain'
           /\ where' \in [Metric -> {"pending", "observed", "exhausted"}]
           /\ index' \in [Metric -> Nat] /\ attempted' \in [Metric -> Seq(Provider)]
           /\ todo' \subseteq Groups
  <1>1. PICK found \in SUBSET g.members : Resolve(g, found, g.members \ found)
    BY DEF Yields, Yield
  <1> DEFINE missing == g.members \ found
  <1>2. /\ g \in Groups /\ g.members \subseteq Metric /\ g.provider \in Provider
        /\ \A m \in g.members : where[m] = "pending" /\ g.provider = Current(m)
    BY DEF IInv, TypeOK, Groups, RoundIsAPartition
  <1>3. /\ todo' \subseteq Groups
        /\ index' \in [Metric -> Nat] /\ attempted' \in [Metric -> Seq(Provider)]
        /\ where' \in [Metric -> {"pending", "observed", "exhausted"}]
    <2>1. \A m \in Metric : Append(attempted[m], g.provider) \in Seq(Provider)
      BY <1>2, AppendProperties DEF IInv, TypeOK
    <2> QED
      BY <1>1, <2>1 DEF Resolve, IInv, TypeOK
  <1>4. ASSUME NEW m \in Metric
        PROVE  /\ index'[m] <= Len(Chain[m])
               /\ attempted'[m] = SubSeq(Chain[m], 1, index'[m])
               /\ where'[m] = "exhausted" <=> index'[m] = Len(Chain[m])
    <2>1. /\ index[m] \in Nat /\ index[m] <= Len(Chain[m]) /\ Len(Chain[m]) \in Nat
          /\ attempted[m] = SubSeq(Chain[m], 1, index[m])
          /\ where[m] = "exhausted" <=> index[m] = Len(Chain[m])
      BY ChainFacts DEF IInv, TypeOK, FallbackFollowsChain
    <2>2. CASE m \in missing
      <3>1. /\ index[m] + 1 \in 1 .. Len(Chain[m])
            /\ g.provider = Chain[m][index[m] + 1]
        BY <1>2, <2>2, CurrentIsInChain DEF IInv
      <3>2. /\ index'[m] = index[m] + 1
            /\ attempted'[m] = Append(attempted[m], g.provider)
            /\ where'[m] = IF index[m] + 1 >= Len(Chain[m]) THEN "exhausted" ELSE where[m]
        BY <1>1, <2>2 DEF Resolve
      <3>3. attempted'[m] = SubSeq(Chain[m], 1, index[m] + 1)
        BY <2>1, <3>1, <3>2, PrefixGrows
      <3>4. where'[m] = "exhausted" <=> index[m] + 1 >= Len(Chain[m])
        BY <1>2, <2>2, <3>2
      <3>5. index'[m] <= Len(Chain[m]) /\ (index'[m] = Len(Chain[m]) <=> index[m] + 1 >= Len(Chain[m]))
        BY <2>1, <3>1, <3>2
      <3> QED
        BY <3>2, <3>3, <3>4, <3>5
    <2>3. CASE m \in found
      <3>1. where[m] = "pending"
        BY <1>2, <2>3
      <3>2. index'[m] = index[m] /\ attempted'[m] = attempted[m] /\ where'[m] = "observed"
        BY <1>1, <2>3 DEF Resolve
      <3> QED
        BY <2>1, <3>1, <3>2
    <2>4. CASE m \notin g.members
      <3>1. index'[m] = index[m] /\ attempted'[m] = attempted[m] /\ where'[m] = where[m]
        BY <1>1, <2>4 DEF Resolve
      <3> QED
        BY <2>1, <3>1
    <2> QED
      BY <2>2, <2>3, <2>4
  <1>5. phase = "idle" /\ reviews > 0 => Pending' = {}
    <2> SUFFICES ASSUME phase = "idle", reviews > 0, NEW m \in Metric, where'[m] = "pending"
                 PROVE  FALSE
      BY DEF Pending
    <2>1. where[m] # "pending"
      BY DEF IInv, FallbackFollowsChain, Pending
    <2> QED
      BY <1>1, <1>2, <2>1 DEF Resolve
  <1>6. FallbackFollowsChain'
    BY <1>4, <1>5 DEF FallbackFollowsChain
  <1>7. RoundIsAPartition'
    <2>1. ASSUME NEW h \in todo', NEW m \in h.members
          PROVE  where'[m] = "pending" /\ h.provider = Current(m)' /\ h.request = RequestOf[m]
      <3>1. h \in todo /\ h # g /\ m \in Metric
        BY <1>1 DEF Resolve, IInv, TypeOK, Groups
      <3>2. m \notin g.members
        BY <3>1 DEF IInv, RoundIsAPartition
      <3>3. index'[m] = index[m] /\ where'[m] = where[m]
        BY <1>1, <3>1, <3>2 DEF Resolve
      <3> QED
        BY <3>1, <3>3 DEF IInv, RoundIsAPartition, Current
    <2>2. \A h, k \in todo' : h # k => h.members \cap k.members = {}
      BY <1>1 DEF Resolve, IInv, RoundIsAPartition
    <2> QED
      BY <2>1, <2>2 DEF RoundIsAPartition
  <1> QED
    BY <1>3, <1>6, <1>7

\* Serving a group keeps the invariant.
LEMMA ServeInv ==
    ASSUME IInv, NEW g \in todo, Serve(g)
    PROVE  IInv'
  <1>1. BreakerMoves(g) /\ Spends(g) /\ Yields(g)
    BY GroupEnds DEF IInv
  <1>2. phase' = phase /\ mode' = mode /\ reviews' = reviews /\ phase = "collecting"
    BY DEF Serve
  <1>3. g.provider \in Provider
    BY DEF IInv, TypeOK, Groups
  <1>4. RoundIsAPartition' /\ FallbackFollowsChain'
        /\ where' \in [Metric -> {"pending", "observed", "exhausted"}]
        /\ index' \in [Metric -> Nat] /\ attempted' \in [Metric -> Seq(Provider)]
        /\ todo' \subseteq Groups
    BY <1>1, <1>2, ResolvingInv
  <1>5. breaker' \in [Provider -> Breakers] /\ BreakersWellFormed'
    BY <1>1, <1>3 DEF BreakerMoves, SetBreaker, BreakersWellFormed, IInv, TypeOK
  <1>6. /\ calls' \in Nat /\ callsTo' \in [Provider -> Nat] /\ network' \in Nat
        /\ BudgetsRespected' /\ CacheOnlyIsLocal'
    <2>1. PICK made \in 0 .. 2, sent \in Nat :
            /\ Spend(g.provider, made, sent)
            /\ \/ made = 0 /\ sent = 0
               \/ /\ mode # "CACHE_ONLY"
                  /\ calls + made <= MaxPerReview
                  /\ callsTo[g.provider] + made <= MaxPerProvider
      BY <1>1 DEF Spends
    <2>2. /\ calls \in Nat /\ callsTo \in [Provider -> Nat] /\ network \in Nat
          /\ calls <= MaxPerReview /\ \A p \in Provider : callsTo[p] <= MaxPerProvider
          /\ mode = "CACHE_ONLY" => calls = 0 /\ network = 0
      BY <1>2 DEF IInv, TypeOK, BudgetsRespected, CacheOnlyIsLocal
    <2>3. /\ calls' = calls + made /\ network' = network + sent
          /\ callsTo' = [callsTo EXCEPT ![g.provider] = callsTo[g.provider] + made]
      BY <2>1 DEF Spend
    <2>4. callsTo' \in [Provider -> Nat] /\ \A p \in Provider : callsTo'[p] <= MaxPerProvider
      BY <1>3, <2>1, <2>2, <2>3, RouterAssumption
    <2> QED
      BY <1>2, <2>1, <2>2, <2>3, <2>4, RouterAssumption DEF BudgetsRespected, CacheOnlyIsLocal
  <1> QED
    BY <1>2, <1>4, <1>5, <1>6 DEF IInv, TypeOK

\* A new review starts from fresh budgets and the heads of the chains.
LEMMA BeginInv ==
    ASSUME IInv, NEW newMode \in Modes, Begin(newMode)
    PROVE  IInv'
  <1> DEFINE head == [m \in Metric |-> Chain[m][1]]
  <1>1. head \in [Metric -> Provider] /\ \A m \in Metric : 0 < Len(Chain[m])
    BY ChainFacts, ElementOfSeq
  <1>2. todo' = Round(Metric, head)
    BY DEF Begin
  <1> HIDE DEF head
  <1>3. /\ todo' \subseteq Groups
        /\ \A g \in todo' : \A m \in g.members :
              m \in Metric /\ g.provider = head[m] /\ g.request = RequestOf[m]
        /\ \A g, h \in todo' : g # h => g.members \cap h.members = {}
    <2>1. Metric \in SUBSET Metric
      OBVIOUS
    <2> QED
      BY <1>1, <1>2, <2>1, RoundFacts
  <1>4. RoundIsAPartition' /\ TypeOK'
    <2>1. \A m \in Metric : where'[m] = "pending" /\ Current(m)' = head[m]
      BY DEF Begin, Current, head
    <2>2. attempted' \in [Metric -> Seq(Provider)]
      BY EmptySeq DEF Begin
    <2>3. RoundIsAPartition'
      BY <1>3, <2>1 DEF RoundIsAPartition
    <2> QED
      BY <1>3, <2>2, <2>3 DEF Begin, IInv, TypeOK
  <1>5. FallbackFollowsChain'
    <2>1. \A m \in Metric : SubSeq(Chain[m], 1, 0) = <<>>
      BY SubSeqEmpty
    <2> QED
      BY <1>1, <2>1, ChainFacts DEF Begin, FallbackFollowsChain
  <1>6. BudgetsRespected' /\ CacheOnlyIsLocal' /\ BreakersWellFormed'
    BY RouterAssumption DEF Begin, BudgetsRespected, CacheOnlyIsLocal, IInv, BreakersWellFormed
  <1> QED
    BY <1>4, <1>5, <1>6 DEF IInv

\* A new round groups exactly the metrics still pending.
LEMMA NextRoundInv ==
    ASSUME IInv, NextRound
    PROVE  IInv'
  <1> DEFINE cur == [m \in Pending |-> Current(m)]
  <1>1. Pending \subseteq Metric /\ cur \in [Pending -> Provider]
    BY CurrentIsInChain DEF IInv, Pending
  <1>2. todo' = Round(Pending, cur) /\ UNCHANGED <<phase, mode, progress, breaker, budget, reviews>>
    BY DEF NextRound
  <1>3. \A m \in Pending : cur[m] = Current(m) /\ where[m] = "pending"
    BY DEF Pending
  <1> HIDE DEF cur
  <1>4. TypeOK' /\ BudgetsRespected' /\ BreakersWellFormed' /\ CacheOnlyIsLocal'
    BY <1>1, <1>2, RoundFacts
       DEF IInv, TypeOK, progress, budget, BudgetsRespected, BreakersWellFormed, CacheOnlyIsLocal
  <1>5. RoundIsAPartition'
    BY <1>1, <1>2, <1>3, RoundFacts DEF RoundIsAPartition, Current, progress
  <1>6. FallbackFollowsChain'
    BY <1>2 DEF IInv, FallbackFollowsChain, Pending, progress
  <1> QED
    BY <1>4, <1>5, <1>6 DEF IInv

\* The invariant is inductive.
LEMMA Inductive == IInv /\ [Next]_vars => IInv'
  <1> SUFFICES ASSUME IInv, [Next]_vars PROVE IInv'
    OBVIOUS
  <1>1. ASSUME NEW newMode \in Modes, Begin(newMode) PROVE IInv'
    BY <1>1, BeginInv
  <1>2. CASE NextRound
    BY <1>2, NextRoundInv
  <1>3. CASE Finish
    BY <1>3 DEF Finish, IInv, TypeOK, RoundIsAPartition, FallbackFollowsChain, BudgetsRespected,
       BreakersWellFormed, CacheOnlyIsLocal, progress, budget, Pending, Current
  <1>4. ASSUME NEW g \in todo, Serve(g) PROVE IInv'
    BY <1>4, ServeInv
  <1>5. ASSUME NEW p \in Provider, CoolDown(p) PROVE IInv'
    <2>1. breaker[p] \in Breakers /\ WellFormed(breaker[p])
      BY DEF IInv, TypeOK, BreakersWellFormed
    <2>2. CooledDown(breaker[p]) \in Breakers /\ WellFormed(CooledDown(breaker[p]))
      BY <2>1, BreakerOperations
    <2>3. breaker' = [breaker EXCEPT ![p] = CooledDown(breaker[p])]
      BY <1>5 DEF CoolDown, SetBreaker
    <2>4. breaker' \in [Provider -> Breakers] /\ BreakersWellFormed'
      BY <2>2, <2>3 DEF IInv, TypeOK, BreakersWellFormed
    <2> QED
      BY <1>5, <2>4 DEF CoolDown, IInv, TypeOK, RoundIsAPartition, FallbackFollowsChain,
         BudgetsRespected, CacheOnlyIsLocal, progress, budget, Pending, Current
  <1>6. CASE UNCHANGED vars
    BY <1>6 DEF vars, IInv, TypeOK, RoundIsAPartition, FallbackFollowsChain, BudgetsRespected,
       BreakersWellFormed, CacheOnlyIsLocal, Pending, Current
  <1> QED
    BY <1>1, <1>2, <1>3, <1>4, <1>5, <1>6 DEF Next, Step

-----------------------------------------------------------------------------

\* The invariant holds in every state of every behaviour.
THEOREM InvariantHolds == Spec => []IInv
  BY InitInv, Inductive, PTL DEF Spec

\* Every variable keeps its type.
THEOREM TypeCorrect == Spec => []TypeOK
  <1>1. IInv => TypeOK
    BY DEF IInv
  <1> QED
    BY <1>1, InvariantHolds, PTL

\* In every round each pending metric is asked of at most one provider.
THEOREM RoundsPartition == Spec => []RoundIsAPartition
  <1>1. IInv => RoundIsAPartition
    BY DEF IInv
  <1> QED
    BY <1>1, InvariantHolds, PTL

\* Fallback walks each chain in order and without a gap, and no metric is lost.
THEOREM FallbackInOrder == Spec => []FallbackFollowsChain
  <1>1. IInv => FallbackFollowsChain
    BY DEF IInv
  <1> QED
    BY <1>1, InvariantHolds, PTL

\* No combination of groups, tails and fallbacks passes either collect budget.
THEOREM BudgetsHold == Spec => []BudgetsRespected
  <1>1. IInv => BudgetsRespected
    BY DEF IInv
  <1> QED
    BY <1>1, InvariantHolds, PTL

\* Every breaker's counter explains its state.
THEOREM BreakersHold == Spec => []BreakersWellFormed
  <1>1. IInv => BreakersWellFormed
    BY DEF IInv
  <1> QED
    BY <1>1, InvariantHolds, PTL

\* A CACHE_ONLY review never reaches the network.
THEOREM CacheOnlyStaysLocal == Spec => []CacheOnlyIsLocal
  <1>1. IInv => CacheOnlyIsLocal
    BY DEF IInv
  <1> QED
    BY <1>1, InvariantHolds, PTL

\* A provider whose breaker is open and has not cooled down is not called.
THEOREM OpenCircuitsRest == Spec => OpenCircuitIsNotCalled
  <1> DEFINE Rests == \A p \in Provider :
                breaker[p].state = "OPEN" /\ ~breaker[p].cooled => callsTo'[p] <= callsTo[p]
  <1>1. IInv /\ [Next]_vars => [Rests]_vars
    <2> SUFFICES ASSUME IInv, Next, NEW p \in Provider, breaker[p].state = "OPEN", ~breaker[p].cooled
                 PROVE  callsTo'[p] <= callsTo[p]
      OBVIOUS
    <2>1. callsTo \in [Provider -> Nat] /\ ~Allows(breaker[p])
      BY DEF IInv, TypeOK, Allows
    <2>2. ASSUME NEW newMode \in Modes, Begin(newMode) PROVE callsTo'[p] <= callsTo[p]
      BY <2>1, <2>2 DEF Begin
    <2>3. ASSUME NEW g \in todo, Serve(g) PROVE callsTo'[p] <= callsTo[p]
      <3>1. Spends(g)
        BY <2>3, GroupEnds DEF IInv
      <3>2. PICK made \in 0 .. 2 :
              /\ callsTo' = [callsTo EXCEPT ![g.provider] = callsTo[g.provider] + made]
              /\ made = 0 \/ Allows(breaker[g.provider])
        BY <3>1 DEF Spends, Spend
      <3>3. CASE g.provider = p
        BY <2>1, <3>2, <3>3
      <3>4. CASE g.provider # p
        BY <2>1, <3>2, <3>4
      <3> QED
        BY <3>3, <3>4
    <2>4. CASE NextRound \/ Finish \/ \E q \in Provider : CoolDown(q)
      BY <2>1, <2>4 DEF NextRound, Finish, CoolDown, budget
    <2> QED
      BY <2>2, <2>3, <2>4 DEF Next, Step
  <1> QED
    BY <1>1, InvariantHolds, PTL DEF Spec, OpenCircuitIsNotCalled

\* What holds of the router between any two groups, for any chains, budgets and
\* thresholds and any number of reviews.
THEOREM RoutingHolds == Spec => []RoutingInvariant
  <1>1. IInv => RoutingInvariant
    BY DEF IInv, RoutingInvariant
  <1> QED
    BY <1>1, InvariantHolds, PTL

-----------------------------------------------------------------------------
(***************************************************************************)
(* The acquisition that asks the router.  Its invariant says that whatever  *)
(* is stored is trusted; one run is looked at through what it reuses, what  *)
(* the router answers, what the scans say and the verdicts on all of these. *)
(***************************************************************************)

\* What an observation is worth as evidence: it is well formed, and says that
\* nothing is known only where everything was read.
Trusted == {o \in Observations : o.value = Clear => o.full /\ (o.id[2] = "security" => ~o.disputed)}

\* What a review takes for scans: of scopes and categories, and those of
\* security in the state their events and coverage make.
Credible(scans) ==
    /\ DOMAIN scans \subseteq Scopes \X Categories
    /\ \A key \in DOMAIN scans : scans[key] \in Scans /\ (key[2] = "security" => Derivable(scans[key]))

\* Answers a review is brought: of every scope, or none at all.
Brought == [Scopes -> Answers] \cup {<<>>}

\* One shared scan answers for all of the assets, or none does.
Shares(scans, assets) ==
    \/ \A a \in assets : <<a, "regulatory">> \notin DOMAIN scans
    \/ \E shared \in Scans : \A a \in assets :
          /\ <<a, "regulatory">> \in DOMAIN scans
          /\ scans[<<a, "regulatory">>] = MapTo(a, shared)

\* Scans made of answers alone: of the day of the review, and the regulatory
\* ones shared by the assets that lack one.
MadeToday(scans, day, lacking) ==
    /\ \A key \in DOMAIN scans : scans[key].at = day
    /\ \A key \in DOMAIN scans : key[2] = "regulatory" => key[1] \in lacking
    /\ Shares(scans, lacking)

\* Evidence about expanded metrics, each under its own name.
Evidence(f) ==
    /\ DOMAIN f \subseteq Expanded
    /\ \A id \in DOMAIN f : f[id] \in Trusted /\ f[id].id = id

AcquisitionInv ==
    /\ AcquisitionTypeOK /\ NothingFromTheFuture
    /\ ReadyMeansEvidence /\ store \subseteq Trusted

-----------------------------------------------------------------------------

\* What one function says over another.
LEMMA OverApplies ==
    ASSUME NEW f, NEW g
    PROVE  /\ DOMAIN Over(f, g) = DOMAIN f \cup DOMAIN g
           /\ \A x \in DOMAIN f : Over(f, g)[x] = f[x]
           /\ \A x \in DOMAIN g \ DOMAIN f : Over(f, g)[x] = g[x]
  BY DEF Over

\* The newest of some observations is one of them.
LEMMA NewestIsMember ==
    ASSUME NEW cutoff \in Nat, NEW S, S # {}, \A o \in S : o.at \in Int /\ o.at <= cutoff
    PROVE  Newest(S) \in S
  <1> DEFINE ages == {cutoff - o.at : o \in S}
  <1>1. ages \in SUBSET Nat /\ ages # {}
    OBVIOUS
  <1>2. PICK m \in ages : \A n \in ages : m <= n
    <2> HIDE DEF ages
    <2> QED
      BY <1>1, LeastOfNat
  <1>3. PICK o \in S : m = cutoff - o.at
    BY <1>2
  <1>4. ASSUME NEW p \in S PROVE p.at <= o.at
    <2>1. cutoff - p.at \in ages
      OBVIOUS
    <2>2. cutoff - o.at <= cutoff - p.at
      BY <1>2, <1>3, <2>1
    <2>3. p.at \in Int /\ o.at \in Int
      BY <1>3
    <2> QED
      BY <2>2, <2>3
  <1> QED
    BY <1>3, <1>4 DEF Newest

\* Expanded only asks for identities, and adds nothing but returns.
LEMMA ExpandedIds ==
    ASSUME plan \in Plans
    PROVE  /\ Asked \subseteq Identities /\ Expanded \subseteq Identities
           /\ Asked \subseteq Expanded
           /\ \A id \in Expanded : id[2] # "return" => id \in Asked
  <1>1. plan \in Seq(Identities)
    BY AcquisitionAssumption DEF Identities
  <1>2. Asked \subseteq Identities
    BY <1>1 DEF Asked
  <1>3. \A id \in Asked : Inputs(id) \subseteq {<<id[1], "return">>, <<Bitcoin, "return">>}
    BY DEF Inputs
  <1>4. \A id \in Asked : Inputs(id) \subseteq Identities
    BY <1>2, <1>3, AcquisitionAssumption DEF Identities, Kinds
  <1> QED
    BY <1>2, <1>3, <1>4 DEF Expanded

\* Whatever is reused is fresh.
LEMMA ReusedIsFresh ==
    ASSUME store \subseteq Trusted, NEW cutoff \in Days, NEW how, plan \in Plans,
           NEW reused, reused = Reused(how, cutoff)
    PROVE  /\ DOMAIN reused \subseteq Expanded
           /\ \A id \in DOMAIN reused : reused[id] \in Fresh(id, cutoff)
  <1>1. cutoff \in Nat
    BY AcquisitionAssumption DEF Days
  <1>2. \A ids : Synchronized(ids, cutoff) \subseteq ids
    BY DEF Synchronized
  <1>3. Reusable(how, cutoff) \subseteq Expanded
        /\ \A id \in Reusable(how, cutoff) : Fresh(id, cutoff) # {}
    BY DEF Reusable
  <1>4. \A id : \A o \in Fresh(id, cutoff) : o.at \in Int /\ o.at <= cutoff
    BY DEF Fresh, Trusted, Observations
  <1>5. \A id : Fresh(id, cutoff) # {} => Newest(Fresh(id, cutoff)) \in Fresh(id, cutoff)
    BY <1>1, <1>4, NewestIsMember
  <1> QED
    BY <1>2, <1>3, <1>5 DEF Reused

\* Whatever the router answers is trusted, and under its own name.
LEMMA RoutedIsTrusted ==
    ASSUME today \in Days, NEW cutoff \in Days, NEW ids \in SUBSET Identities,
           NEW routed \in Routings(ids, cutoff)
    PROVE  /\ DOMAIN routed \subseteq ids
           /\ \A id \in DOMAIN routed : routed[id] \in Trusted /\ routed[id].id = id
           /\ \A id \in DOMAIN routed : id[2] = "return" => routed[id].at <= cutoff
  <1>1. PICK answered \in SUBSET ids :
            /\ routed \in [answered -> UNION {RouterObservations(id, cutoff) : id \in answered}]
            /\ \A id \in answered : routed[id].id = id
    BY DEF Routings
  <1>2. \A id \in ids : RouterObservations(id, cutoff) \subseteq Observations
    <2> SUFFICES ASSUME NEW id \in ids, NEW o \in RouterObservations(id, cutoff)
                 PROVE  o \in Observations
      OBVIOUS
    <2>1. o.at \in Int
      BY AcquisitionAssumption DEF RouterObservations, Days
    <2>2. o.source \in Venues \cup {"chain"}
      BY DEF RouterObservations
    <2> QED
      BY <2>1, <2>2 DEF RouterObservations, Observations
  <1>3. \A id \in ids : \A o \in RouterObservations(id, cutoff) : o.value = "VALUE"
    BY DEF RouterObservations
  <1>4. "VALUE" # Clear
    BY DEF Clear
  <1>5. \A id \in ids : \A o \in RouterObservations(id, cutoff) :
              o.id = id /\ (id[2] = "return" => o.at <= cutoff)
    BY AcquisitionAssumption DEF RouterObservations, Days
  <1>6. \A id \in answered : routed[id] \in RouterObservations(id, cutoff)
    BY <1>1, <1>5
  <1> QED
    BY <1>1, <1>2, <1>3, <1>4, <1>5, <1>6 DEF Trusted

\* Evidence over evidence is evidence.
LEMMA EvidenceOver ==
    ASSUME NEW f, Evidence(f), NEW g, Evidence(g)
    PROVE  Evidence(Over(f, g))
  <1> DEFINE both == Over(f, g)
  <1>1. /\ DOMAIN both = DOMAIN f \cup DOMAIN g
        /\ \A x \in DOMAIN f : both[x] = f[x]
        /\ \A x \in DOMAIN g \ DOMAIN f : both[x] = g[x]
    BY OverApplies
  <1> HIDE DEF both
  <1>2. ASSUME NEW id \in DOMAIN both PROVE both[id] \in Trusted /\ both[id].id = id
    <2>1. CASE id \in DOMAIN f
      BY <1>1, <2>1 DEF Evidence
    <2>2. CASE id \in DOMAIN g \ DOMAIN f
      BY <1>1, <2>2 DEF Evidence
    <2> QED
      BY <1>1, <2>1, <2>2
  <1> QED
    BY <1>1, <1>2 DEF Evidence, both

\* The caches of candles a run may find.
Caches == [Assets \X Venues -> SUBSET Int]

\* What is loaded for a return is of some venue (_relative_series_inputs).
LEMMA LoadedIsSound ==
    ASSUME NEW known, Evidence(known), NEW candles \in Caches, plan \in Plans,
           NEW loaded, loaded = Loaded(known, candles)
    PROVE  \A k \in DOMAIN loaded : loaded[k].venue \in Venues /\ loaded[k].days \subseteq Int
  <1> SUFFICES ASSUME NEW k \in DOMAIN loaded
               PROVE  loaded[k].venue \in Venues /\ loaded[k].days \subseteq Int
    OBVIOUS
  <1> DEFINE Until(asset, v) == {day \in candles[<<asset, v>>] : day < today}
             having == {v \in Venues : Until(k[1], v) # {}}
             chosen == CHOOSE v \in having : known[k].source \in having => v = known[k].source
  <1>1. /\ k \in DOMAIN known /\ having # {}
        /\ loaded[k] = [venue |-> chosen, days |-> Until(k[1], chosen)]
    BY DEF Loaded
  <1>2. chosen \in having
    <2>1. \E v \in having : known[k].source \in having => v = known[k].source
      BY <1>1
    <2> HIDE DEF having
    <2> QED
      BY <2>1
  <1>3. k[1] \in Assets
    BY <1>1, ExpandedIds DEF Evidence, Identities
  <1> HIDE DEF chosen
  <1>4. chosen \in Venues /\ Until(k[1], chosen) \subseteq Int
    BY <1>2, <1>3 DEF Caches
  <1> QED
    BY <1>1, <1>4

\* A cohort has a venue and a day.
LEMMA CohortIsSound ==
    ASSUME NEW known, Evidence(known), NEW loaded, NEW cutoff, NEW id,
           \A k \in DOMAIN loaded : loaded[k].venue \in Venues /\ loaded[k].days \subseteq Int,
           NEW c \in Cohort(id, known, loaded, cutoff)
    PROVE  c.day \in Int /\ c.venue \in Venues \cup {"scan", "chain"}
  <1> DEFINE mine == <<id[1], "return">>
             base == <<Bitcoin, "return">>
  <1>1. CASE {mine, base} \subseteq DOMAIN loaded
    <2>1. c \in OfCandles(loaded[mine], loaded[base], cutoff)
      BY <1>1 DEF Cohort
    <2>2. c.venue = loaded[base].venue /\ c.day \in loaded[base].days
      BY <2>1 DEF OfCandles
    <2> QED
      BY <1>1, <2>2
  <1>2. CASE ~({mine, base} \subseteq DOMAIN loaded)
    <2>1. /\ {mine, base} \subseteq DOMAIN known \ DOMAIN loaded
          /\ c \in OfReturns(known[mine], known[base])
      BY <1>2 DEF Cohort
    <2>2. c.venue = known[base].source /\ c.day = known[base].at - 1
      BY <2>1 DEF OfReturns
    <2>3. known[base] \in Observations
      BY <2>1 DEF Evidence, Trusted
    <2>4. known[base].at \in Int /\ known[base].source \in Venues \cup {"scan", "chain"}
      BY <2>3 DEF Observations
    <2> QED
      BY <2>2, <2>4
  <1> QED
    BY <1>1, <1>2

\* What is derived of evidence is evidence, about relative returns only, and
\* each of one cohort (_derive_relative_observations).
LEMMA DerivedIsTrusted ==
    ASSUME NEW known, Evidence(known), NEW candles \in Caches, plan \in Plans, NEW cutoff,
           NEW loaded, loaded = Loaded(known, candles),
           NEW derived, derived = Derived(known, loaded, cutoff)
    PROVE  /\ Evidence(derived)
           /\ \A id \in DOMAIN derived :
                 /\ Inputs(id) # {}
                 /\ \E c \in Cohort(id, known, loaded, cutoff) :
                       c.day = derived[id].at /\ c.venue = derived[id].source
  <1>1. \A k \in DOMAIN loaded : loaded[k].venue \in Venues /\ loaded[k].days \subseteq Int
    BY LoadedIsSound
  <1>2. ASSUME NEW id \in DOMAIN derived
        PROVE  /\ derived[id] \in Trusted /\ derived[id].id = id /\ id \in Expanded
               /\ Inputs(id) # {}
               /\ \E c \in Cohort(id, known, loaded, cutoff) :
                       c.day = derived[id].at /\ c.venue = derived[id].source
    <2> DEFINE cohort == CHOOSE c \in Cohort(id, known, loaded, cutoff) : TRUE
    <2>1. /\ id \in Expanded /\ Inputs(id) # {} /\ Cohort(id, known, loaded, cutoff) # {}
          /\ derived[id] = [id |-> id, at |-> cohort.day, value |-> "VALUE", source |-> cohort.venue,
                            full |-> TRUE, disputed |-> FALSE]
      BY DEF Derived
    <2>2. cohort \in Cohort(id, known, loaded, cutoff)
      BY <2>1
    <2> HIDE DEF cohort
    <2>3. cohort.day \in Int /\ cohort.venue \in Venues \cup {"scan", "chain"}
      BY <1>1, <2>2, CohortIsSound
    <2>4. id \in Identities
      BY <2>1, ExpandedIds
    <2>5. derived[id] \in Observations
      BY <2>1, <2>3, <2>4 DEF Observations
    <2>6. derived[id].value # Clear
      BY <2>1 DEF Clear
    <2>7. derived[id] \in Trusted
      BY <2>5, <2>6 DEF Trusted
    <2>8. derived[id].at = cohort.day /\ derived[id].source = cohort.venue /\ derived[id].id = id
      BY <2>1
    <2> QED
      BY <2>1, <2>2, <2>7, <2>8
  <1> QED
    BY <1>2 DEF Evidence

-----------------------------------------------------------------------------
(* What scans say.                                                         *)

\* A scan is clear if it found nothing and nothing is unsettled.
LEMMA States ==
    ASSUME NEW events, NEW unsettled \in BOOLEAN
    PROVE  /\ StateOf(events, unsettled) \in Severities \cup {"CLEAR"}
           /\ StateOf(events, unsettled) = "CLEAR" <=> events = {} /\ ~unsettled
  BY DEF StateOf, Severities

\* A scan the scanner builds is in the state its findings make
\* (EventScanner.build_result).
LEMMA BuildIsCredible ==
    ASSUME NEW scope, NEW day \in Nat, NEW answer \in Answers, NEW scan, scan = Build(scope, day, answer)
    PROVE  scan \in Scans /\ Derivable(scan) /\ scan.at = day
  <1> DEFINE events == {i \in answer.items : Affects(i, scope)}
             full == FullyReached(scope, answer)
             state == StateOf(events, answer.disputed \/ ~full)
  <1>1. scan = [at |-> day, full |-> full, disputed |-> answer.disputed, state |-> state, events |-> events]
    BY DEF Build
  <1>2. events \in SUBSET Items /\ full \in BOOLEAN /\ answer.disputed \in BOOLEAN
    BY DEF Answers, FullyReached
  <1>3. state \in Severities \cup {"CLEAR"}
    <2> HIDE DEF events, full
    <2> QED
      BY <1>2, States
  <1>4. state = StateOf(events, answer.disputed \/ ~full)
    OBVIOUS
  <1> HIDE DEF events, full, state
  <1> QED
    BY <1>1, <1>2, <1>3, <1>4 DEF Scans, Derivable

\* A shared scan as one asset sees it keeps its date and its coverage
\* (AcquisitionManager._map_shared_regulatory).
LEMMA MapIsCredible ==
    ASSUME NEW asset, NEW scan \in Scans, NEW mapped, mapped = MapTo(asset, scan)
    PROVE  /\ mapped \in Scans /\ mapped.at = scan.at /\ mapped.full = scan.full
           /\ mapped.state = StateOf(mapped.events, ~mapped.full)
  <1> DEFINE events == {i \in scan.events : Affects(i, asset)}
             state == StateOf(events, ~scan.full)
  <1>1. mapped = [scan EXCEPT !.events = events, !.state = state]
    BY DEF MapTo
  <1>2. events \in SUBSET Items /\ scan.full \in BOOLEAN
    BY DEF Scans
  <1>3. state \in Severities \cup {"CLEAR"}
    <2> HIDE DEF events
    <2> QED
      BY <1>2, States
  <1>4. state = StateOf(events, ~scan.full)
    OBVIOUS
  <1> HIDE DEF events, state
  <1> QED
    BY <1>1, <1>2, <1>3, <1>4 DEF Scans

\* A shared scan that reached everything settles every asset, and one that
\* did not settles the assets it found an event of.
LEMMA MappedStatus ==
    ASSUME NEW asset, NEW scan \in Scans, NEW mapped, mapped = MapTo(asset, scan)
    PROVE  /\ scan.full => Status(mapped) # Insufficient
           /\ ~scan.full /\ Status(mapped) # Insufficient => Status(mapped) = Material
  <1>1. /\ mapped \in Scans /\ mapped.full = scan.full
        /\ mapped.state = StateOf(mapped.events, ~mapped.full)
    BY MapIsCredible
  <1>2. mapped.full \in BOOLEAN /\ Insufficient # Material /\ Insufficient # Clear
    BY <1>1 DEF Scans, Insufficient, Material, Clear
  <1>3. mapped.state = "CLEAR" <=> mapped.events = {} /\ mapped.full
    BY <1>1, <1>2, States
  <1> QED
    BY <1>1, <1>2, <1>3 DEF Status

\* The scans made of answers: for the scopes asked about, on the day of the
\* review, and the regulatory ones of one shared scan.
LEMMA ScannedIsCredible ==
    ASSUME NEW day \in Days, NEW answers \in [Scopes -> Answers],
           NEW security \in SUBSET Assets, NEW regulatory \in SUBSET Assets,
           NEW scans, scans = Scanned(day, answers, security, regulatory)
    PROVE  /\ Credible(scans)
           /\ \A key \in DOMAIN scans : scans[key].at = day
           /\ DOMAIN scans \subseteq (security \X {"security"}) \cup (regulatory \X {"regulatory"})
           /\ Shares(scans, regulatory)
  <1> DEFINE shared == Build(Market, day, answers[Market])
             sought == {<<a, "security">> : a \in {a \in security : CanBuild(a, answers[a])}}
             assigned == IF CanBuild(Market, answers[Market]) THEN regulatory \X {"regulatory"} ELSE {}
  <1>1. DOMAIN scans = sought \cup assigned
    BY DEF Scanned
  <1>2. \A key \in DOMAIN scans :
            scans[key] = IF key[2] = "security" THEN Build(key[1], day, answers[key[1]]) ELSE MapTo(key[1], shared)
    BY DEF Scanned
  <1>3. day \in Nat
    BY AcquisitionAssumption DEF Days
  <1>4. \A scope \in Scopes : /\ Build(scope, day, answers[scope]) \in Scans
                              /\ Derivable(Build(scope, day, answers[scope]))
                              /\ Build(scope, day, answers[scope]).at = day
    BY <1>3, BuildIsCredible
  <1>5. Market \in Scopes /\ security \subseteq Scopes /\ regulatory \subseteq Scopes
    BY DEF Scopes
  <1>6. shared \in Scans /\ shared.at = day
    BY <1>4, <1>5
  <1>7. \A a : MapTo(a, shared) \in Scans /\ MapTo(a, shared).at = day
    BY <1>6, MapIsCredible
  <1>8. \A key \in sought : key[2] = "security" /\ key[1] \in security /\ key \in security \X {"security"}
    OBVIOUS
  <1>9. \A key \in assigned : key[2] = "regulatory" /\ key \in regulatory \X {"regulatory"}
    OBVIOUS
  <1>10. assigned = {} \/ assigned = regulatory \X {"regulatory"}
    OBVIOUS
  <1> HIDE DEF shared, sought, assigned
  <1>11. DOMAIN scans \subseteq (security \X {"security"}) \cup (regulatory \X {"regulatory"})
    BY <1>1, <1>8, <1>9
  <1>12. \A key \in DOMAIN scans : scans[key] \in Scans /\ scans[key].at = day
    BY <1>1, <1>2, <1>4, <1>5, <1>7, <1>8, <1>9
  <1>13. \A key \in DOMAIN scans : key[2] = "security" => Derivable(scans[key])
    BY <1>1, <1>2, <1>4, <1>5, <1>8, <1>9
  <1>14. Credible(scans)
    BY <1>5, <1>11, <1>12, <1>13 DEF Credible, Categories
  <1>15. \A a \in regulatory : <<a, "regulatory">> \notin sought
    BY <1>8
  <1>16. CASE assigned = {}
    BY <1>1, <1>11, <1>12, <1>14, <1>15, <1>16 DEF Shares
  <1>17. CASE assigned = regulatory \X {"regulatory"}
    <2>1. \A a \in regulatory : /\ <<a, "regulatory">> \in DOMAIN scans
                               /\ scans[<<a, "regulatory">>] = MapTo(a, shared)
      BY <1>1, <1>2, <1>17
    <2> QED
      BY <1>6, <1>11, <1>12, <1>14, <2>1 DEF Shares
  <1> QED
    BY <1>10, <1>16, <1>17

\* Two suppliers of shared scans still make one shared scan for all.
LEMMA OverShares ==
    ASSUME NEW f, NEW g, NEW assets, Shares(f, assets), Shares(g, assets)
    PROVE  Shares(Over(f, g), assets)
  <1> DEFINE both == Over(f, g)
  <1>1. /\ DOMAIN both = DOMAIN f \cup DOMAIN g
        /\ \A x \in DOMAIN f : both[x] = f[x]
        /\ \A x \in DOMAIN g \ DOMAIN f : both[x] = g[x]
    BY OverApplies
  <1> HIDE DEF both
  <1>2. CASE \A a \in assets : <<a, "regulatory">> \notin DOMAIN f
    <2>1. \A a \in assets : <<a, "regulatory">> \in DOMAIN both <=> <<a, "regulatory">> \in DOMAIN g
      BY <1>1, <1>2
    <2>2. \A a \in assets : <<a, "regulatory">> \in DOMAIN g =>
              both[<<a, "regulatory">>] = g[<<a, "regulatory">>]
      BY <1>1, <1>2
    <2> QED
      BY <2>1, <2>2 DEF Shares, both
  <1>3. CASE \E shared \in Scans : \A a \in assets :
               /\ <<a, "regulatory">> \in DOMAIN f
               /\ f[<<a, "regulatory">>] = MapTo(a, shared)
    <2>1. \A a \in assets : <<a, "regulatory">> \in DOMAIN f =>
              /\ <<a, "regulatory">> \in DOMAIN both
              /\ both[<<a, "regulatory">>] = f[<<a, "regulatory">>]
      BY <1>1
    <2> QED
      BY <1>3, <2>1 DEF Shares, both
  <1> QED
    BY <1>2, <1>3 DEF Shares

\* Scans over scans.
LEMMA OverCredible ==
    ASSUME NEW f, Credible(f), NEW g, Credible(g)
    PROVE  Credible(Over(f, g))
  <1> DEFINE both == Over(f, g)
  <1>1. /\ DOMAIN both = DOMAIN f \cup DOMAIN g
        /\ \A x \in DOMAIN f : both[x] = f[x]
        /\ \A x \in DOMAIN g \ DOMAIN f : both[x] = g[x]
    BY OverApplies
  <1> HIDE DEF both
  <1>2. ASSUME NEW key \in DOMAIN both
        PROVE  both[key] \in Scans /\ (key[2] = "security" => Derivable(both[key]))
    <2>1. CASE key \in DOMAIN f
      BY <1>1, <2>1 DEF Credible
    <2>2. CASE key \in DOMAIN g \ DOMAIN f
      BY <1>1, <2>2 DEF Credible
    <2> QED
      BY <1>1, <2>1, <2>2
  <1> QED
    BY <1>1, <1>2 DEF Credible, both

\* A shared scan of the host, spread over the assets that lack one.
LEMMA SharedIsCredible ==
    ASSUME NEW assets \in SUBSET Assets, NEW handed, Credible(handed)
    PROVE  Credible(SharedScans(assets, handed))
  <1>1. CASE <<Market, "regulatory">> \notin DOMAIN handed
    BY <1>1 DEF SharedScans
  <1>2. CASE <<Market, "regulatory">> \in DOMAIN handed
    <2> DEFINE scan == handed[<<Market, "regulatory">>]
               mapped == [id \in assets \X {"regulatory"} |-> MapTo(id[1], scan)]
    <2>1. scan \in Scans
      BY <1>2 DEF Credible
    <2> HIDE DEF scan
    <2>2. \A a : MapTo(a, scan) \in Scans
      BY <2>1, MapIsCredible
    <2>3. Credible(mapped)
      BY <2>2 DEF Credible, Scopes, Categories
    <2> HIDE DEF mapped
    <2> QED
      BY <1>2, <2>3, OverCredible DEF SharedScans, mapped, scan
  <1> QED
    BY <1>1, <1>2

\* The scans of one review: credible, and, where no finished scan was handed
\* in, of its own day, for assets that lack regulatory evidence, and shared.
LEMMA EventScansAreCredible ==
    ASSUME NEW how, NEW day \in Days, NEW reused, NEW handed, Credible(handed),
           NEW answers \in Brought,
           NEW fetched \in Brought,
           NEW scans, scans = EventScans(how, day, reused, handed, answers, fetched)
    PROVE  /\ Credible(scans)
           /\ handed = <<>> => MadeToday(scans, day, Missing("regulatory", reused, handed))
  <1> DEFINE security == Missing("security", reused, handed)
             regulatory == Missing("regulatory", reused, handed)
             shared == SharedScans(regulatory, handed)
             open == IF regulatory \X {"regulatory"} \subseteq DOMAIN shared THEN {} ELSE regulatory
             supplied == Scanned(day, answers, security, open)
             answered == IF answers = <<>> THEN shared ELSE Over(supplied, shared)
             resolved == Scanned(day, fetched, security, regulatory)
             Own(f) == MadeToday(f, day, regulatory)
  <1>1. scans = IF fetched = <<>> \/ how = "CACHE_ONLY" THEN answered ELSE Over(resolved, answered)
    BY DEF EventScans
  <1>2. security \in SUBSET Assets /\ regulatory \in SUBSET Assets /\ open \in SUBSET regulatory
    BY DEF Missing
  <1>3. Credible(shared)
    BY <1>2, SharedIsCredible
  <1>4. handed = <<>> => shared = <<>>
    BY DEF SharedScans
  <1>5. handed = <<>> => open = regulatory
    <2> HIDE DEF regulatory, shared
    <2> SUFFICES ASSUME handed = <<>>, regulatory \X {"regulatory"} \subseteq DOMAIN shared
                 PROVE  regulatory = {}
      OBVIOUS
    <2>1. DOMAIN shared = {}
      <3>1. shared = <<>>
        BY <1>4
      <3> QED
        BY <3>1
    <2>2. \A a \in regulatory : <<a, "regulatory">> \in regulatory \X {"regulatory"}
      OBVIOUS
    <2> QED
      BY <2>1, <2>2
  <1>6. answers # <<>> => Credible(supplied) /\ (handed = <<>> => Own(supplied))
    <2> SUFFICES ASSUME answers # <<>>
                 PROVE  Credible(supplied) /\ (handed = <<>> => Own(supplied))
      OBVIOUS
    <2>0. answers \in [Scopes -> Answers]
      BY DEF Brought
    <2> HIDE DEF security, regulatory, open
    <2>1. /\ Credible(supplied)
          /\ \A key \in DOMAIN supplied : supplied[key].at = day
          /\ DOMAIN supplied \subseteq (security \X {"security"}) \cup (open \X {"regulatory"})
          /\ Shares(supplied, open)
      BY <1>2, <2>0, ScannedIsCredible
    <2> QED
      BY <1>5, <2>1 DEF MadeToday
  <1>7. fetched # <<>> => Credible(resolved) /\ Own(resolved)
    <2> SUFFICES ASSUME fetched # <<>>
                 PROVE  Credible(resolved) /\ Own(resolved)
      OBVIOUS
    <2>0. fetched \in [Scopes -> Answers]
      BY DEF Brought
    <2> HIDE DEF security, regulatory
    <2>1. /\ Credible(resolved)
          /\ \A key \in DOMAIN resolved : resolved[key].at = day
          /\ DOMAIN resolved \subseteq (security \X {"security"}) \cup (regulatory \X {"regulatory"})
          /\ Shares(resolved, regulatory)
      BY <1>2, <2>0, ScannedIsCredible
    <2> QED
      BY <2>1 DEF MadeToday
  <1>8. ASSUME NEW f, NEW g, Own(f), Own(g) PROVE Own(Over(f, g))
    <2> HIDE DEF regulatory
    <2>1. Shares(Over(f, g), regulatory)
      BY <1>8, OverShares DEF MadeToday
    <2>2. /\ DOMAIN Over(f, g) = DOMAIN f \cup DOMAIN g
          /\ \A x \in DOMAIN f : Over(f, g)[x] = f[x]
          /\ \A x \in DOMAIN g \ DOMAIN f : Over(f, g)[x] = g[x]
      BY OverApplies
    <2>3. \A key \in DOMAIN Over(f, g) : Over(f, g)[key].at = day
      BY <1>8, <2>2 DEF MadeToday
    <2> QED
      BY <1>8, <2>1, <2>2, <2>3 DEF MadeToday
  <1>9. Own(<<>>)
    <2>1. DOMAIN <<>> = {}
      OBVIOUS
    <2> QED
      BY <2>1 DEF Shares, MadeToday
  <1> HIDE DEF security, regulatory, shared, open, supplied, resolved, Own
  <1>10. Credible(answered) /\ (handed = <<>> => Own(answered))
    <2>1. handed = <<>> => Own(shared)
      BY <1>4, <1>9
    <2>2. CASE answers = <<>>
      <3>1. answered = shared
        BY <2>2
      <3> HIDE DEF answered
      <3> QED
        BY <1>3, <2>1, <3>1
    <2>3. CASE answers # <<>>
      <3>1. Credible(Over(supplied, shared))
        BY <1>3, <1>6, <2>3, OverCredible
      <3>2. handed = <<>> => Own(Over(supplied, shared))
        BY <1>6, <1>8, <2>1, <2>3
      <3>3. answered = Over(supplied, shared)
        BY <2>3
      <3> HIDE DEF answered
      <3> QED
        BY <3>1, <3>2, <3>3
    <2> QED
      BY <2>2, <2>3
  <1> HIDE DEF answered
  <1>11. Credible(scans) /\ (handed = <<>> => Own(scans))
    BY <1>1, <1>7, <1>8, <1>10, OverCredible
  <1> QED
    BY <1>11 DEF Own, regulatory

\* What credible scans say is evidence, about security and regulation only
\* (EventScanner.observation).
LEMMA ScanEvidence ==
    ASSUME NEW scans, Credible(scans), plan \in Plans, today \in Days,
           NEW seen, seen = EventEvidence(scans)
    PROVE  /\ Evidence(seen)
           /\ \A id \in DOMAIN seen : id[2] \in Categories
  <1>1. DOMAIN seen = {id \in DOMAIN scans \cap Expanded :
                         Status(scans[id]) # Insufficient /\ scans[id].at <= today}
    BY DEF EventEvidence
  <1>2. ASSUME NEW id \in DOMAIN seen PROVE seen[id] \in Trusted /\ seen[id].id = id
    <2> DEFINE scan == scans[id]
    <2>1. seen[id] = [id |-> id, at |-> scan.at, value |-> Status(scan), source |-> "scan",
                      full |-> scan.full, disputed |-> scan.disputed]
      BY <1>1 DEF EventEvidence
    <2>2. /\ id \in Expanded /\ scan \in Scans
          /\ id[2] = "security" => Derivable(scan)
          /\ Status(scan) # Insufficient /\ scan.at <= today
      BY <1>1 DEF Credible
    <2> HIDE DEF scan
    <2>3. /\ scan.at \in Nat /\ scan.full \in BOOLEAN /\ scan.disputed \in BOOLEAN
      BY <2>2 DEF Scans
    <2>4. scan.at \in Days
      BY <2>2, <2>3, AcquisitionAssumption DEF Days
    <2>5. Status(scan) \in {Clear, Material} /\ Clear # Material
      BY <2>2 DEF Status, Clear, Material
    <2>6. Status(scan) = Clear => scan.state = "CLEAR" /\ scan.full
      BY <2>2 DEF Status, Clear, Material, Insufficient
    <2>7. id[2] = "security" /\ scan.state = "CLEAR" => ~scan.disputed
      <3>1. (scan.disputed \/ ~scan.full) \in BOOLEAN
        BY <2>3
      <3> QED
        BY <2>2, <3>1, States DEF Derivable
    <2>8. id \in Identities
      BY <2>2, ExpandedIds
    <2>9. seen[id] \in Observations
      BY <2>1, <2>3, <2>4, <2>5, <2>8 DEF Observations
    <2>10. /\ seen[id].id = id /\ seen[id].value = Status(scan)
           /\ seen[id].full = scan.full /\ seen[id].disputed = scan.disputed
      BY <2>1
    <2> QED
      BY <2>6, <2>7, <2>9, <2>10 DEF Trusted
  <1>3. \A id \in DOMAIN seen : id[2] \in Categories
    BY <1>1 DEF Credible
  <1> QED
    BY <1>1, <1>2, <1>3 DEF Evidence

\* What scans say comes first, then what is derived, then what was routed.
Layers(found, seen, derived, routed) ==
    /\ DOMAIN found = DOMAIN seen \cup DOMAIN derived \cup DOMAIN routed
    /\ \A id \in DOMAIN seen : found[id] = seen[id]
    /\ \A id \in DOMAIN derived : id \notin DOMAIN seen => found[id] = derived[id]
    /\ \A id \in DOMAIN routed :
          id \notin DOMAIN seen \cup DOMAIN derived => found[id] = routed[id]

\* What a run finds is evidence.
LEMMA FoundIsEvidence ==
    ASSUME NEW scans, Credible(scans), NEW derived, Evidence(derived), NEW routed, Evidence(routed),
           plan \in Plans, today \in Days, NEW seen, seen = EventEvidence(scans),
           NEW found, found = Over(seen, Over(derived, routed))
    PROVE  Evidence(found) /\ Layers(found, seen, derived, routed)
  <1>1. Evidence(seen) /\ Evidence(derived)
    BY ScanEvidence
  <1> DEFINE rest == Over(derived, routed)
  <1>2. /\ DOMAIN rest = DOMAIN derived \cup DOMAIN routed
        /\ \A x \in DOMAIN derived : rest[x] = derived[x]
        /\ \A x \in DOMAIN routed \ DOMAIN derived : rest[x] = routed[x]
        /\ Evidence(rest)
    <2>1. Evidence(rest)
      BY <1>1, EvidenceOver
    <2>2. /\ DOMAIN rest = DOMAIN derived \cup DOMAIN routed
          /\ \A x \in DOMAIN derived : rest[x] = derived[x]
          /\ \A x \in DOMAIN routed \ DOMAIN derived : rest[x] = routed[x]
      BY DEF Over
    <2> HIDE DEF rest
    <2> QED
      BY <2>1, <2>2
  <1> HIDE DEF rest
  <1>3. found = Over(seen, rest)
    BY DEF rest
  <1>4. /\ DOMAIN found = DOMAIN seen \cup DOMAIN rest
        /\ \A x \in DOMAIN seen : found[x] = seen[x]
        /\ \A x \in DOMAIN rest \ DOMAIN seen : found[x] = rest[x]
        /\ Evidence(found)
    <2>1. Evidence(found)
      BY <1>1, <1>2, <1>3, EvidenceOver
    <2>2. /\ DOMAIN found = DOMAIN seen \cup DOMAIN rest
          /\ \A x \in DOMAIN seen : found[x] = seen[x]
          /\ \A x \in DOMAIN rest \ DOMAIN seen : found[x] = rest[x]
      BY <1>3 DEF Over
    <2> QED
      BY <2>1, <2>2
  <1> QED
    BY <1>2, <1>4 DEF Layers

-----------------------------------------------------------------------------
(* The verdicts of one run.  What is known of it: the reused, the found and  *)
(* the statuses that follow from them.                                      *)

\* An observation that is fresh on the day of a review.
Timely(o, kind, cutoff) == o.at <= cutoff /\ cutoff - o.at <= Window[kind]

Judged(status, reused, found, cutoff, dated) ==
    status = [id \in Asked |-> StatusOf(id, reused, found, cutoff, dated)]

Reports(evidence, status, reused, found) ==
    evidence = [id \in {i \in Asked : status[i] = "SUCCESS"} |-> Over(reused, found)[id]]

\* A metric succeeds exactly if it is reused, or found and fresh; and then
\* that is its evidence.
LEMMA Verdicts ==
    ASSUME NEW reused, Evidence(reused), NEW found, Evidence(found),
           NEW cutoff \in Days, NEW dated \in BOOLEAN,
           NEW status, Judged(status, reused, found, cutoff, dated),
           NEW evidence, Reports(evidence, status, reused, found),
           NEW id \in Asked
    PROVE  /\ status[id] \in Statuses
           /\ status[id] = "SUCCESS" <=>
                 \/ id \in DOMAIN reused
                 \/ id \in DOMAIN found /\ (dated => Timely(found[id], id[2], cutoff))
           /\ id \in DOMAIN evidence <=> status[id] = "SUCCESS"
           /\ id \in DOMAIN reused => evidence[id] = reused[id]
           /\ id \in DOMAIN evidence \ DOMAIN reused => id \in DOMAIN found /\ evidence[id] = found[id]
  <1>1. status[id] = StatusOf(id, reused, found, cutoff, dated)
    BY DEF Judged
  <1>2. id \in DOMAIN found => found[id].id = id
    BY DEF Evidence
  <1>3. id \in DOMAIN found =>
          /\ Verdict(found[id], cutoff, dated) \in Statuses
          /\ Verdict(found[id], cutoff, dated) = "SUCCESS" <=> (dated => Timely(found[id], id[2], cutoff))
    BY <1>2 DEF Verdict, Statuses, Timely
  <1>4. /\ status[id] \in Statuses
        /\ status[id] = "SUCCESS" <=>
                 \/ id \in DOMAIN reused
                 \/ id \in DOMAIN found /\ (dated => Timely(found[id], id[2], cutoff))
    BY <1>1, <1>3 DEF StatusOf, Statuses
  <1>5. id \in DOMAIN evidence <=> status[id] = "SUCCESS"
    BY DEF Reports
  <1>6. id \in DOMAIN evidence => evidence[id] = Over(reused, found)[id]
    BY <1>5 DEF Reports
  <1>7. /\ id \in DOMAIN reused => Over(reused, found)[id] = reused[id]
        /\ id \in DOMAIN found \ DOMAIN reused => Over(reused, found)[id] = found[id]
    BY DEF Over
  <1> QED
    BY <1>4, <1>5, <1>6, <1>7

\* Every metric of a result is trusted, under its own name, and fresh where
\* the review has a date.
LEMMA EvidenceIsCurrent ==
    ASSUME NEW reused, Evidence(reused), NEW found, Evidence(found),
           NEW cutoff \in Days, NEW dated \in BOOLEAN,
           \A id \in DOMAIN reused : reused[id] \in Fresh(id, cutoff),
           NEW status, Judged(status, reused, found, cutoff, dated),
           NEW evidence, Reports(evidence, status, reused, found)
    PROVE  \A id \in DOMAIN evidence :
              /\ id \in Asked /\ evidence[id] \in Trusted /\ evidence[id].id = id
              /\ dated => Timely(evidence[id], id[2], cutoff)
  <1> SUFFICES ASSUME NEW id \in DOMAIN evidence
               PROVE  /\ id \in Asked /\ evidence[id] \in Trusted /\ evidence[id].id = id
                      /\ dated => Timely(evidence[id], id[2], cutoff)
    OBVIOUS
  <1>1. id \in Asked
    BY DEF Reports
  <1>2. /\ status[id] = "SUCCESS" <=>
                 \/ id \in DOMAIN reused
                 \/ id \in DOMAIN found /\ (dated => Timely(found[id], id[2], cutoff))
        /\ status[id] = "SUCCESS"
        /\ id \in DOMAIN reused => evidence[id] = reused[id]
        /\ id \notin DOMAIN reused => id \in DOMAIN found /\ evidence[id] = found[id]
    BY <1>1, Verdicts
  <1>3. CASE id \in DOMAIN reused
    <2>1. Timely(reused[id], id[2], cutoff)
      BY <1>3 DEF Fresh, Timely
    <2> QED
      BY <1>1, <1>2, <1>3, <2>1 DEF Evidence
  <1>4. CASE id \notin DOMAIN reused
    BY <1>1, <1>2, <1>4 DEF Evidence
  <1> QED
    BY <1>3, <1>4

\* A ready review without scans of the host has its critical evidence, unless
\* the shared scan of regulation read only a part and found something.
LEMMA ReadyHasEvidence ==
    ASSUME plan \in Plans, today \in Days, NEW cutoff \in Days, cutoff <= today,
           NEW how, NEW dated \in BOOLEAN,
           NEW answers \in Brought,
           NEW fetched \in Brought,
           NEW reused, Evidence(reused), NEW routed, Evidence(routed),
           NEW scans, scans = EventScans(how, cutoff, reused, <<>>, answers, fetched),
           NEW derived, Evidence(derived), NEW found, found = Over(EventEvidence(scans), Over(derived, routed)),
           NEW status, Judged(status, reused, found, cutoff, dated),
           NEW evidence, Reports(evidence, status, reused, found),
           Unresolved(status, {}, scans) = {},
           NEW id \in Asked, Critical(id), status[id] # "SUCCESS"
    PROVE  /\ id[2] = "regulatory"
           /\ \E other \in Asked : /\ other[2] = "regulatory" /\ other \in DOMAIN evidence
                                   /\ evidence[other].value = Material /\ ~evidence[other].full
  <1> DEFINE seen == EventEvidence(scans)
             lacking == Missing("regulatory", reused, <<>>)
  <1>1. Credible(<<>>)
    <2>1. DOMAIN <<>> = {}
      OBVIOUS
    <2> QED
      BY <2>1 DEF Credible
  <1>2. /\ Credible(scans)
        /\ \A key \in DOMAIN scans : scans[key].at = cutoff
        /\ \A key \in DOMAIN scans : key[2] = "regulatory" => key[1] \in lacking
        /\ Shares(scans, lacking)
    <2> DEFINE none == <<>>
    <2>1. none = <<>> /\ Credible(none) /\ scans = EventScans(how, cutoff, reused, none, answers, fetched)
      BY <1>1
    <2> HIDE DEF none
    <2>2. /\ Credible(scans)
          /\ \A key \in DOMAIN scans : scans[key].at = cutoff
          /\ \A key \in DOMAIN scans :
                key[2] = "regulatory" => key[1] \in Missing("regulatory", reused, none)
          /\ Shares(scans, Missing("regulatory", reused, none))
      <3>1. Credible(scans) /\ (none = <<>> => MadeToday(scans, cutoff, Missing("regulatory", reused, none)))
        BY <2>1, EventScansAreCredible
      <3> QED
        BY <2>1, <3>1 DEF MadeToday
    <2> QED
      BY <2>1, <2>2
  <1>3. /\ Evidence(found)
        /\ \A key \in DOMAIN seen : key \in DOMAIN found /\ found[key] = seen[key]
    <2> HIDE DEF seen
    <2>1. seen = EventEvidence(scans)
      BY DEF seen
    <2>2. found = Over(seen, Over(derived, routed))
      BY DEF seen
    <2>3. Evidence(found) /\ Layers(found, seen, derived, routed)
      BY <1>2, <2>1, <2>2, FoundIsEvidence
    <2> QED
      BY <2>3 DEF Layers
  <1>4. cutoff \in Nat /\ Window \in [Kinds -> Nat] /\ Asked \subseteq Assets \X Kinds /\ Asked \subseteq Expanded
    BY ExpandedIds, AcquisitionAssumption DEF Days, Identities
  <1>5. \A key \in DOMAIN seen : seen[key].at = scans[key].at /\ seen[key].value = Status(scans[key])
                                  /\ seen[key].full = scans[key].full
    BY DEF EventEvidence
  <1>6. ASSUME NEW key \in Asked, key \in DOMAIN scans, Status(scans[key]) # Insufficient
        PROVE  /\ status[key] = "SUCCESS"
               /\ key \notin DOMAIN reused =>
                    /\ key \in DOMAIN evidence
                    /\ evidence[key].value = Status(scans[key]) /\ evidence[key].full = scans[key].full
    <2>1. key \in DOMAIN seen
      BY <1>2, <1>4, <1>6 DEF EventEvidence
    <2>2. seen[key].at = cutoff
      BY <1>2, <1>5, <1>6, <2>1
    <2>3. Timely(found[key], key[2], cutoff)
      <3>1. found[key].at = cutoff
        BY <1>3, <2>1, <2>2
      <3>2. Window[key[2]] \in Nat
        BY <1>4, <1>6
      <3>3. cutoff <= cutoff /\ cutoff - cutoff <= Window[key[2]]
        BY <1>4, <3>2
      <3> QED
        BY <3>1, <3>3 DEF Timely
    <2>4. status[key] = "SUCCESS" /\ key \in DOMAIN evidence
      BY <1>3, <1>6, <2>1, <2>3, Verdicts
    <2>5. key \notin DOMAIN reused => evidence[key] = found[key]
      BY <1>3, <1>6, <2>4, Verdicts
    <2> QED
      BY <1>3, <1>5, <2>1, <2>4, <2>5
  <1>7. /\ id[2] \in Categories
        /\ \E key \in DOMAIN scans : /\ Status(scans[key]) # Insufficient
                                     /\ key[2] = id[2] /\ Scope(key) = Scope(id)
    BY DEF Unresolved, Critical, Categories
  <1>8. PICK key \in DOMAIN scans : /\ Status(scans[key]) # Insufficient
                                    /\ key[2] = id[2] /\ Scope(key) = Scope(id)
    BY <1>7
  <1>9. key \in Scopes \X Categories
    BY <1>2 DEF Credible
  <1> HIDE DEF seen
  <1>10. id[2] = "regulatory"
    <2> SUFFICES ASSUME id[2] # "regulatory" PROVE FALSE
      OBVIOUS
    <2>1. key[1] = id[1] /\ key[2] = id[2]
      BY <1>8 DEF Scope
    <2>2. key = id
      BY <1>4, <1>9, <2>1
    <2> QED
      BY <1>6, <1>8, <2>2
  <1>11. id[1] \in lacking
    <2>1. id \notin DOMAIN reused
      <3>1. id \in DOMAIN reused => status[id] = "SUCCESS"
        BY <1>3, Verdicts
      <3> QED
        BY <3>1
    <2>2. <<id[1], "regulatory">> = id /\ id[1] \in Assets
      BY <1>4, <1>10
    <2>3. DOMAIN <<>> = {}
      OBVIOUS
    <2> QED
      BY <1>4, <2>1, <2>2, <2>3 DEF Missing
  <1>12. key[2] = "regulatory" /\ key[1] \in lacking /\ key = <<key[1], "regulatory">>
    BY <1>2, <1>8, <1>9, <1>10
  <1>13. PICK shared \in Scans : \A a \in lacking :
            /\ <<a, "regulatory">> \in DOMAIN scans
            /\ scans[<<a, "regulatory">>] = MapTo(a, shared)
    BY <1>2, <1>12 DEF Shares
  <1>14. id \in DOMAIN scans /\ scans[id] = MapTo(id[1], shared) /\ scans[key] = MapTo(key[1], shared)
    <2>1. id = <<id[1], "regulatory">>
      BY <1>4, <1>10
    <2> QED
      BY <1>11, <1>12, <1>13, <2>1
  <1>15. Status(scans[id]) = Insufficient
    BY <1>6, <1>14
  <1>16. ~shared.full
    BY <1>14, <1>15, MappedStatus
  <1>17. Status(scans[key]) = Material /\ ~scans[key].full
    <2>1. scans[key].full = shared.full
      BY <1>14, MapIsCredible
    <2> QED
      BY <1>8, <1>14, <1>16, <2>1, MappedStatus
  <1>18. key \in Asked /\ key \notin DOMAIN reused
    <2>1. key \in Expanded \ DOMAIN reused
      BY <1>12 DEF Missing
    <2> QED
      BY <1>12, <2>1, ExpandedIds
  <1>19. /\ key \in DOMAIN evidence
         /\ evidence[key].value = Status(scans[key]) /\ evidence[key].full = scans[key].full
    BY <1>6, <1>8, <1>18
  <1> QED
    BY <1>10, <1>12, <1>17, <1>18, <1>19

\* A relative return that is new is of one cohort.
LEMMA CohortsAgree ==
    ASSUME plan \in Plans, today \in Days, NEW cutoff \in Days, NEW dated \in BOOLEAN,
           NEW reused, Evidence(reused), \A k \in DOMAIN reused : reused[k] \in Fresh(k, cutoff),
           NEW routed, Evidence(routed), \A k \in DOMAIN routed : k[2] \in {"return", "liveness"},
           \A k \in DOMAIN routed : k[2] = "return" => routed[k].at <= cutoff,
           NEW scans, Credible(scans), NEW seen, seen = EventEvidence(scans),
           NEW known, known = Over(reused, routed), NEW candles \in Caches,
           NEW loaded, loaded = Loaded(known, candles),
           NEW derived, derived = Derived(known, loaded, cutoff),
           NEW found, found = Over(seen, Over(derived, routed)),
           NEW status, Judged(status, reused, found, cutoff, dated),
           NEW evidence, Reports(evidence, status, reused, found),
           NEW id \in DOMAIN evidence, Inputs(id) # {}, evidence[id] \notin store,
           NEW outcome, outcome.loaded = loaded, outcome.evidence = evidence, outcome.asOf = cutoff
    PROVE  IsOfOneCohort(evidence[id], outcome)
  <1> DEFINE mine == <<id[1], "return">>
             base == <<Bitcoin, "return">>
             o == evidence[id]
             Stays(p, kind) == dated => Timely(p, kind, cutoff)
  <1>1. Inputs(id) = {mine, base} /\ id[2] = "relative" /\ mine[2] = "return" /\ base[2] = "return"
    BY DEF Inputs
  <1>2. Evidence(known)
    BY EvidenceOver
  <1>3. /\ Evidence(derived)
        /\ \A k \in DOMAIN derived :
                 /\ Inputs(k) # {}
                 /\ \E c \in Cohort(k, known, loaded, cutoff) :
                       c.day = derived[k].at /\ c.venue = derived[k].source
    BY <1>2, DerivedIsTrusted
  <1>4. /\ Evidence(found)
        /\ DOMAIN found = DOMAIN seen \cup DOMAIN derived \cup DOMAIN routed
        /\ \A k \in DOMAIN derived : k \notin DOMAIN seen => found[k] = derived[k]
        /\ \A k \in DOMAIN routed :
                 k \notin DOMAIN seen \cup DOMAIN derived => found[k] = routed[k]
    <2>1. Evidence(found) /\ Layers(found, seen, derived, routed)
      BY <1>3, FoundIsEvidence
    <2> QED
      BY <2>1 DEF Layers
  <1>5. \A k \in DOMAIN seen : k[2] \in {"security", "regulatory"}
    BY ScanEvidence DEF Categories
  <1>6. /\ DOMAIN known = DOMAIN reused \cup DOMAIN routed
        /\ \A k \in DOMAIN reused : known[k] = reused[k]
        /\ \A k \in DOMAIN routed \ DOMAIN reused : known[k] = routed[k]
    BY DEF Over
  <1>7. id \in Asked /\ id \notin DOMAIN reused /\ id \in DOMAIN derived /\ o = derived[id]
        /\ o.id = id /\ Stays(o, "relative")
    <2>1. id \in Asked
      BY DEF Reports
    <2>2. /\ status[id] = "SUCCESS" <=>
                 \/ id \in DOMAIN reused
                 \/ id \in DOMAIN found /\ (dated => Timely(found[id], id[2], cutoff))
          /\ id \in DOMAIN evidence <=> status[id] = "SUCCESS"
          /\ id \in DOMAIN reused => evidence[id] = reused[id]
          /\ id \in DOMAIN evidence \ DOMAIN reused => id \in DOMAIN found /\ evidence[id] = found[id]
      BY <1>4, <2>1, Verdicts
    <2>3. id \notin DOMAIN reused
      BY <2>2 DEF Fresh
    <2>4. id \notin DOMAIN seen /\ id \notin DOMAIN routed
      BY <1>1, <1>5
    <2>5. id \in DOMAIN found /\ o = found[id] /\ (dated => Timely(found[id], id[2], cutoff))
      BY <2>2, <2>3
    <2>6. id \in DOMAIN derived /\ found[id] = derived[id]
      BY <1>4, <2>4, <2>5
    <2> QED
      BY <1>1, <1>4, <2>1, <2>3, <2>5, <2>6 DEF Evidence
  <1>8. PICK c \in Cohort(id, known, loaded, cutoff) : c.day = o.at /\ c.venue = o.source
    BY <1>3, <1>7
  <1> HIDE DEF o, Stays
  <1>9. CASE {mine, base} \subseteq DOMAIN loaded
    <2>1. c \in OfCandles(loaded[mine], loaded[base], cutoff)
      BY <1>8, <1>9 DEF Cohort
    <2> DEFINE common == {day \in loaded[mine].days \cap loaded[base].days : day < cutoff}
    <2>2. /\ c.venue = loaded[base].venue /\ loaded[mine].venue = loaded[base].venue
          /\ \A day \in common : day <= c.day
          /\ (c.day - Horizon)..c.day \subseteq loaded[mine].days \cap loaded[base].days
      BY <2>1 DEF OfCandles
    <2>3. \A k \in {mine, base} : /\ loaded[k].venue = o.source
                                  /\ (o.at - Horizon)..o.at \subseteq loaded[k].days
      BY <1>8, <2>2
    <2>4. \A day \in loaded[base].days : day \in loaded[mine].days /\ day < cutoff => day <= o.at
      BY <1>8, <2>2
    <2> HIDE DEF common, mine, base
    <2>5. mine = <<o.id[1], "return">> /\ base = <<Bitcoin, "return">> /\ Inputs(o.id) = {mine, base}
      BY <1>1, <1>7 DEF mine, base
    <2> QED
      BY <1>9, <2>3, <2>4, <2>5 DEF IsOfOneCohort, o
  <1>10. CASE ~({mine, base} \subseteq DOMAIN loaded)
    <2>1. /\ {mine, base} \subseteq DOMAIN known \ DOMAIN loaded
          /\ c \in OfReturns(known[mine], known[base])
      BY <1>8, <1>10 DEF Cohort
    <2>2. \A k \in {mine, base} : known[k].source = o.source /\ c.day = known[k].at - 1
      BY <1>8, <2>1 DEF OfReturns, Compatible
    <2>3. \A k \in {mine, base} : known[k].at \in Int /\ known[k].at <= cutoff
      <3>1. \A k \in {mine, base} : known[k].at \in Int
        BY <1>2, <2>1 DEF Evidence, Trusted, Observations
      <3>2. \A k \in {mine, base} : known[k].at <= cutoff
        BY <1>1, <1>6, <2>1 DEF Fresh
      <3> QED
        BY <3>1, <3>2
    <2>4. \A k \in {mine, base} : known[k].at = o.at + 1 /\ o.at \in Int
      BY <1>8, <2>2, <2>3
    <2>5. \A k \in {mine, base} : Stays(known[k], "return")
      <3>1. cutoff \in Int /\ Window["relative"] \in Int /\ Window["return"] = Window["relative"]
        BY AcquisitionAssumption, WindowsAgree DEF Days, Kinds
      <3>2. dated => cutoff - o.at <= Window["relative"]
        BY <1>7 DEF Stays, Timely
      <3> QED
        BY <2>3, <2>4, <3>1, <3>2 DEF Stays, Timely
    <2>6. ASSUME NEW k \in {mine, base}, k \in Asked
          PROVE  k \in DOMAIN evidence /\ evidence[k] = known[k]
      <3>1. k[2] = "return"
        BY <1>1
      <3>2. k \notin DOMAIN seen /\ k \notin DOMAIN derived
        BY <1>3, <1>5, <3>1 DEF Inputs
      <3>3. /\ k \in DOMAIN evidence <=>
                   \/ k \in DOMAIN reused
                   \/ k \in DOMAIN found /\ Stays(found[k], "return")
            /\ k \in DOMAIN reused => evidence[k] = reused[k]
            /\ k \in DOMAIN evidence /\ k \notin DOMAIN reused => evidence[k] = found[k]
        <4>1. /\ status[k] = "SUCCESS" <=>
                   \/ k \in DOMAIN reused
                   \/ k \in DOMAIN found /\ (dated => Timely(found[k], k[2], cutoff))
              /\ k \in DOMAIN evidence <=> status[k] = "SUCCESS"
              /\ k \in DOMAIN reused => evidence[k] = reused[k]
              /\ k \in DOMAIN evidence \ DOMAIN reused => k \in DOMAIN found /\ evidence[k] = found[k]
          BY <1>4, <2>6, Verdicts
        <4> QED
          BY <3>1, <4>1 DEF Stays
      <3>4. CASE k \in DOMAIN reused
        BY <1>6, <3>3, <3>4
      <3>5. CASE k \notin DOMAIN reused
        <4>1. k \in DOMAIN routed /\ known[k] = routed[k]
          BY <1>6, <2>1, <3>5
        <4>2. k \in DOMAIN found /\ found[k] = known[k]
          BY <1>4, <3>2, <4>1
        <4> QED
          BY <2>5, <3>3, <3>5, <4>2
      <3> QED
        BY <3>4, <3>5
    <2> HIDE DEF mine, base
    <2>7. Inputs(o.id) = {mine, base}
      BY <1>1, <1>7
    <2>8. Inputs(o.id) \cap DOMAIN loaded = {}
      BY <2>1, <2>7
    <2>9. Inputs(o.id) \cap Asked \subseteq DOMAIN evidence
      BY <2>6, <2>7
    <2>10. \A input \in Inputs(o.id) \cap Asked : evidence[input].source = o.source /\ evidence[input].at = o.at + 1
      BY <2>2, <2>4, <2>6, <2>7
    <2> QED
      BY <2>8, <2>9, <2>10 DEF IsOfOneCohort, o
  <1> QED
    BY <1>9, <1>10

-----------------------------------------------------------------------------
(* One run, as a whole.                                                    *)

\* The step of OneCohort.
CohortStep == \A o \in store' \ store : Inputs(o.id) # {} => IsOfOneCohort(o, result')

\* What a run leaves behind.
Outcome(cutoff, dated, handed, answers, loaded, reused, scans, found, status, pending) ==
    LET evidence == [id \in {i \in Asked : status[i] = "SUCCESS"} |-> Over(reused, found)[id]]
    IN /\ result' = [ran |-> TRUE, asOf |-> cutoff, dated |-> dated,
                     supply |-> IF handed # <<>> THEN "scans"
                                ELSE IF answers # <<>> THEN "answers" ELSE "nothing",
                     pending |-> pending, loaded |-> loaded,
                     evidence |-> evidence, status |-> status,
                     unresolved |-> Unresolved(status, pending, scans)]
       /\ store' = store \cup {evidence[id] : id \in DOMAIN evidence}

\* One run keeps the invariant and takes the step of OneCohort
\* (AcquisitionManager.run).
LEMMA RunInv ==
    ASSUME AcquisitionInv, NEW how \in FetchModes, NEW asOf \in Days \cup {Today},
           NEW handed, Credible(handed), NEW answers \in Brought, NEW fetched \in Brought,
           NEW candles \in Caches, Run(how, asOf, handed, answers, fetched, candles)
    PROVE  AcquisitionInv' /\ CohortStep
  <1> DEFINE dated == asOf # Today
             cutoff == IF dated THEN asOf ELSE today
  <1>1. /\ today \in Days /\ plan \in Plans /\ store \subseteq Trusted
        /\ runs \in 0..MaxRuns /\ review \in ReviewTypes
    BY DEF AcquisitionInv, AcquisitionTypeOK
  <1>2. /\ dated \in BOOLEAN /\ cutoff \in Days /\ cutoff <= today
        /\ runs' = runs + 1 /\ runs < MaxRuns
        /\ plan' = plan /\ review' = review /\ today' = today
    <2>1. dated => asOf \in Days
      OBVIOUS
    <2> QED
      BY <1>1, <2>1, AcquisitionAssumption DEF Run, Days
  <1>3. \E reused \in {Reused(how, cutoff)} :
        \E routed \in Routings(Routable(reused, cutoff), cutoff) :
        \E loaded \in {Loaded(Over(reused, routed), candles)} :
        \E derived \in {Derived(Over(reused, routed), loaded, cutoff)} :
        \E scans \in {EventScans(how, cutoff, reused, handed, answers, fetched)} :
        \E found \in {Over(EventEvidence(scans), Over(derived, routed))} :
        \E status \in {[id \in Asked |-> StatusOf(id, reused, found, cutoff, dated)]} :
        \E pending \in {ScanRequests(how, reused, handed, scans)} :
            Outcome(cutoff, dated, handed, answers, loaded, reused, scans, found, status, pending)
    BY DEF Run, Outcome
  <1> HIDE DEF dated, cutoff
  <1>4. PICK reused, routed, loaded, derived, scans, found, status, pending :
          /\ reused = Reused(how, cutoff)
          /\ routed \in Routings(Routable(reused, cutoff), cutoff)
          /\ scans = EventScans(how, cutoff, reused, handed, answers, fetched)
          /\ loaded = Loaded(Over(reused, routed), candles)
          /\ derived = Derived(Over(reused, routed), loaded, cutoff)
          /\ found = Over(EventEvidence(scans), Over(derived, routed))
          /\ status = [id \in Asked |-> StatusOf(id, reused, found, cutoff, dated)]
          /\ Outcome(cutoff, dated, handed, answers, loaded, reused, scans, found, status, pending)
    BY <1>3
  <1> DEFINE evidence == [id \in {i \in Asked : status[i] = "SUCCESS"} |-> Over(reused, found)[id]]
  <1>5. /\ result'.ran /\ result'.loaded = loaded /\ result'.asOf = cutoff /\ result'.dated = dated
        /\ result'.supply \in Supplies /\ (result'.supply # "scans" => handed = <<>>)
        /\ result'.pending = pending /\ result'.evidence = evidence /\ result'.status = status
        /\ result'.unresolved = Unresolved(status, pending, scans)
        /\ store' = store \cup {evidence[id] : id \in DOMAIN evidence}
    BY <1>4 DEF Outcome, Supplies
  <1>6. Judged(status, reused, found, cutoff, dated) /\ Reports(evidence, status, reused, found)
    BY <1>4 DEF Judged, Reports
  <1> HIDE DEF evidence
  <1>7. /\ \A id \in DOMAIN reused : reused[id] \in Fresh(id, cutoff)
        /\ Evidence(reused)
    <2>1. /\ DOMAIN reused \subseteq Expanded
          /\ \A id \in DOMAIN reused : reused[id] \in Fresh(id, cutoff)
      BY <1>1, <1>2, <1>4, ReusedIsFresh
    <2> QED
      BY <1>1, <2>1 DEF Evidence, Fresh
  <1>8. /\ Evidence(routed)
        /\ \A id \in DOMAIN routed : id[2] \in {"return", "liveness"}
        /\ \A id \in DOMAIN routed : id[2] = "return" => routed[id].at <= cutoff
    <2>1. Routable(reused, cutoff) \subseteq Expanded
          /\ \A id \in Routable(reused, cutoff) : id[2] \in {"return", "liveness"}
      BY DEF Routable
    <2>2. Routable(reused, cutoff) \in SUBSET Identities
      BY <1>1, <2>1, ExpandedIds
    <2>3. /\ DOMAIN routed \subseteq Routable(reused, cutoff)
          /\ \A id \in DOMAIN routed : routed[id] \in Trusted /\ routed[id].id = id
          /\ \A id \in DOMAIN routed : id[2] = "return" => routed[id].at <= cutoff
      BY <1>1, <1>2, <1>4, <2>2, RoutedIsTrusted
    <2> QED
      BY <2>1, <2>3 DEF Evidence
  <1>9. Credible(scans)
    BY <1>2, <1>4, EventScansAreCredible
  <1> DEFINE seen == EventEvidence(scans)
             known == Over(reused, routed)
  <1>10. /\ seen = EventEvidence(scans) /\ known = Over(reused, routed) /\ loaded = Loaded(known, candles)
         /\ derived = Derived(known, loaded, cutoff) /\ found = Over(seen, Over(derived, routed))
    BY <1>4
  <1> HIDE DEF seen, known
  <1>11. Evidence(derived) /\ Evidence(found)
    <2>1. Evidence(known)
      BY <1>7, <1>8, <1>10, EvidenceOver
    <2>2. Evidence(derived)
      BY <1>1, <1>10, <2>1, DerivedIsTrusted
    <2> QED
      BY <1>1, <1>8, <1>9, <1>10, <2>2, FoundIsEvidence
  <1>12. \A id \in DOMAIN evidence :
              /\ id \in Asked /\ evidence[id] \in Trusted /\ evidence[id].id = id
              /\ dated => Timely(evidence[id], id[2], cutoff)
    BY <1>2, <1>6, <1>7, <1>11, EvidenceIsCurrent
  <1>13. Asked' = Asked
    BY <1>2 DEF Asked
  <1>14. store' \subseteq Trusted
    BY <1>1, <1>5, <1>12
  <1>15. AcquisitionTypeOK'
    <2>1. /\ today' \in Days /\ runs' \in 0..MaxRuns /\ plan' \in Plans /\ review' \in ReviewTypes
      BY <1>1, <1>2, AcquisitionAssumption
    <2>2. store' \subseteq Observations
      BY <1>14 DEF Trusted
    <2>3. DOMAIN result'.status = Asked
      BY <1>5, <1>6 DEF Judged
    <2>4. result'.unresolved \subseteq Asked
      BY <1>5 DEF Unresolved
    <2>5. \A id \in Asked : (result'.status[id] = "SUCCESS") = (id \in DOMAIN result'.evidence)
      BY <1>5, <1>6 DEF Reports
    <2>6. \A id \in DOMAIN result'.evidence : result'.evidence[id].id = id
      BY <1>5, <1>12
    <2>7. result'.asOf \in Days /\ result'.supply \in Supplies
      BY <1>2, <1>5
    <2> QED
      BY <1>13, <2>1, <2>2, <2>3, <2>4, <2>5, <2>6, <2>7 DEF AcquisitionTypeOK
  <1>16. NothingFromTheFuture'
    <2>1. dated => \A id \in DOMAIN evidence : Timely(evidence[id], id[2], cutoff)
      BY <1>12
    <2> QED
      BY <1>5, <2>1 DEF NothingFromTheFuture, Timely
  <1>17. ReadyMeansEvidence'
    <2> SUFFICES ASSUME Ready', result'.supply # "scans", NEW id \in Asked, Critical(id)',
                        result'.status[id] # "SUCCESS"
                 PROVE  id[2] = "regulatory" /\ \E other \in Asked : PartlyRead(other)'
      BY <1>13 DEF ReadyMeansEvidence
    <2>1. handed = <<>> /\ Unresolved(status, {}, scans) = {} /\ status[id] # "SUCCESS"
      BY <1>5 DEF Ready
    <2>2. Critical(id)
      BY <1>2 DEF Critical
    <2>3. /\ scans = EventScans(how, cutoff, reused, <<>>, answers, fetched)
          /\ found = Over(EventEvidence(scans), Over(derived, routed))
      BY <1>4, <2>1
    <2>4. /\ id[2] = "regulatory"
          /\ \E other \in Asked : /\ other[2] = "regulatory" /\ other \in DOMAIN evidence
                                  /\ evidence[other].value = Material /\ ~evidence[other].full
      BY <1>1, <1>2, <1>6, <1>7, <1>8, <1>11, <2>1, <2>2, <2>3, ReadyHasEvidence
    <2> QED
      BY <1>5, <2>4 DEF PartlyRead
  <1>18. CohortStep
    <2> SUFFICES ASSUME NEW o \in store' \ store, Inputs(o.id) # {}
                 PROVE  IsOfOneCohort(o, result')
      BY DEF CohortStep
    <2>1. PICK id \in DOMAIN evidence : o = evidence[id]
      BY <1>5
    <2>2. o.id = id
      BY <1>12, <2>1
    <2> DEFINE outcome == result'
    <2>3. outcome.loaded = loaded /\ outcome.evidence = evidence /\ outcome.asOf = cutoff
      BY <1>5
    <2> HIDE DEF outcome
    <2>4. IsOfOneCohort(evidence[id], outcome)
      BY <1>1, <1>2, <1>6, <1>7, <1>8, <1>9, <1>10, <2>1, <2>2, <2>3, CohortsAgree
    <2> QED
      BY <2>1, <2>4 DEF outcome
  <1> QED
    BY <1>14, <1>15, <1>16, <1>17, <1>18 DEF AcquisitionInv

\* A day passing changes neither.
LEMMA NextDayInv == AcquisitionInv /\ NextDay => AcquisitionInv' /\ CohortStep
  <1> SUFFICES ASSUME AcquisitionInv, NextDay PROVE AcquisitionInv' /\ CohortStep
    OBVIOUS
  <1>1. /\ today < MaxDay /\ today' = today + 1 /\ plan' = plan /\ review' = review
        /\ store' = store /\ result' = result /\ runs' = runs
    BY DEF NextDay
  <1>2. Asked' = Asked
    BY <1>1 DEF Asked
  <1>3. AcquisitionTypeOK'
    BY <1>1, <1>2, AcquisitionAssumption DEF AcquisitionInv, AcquisitionTypeOK, Days
  <1>4. ReadyMeansEvidence'
    BY <1>1, <1>2 DEF AcquisitionInv, ReadyMeansEvidence, Ready, Critical, PartlyRead
  <1>5. NothingFromTheFuture' /\ store' \subseteq Trusted
    BY <1>1 DEF AcquisitionInv, NothingFromTheFuture
  <1>6. CohortStep
    BY <1>1 DEF CohortStep
  <1> QED
    BY <1>3, <1>4, <1>5, <1>6 DEF AcquisitionInv

\* The invariant is inductive, and every step is one of OneCohort.
LEMMA AcquisitionInductive ==
    AcquisitionInv /\ [NextAcquisition]_acquisitionVars =>
        AcquisitionInv' /\ (CohortStep \/ UNCHANGED acquisitionVars)
  <1> SUFFICES ASSUME AcquisitionInv, [NextAcquisition]_acquisitionVars
               PROVE  AcquisitionInv' /\ (CohortStep \/ UNCHANGED acquisitionVars)
    OBVIOUS
  <1>1. CASE \E how \in FetchModes, asOf \in Days \cup {Today} : RunAny(how, asOf)
    <2>1. PICK how \in FetchModes, asOf \in Days \cup {Today} : RunAny(how, asOf)
      BY <1>1
    <2>2. PICK fetched \in ResolverAnswers, candles \in Cached :
            \/ \E handed \in HostScans : Run(how, asOf, handed, <<>>, fetched, candles)
            \/ \E answers \in HostAnswers : Run(how, asOf, <<>>, answers, fetched, candles)
      BY <2>1 DEF RunAny, Offered
    <2>3. candles \in Caches
      BY AcquisitionAssumption DEF Cached, Caches
    <2>9. fetched \in Brought /\ HostAnswers \subseteq Brought /\ <<>> \in Brought
      BY SuppliesAssumption DEF Brought
    <2>4. /\ \A handed \in HostScans : Credible(handed)
          /\ Credible(<<>>)
      <3>1. DOMAIN <<>> = {}
        OBVIOUS
      <3> QED
        BY <3>1, SuppliesAssumption DEF Credible
    <2>5. CASE \E handed \in HostScans : Run(how, asOf, handed, <<>>, fetched, candles)
      <3>1. PICK handed \in HostScans : Run(how, asOf, handed, <<>>, fetched, candles)
        BY <2>5
      <3> QED
        BY <2>3, <2>4, <2>9, <3>1, RunInv
    <2>6. CASE \E answers \in HostAnswers : Run(how, asOf, <<>>, answers, fetched, candles)
      <3>1. PICK answers \in HostAnswers : Run(how, asOf, <<>>, answers, fetched, candles)
        BY <2>6
      <3> QED
        BY <2>3, <2>4, <2>9, <3>1, RunInv
    <2> QED
      BY <2>2, <2>5, <2>6
  <1>2. CASE NextDay
    BY <1>2, NextDayInv
  <1>3. CASE UNCHANGED acquisitionVars
    <2>1. AcquisitionInv'
      BY <1>3 DEF acquisitionVars, AcquisitionInv, AcquisitionTypeOK, ReadyMeansEvidence,
                  NothingFromTheFuture, Ready, Critical, PartlyRead, Asked
    <2> QED
      BY <1>3, <2>1
  <1> QED
    BY <1>1, <1>2, <1>3 DEF NextAcquisition

\* Nothing is stored and nothing has run at first.
LEMMA AcquisitionStarts == InitAcquisition => AcquisitionInv
  BY AcquisitionAssumption
     DEF InitAcquisition, AcquisitionInv, AcquisitionTypeOK, NothingFromTheFuture,
         ReadyMeansEvidence, Ready, NoResult, Days

\* The invariant of the acquisition, for every plan, catalogue, supply of
\* scans and answers, and any number of days and runs.
THEOREM AcquisitionInvHolds == AcquisitionSpec => []AcquisitionInv
  BY AcquisitionStarts, AcquisitionInductive, PTL DEF AcquisitionSpec

\* Results are well formed, and a back-dated review sees nothing later than
\* its date and nothing that had expired by then (AcquisitionManager.run).
THEOREM NothingLaterIsSeen == AcquisitionSpec => []AcquisitionInvariant
  <1>1. AcquisitionInv => AcquisitionInvariant
    BY DEF AcquisitionInv, AcquisitionInvariant
  <1> QED
    BY <1>1, AcquisitionInvHolds, PTL

\* A review that is cleared for scoring, without finished scans of the host,
\* has evidence for every metric critical to it; the one exception is a
\* shared regulatory scan that missed sources and found an event of another
\* asset (AcquisitionResult.ready_for_scoring).
THEOREM ReadyHasItsEvidence == AcquisitionSpec => []ReadyMeansEvidence
  <1>1. AcquisitionInv => ReadyMeansEvidence
    BY DEF AcquisitionInv
  <1> QED
    BY <1>1, AcquisitionInvHolds, PTL

\* No stored observation says that nothing is known unless everything was
\* read, and in security without disagreement (EventScanResult.status).
THEOREM NothingUnseenIsClear == AcquisitionSpec => []ClearWasSeen
  <1>1. AcquisitionInv => ClearWasSeen
    BY DEF AcquisitionInv, Trusted, ClearWasSeen
  <1> QED
    BY <1>1, AcquisitionInvHolds, PTL

\* A new relative return is of one cohort: two cached series of one venue up
\* to the newest day both have, or else, with no series for either side, the
\* two returns the result reports, of one venue and one candle
\* (_relative_series_inputs, _derive_relative_observations).
THEOREM CohortsHold == AcquisitionSpec => OneCohort
  <1>1. AcquisitionInv /\ [NextAcquisition]_acquisitionVars => [CohortStep]_acquisitionVars
    BY AcquisitionInductive
  <1> QED
    BY <1>1, AcquisitionInvHolds, PTL DEF AcquisitionSpec, OneCohort, CohortStep
=============================================================================
