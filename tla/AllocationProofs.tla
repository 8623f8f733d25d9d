-------------------------- MODULE AllocationProofs --------------------------
(***************************************************************************)
(* What holds of the liveness of chains for every source, every answer and *)
(* every accepted setting, and of the allocation whatever the evidence.    *)
(***************************************************************************)
EXTENDS Allocation, SetSums

\* What comes first of some places is one of them.
LEMMA FirstIsMember ==
    ASSUME NEW T \in SUBSET Nat, T # {}
    PROVE  First(T) \in T
  <1>1. \E m \in T : \A n \in T : m <= n
    BY LeastOfNat
  <1> QED
    BY <1>1 DEF First

-----------------------------------------------------------------------------
(* The liveness of a chain.                                                *)

\* The limits of a kind of head, or none of that kind.
SomeLimits(limits) == limits = NoLimits \/ Ordered(limits)

\* The ages of a reading are numbers where they are known.
Timed(reading) == reading.age \in Int \cup {None} /\ reading.finAge \in Int \cup {None}

\* The limits are ordered, so a head too old to be called halted is too old
\* to be called fresh.
LEMMA BeyondHaltedIsBeyondDegraded ==
    ASSUME None \notin Nat, NEW limits, SomeLimits(limits),
           NEW age \in Int \cup {None}, Beyond(age, limits.halted)
    PROVE  Beyond(age, limits.degraded)
  <1>1. age # None /\ limits.halted # None /\ age > limits.halted
    BY DEF Beyond
  <1>2. Ordered(limits)
    BY <1>1 DEF SomeLimits, NoLimits, AgeLimits
  <1>3. /\ limits.halted \in Nat /\ limits.degraded \in Nat
        /\ limits.degraded <= limits.halted
    BY <1>2 DEF Ordered
  <1>4. age > limits.degraded /\ limits.degraded # None
    BY <1>1, <1>3
  <1> QED
    BY <1>1, <1>4 DEF Beyond

\* No reading is fresh and severe at once.
LEMMA SevereIsStale ==
    ASSUME None \notin Nat, NEW t, SomeLimits(t.head), SomeLimits(t.fin),
           NEW reading, Timed(reading), Severe(t, reading)
    PROVE  Stale(t, reading)
  <1>1. CASE Beyond(reading.age, t.head.halted)
    BY <1>1, BeyondHaltedIsBeyondDegraded DEF Stale, Timed
  <1>2. CASE Beyond(reading.finAge, t.fin.halted)
    BY <1>2, BeyondHaltedIsBeyondDegraded DEF Stale, Timed
  <1> QED
    BY <1>1, <1>2 DEF Severe

\* Who decides under a quorum: fresh sources, or a single one.
LEMMA DecidersAreFreshOrAlone ==
    ASSUME NEW sources, NEW t, NEW p, NEW S \in SUBSET Nat
    PROVE  LET members == Deciders(sources, t, p, S).members
           IN \/ \A i \in members : i \in S /\ ~Stale(t, p[i])
              \/ \E x : members = {x}
  <1> DEFINE fresh == Fresh(t, p, InRole(sources, S, "primary"))
             agreeing == {i \in fresh : \A j \in fresh \ {i} : Consistent(t, p[i], p[j])}
             corroborating == {j \in Fresh(t, p, InRole(sources, S, "secondary")) :
                                  fresh # {} /\ Consistent(t, p[j], p[First(fresh)])}
             best == Best(sources, p, S)
  <1>1. \A i \in fresh \cup corroborating : i \in S /\ ~Stale(t, p[i])
    BY DEF Fresh, InRole
  <1>2. fresh \in SUBSET Nat /\ corroborating \in SUBSET Nat
    BY <1>1
  <1>3. corroborating # {} => First(fresh) \in fresh /\ First(corroborating) \in corroborating
    BY <1>2, FirstIsMember
  <1>4. Deciders(sources, t, p, S).members =
            IF Cardinality(agreeing) >= 2 THEN agreeing
            ELSE IF corroborating # {} THEN {First(fresh), First(corroborating)}
            ELSE {best}
    BY DEF Deciders
  <1>5. agreeing \subseteq fresh
    OBVIOUS
  <1> HIDE DEF fresh, agreeing, corroborating, best
  <1> QED
    BY <1>1, <1>3, <1>4, <1>5

\* providers/chain_liveness.py: where a secondary source makes a quorum, no
\* answers whatever lead to HALTED.  Whoever decides is fresh, and a fresh
\* head is not severe, or decides alone, and one group is too few.
THEOREM QuorumNeverHalts ==
    ASSUME None \notin Nat,
           NEW sources, NEW p, NEW S \in SUBSET Nat, \A i \in S : Timed(p[i]),
           NEW t, SomeLimits(t.head), SomeLimits(t.fin), t.needed \in Nat, t.needed >= 2
    PROVE  QuorumVerdict(sources, t, p, S).status # "HALTED"
  <1> DEFINE members == Deciders(sources, t, p, S).members
             severe == GroupsOf(sources, {i \in members : Severe(t, p[i])})
  <1>1. CASE \A i \in members : i \in S /\ ~Stale(t, p[i])
    <2>1. \A i \in members : ~Severe(t, p[i])
      BY <1>1, SevereIsStale
    <2>2. severe = {}
      BY <2>1 DEF GroupsOf
    <2>3. Cardinality(severe) = 0
      BY <2>2, FS_EmptySet
    <2> QED
      BY <2>3 DEF QuorumVerdict, Judged
  <1>2. CASE \E x : members = {x}
    <2>1. Cardinality(members) = 1
      BY <1>2, FS_Singleton
    <2> QED
      BY <2>1 DEF QuorumVerdict, Judged
  <1> QED
    BY <1>1, <1>2, DecidersAreFreshOrAlone

\* Lists of two and of three sources.
LEMMA TwoSources ==
    ASSUME NEW x, NEW y, x.role = "primary", y.role = "primary", NEW list, list = <<x, y>>
    PROVE  /\ \E A : list \in Seq(A)
           /\ Len(list) = 2 /\ DOMAIN list = {1, 2}
           /\ list[1].role = "primary" /\ list[2].role = "primary"
  <1>1. list \in Seq({x, y})
    OBVIOUS
  <1>2. Len(list) = 2 /\ list[1] = x /\ list[2] = y /\ DOMAIN list = 1 .. 2
    OBVIOUS
  <1>3. DOMAIN list = {1, 2}
    BY <1>2
  <1>4. \E A : list \in Seq(A)
    BY <1>1
  <1> QED
    BY <1>2, <1>3, <1>4

\* A chain of three sources has a third one.
LEMMA ThreeSources ==
    ASSUME NEW x, NEW y, NEW z
    PROVE  /\ <<x, y, z>> \in Seq({x, y, z}) /\ Len(<<x, y, z>>) = 3
           /\ 3 \in DOMAIN <<x, y, z>> /\ <<x, y, z>>[3] = z
  OBVIOUS

\* Whatever is asked and heard is a place in the list of sources.
LEMMA HeardAreSources ==
    ASSUME NEW A, NEW sources \in Seq(A),
           sources # <<>>, NEW t, NEW p
    PROVE  Heard(p, Asked(sources, t, p)) \subseteq 1 .. Len(sources)
  <1> DEFINE T == {n \in 1 .. Len(sources) : p[n] # None /\ Enough(sources, t, p, n)}
                      \cup {Len(sources)}
  <1>1. Len(sources) \in Nat /\ Len(sources) >= 1
    OBVIOUS
  <1>2. T \subseteq 1 .. Len(sources) /\ T \in SUBSET Nat /\ T # {}
    BY <1>1
  <1>3. Asked(sources, t, p) \in T
    BY <1>2, FirstIsMember DEF Asked
  <1>4. Asked(sources, t, p) \in 1 .. Len(sources)
    BY <1>2, <1>3
  <1> QED
    BY <1>1, <1>4 DEF Heard

\* assess: with a secondary among the sources a chain is never reported
\* HALTED, so no review of it ever meets the error CHAIN_LIVENESS_HALTED.
THEOREM AssessedQuorumNeverHalts ==
    ASSUME None \notin Nat,
           NEW A, NEW sources \in Seq(A),
           Quorum(sources),
           NEW t, SomeLimits(t.head), SomeLimits(t.fin), t.needed \in Nat, t.needed >= 2,
           NEW p, \A i \in 1 .. Len(sources) : p[i] # None => Timed(p[i])
    PROVE  Assess(sources, t, p).status # "HALTED"
  <1> DEFINE heard == Heard(p, Asked(sources, t, p))
  <1>1. sources # <<>>
    BY DEF Quorum
  <1>2. heard \subseteq 1 .. Len(sources)
    BY <1>1, HeardAreSources
  <1>3. heard \in SUBSET Nat
    BY <1>2
  <1>4. \A i \in heard : Timed(p[i])
    BY <1>2 DEF Heard
  <1>5. QuorumVerdict(sources, t, p, heard).status # "HALTED"
    BY <1>3, <1>4, QuorumNeverHalts
  <1> HIDE DEF heard
  <1>6. Assess(sources, t, p) = IF heard = {} THEN Judged("UNKNOWN", "LOW", "NONE", {})
                                ELSE QuorumVerdict(sources, t, p, heard)
    BY DEF Assess, heard
  <1> QED
    BY <1>5, <1>6 DEF Judged

\* The catalogue of ETH has a secondary source, so for no settings that the
\* policy accepts is ETH ever reported HALTED.
THEOREM EthIsNeverHalted ==
    ASSUME None \notin Nat,
           NEW t, AcceptedSettings("ETH", t),
           NEW p, \A i \in 1 .. 3 : p[i] # None => Timed(p[i])
    PROVE  Assess(DefaultSources("ETH"), t, p).status # "HALTED"
  <1> DEFINE sources == DefaultSources("ETH")
  <1>1. sources = <<Source("primary", "flashbots", 20), Source("primary", "drpc", 25),
                    Source("secondary", "publicnode", 10)>>
    BY DEF DefaultSources
  <1> HIDE DEF sources
  <1>2. /\ \E A : sources \in Seq(A)
        /\ Len(sources) = 3 /\ 3 \in DOMAIN sources /\ sources[3].role = "secondary"
    <2>1. Source("secondary", "publicnode", 10).role = "secondary"
      BY DEF Source
    <2> QED
      BY <1>1, <2>1, ThreeSources
  <1>3. Quorum(sources)
    BY <1>2 DEF Quorum
  <1>4. /\ SomeLimits(t.head) /\ SomeLimits(t.fin)
        /\ t.needed \in Nat /\ t.needed >= 2
    BY DEF AcceptedSettings, SomeLimits
  <1> QED
    BY <1>2, <1>3, <1>4, AssessedQuorumNeverHalts DEF sources

\* Where a chain has two sources, HALTED is said by both: each shows a head
\* that is too old, and they do not contradict each other.
THEOREM HaltIsUnanimous ==
    ASSUME NEW asset \in {"BTC", "BNB", "SOL"}, NEW t, AcceptedSettings(asset, t), NEW p,
           Assess(DefaultSources(asset), t, p).status = "HALTED"
    PROVE  /\ p[1] # None /\ p[2] # None
           /\ Severe(t, p[1]) /\ Severe(t, p[2])
           /\ Consistent(t, p[1], p[2])
  <1> DEFINE sources == DefaultSources(asset)
             heard == Heard(p, Asked(sources, t, p))
             X == {i \in heard : Severe(t, p[i])}
  <1>1. /\ \E A : sources \in Seq(A)
        /\ Len(sources) = 2 /\ DOMAIN sources = {1, 2}
        /\ sources[1].role = "primary" /\ sources[2].role = "primary"
    <2>1. CASE asset = "BTC"
      <3>1. sources = <<Source("primary", "blockstream", 10), Source("primary", "mempool", 20)>>
        BY <2>1 DEF DefaultSources
      <3>2. /\ Source("primary", "blockstream", 10).role = "primary"
            /\ Source("primary", "mempool", 20).role = "primary"
        BY DEF Source
      <3> HIDE DEF sources
      <3> QED
        BY <3>1, <3>2, TwoSources
    <2>2. CASE asset = "BNB"
      <3>1. sources = <<Source("primary", "dataseed", 10), Source("primary", "public", 20)>>
        BY <2>2 DEF DefaultSources
      <3>2. /\ Source("primary", "dataseed", 10).role = "primary"
            /\ Source("primary", "public", 20).role = "primary"
        BY DEF Source
      <3> HIDE DEF sources
      <3> QED
        BY <3>1, <3>2, TwoSources
    <2>3. CASE asset = "SOL"
      <3>1. sources = <<Source("primary", "mainnet", 10), Source("primary", "publicnode", 20)>>
        BY <2>3 DEF DefaultSources
      <3>2. /\ Source("primary", "mainnet", 10).role = "primary"
            /\ Source("primary", "publicnode", 20).role = "primary"
        BY DEF Source
      <3> HIDE DEF sources
      <3> QED
        BY <3>1, <3>2, TwoSources
    <2> QED
      BY <2>1, <2>2, <2>3
  <1>2. ~Quorum(sources)
    BY <1>1 DEF Quorum
  <1>3. heard \subseteq {1, 2} /\ \A i \in heard : p[i] # None
    <2>1. sources # <<>>
      BY <1>1
    <2>2. heard \subseteq 1 .. Len(sources)
      BY <1>1, <2>1, HeardAreSources
    <2> QED
      BY <1>1, <2>2 DEF Heard
  <1> HIDE DEF sources, heard
  <1>4. PlainVerdict(sources, t, p, heard).status = "HALTED"
    BY <1>2 DEF Assess, Judged, sources, heard
  <1>5. Agree(t, p, heard) /\ Cardinality(GroupsOf(sources, X)) >= t.needed
    BY <1>4 DEF PlainVerdict, Judged
  <1>6. t.needed \in Nat /\ t.needed >= 2
    BY DEF AcceptedSettings
  <1>7. \A x : GroupsOf(sources, X) \subseteq {x} => FALSE
    <2> SUFFICES ASSUME NEW x, GroupsOf(sources, X) \subseteq {x} PROVE FALSE
      OBVIOUS
    <2>1. IsFiniteSet({x}) /\ Cardinality({x}) = 1
      BY FS_Singleton
    <2>2. IsFiniteSet(GroupsOf(sources, X)) /\ Cardinality(GroupsOf(sources, X)) <= 1
      BY <2>1, FS_Subset
    <2>3. Cardinality(GroupsOf(sources, X)) \in Nat
      BY <2>2, FS_CardinalityType
    <2> QED
      BY <1>5, <1>6, <2>2, <2>3
  <1>8. 1 \in X
    <2>1. 1 \notin X => GroupsOf(sources, X) \subseteq {sources[2].group}
      BY <1>3 DEF GroupsOf
    <2> QED
      BY <1>7, <2>1
  <1>9. 2 \in X
    <2>1. 2 \notin X => GroupsOf(sources, X) \subseteq {sources[1].group}
      BY <1>3 DEF GroupsOf
    <2> QED
      BY <1>7, <2>1
  <1>10. Consistent(t, p[1], p[2])
    BY <1>5, <1>8, <1>9 DEF Agree
  <1> QED
    BY <1>3, <1>8, <1>9, <1>10

-----------------------------------------------------------------------------
(* The allocation.                                                         *)

\* The smaller of two numbers is no larger than either.
LEMMA LeastOfTwo ==
    ASSUME NEW x \in Int, NEW y \in Int
    PROVE  Least({x, y}) \in {x, y} /\ Least({x, y}) <= x /\ Least({x, y}) <= y
  <1>1. \E m \in {x, y} : \A n \in {x, y} : m <= n
    OBVIOUS
  <1>2. Least({x, y}) \in {x, y} /\ \A n \in {x, y} : Least({x, y}) <= n
    BY <1>1 DEF Least
  <1> QED
    BY <1>2

\* _check_overlaps: no satellite is a core asset.
LEMMA RolesAreDisjoint == Satellites \cap Core = {}
  <1>1. Disjoint(Core, Satellites, {}, Policy.excluded)
    BY AllocationPolicy DEF Accepted
  <1> QED
    BY <1>1 DEF Disjoint

-----------------------------------------------------------------------------
(* Sharing a budget: _bounded_allocate_with_caps.                          *)

\* Claims on a pool: everybody of U asks for something and has a cap.
Claims(U, requests, caps, pool) ==
    /\ IsFiniteSet(U) /\ pool \in Int
    /\ \A a \in U : requests[a] \in Nat \ {0} /\ caps[a] \in Nat

LeftFor(U, caps, pool, S) == pool - SumOver(caps, U \ S)

CappedIn(U, requests, caps, pool, S) ==
    {a \in S : LeftFor(U, caps, pool, S) * requests[a] > caps[a] * SumOver(requests, S)}

OpenIn(U, requests, caps, pool) ==
    CHOOSE open :
        open = [S \in SUBSET U |->
                   LET capped == CappedIn(U, requests, caps, pool, S)
                   IN IF capped = {} THEN S ELSE open[S \ capped]]

\* The loop ends: it takes somebody out until nobody passes its cap.
LEMMA SharingEnds ==
    ASSUME NEW U, IsFiniteSet(U), NEW requests, NEW caps, NEW pool, NEW S \in SUBSET U
    PROVE  /\ CappedIn(U, requests, caps, pool, S) = {} =>
                OpenIn(U, requests, caps, pool)[S] = S
           /\ CappedIn(U, requests, caps, pool, S) # {} =>
                OpenIn(U, requests, caps, pool)[S] =
                    OpenIn(U, requests, caps, pool)[S \ CappedIn(U, requests, caps, pool, S)]
  <1> DEFINE Capped(T) == CappedIn(U, requests, caps, pool, T)
             rest == [T \in SUBSET U |-> T \ Capped(T)]
             Body(g) == [T \in SUBSET U |-> IF Capped(T) = {} THEN T ELSE g[T \ Capped(T)]]
  <1>1. \A T \in SUBSET U : Capped(T) \subseteq T
    BY DEF CappedIn
  <1>2. Shrinks(U, rest)
    BY DEF Shrinks
  <1>3. PICK g : Settles(U, rest, g)
    <2> HIDE DEF rest
    <2> QED
      BY <1>2, ShrinkingRecursion
  <1>4. \A T \in SUBSET U :
            Settled(rest, g, T) = IF Capped(T) = {} THEN T ELSE g[T \ Capped(T)]
    <2> SUFFICES ASSUME NEW T \in SUBSET U
                 PROVE  Settled(rest, g, T) = IF Capped(T) = {} THEN T ELSE g[T \ Capped(T)]
      OBVIOUS
    <2>1. rest[T] = T \ Capped(T)
      OBVIOUS
    <2>2. (rest[T] = T) <=> (Capped(T) = {})
      BY <1>1, <2>1
    <2> HIDE DEF rest, Capped
    <2> QED
      BY <2>1, <2>2 DEF Settled
  <1>5. g = Body(g)
    <2>1. [T \in SUBSET U |-> Settled(rest, g, T)] = Body(g)
      <3> HIDE DEF rest, Capped
      <3> QED
        BY <1>4
    <2> HIDE DEF rest, Body
    <2> QED
      BY <1>3, <2>1 DEF Settles
  <1> DEFINE open == CHOOSE h : h = Body(h)
  <1>6. open = Body(open)
    <2> HIDE DEF Body
    <2> QED
      BY <1>5
  <1>7. OpenIn(U, requests, caps, pool) = open
    BY DEF OpenIn
  <1>8. Body(open)[S] = IF Capped(S) = {} THEN S ELSE open[S \ Capped(S)]
    <2> HIDE DEF open, Capped
    <2> QED
      OBVIOUS
  <1>9. open[S] = IF Capped(S) = {} THEN S ELSE open[S \ Capped(S)]
    <2> HIDE DEF open, Capped, Body
    <2> QED
      BY <1>6, <1>8
  <1> HIDE DEF open, Capped, Body, rest
  <1> QED
    BY <1>7, <1>9 DEF Capped

\* The loop stops at once where nobody passes its cap.
LEMMA NobodyIsCapped ==
    ASSUME NEW U, NEW requests, NEW caps, NEW pool, Claims(U, requests, caps, pool),
           LeftFor(U, caps, pool, U) > 0
    PROVE  CappedIn(U, requests, caps, pool, U) = {} => OpenIn(U, requests, caps, pool)[U] = U
  <1> DEFINE open == OpenIn(U, requests, caps, pool)
  <1>0. IsFiniteSet(U)
    BY DEF Claims
  <1>1. ASSUME NEW S \in SUBSET U
        PROVE  CappedIn(U, requests, caps, pool, S) = {} => open[S] = S
    <2> DEFINE C == CappedIn(U, requests, caps, pool, S)
    <2>1. (C = {} => open[S] = S) /\ (C # {} => open[S] = open[S \ C])
      BY <1>0, SharingEnds
    <2> HIDE DEF open
    <2> QED
      BY <2>1
  <1>2. U \in SUBSET U
    OBVIOUS
  <1> HIDE DEF open
  <1>3. CappedIn(U, requests, caps, pool, U) = {} => open[U] = U
    BY <1>1, <1>2
  <1> QED
    BY <1>3 DEF open

\* Whoever is capped takes less of what is left than its share, so something
\* stays, and more of it for each who stays.
LEMMA SharesClimb ==
    ASSUME NEW U, NEW requests, NEW caps, NEW pool, Claims(U, requests, caps, pool),
           NEW S \in SUBSET U, NEW C, C = CappedIn(U, requests, caps, pool, S), C # {},
           LeftFor(U, caps, pool, S) > 0
    PROVE  /\ LeftFor(U, caps, pool, S) \in Int /\ LeftFor(U, caps, pool, S \ C) \in Int
           /\ SumOver(requests, S) \in Nat /\ SumOver(requests, S \ C) \in Nat
           /\ SumOver(requests, S) > 0
           /\ LeftFor(U, caps, pool, S \ C) > 0
           /\ LeftFor(U, caps, pool, S \ C) * SumOver(requests, S)
                  >= LeftFor(U, caps, pool, S) * SumOver(requests, S \ C)
  <1> DEFINE L == LeftFor(U, caps, pool, S)
             M == LeftFor(U, caps, pool, S \ C)
             W == SumOver(requests, S)
             V == SumOver(requests, S \ C)
             k == SumOver(caps, C)
             r == SumOver(requests, C)
             wk == [a \in C |-> W * caps[a]]
             lr == [a \in C |-> L * requests[a]]
  <1>1. /\ IsFiniteSet(U) /\ IsFiniteSet(S) /\ IsFiniteSet(C) /\ C \subseteq S /\ pool \in Int
        /\ U \ S \subseteq U /\ C \subseteq U \ (S \ C) /\ U \ (S \ C) \subseteq U
    BY FS_Subset DEF Claims, CappedIn
  <1>2. /\ \A a \in U : requests[a] \in Nat /\ requests[a] > 0 /\ caps[a] \in Nat
        /\ \A a \in U : requests[a] \in Int /\ caps[a] \in Int
    BY DEF Claims
  <1>3. SumOver(caps, U \ S) \in Int /\ L \in Int
    <2>1. IsFiniteSet(U \ S) /\ \A a \in U \ S : caps[a] \in Int
      BY <1>1, <1>2, FS_Subset
    <2>2. SumOver(caps, U \ S) \in Int
      BY <2>1, SumType
    <2> QED
      BY <1>1, <2>2 DEF LeftFor
  <1>4. k \in Nat
    <2>1. \A a \in C : caps[a] \in Nat
      BY <1>1, <1>2
    <2> QED
      BY <1>1, <2>1, SumOfNaturals
  <1>5. M = L - k
    <2>1. IsFiniteSet(U \ (S \ C)) /\ \A a \in U \ (S \ C) : caps[a] \in Int
      BY <1>1, <1>2, FS_Subset
    <2>2. SumOver(caps, U \ (S \ C)) = SumOver(caps, C) + SumOver(caps, (U \ (S \ C)) \ C)
      BY <1>1, <2>1, SumOfUnion
    <2>3. (U \ (S \ C)) \ C = U \ S
      BY <1>1
    <2> QED
      BY <1>1, <1>3, <1>4, <2>2, <2>3 DEF LeftFor
  <1>6. W \in Nat /\ V \in Nat /\ r \in Nat
    <2>1. \A a \in S : requests[a] \in Nat
      BY <1>2
    <2>2. S \ C \in SUBSET S /\ C \in SUBSET S /\ S \in SUBSET S
      BY <1>1
    <2> QED
      BY <1>1, <2>1, <2>2, SumOfNaturals
  <1>7. W = r + V
    <2>1. \A a \in S : requests[a] \in Int
      BY <1>2
    <2>2. C \in SUBSET S
      BY <1>1
    <2> QED
      BY <1>1, <2>1, <2>2, SumOfUnion
  <1>8. W > 0
    <2>1. PICK x \in C : TRUE
      OBVIOUS
    <2>2. x \in S /\ \A a \in S : requests[a] \in Nat
      BY <1>1, <1>2
    <2>3. requests[x] <= W
      BY <1>1, <2>2, TermOfSum
    <2>4. requests[x] \in Nat /\ requests[x] > 0
      BY <1>2, <2>2
    <2> QED
      BY <1>6, <2>3, <2>4
  <1>9. \A a \in C : caps[a] \in Int /\ wk[a] = W * caps[a] /\ wk[a] \in Int
    BY <1>1, <1>2, <1>6
  <1>10. \A a \in C : requests[a] \in Int /\ lr[a] = L * requests[a] /\ lr[a] \in Int
    BY <1>1, <1>2, <1>3
  <1>11. \A a \in C : wk[a] < lr[a]
    <2> SUFFICES ASSUME NEW a \in C PROVE wk[a] < lr[a]
      OBVIOUS
    <2>1. L * requests[a] > caps[a] * W
      BY DEF CappedIn
    <2>2. caps[a] \in Int /\ W * caps[a] = caps[a] * W
      BY <1>6, <1>9
    <2> QED
      BY <1>9, <1>10, <2>1, <2>2
  <1>12. SumOver(wk, C) = W * k
    <2>1. W \in Int
      BY <1>6
    <2> HIDE DEF W, wk
    <2> QED
      BY <1>1, <1>9, <2>1, SumOfMultiples
  <1>13. SumOver(lr, C) = L * r
    <2> HIDE DEF L, lr
    <2> QED
      BY <1>1, <1>3, <1>10, SumOfMultiples
  <1>14. SumOver(wk, C) < SumOver(lr, C)
    <2> HIDE DEF wk, lr
    <2> QED
      BY <1>1, <1>9, <1>10, <1>11, SumStrict
  <1>15. W * k < L * r
    BY <1>12, <1>13, <1>14
  <1> HIDE DEF L, M, W, V, k, r
  <1>16. M * W > L * V
    <2>1. M * W = L * W - W * k /\ L * W = L * r + L * V
      BY <1>3, <1>4, <1>5, <1>6, <1>7
    <2>2. W * k \in Int /\ L * r \in Int /\ L * V \in Int
      BY <1>3, <1>4, <1>6
    <2> QED
      BY <1>15, <2>1, <2>2
  <1>17. L > 0 /\ M \in Int
    BY <1>3, <1>4, <1>5 DEF L
  <1>18. L * V >= 0
    BY <1>3, <1>6, <1>17
  <1>19. M > 0
    BY <1>3, <1>6, <1>8, <1>16, <1>17, <1>18
  <1>20. M * W >= L * V
    BY <1>3, <1>6, <1>16, <1>17
  <1> QED
    BY <1>3, <1>6, <1>8, <1>17, <1>19, <1>20 DEF L, M, W, V

\* How sharing among S ends: nobody of T passes its cap, something is left for
\* them, and not less than they ask for if there was as much for S.
EndsIn(U, requests, caps, pool, S, T) ==
    /\ T \subseteq S /\ CappedIn(U, requests, caps, pool, T) = {}
    /\ LeftFor(U, caps, pool, T) > 0
    /\ LeftFor(U, caps, pool, S) >= SumOver(requests, S) =>
          LeftFor(U, caps, pool, T) >= SumOver(requests, T)

\* However the loop goes, it ends so.
LEMMA SharingEndsWell ==
    ASSUME NEW U, NEW requests, NEW caps, NEW pool, Claims(U, requests, caps, pool),
           LeftFor(U, caps, pool, U) > 0
    PROVE  EndsIn(U, requests, caps, pool, U, OpenIn(U, requests, caps, pool)[U])
  <1> DEFINE open == OpenIn(U, requests, caps, pool)
             Left(S) == LeftFor(U, caps, pool, S)
             Good == {S \in SUBSET U :
                         Left(S) > 0 => EndsIn(U, requests, caps, pool, S, open[S])}
  <1>0. IsFiniteSet(U)
    BY DEF Claims
  <1>1. ASSUME NEW S \in SUBSET U, \A T \in SUBSET S : T # S => T \in Good
        PROVE  S \in Good
    <2> SUFFICES ASSUME Left(S) > 0 PROVE EndsIn(U, requests, caps, pool, S, open[S])
      OBVIOUS
    <2> DEFINE C == CappedIn(U, requests, caps, pool, S)
    <2>1. (C = {} => open[S] = S) /\ (C # {} => open[S] = open[S \ C])
      BY <1>0, SharingEnds
    <2>2. CASE C = {}
      <3>1. open[S] = S
        BY <2>1, <2>2
      <3> QED
        BY <2>2, <3>1 DEF EndsIn
    <2>3. CASE C # {}
      <3> DEFINE R == S \ C
      <3>1. /\ Left(S) \in Int /\ Left(R) \in Int
            /\ SumOver(requests, S) \in Nat /\ SumOver(requests, R) \in Nat
            /\ SumOver(requests, S) > 0 /\ Left(R) > 0
            /\ Left(R) * SumOver(requests, S) >= Left(S) * SumOver(requests, R)
        BY <2>3, SharesClimb
      <3>2. C \subseteq S
        BY DEF CappedIn
      <3>3. R \in SUBSET S /\ R # S
        BY <2>3, <3>2
      <3>4. R \in Good
        BY <1>1, <3>3
      <3>5. EndsIn(U, requests, caps, pool, R, open[R])
        BY <3>1, <3>4
      <3>6. open[S] = open[R]
        BY <2>1, <2>3
      <3>7. Left(S) >= SumOver(requests, S) => Left(R) >= SumOver(requests, R)
        <4> DEFINE L == Left(S)
                   M == Left(R)
                   W == SumOver(requests, S)
                   V == SumOver(requests, R)
        <4>1. L \in Int /\ M \in Int /\ W \in Nat /\ V \in Nat /\ W > 0 /\ M * W >= L * V
          BY <3>1
        <4> HIDE DEF L, M, W, V
        <4> SUFFICES ASSUME L >= W, M < V PROVE FALSE
          BY <4>1 DEF L, M, W, V
        <4>2. L * V >= W * V
          BY <4>1
        <4>3. M * W < V * W
          BY <4>1
        <4> QED
          BY <4>1, <4>2, <4>3
      <3> HIDE DEF Left, open, R
      <3> QED
        BY <3>3, <3>5, <3>6, <3>7 DEF EndsIn, Left
    <2> QED
      BY <2>2, <2>3
  <1>2. \A S \in SUBSET U : S \in Good
    <2> HIDE DEF Good
    <2> QED
      BY <1>0, <1>1, StrongSubsetInduction
  <1>3. U \in Good
    BY <1>2
  <1> QED
    BY <1>3

\* What each of those who share gets: its part of what is left, or its cap.
PartOf(U, requests, caps, pool) ==
    LET open == OpenIn(U, requests, caps, pool)[U]
        left == LeftFor(U, caps, pool, open)
    IN [a \in U |-> IF a \in open THEN (left * requests[a]) \div SumOver(requests, open)
                     ELSE caps[a]]

\* Nobody passes its cap, all together do not pass the pool, and where the
\* pool is no smaller than the claims each gets what it asks for or its cap.
LEMMA PartsFit ==
    ASSUME NEW U, NEW requests, NEW caps, NEW pool, Claims(U, requests, caps, pool), pool > 0,
           NEW p, p = PartOf(U, requests, caps, pool)
    PROVE  /\ \A a \in U : p[a] \in Nat /\ p[a] <= caps[a]
           /\ SumOver(p, U) \in Nat /\ SumOver(p, U) <= pool
           /\ pool >= SumOver(requests, U) => \A a \in U : p[a] = caps[a] \/ p[a] >= requests[a]
  <1> DEFINE T == OpenIn(U, requests, caps, pool)[U]
             L == LeftFor(U, caps, pool, T)
             W == SumOver(requests, T)
  <1>0. /\ IsFiniteSet(U) /\ pool \in Int
        /\ \A a \in U : requests[a] \in Nat /\ requests[a] > 0 /\ caps[a] \in Nat
    BY DEF Claims
  <1>1. LeftFor(U, caps, pool, U) = pool
    <2>1. U \ U = {} /\ SumOver(caps, {}) = 0
      BY SumOfNothing
    <2> QED
      BY <1>0, <2>1 DEF LeftFor
  <1>2. EndsIn(U, requests, caps, pool, U, T)
    BY <1>1, SharingEndsWell
  <1>3. /\ T \subseteq U /\ CappedIn(U, requests, caps, pool, T) = {} /\ L > 0
        /\ pool >= SumOver(requests, U) => L >= W
    BY <1>1, <1>2 DEF EndsIn
  <1>4. /\ \A a \in T : p[a] = (L * requests[a]) \div W
        /\ \A a \in U \ T : p[a] = caps[a]
    BY <1>3 DEF PartOf
  <1>5. \A a \in T : ~(L * requests[a] > caps[a] * W)
    BY <1>3 DEF CappedIn
  <1>6. IsFiniteSet(T) /\ IsFiniteSet(U \ T)
    BY <1>0, <1>3, FS_Subset
  <1>7. SumOver(caps, U \ T) \in Nat /\ L = pool - SumOver(caps, U \ T) /\ L \in Nat
    <2>1. \A a \in U \ T : caps[a] \in Nat
      BY <1>0
    <2>2. SumOver(caps, U \ T) \in Nat
      BY <1>6, <2>1, SumOfNaturals
    <2>3. L = pool - SumOver(caps, U \ T)
      BY DEF LeftFor
    <2> QED
      BY <1>0, <1>3, <2>2, <2>3
  <1>8. W \in Nat /\ \A a \in T : requests[a] <= W
    <2>1. \A a \in T : requests[a] \in Nat
      BY <1>0, <1>3
    <2>2. W \in Nat
      BY <1>6, <2>1, SumOfNaturals
    <2>3. \A a \in T : requests[a] <= W
      BY <1>6, <2>1, TermOfSum
    <2> QED
      BY <2>2, <2>3
  <1> HIDE DEF T, L, W
  <1>9. ASSUME NEW a \in T
        PROVE  /\ p[a] \in Nat /\ p[a] <= caps[a] /\ W > 0
               /\ L >= W => p[a] >= requests[a]
    <2> DEFINE r == requests[a]
               c == caps[a]
               x == L * r
    <2>1. r \in Nat /\ r > 0 /\ c \in Nat /\ r <= W /\ W > 0 /\ W \in Nat /\ L \in Nat
      BY <1>0, <1>3, <1>7, <1>8
    <2>2. ~(x > c * W) /\ p[a] = x \div W
      BY <1>4, <1>5
    <2>3. x \in Nat /\ c * W \in Nat /\ (L >= W => x >= r * W)
      BY <2>1
    <2> HIDE DEF r, c, x
    <2>4. x \div W \in Nat /\ x \div W <= c
      BY <2>1, <2>2, <2>3
    <2>5. x >= r * W => x \div W >= r
      BY <2>1, <2>3
    <2> QED
      BY <2>1, <2>2, <2>3, <2>4, <2>5 DEF r, c
  <1>10. \A a \in U : p[a] \in Nat /\ p[a] <= caps[a]
    <2> SUFFICES ASSUME NEW a \in U PROVE p[a] \in Nat /\ p[a] <= caps[a]
      OBVIOUS
    <2>1. caps[a] \in Nat /\ (a \notin T => p[a] = caps[a])
      BY <1>0, <1>4
    <2> QED
      BY <1>9, <2>1
  <1>11. SumOver(p, U \ T) = SumOver(caps, U \ T)
    <2>1. \A a \in U \ T : p[a] \in Int /\ p[a] = caps[a]
      BY <1>4, <1>10
    <2> QED
      BY <1>6, <2>1, SumSame
  <1>12. SumOver(p, T) \in Nat /\ SumOver(p, T) <= L
    <2>1. CASE T = {}
      BY <1>7, <2>1, SumOfNothing
    <2>2. CASE T # {}
      <3>1. W > 0
        BY <1>9, <2>2
      <3>2. \A a \in T : requests[a] \in Nat /\ p[a] = (L * requests[a]) \div W
        BY <1>0, <1>3, <1>4
      <3>3. SumOver(p, T) \in Nat /\ W * SumOver(p, T) <= L * SumOver(requests, T)
        <4>1. L \in Nat /\ W \in Nat \ {0} /\ IsFiniteSet(T)
          BY <1>6, <1>7, <1>8, <3>1
        <4> QED
          BY <3>2, <4>1, SumOfShares
      <3>4. W * SumOver(p, T) <= L * W
        BY <3>3 DEF W
      <3> DEFINE s == SumOver(p, T)
      <3>5. s \in Nat /\ W * s <= L * W
        BY <3>3, <3>4
      <3> HIDE DEF s
      <3>6. s <= L
        BY <1>7, <1>8, <3>1, <3>5
      <3> QED
        BY <3>3, <3>6 DEF s
    <2> QED
      BY <2>1, <2>2
  <1>13. SumOver(p, U) = SumOver(p, T) + SumOver(p, U \ T)
    <2>1. \A a \in U : p[a] \in Int
      BY <1>10
    <2> QED
      BY <1>0, <1>3, <2>1, SumOfUnion
  <1>14. SumOver(p, U) \in Nat /\ SumOver(p, U) <= pool
    BY <1>0, <1>7, <1>11, <1>12, <1>13
  <1>15. ASSUME pool >= SumOver(requests, U), NEW a \in U
         PROVE  p[a] = caps[a] \/ p[a] >= requests[a]
    BY <1>3, <1>4, <1>9, <1>15 DEF W
  <1> QED
    BY <1>10, <1>14, <1>15

\* The parts of Share, by name.
AskingOf(requests) == {a \in DOMAIN requests : requests[a] > 0}
TakenOf(requests, caps, frozen) ==
    [a \in AskingOf(requests) \cap frozen |-> Least({requests[a], caps[a]})]
PoolOf(requests, budget, caps, frozen) ==
    Least({budget, SumOver(requests, AskingOf(requests))}) - Total(TakenOf(requests, caps, frozen))
OpenTo(requests, frozen) == AskingOf(requests) \ (AskingOf(requests) \cap frozen)

\* Share in their terms.
LEMMA ShareIs ==
    ASSUME NEW requests, NEW budget, NEW caps, NEW frozen, NEW a \in DOMAIN requests,
           NEW pool, pool = PoolOf(requests, budget, caps, frozen),
           NEW U, U = OpenTo(requests, frozen)
    PROVE  Share(requests, budget, caps, frozen)[a] =
               IF a \notin AskingOf(requests) \/ budget <= 0 THEN 0
               ELSE IF a \in frozen THEN TakenOf(requests, caps, frozen)[a]
               ELSE IF LeftFor(U, caps, pool, U) <= 0 THEN 0
               ELSE PartOf(U, requests, caps, pool)[a]
  <1>1. a \in AskingOf(requests) /\ a \notin frozen => a \in U
    BY DEF OpenTo
  <1>2. Share(requests, budget, caps, frozen)[a] =
            IF a \notin AskingOf(requests) \/ budget <= 0 THEN 0
            ELSE IF a \in AskingOf(requests) \cap frozen THEN TakenOf(requests, caps, frozen)[a]
            ELSE IF LeftFor(U, caps, pool, U) <= 0 THEN 0
            ELSE IF a \in OpenIn(U, requests, caps, pool)[U]
            THEN (LeftFor(U, caps, pool, OpenIn(U, requests, caps, pool)[U]) * requests[a])
                     \div SumOver(requests, OpenIn(U, requests, caps, pool)[U])
            ELSE caps[a]
    BY DEF Share, OpenIn, CappedIn, LeftFor, PoolOf, TakenOf, OpenTo, AskingOf
  <1> QED
    BY <1>1, <1>2 DEF PartOf

\* It is a function on whoever may ask.
LEMMA ShareIsFunction ==
    ASSUME NEW requests, NEW budget, NEW caps, NEW frozen
    PROVE  Share(requests, budget, caps, frozen) =
               [a \in DOMAIN requests |-> Share(requests, budget, caps, frozen)[a]]
  <1> DEFINE asking == AskingOf(requests)
             taken == TakenOf(requests, caps, frozen)
             pool == PoolOf(requests, budget, caps, frozen)
             U == OpenTo(requests, frozen)
             open == OpenIn(U, requests, caps, pool)
             Of(a) == IF a \notin asking \/ budget <= 0 THEN 0
                      ELSE IF a \in asking \cap frozen THEN taken[a]
                      ELSE IF LeftFor(U, caps, pool, U) <= 0 THEN 0
                      ELSE IF a \in open[U]
                      THEN (LeftFor(U, caps, pool, open[U]) * requests[a])
                               \div SumOver(requests, open[U])
                      ELSE caps[a]
  <1>1. Share(requests, budget, caps, frozen) = [a \in DOMAIN requests |-> Of(a)]
    BY DEF Share, OpenIn, CappedIn, LeftFor, PoolOf, TakenOf, OpenTo, AskingOf
  <1> HIDE DEF Of
  <1> QED
    BY <1>1

\* Shares respect the caps and the budget, give nothing to those who do not ask,
\* and give what is asked for, up to the caps, where the budget is enough.
LEMMA ShareFits ==
    ASSUME NEW D, IsFiniteSet(D), NEW requests \in [D -> Nat], NEW caps \in [D -> Nat],
           NEW budget \in Nat, NEW frozen,
           frozen = {} \/ SumOver(requests, D) <= budget,
           NEW s, s = Share(requests, budget, caps, frozen)
    PROVE  /\ s \in [D -> Nat]
           /\ \A a \in D : s[a] <= caps[a] /\ (requests[a] = 0 => s[a] = 0)
           /\ SumOver(s, D) \in Nat /\ SumOver(s, D) <= budget
           /\ frozen = {} /\ SumOver(requests, D) <= budget =>
                \A a \in D : s[a] = caps[a] \/ s[a] >= requests[a]
           /\ \A a \in D \cap frozen : s[a] <= requests[a]
  <1> DEFINE A == AskingOf(requests)
             fixed == A \cap frozen
             U == OpenTo(requests, frozen)
             taken == TakenOf(requests, caps, frozen)
             pool == PoolOf(requests, budget, caps, frozen)
             part == PartOf(U, requests, caps, pool)
             Q == SumOver(requests, A)
  <1>1. /\ A = {a \in D : requests[a] > 0} /\ U = A \ fixed /\ A \subseteq D /\ U \subseteq D
        /\ fixed \subseteq D /\ \A a \in D : requests[a] \in Nat /\ caps[a] \in Nat
    BY DEF AskingOf, OpenTo
  <1>2. IsFiniteSet(A) /\ IsFiniteSet(U) /\ IsFiniteSet(fixed) /\ IsFiniteSet(D \ A)
    BY <1>1, FS_Subset
  <1>3. Q \in Nat /\ Q <= SumOver(requests, D) /\ SumOver(requests, D) \in Nat
    BY <1>1, SumOfNaturals
  <1>4. \A a \in fixed : taken[a] \in Nat /\ taken[a] <= requests[a] /\ taken[a] <= caps[a]
    <2> SUFFICES ASSUME NEW a \in fixed
                 PROVE  taken[a] \in Nat /\ taken[a] <= requests[a] /\ taken[a] <= caps[a]
      OBVIOUS
    <2> DEFINE r == requests[a]
               c == caps[a]
    <2>1. taken[a] = Least({r, c})
      BY DEF TakenOf
    <2>2. r \in Int /\ c \in Int /\ r \in Nat /\ c \in Nat
      BY <1>1
    <2> HIDE DEF r, c
    <2>3. Least({r, c}) \in {r, c} /\ Least({r, c}) <= r /\ Least({r, c}) <= c
      BY <2>2, LeastOfTwo
    <2>4. taken[a] \in Nat /\ taken[a] <= r /\ taken[a] <= c
      BY <2>1, <2>2, <2>3
    <2> QED
      BY <2>4 DEF r, c
  <1>5. /\ Total(taken) = SumOver(taken, fixed) /\ Total(taken) \in Nat /\ Total(taken) <= Q
        /\ frozen = {} => Total(taken) = 0
    <2>1. Total(taken) = SumOver(taken, fixed)
      <3>1. DOMAIN taken = fixed
        BY DEF TakenOf
      <3> QED
        BY <3>1 DEF Total
    <2>2. SumOver(taken, fixed) \in Nat
      BY <1>2, <1>4, SumOfNaturals
    <2>3. SumOver(taken, fixed) <= SumOver(requests, fixed)
      <3>1. \A a \in fixed : taken[a] \in Int /\ requests[a] \in Int /\ taken[a] <= requests[a]
        BY <1>1, <1>4
      <3> HIDE DEF taken, fixed
      <3> QED
        BY <1>2, <3>1, SumMonotone
    <2>4. SumOver(requests, fixed) \in Nat /\ SumOver(requests, fixed) <= Q
      <3>1. fixed \in SUBSET A /\ \A a \in A : requests[a] \in Nat
        BY <1>1
      <3> HIDE DEF fixed, A
      <3> QED
        BY <1>2, <3>1, SumOfNaturals DEF A
    <2>5. frozen = {} => SumOver(taken, fixed) = 0
      BY SumOfNothing
    <2> QED
      BY <1>3, <2>1, <2>2, <2>3, <2>4, <2>5
  <1>6. /\ pool \in Int /\ pool + Total(taken) <= budget /\ pool + Total(taken) <= Q
        /\ Q <= budget => pool + Total(taken) = Q
        /\ Total(taken) <= budget
    <2>1. pool = Least({budget, Q}) - Total(taken)
      BY DEF PoolOf
    <2>2. Least({budget, Q}) \in {budget, Q} /\ Least({budget, Q}) <= budget /\ Least({budget, Q}) <= Q
      <3>1. budget \in Int /\ Q \in Int
        BY <1>3
      <3> HIDE DEF Q
      <3> QED
        BY <3>1, LeastOfTwo
    <2> DEFINE l == Least({budget, Q})
    <2>3. l \in {budget, Q} /\ l <= budget /\ l <= Q /\ pool = l - Total(taken)
      BY <2>1, <2>2
    <2> HIDE DEF l, pool, taken, Q
    <2> QED
      BY <1>3, <1>5, <2>3
  <1>7. Claims(U, requests, caps, pool)
    BY <1>1, <1>2, <1>6 DEF Claims
  <1>8. LeftFor(U, caps, pool, U) = pool
    <2>1. U \ U = {} /\ SumOver(caps, {}) = 0
      BY SumOfNothing
    <2>2. pool \in Int
      BY <1>6
    <2> HIDE DEF pool, U
    <2> QED
      BY <2>1, <2>2 DEF LeftFor
  <1>9. s = [a \in D |-> s[a]]
    <2>1. DOMAIN requests = D
      OBVIOUS
    <2> QED
      BY <2>1, ShareIsFunction
  <1>10. ASSUME NEW a \in D
         PROVE  s[a] = IF a \notin A \/ budget <= 0 THEN 0
                       ELSE IF a \in frozen THEN taken[a]
                       ELSE IF pool <= 0 THEN 0 ELSE part[a]
    <2>1. a \in DOMAIN requests
      OBVIOUS
    <2> QED
      BY <1>8, <2>1, ShareIs
  <1>11. pool > 0 =>
            /\ \A a \in U : part[a] \in Nat /\ part[a] <= caps[a]
            /\ SumOver(part, U) \in Nat /\ SumOver(part, U) <= pool
            /\ pool >= SumOver(requests, U) =>
                 \A a \in U : part[a] = caps[a] \/ part[a] >= requests[a]
    <2> HIDE DEF pool, U
    <2> QED
      BY <1>7, PartsFit
  <1> HIDE DEF part, pool, taken, Q, U
  <1>12. ASSUME NEW a \in D
         PROVE  /\ s[a] \in Nat /\ s[a] <= caps[a] /\ (requests[a] = 0 => s[a] = 0)
                /\ a \in frozen => s[a] <= requests[a]
    <2>1. requests[a] \in Nat /\ caps[a] \in Nat
      BY <1>1
    <2>2. CASE a \notin A \/ budget <= 0
      BY <1>10, <2>1, <2>2
    <2>3. CASE a \in A /\ a \in frozen /\ ~(budget <= 0)
      BY <1>1, <1>4, <1>10, <2>1, <2>3
    <2>4. CASE a \in A /\ a \notin frozen /\ ~(budget <= 0)
      <3>1. a \in U /\ requests[a] > 0
        BY <1>1, <2>4
      <3> QED
        BY <1>10, <1>11, <1>6, <2>1, <2>4, <3>1
    <2> QED
      BY <2>2, <2>3, <2>4
  <1>13. SumOver(s, D) \in Nat
    BY <1>12, SumOfNaturals
  <1>14. SumOver(s, D) <= budget
    <2>1. \A a \in D : s[a] \in Int
      BY <1>12
    <2>2. CASE budget = 0
      <3>1. \A a \in D : s[a] = 0
        BY <1>10, <2>2
      <3>2. SumOver(s, D) = 0
        BY <3>1, SumOfZeros
      <3> QED
        BY <2>2, <3>2
    <2>3. CASE budget # 0
      <3>0. ~(budget <= 0)
        BY <2>3
      <3>1. SumOver(s, D \ A) = 0
        <4>1. \A a \in D \ A : s[a] = 0
          BY <1>10
        <4> QED
          BY <1>2, <4>1, SumOfZeros
      <3>2. SumOver(s, D) = SumOver(s, A) + SumOver(s, D \ A)
        BY <1>1, <2>1, SumOfUnion
      <3>3. SumOver(s, A) = SumOver(s, fixed) + SumOver(s, U)
        <4>1. \A a \in A : s[a] \in Int
          BY <1>1, <2>1
        <4>2. fixed \in SUBSET A /\ U = A \ fixed
          BY <1>1
        <4> HIDE DEF fixed, A
        <4> QED
          BY <1>2, <4>1, <4>2, SumOfUnion
      <3>4. SumOver(s, fixed) = Total(taken)
        <4>1. \A a \in fixed : s[a] \in Int /\ s[a] = taken[a]
          BY <1>1, <1>10, <2>1, <3>0
        <4> HIDE DEF fixed
        <4>2. SumOver(s, fixed) = SumOver(taken, fixed)
          BY <1>2, <4>1, SumSame
        <4> QED
          BY <1>5, <4>2
      <3>5. CASE pool <= 0
        <4>1. \A a \in U : s[a] = 0
          BY <1>1, <1>10, <3>5
        <4>2. SumOver(s, U) = 0
          BY <1>2, <4>1, SumOfZeros
        <4> QED
          BY <1>5, <1>6, <3>1, <3>2, <3>3, <3>4, <4>2
      <3>6. CASE ~(pool <= 0)
        <4>1. \A a \in U : s[a] \in Int /\ s[a] = part[a]
          BY <1>1, <1>10, <2>1, <3>0, <3>6
        <4>2. SumOver(s, U) = SumOver(part, U)
          BY <1>2, <4>1, SumSame
        <4>3. SumOver(part, U) \in Nat /\ SumOver(part, U) <= pool
          BY <1>6, <1>11, <3>6
        <4> QED
          BY <1>5, <1>6, <3>1, <3>2, <3>3, <3>4, <4>2, <4>3
      <3> QED
        BY <3>5, <3>6
    <2> QED
      BY <2>2, <2>3
  <1>15. ASSUME frozen = {}, SumOver(requests, D) <= budget, NEW a \in D
         PROVE  s[a] = caps[a] \/ s[a] >= requests[a]
    <2>1. fixed = {} /\ U = A
      BY <1>1, <1>15
    <2>2. pool = SumOver(requests, U) /\ pool = Q
      <3>1. Total(taken) = 0
        BY <1>5, <1>15
      <3>2. Q <= budget
        BY <1>3, <1>15
      <3>3. Q = SumOver(requests, U)
        BY <2>1 DEF Q
      <3> QED
        BY <1>3, <1>6, <3>1, <3>2, <3>3
    <2>3. requests[a] \in Nat /\ s[a] \in Nat
      BY <1>1, <1>12
    <2>4. CASE a \notin A
      <3>1. requests[a] = 0
        BY <1>1, <2>3, <2>4
      <3> QED
        BY <2>3, <3>1
    <2>5. CASE a \in A
      <3>1. requests[a] <= Q
        <4>1. \A b \in A : requests[b] \in Nat
          BY <1>1
        <4> HIDE DEF A
        <4> QED
          BY <1>2, <2>5, <4>1, TermOfSum DEF Q
      <3>2. requests[a] > 0
        BY <1>1, <2>5
      <3>3. pool > 0 /\ pool <= budget
        BY <1>3, <1>15, <2>2, <2>3, <3>1, <3>2
      <3>4. ~(budget <= 0) /\ ~(pool <= 0)
        BY <1>3, <2>2, <3>3
      <3>5. s[a] = part[a] /\ a \in U
        BY <1>10, <1>15, <2>1, <2>5, <3>4
      <3>6. pool >= SumOver(requests, U)
        BY <1>6, <2>2
      <3> QED
        BY <1>11, <3>3, <3>5, <3>6
    <2> QED
      BY <2>4, <2>5
  <1> QED
    BY <1>9, <1>12, <1>13, <1>14, <1>15

-----------------------------------------------------------------------------
(* What a score is worth under any policy the parser accepts.              *)

\* A share of a product is no more than what is shared, and no less for more.
LEMMA ShareOfProduct ==
    ASSUME NEW d \in Nat \ {0}, NEW k \in Nat, NEW x \in 0 .. d
    PROVE  (x * k) \div d \in 0 .. k
  <1> DEFINE q == (x * k) \div d
  <1>1. x * k \in Nat /\ x * k <= d * k
    OBVIOUS
  <1>2. q \in Int /\ d * q <= x * k /\ x * k < d * q + d
    BY <1>1
  <1>3. d * q <= d * k
    BY <1>1, <1>2
  <1> HIDE DEF q
  <1>4. q <= k
    BY <1>2, <1>3
  <1>5. q >= 0
    BY <1>1, <1>2
  <1> QED
    BY <1>2, <1>4, <1>5 DEF q

\* A larger share of an amount is no smaller.
LEMMA LargerShareOfProduct ==
    ASSUME NEW d \in Nat \ {0}, NEW k \in Nat, NEW x \in 0 .. d, NEW y \in 0 .. d, x <= y
    PROVE  (x * k) \div d <= (y * k) \div d
  <1> DEFINE q == (x * k) \div d
             r == (y * k) \div d
  <1>1. x * k \in Nat /\ y * k \in Nat /\ x * k <= y * k
    OBVIOUS
  <1>2. q \in Int /\ d * q <= x * k /\ x * k < d * q + d
    BY <1>1
  <1>3. r \in Int /\ d * r <= y * k /\ y * k < d * r + d
    BY <1>1
  <1>4. d * q < d * r + d
    BY <1>1, <1>2, <1>3
  <1> HIDE DEF q, r
  <1>5. d * q < d * (r + 1)
    BY <1>3, <1>4
  <1>6. q < r + 1
    BY <1>2, <1>3, <1>5
  <1> QED
    BY <1>2, <1>3, <1>6 DEF q, r

\* The breakpoints of an accepted curve are ordered, and so are its worths.
LEMMA CurveIsAccepted ==
    /\ Policy.softExit \in Nat /\ Policy.exit \in Nat /\ Policy.entry \in Nat /\ Policy.full \in Nat
    /\ Policy.softExit < Policy.exit /\ Policy.exit < Policy.entry /\ Policy.entry < Policy.full
    /\ Policy.softExitFraction \in Mille /\ Policy.exitFraction \in Mille
    /\ Policy.entryFraction \in Mille
    /\ Policy.softExitFraction <= Policy.exitFraction
    /\ Policy.exitFraction <= Policy.entryFraction
  <1>1. CurveAccepted(Policy)
    BY AllocationPolicy DEF Accepted
  <1> QED
    BY <1>1, SMTT(30) DEF CurveAccepted

\* A straight piece of the curve, rounded down.
Piece(low, high, base, top, z) == base + ((z - low) * (top - base)) \div (high - low)

\* One piece of the curve stays between the worths of its ends ...
LEMMA PieceIsBetween ==
    ASSUME NEW low \in Nat, NEW high \in Nat, low < high,
           NEW base \in Mille, NEW top \in Mille, base <= top,
           NEW x \in low .. high
    PROVE  Piece(low, high, base, top, x) \in base .. top
  <1> DEFINE d == high - low
             k == top - base
             q == ((x - low) * k) \div d
  <1>1. d \in Nat \ {0} /\ k \in Nat /\ x - low \in 0 .. d
    BY DEF Mille
  <1> HIDE DEF d, k
  <1>2. q \in 0 .. k
    BY <1>1, ShareOfProduct
  <1> HIDE DEF q
  <1>3. base + q \in base .. top
    BY <1>2 DEF Mille, k
  <1> QED
    BY <1>3 DEF q, d, k, Piece

\* ... and climbs.
LEMMA PieceClimbs ==
    ASSUME NEW low \in Nat, NEW high \in Nat, low < high,
           NEW base \in Mille, NEW top \in Mille, base <= top,
           NEW x \in low .. high, NEW y \in low .. high, x <= y
    PROVE  Piece(low, high, base, top, x) <= Piece(low, high, base, top, y)
  <1> DEFINE d == high - low
             k == top - base
             q(z) == ((z - low) * k) \div d
  <1>1. d \in Nat \ {0} /\ k \in Nat /\ x - low \in 0 .. d /\ y - low \in 0 .. d
        /\ x - low <= y - low
    BY DEF Mille
  <1> HIDE DEF d, k
  <1>2. q(x) \in 0 .. k /\ q(y) \in 0 .. k
    BY <1>1, ShareOfProduct
  <1>3. q(x) <= q(y)
    BY <1>1, LargerShareOfProduct
  <1> HIDE DEF q
  <1>4. base + q(x) <= base + q(y)
    BY <1>1, <1>2, <1>3 DEF Mille
  <1> QED
    BY <1>4 DEF q, d, k, Piece

\* The three pieces, each without its lower end, and the two plateaus.
LowerPiece(z) == Policy.softExit < z /\ z <= Policy.exit
MiddlePiece(z) == Policy.exit < z /\ z <= Policy.entry
UpperPiece(z) == Policy.entry < z /\ z <= Policy.full

\* What the curve grants lies between the worths of the breakpoints about it.
Within(z) ==
    /\ z <= Policy.softExit => Curve(z) = Policy.softExitFraction
    /\ LowerPiece(z) => Curve(z) \in Policy.softExitFraction .. Policy.exitFraction
    /\ MiddlePiece(z) => Curve(z) \in Policy.exitFraction .. Policy.entryFraction
    /\ UpperPiece(z) => Curve(z) \in Policy.entryFraction .. 1000
    /\ Policy.full < z => Curve(z) = 1000

\* satellite_target_fraction reads a score off the piece it lies on.
LEMMA CurveByPieces ==
    ASSUME NEW z \in Nat
    PROVE  /\ z <= Policy.softExit => Curve(z) = Policy.softExitFraction
           /\ LowerPiece(z) =>
                Curve(z) = Piece(Policy.softExit, Policy.exit,
                                 Policy.softExitFraction, Policy.exitFraction, z)
           /\ MiddlePiece(z) =>
                Curve(z) = Piece(Policy.exit, Policy.entry,
                                 Policy.exitFraction, Policy.entryFraction, z)
           /\ UpperPiece(z) =>
                Curve(z) = Piece(Policy.entry, Policy.full, Policy.entryFraction, 1000, z)
           /\ Policy.full < z => Curve(z) = 1000
  <1>1. /\ LowerPiece(z) => ~(z <= Policy.softExit) /\ z <= Policy.exit
        /\ MiddlePiece(z) => /\ ~(z <= Policy.softExit) /\ ~(z <= Policy.exit)
                        /\ z <= Policy.entry
        /\ UpperPiece(z) => /\ ~(z <= Policy.softExit) /\ ~(z <= Policy.exit)
                       /\ ~(z <= Policy.entry) /\ z <= Policy.full
        /\ Policy.full < z => /\ ~(z <= Policy.softExit) /\ ~(z <= Policy.exit)
                              /\ ~(z <= Policy.entry) /\ ~(z <= Policy.full)
    BY CurveIsAccepted DEF LowerPiece, MiddlePiece, UpperPiece
  <1>2. Curve(z) =
            IF z <= Policy.softExit THEN Policy.softExitFraction
            ELSE IF z <= Policy.exit
                 THEN Piece(Policy.softExit, Policy.exit,
                            Policy.softExitFraction, Policy.exitFraction, z)
            ELSE IF z <= Policy.entry
                 THEN Piece(Policy.exit, Policy.entry,
                            Policy.exitFraction, Policy.entryFraction, z)
            ELSE IF z <= Policy.full
                 THEN Piece(Policy.entry, Policy.full, Policy.entryFraction, 1000, z)
            ELSE 1000
    BY DEF Curve, Piece
  <1> QED
    BY <1>1, <1>2

\* satellite_target_fraction stays between what its breakpoints say.
LEMMA CurveIsWithin ==
    ASSUME NEW z \in Nat
    PROVE  Within(z)
  <1>1. ASSUME LowerPiece(z)
       PROVE  Curve(z) \in Policy.softExitFraction .. Policy.exitFraction
    <2>0. /\ Policy.softExit \in Nat /\ Policy.exit \in Nat /\ Policy.softExit < Policy.exit
          /\ Policy.softExitFraction \in Mille /\ Policy.exitFraction \in Mille /\ Policy.softExitFraction <= Policy.exitFraction
      BY CurveIsAccepted
    <2>1. z \in Policy.softExit .. Policy.exit
      BY <1>1, CurveIsAccepted DEF LowerPiece
    <2>2. Piece(Policy.softExit, Policy.exit, Policy.softExitFraction, Policy.exitFraction, z)
            \in Policy.softExitFraction .. Policy.exitFraction
      BY <2>0, <2>1, PieceIsBetween, ZenonT(90)
    <2> QED
      BY <1>1, <2>2, CurveByPieces
  <1>2. ASSUME MiddlePiece(z)
       PROVE  Curve(z) \in Policy.exitFraction .. Policy.entryFraction
    <2>0. /\ Policy.exit \in Nat /\ Policy.entry \in Nat /\ Policy.exit < Policy.entry
          /\ Policy.exitFraction \in Mille /\ Policy.entryFraction \in Mille /\ Policy.exitFraction <= Policy.entryFraction
      BY CurveIsAccepted
    <2>1. z \in Policy.exit .. Policy.entry
      BY <1>2, CurveIsAccepted DEF MiddlePiece
    <2>2. Piece(Policy.exit, Policy.entry, Policy.exitFraction, Policy.entryFraction, z)
            \in Policy.exitFraction .. Policy.entryFraction
      BY <2>0, <2>1, PieceIsBetween, ZenonT(90)
    <2> QED
      BY <1>2, <2>2, CurveByPieces
  <1>3. ASSUME UpperPiece(z)
       PROVE  Curve(z) \in Policy.entryFraction .. 1000
    <2> DEFINE whole == 1000
    <2>0. /\ Policy.entry \in Nat /\ Policy.full \in Nat /\ Policy.entry < Policy.full
          /\ Policy.entryFraction \in Mille /\ whole \in Mille
          /\ Policy.entryFraction <= whole
      BY CurveIsAccepted, SMTT(30) DEF Mille
    <2>1. z \in Policy.entry .. Policy.full
      BY <1>3, CurveIsAccepted DEF UpperPiece
    <2>2. Curve(z) = Piece(Policy.entry, Policy.full, Policy.entryFraction, whole, z)
      BY <1>3, CurveByPieces
    <2> HIDE DEF whole
    <2>3. Piece(Policy.entry, Policy.full, Policy.entryFraction, whole, z)
            \in Policy.entryFraction .. whole
      BY <2>0, <2>1, PieceIsBetween, ZenonT(90)
    <2> QED
      BY <2>2, <2>3 DEF whole
  <1> QED
    BY <1>1, <1>2, <1>3, CurveByPieces DEF Within

\* Two scores of one piece are in the order of the curve.
LEMMA CurveClimbsInPieces ==
    ASSUME NEW x \in Nat, NEW y \in Nat, x <= y,
           \/ LowerPiece(x) /\ LowerPiece(y)
           \/ MiddlePiece(x) /\ MiddlePiece(y)
           \/ UpperPiece(x) /\ UpperPiece(y)
    PROVE  Curve(x) <= Curve(y)
  <1>1. CASE LowerPiece(x) /\ LowerPiece(y)
    <2>0. /\ Policy.softExit \in Nat /\ Policy.exit \in Nat /\ Policy.softExit < Policy.exit
          /\ Policy.softExitFraction \in Mille /\ Policy.exitFraction \in Mille /\ Policy.softExitFraction <= Policy.exitFraction
      BY CurveIsAccepted
    <2>1. x \in Policy.softExit .. Policy.exit /\ y \in Policy.softExit .. Policy.exit
      BY <1>1, CurveIsAccepted DEF LowerPiece
    <2>2. Piece(Policy.softExit, Policy.exit, Policy.softExitFraction, Policy.exitFraction, x)
            <= Piece(Policy.softExit, Policy.exit, Policy.softExitFraction, Policy.exitFraction, y)
      BY <2>0, <2>1, PieceClimbs, ZenonT(90)
    <2> QED
      BY <1>1, <2>2, CurveByPieces
  <1>2. CASE MiddlePiece(x) /\ MiddlePiece(y)
    <2>0. /\ Policy.exit \in Nat /\ Policy.entry \in Nat /\ Policy.exit < Policy.entry
          /\ Policy.exitFraction \in Mille /\ Policy.entryFraction \in Mille /\ Policy.exitFraction <= Policy.entryFraction
      BY CurveIsAccepted
    <2>1. x \in Policy.exit .. Policy.entry /\ y \in Policy.exit .. Policy.entry
      BY <1>2, CurveIsAccepted DEF MiddlePiece
    <2>2. Piece(Policy.exit, Policy.entry, Policy.exitFraction, Policy.entryFraction, x)
            <= Piece(Policy.exit, Policy.entry, Policy.exitFraction, Policy.entryFraction, y)
      BY <2>0, <2>1, PieceClimbs, ZenonT(90)
    <2> QED
      BY <1>2, <2>2, CurveByPieces
  <1>3. CASE UpperPiece(x) /\ UpperPiece(y)
    <2>4. /\ Policy.entry \in Nat /\ Policy.full \in Nat /\ Policy.entry < Policy.full
          /\ Policy.entryFraction \in Mille /\ Policy.entryFraction <= 1000
      BY CurveIsAccepted, SMTT(40) DEF Mille
    <2> DEFINE whole == 1000
    <2>0. /\ Policy.entry \in Nat /\ Policy.full \in Nat /\ Policy.entry < Policy.full
          /\ Policy.entryFraction \in Mille /\ whole \in Mille
          /\ Policy.entryFraction <= whole
      BY <2>4 DEF Mille
    <2>1. x \in Policy.entry .. Policy.full /\ y \in Policy.entry .. Policy.full
      BY <1>3, CurveIsAccepted DEF UpperPiece
    <2>2. /\ Curve(x) = Piece(Policy.entry, Policy.full, Policy.entryFraction, whole, x)
          /\ Curve(y) = Piece(Policy.entry, Policy.full, Policy.entryFraction, whole, y)
      BY <1>3, CurveByPieces
    <2> HIDE DEF whole
    <2>3. Piece(Policy.entry, Policy.full, Policy.entryFraction, whole, x)
            <= Piece(Policy.entry, Policy.full, Policy.entryFraction, whole, y)
      BY <2>0, <2>1, PieceClimbs, ZenonT(90)
    <2> QED
      BY <2>2, <2>3
  <1> QED
    BY <1>1, <1>2, <1>3

\* satellite_target_fraction: under every policy the parser accepts, a better
\* score never earns a smaller share of the envelope, across the breakpoints
\* and the roundings, and the share is one.
THEOREM CurveClimbs ==
    ASSUME NEW x \in Nat, NEW y \in Nat, x <= y
    PROVE  Curve(x) \in Mille /\ Curve(x) <= Curve(y)
  <1> DEFINE a == Policy.softExit
             b == Policy.exit
             c == Policy.entry
             d == Policy.full
             r == Policy.softExitFraction
             s == Policy.exitFraction
             t == Policy.entryFraction
             cx == Curve(x)
             cy == Curve(y)
  <1>1. /\ a \in Nat /\ b \in Nat /\ c \in Nat /\ d \in Nat
        /\ a < b /\ b < c /\ c < d
        /\ r \in Mille /\ s \in Mille /\ t \in Mille
        /\ r <= s /\ s <= t
    BY CurveIsAccepted
  <1>2. /\ Within(x) /\ Within(y)
        /\ (LowerPiece(x) /\ LowerPiece(y)) \/ (MiddlePiece(x) /\ MiddlePiece(y))
           \/ (UpperPiece(x) /\ UpperPiece(y)) => cx <= cy
    BY CurveIsWithin, CurveClimbsInPieces
  <1>3. /\ x <= a => cx = r
        /\ a < x /\ x <= b => cx \in r .. s
        /\ b < x /\ x <= c => cx \in s .. t
        /\ c < x /\ x <= d => cx \in t .. 1000
        /\ d < x => cx = 1000
    BY <1>2, ZenonT(60) DEF Within, LowerPiece, MiddlePiece, UpperPiece
  <1>4. /\ y <= a => cy = r
        /\ a < y /\ y <= b => cy \in r .. s
        /\ b < y /\ y <= c => cy \in s .. t
        /\ c < y /\ y <= d => cy \in t .. 1000
        /\ d < y => cy = 1000
    BY <1>2, ZenonT(60) DEF Within, LowerPiece, MiddlePiece, UpperPiece
  <1>5. /\ a < x /\ x <= b /\ a < y /\ y <= b => cx <= cy
        /\ b < x /\ x <= c /\ b < y /\ y <= c => cx <= cy
        /\ c < x /\ x <= d /\ c < y /\ y <= d => cx <= cy
    BY <1>2, Zenon DEF LowerPiece, MiddlePiece, UpperPiece
  <1> HIDE DEF a, b, c, d, r, s, t, cx, cy
  <1>6. cx \in Mille
    <2>1. x <= a \/ (a < x /\ x <= b) \/ (b < x /\ x <= c) \/ (c < x /\ x <= d) \/ d < x
      BY <1>1
    <2>2. cx \in r .. s \/ cx \in s .. t \/ cx \in t .. 1000 \/ cx = r \/ cx = 1000
      BY <2>1, <1>3, ZenonT(60)
    <2>3. /\ r .. s \subseteq Mille /\ s .. t \subseteq Mille
          /\ t .. 1000 \subseteq Mille /\ {r, 1000} \subseteq Mille
      BY <1>1 DEF Mille
    <2> QED
      BY <2>2, <2>3
  <1>7. cy \in Mille
    <2>1. y <= a \/ (a < y /\ y <= b) \/ (b < y /\ y <= c) \/ (c < y /\ y <= d) \/ d < y
      BY <1>1
    <2>2. cy \in r .. s \/ cy \in s .. t \/ cy \in t .. 1000 \/ cy = r \/ cy = 1000
      BY <2>1, <1>4, ZenonT(60)
    <2>3. /\ r .. s \subseteq Mille /\ s .. t \subseteq Mille
          /\ t .. 1000 \subseteq Mille /\ {r, 1000} \subseteq Mille
      BY <1>1 DEF Mille
    <2> QED
      BY <2>2, <2>3
  <1>8. /\ x <= a => cx = r
        /\ a < x /\ x <= b => r <= cx /\ cx <= s
        /\ b < x /\ x <= c => s <= cx /\ cx <= t
        /\ c < x /\ x <= d => t <= cx /\ cx <= 1000
        /\ d < x => cx = 1000
    BY <1>1, <1>3, <1>6
  <1>9. /\ y <= a => cy = r
        /\ a < y /\ y <= b => r <= cy /\ cy <= s
        /\ b < y /\ y <= c => s <= cy /\ cy <= t
        /\ c < y /\ y <= d => t <= cy /\ cy <= 1000
        /\ d < y => cy = 1000
    BY <1>1, <1>4, <1>7
  <1>10. cx <= cy
    BY <1>1, <1>5, <1>6, <1>7, <1>8, <1>9 DEF Mille
  <1> QED
    BY <1>6, <1>10 DEF cx, cy

\* What the state of the events allows is a fraction.
LEMMA EventsAllow ==
    ASSUME NEW event \in Events
    PROVE  EventMultiplier(event) \in Mille
  <1>1. EventsAccepted(Policy)
    BY AllocationPolicy DEF Accepted
  <1>2. Fraction(Policy.eventMultiplier[event])
    BY <1>1 DEF EventsAccepted, Events
  <1> QED
    BY <1>2 DEF EventMultiplier, Fraction, Mille

\* compose_deployment_factors: whatever is known, no satellite is bought for
\* more than any one of the allowances grants, that of the market overlays
\* included, and none at all by a policy that allows a confidence nothing.
THEOREM AllowancesBind ==
    ASSUME NEW v, v.event \in Events, v.overlay \in Mille, NEW holding, NEW score
    PROVE  /\ DeploymentFactor(v, holding, score) \in Mille
           /\ DeploymentFactor(v, holding, score) <= v.overlay
           /\ DeploymentFactor(v, holding, score) <= EventMultiplier(v.event)
           /\ DeploymentFactor(v, holding, score) <= ConfidenceAllowance(Policy, score)
           /\ EvidenceClass(v) = "LIMITED" =>
                DeploymentFactor(v, holding, score) <= Policy.limitedFactor
  <1> DEFINE e == EventMultiplier(v.event)
             c == ConfidenceAllowance(Policy, score)
             o == v.overlay
             p == CASE EvidenceClass(v) = "ACTIONABLE" -> 1000
                    [] EvidenceClass(v) = "LIMITED" -> Policy.limitedFactor
                    [] EvidenceClass(v) = "NOT_ACTIONABLE" -> 0
  <1>1. e \in Mille
    BY EventsAllow
  <1>2. AllowancesAccepted(Policy)
    BY AllocationPolicy DEF Accepted
  <1>3. c \in Mille
    <2>1. Band(Policy, score) \in {"HIGH", "MEDIUM", "LOW"}
      BY DEF Band
    <2>2. Fraction(Policy.confidenceAllowance[Band(Policy, score)])
      BY <1>2, <2>1 DEF AllowancesAccepted
    <2> QED
      BY <2>2 DEF Mille, ConfidenceAllowance, Fraction
  <1>4. Policy.limitedFactor \in Mille
    BY <1>2 DEF AllowancesAccepted, Fraction
  <1>5. EvidenceClass(v) \in {"ACTIONABLE", "LIMITED", "NOT_ACTIONABLE"}
    BY DEF EvidenceClass
  <1>6. p \in Mille /\ (EvidenceClass(v) = "LIMITED" => p = Policy.limitedFactor)
    BY <1>4, <1>5 DEF Mille
  <1>0. o \in Mille
    BY DEF o
  <1>7. DeploymentFactor(v, holding, score) =
            IF Eligibility(v, holding) # "ELIGIBLE_INCREASE" THEN 0 ELSE Least({e, c, o, p})
    BY DEF DeploymentFactor
  <1> HIDE DEF e, c, o, p
  <1>8. \E m \in {e, c, o, p} : m <= e /\ m <= c /\ m <= o /\ m <= p
    BY <1>0, <1>1, <1>3, <1>6 DEF Mille
  <1>9. /\ Least({e, c, o, p}) \in {e, c, o, p}
        /\ \A n \in {e, c, o, p} : Least({e, c, o, p}) <= n
    BY <1>8 DEF Least
  <1> DEFINE least == Least({e, c, o, p})
  <1>10. least \in Mille /\ least <= e /\ least <= c /\ least <= o /\ least <= p
    <2>1. least \in {e, c, o, p}
      BY <1>9
    <2>2. least <= e /\ least <= c /\ least <= o /\ least <= p
      BY <1>9
    <2>3. {e, c, o, p} \subseteq Mille
      BY <1>0, <1>1, <1>3, <1>6
    <2> QED
      BY <2>1, <2>2, <2>3
  <1> HIDE DEF least
  <1>11. DeploymentFactor(v, holding, score) \in {0, least}
    BY <1>7 DEF least
  <1>12. \A n \in {0, least} : n \in Mille /\ n <= e /\ n <= c /\ n <= o /\ n <= p
    BY <1>0, <1>1, <1>3, <1>6, <1>10 DEF Mille
  <1> QED
    BY <1>6, <1>11, <1>12 DEF e, c, o

-----------------------------------------------------------------------------
(* The scores, whatever was read.                                          *)

\* The readings of factors are in their ranges.
Readable(readings) ==
    \A f \in DOMAIN readings :
        /\ readings[f].score \in 0 .. 100 /\ readings[f].part \in Mille
        /\ readings[f].fresh \in Mille /\ readings[f].quality \in Mille

\* calculate_factor_reliability: a reading is no more reliable than its
\* sources are good, and not at all where it is out of date.
LEMMA ReliabilityIsBounded ==
    ASSUME NEW readings, Readable(readings), NEW f \in DOMAIN readings
    PROVE  /\ Reliability(readings[f]) \in Mille
           /\ Reliability(readings[f]) <= readings[f].quality
           /\ readings[f].fresh = 0 => Reliability(readings[f]) = 0
  <1> DEFINE part == readings[f].part
             fresh == readings[f].fresh
             quality == readings[f].quality
             million == 1000000
             whole == part * fresh
             q == (whole * quality) \div million
  <1>1. part \in Mille /\ fresh \in Mille /\ quality \in Mille
    BY DEF Readable
  <1>2. Reliability(readings[f]) = q
    BY SMT DEF Reliability
  <1> HIDE DEF part, fresh, quality
  <1>3. whole \in Int /\ whole >= 0 /\ whole <= 1000 * fresh
    BY <1>1 DEF Mille
  <1> HIDE DEF whole
  <1>4. whole \in Nat /\ whole <= million
    BY <1>1, <1>3, SMT DEF Mille
  <1>7. million \in Nat \ {0}
    BY SMT
  <1> HIDE DEF million
  <1>8. whole \in 0 .. million
    BY <1>4, <1>7
  <1>9. quality \in Nat
    BY <1>1 DEF Mille
  <1>5. q \in 0 .. quality
    BY <1>7, <1>8, <1>9, ShareOfProduct, Zenon
  <1>6. fresh = 0 => q = 0
    <2>1. fresh = 0 => whole * quality = 0
      BY <1>1 DEF whole
    <2>2. 0 \div million = 0
      BY <1>7
    <2> QED
      BY <2>1, <2>2
  <1> HIDE DEF q
  <1> QED
    BY <1>1, <1>2, <1>5, <1>6, SMTT(40) DEF Mille, quality, fresh

\* The weights a profile gives to what was read.
LEMMA WeightsAreBounded ==
    ASSUME NEW profile, Adds(profile, 1000), NEW readings, Readable(readings),
           NEW S, S = Weighed(profile, readings), NEW w, w = Weight(profile, readings)
    PROVE  /\ IsFiniteSet(S) /\ S \subseteq DOMAIN profile /\ S \subseteq DOMAIN readings
           /\ DOMAIN w = S /\ Coverage(profile, readings) = SumOver(w, S)
           /\ \A f \in S : /\ w[f] \in Nat /\ w[f] <= 1000 * profile[f]
                           /\ w[f] <= profile[f] * readings[f].quality
                           /\ readings[f].fresh = 0 => w[f] = 0
           /\ \A f \in DOMAIN profile : profile[f] \in Nat
           /\ SumOver(profile, DOMAIN profile) = 1000
           /\ IsFiniteSet(DOMAIN profile)
  <1>1. /\ IsFiniteSet(DOMAIN profile) /\ \A f \in DOMAIN profile : profile[f] \in Mille
        /\ Total(profile) = 1000
    BY DEF Mille, Adds
  <1>2. S \subseteq DOMAIN profile /\ S \subseteq DOMAIN readings
    BY DEF Weighed
  <1>3. IsFiniteSet(S)
    BY <1>1, <1>2, FS_Subset
  <1>4. DOMAIN w = S /\ \A f \in S : w[f] = profile[f] * Reliability(readings[f])
    BY DEF Weight
  <1>5. Coverage(profile, readings) = SumOver(w, S)
    BY <1>4 DEF Coverage, Total
  <1>6. ASSUME NEW f \in S
        PROVE  /\ w[f] \in Nat /\ w[f] <= 1000 * profile[f]
               /\ w[f] <= profile[f] * readings[f].quality
               /\ readings[f].fresh = 0 => w[f] = 0
    <2> DEFINE r == Reliability(readings[f])
               x == profile[f]
               q == readings[f].quality
    <2>1. f \in DOMAIN readings /\ x \in Mille /\ w[f] = x * r
      BY <1>1, <1>2, <1>4
    <2>2. r \in Mille /\ r <= q /\ q \in Mille /\ (readings[f].fresh = 0 => r = 0)
      BY <2>1, ReliabilityIsBounded DEF Readable
    <2> HIDE DEF r, x, q
    <2>3. x * r \in Nat /\ x * r <= 1000 * x /\ x * r <= x * q /\ (r = 0 => x * r = 0)
      BY <2>1, <2>2 DEF Mille
    <2>4. /\ w[f] \in Nat /\ w[f] <= 1000 * x /\ w[f] <= x * q
          /\ readings[f].fresh = 0 => w[f] = 0
      BY <2>1, <2>2, <2>3
    <2> QED
      BY <2>4, Zenon DEF x, q
  <1>7. SumOver(profile, DOMAIN profile) = 1000
    BY <1>1 DEF Total
  <1>8. \A f \in DOMAIN profile : profile[f] \in Nat
    BY <1>1 DEF Mille
  <1> QED
    BY <1>1, <1>2, <1>3, <1>4, <1>5, <1>6, <1>7, <1>8

\* The coverage is a part of the profile in millionths.
LEMMA CoverageIsPart ==
    ASSUME NEW profile, Adds(profile, 1000), NEW readings, Readable(readings)
    PROVE  Coverage(profile, readings) \in Nat /\ Coverage(profile, readings) <= 1000 * 1000
  <1> DEFINE S == Weighed(profile, readings)
             w == Weight(profile, readings)
             full == [f \in S |-> 1000 * profile[f]]
             c == SumOver(profile, S)
  <1>1. /\ IsFiniteSet(S) /\ S \subseteq DOMAIN profile
        /\ Coverage(profile, readings) = SumOver(w, S)
        /\ \A f \in S : w[f] \in Nat /\ w[f] <= 1000 * profile[f]
        /\ \A f \in DOMAIN profile : profile[f] \in Nat
        /\ SumOver(profile, DOMAIN profile) = 1000
        /\ IsFiniteSet(DOMAIN profile)
    BY WeightsAreBounded
  <1> HIDE DEF S, w
  <1>2. SumOver(w, S) \in Nat
    BY <1>1, SumOfNaturals
  <1>3. \A f \in S : profile[f] \in Int /\ full[f] = 1000 * profile[f] /\ full[f] \in Int
    BY <1>1
  <1>4. SumOver(full, S) = 1000 * c
    <2> HIDE DEF full
    <2> QED
      BY <1>1, <1>3, SumOfMultiples
  <1>5. SumOver(w, S) <= SumOver(full, S)
    <2>1. \A f \in S : w[f] \in Int /\ full[f] \in Int /\ w[f] <= full[f]
      BY <1>1, <1>3
    <2> HIDE DEF full
    <2> QED
      BY <1>1, <2>1, SumMonotone
  <1>6. c \in Nat /\ c <= 1000
    <2>1. SumOver(profile, S) \in Nat /\ SumOver(profile, S) <= SumOver(profile, DOMAIN profile)
      BY <1>1, SumOfNaturals
    <2> QED
      BY <1>1, <2>1
  <1> HIDE DEF c
  <1> QED
    BY <1>1, <1>2, <1>4, <1>5, <1>6

\* The lean from 50 is a mean of the leans of the readings, times the coverage.
LEMMA LeanIsMean ==
    ASSUME NEW profile, Adds(profile, 1000), NEW readings, Readable(readings),
           NEW low \in Int, NEW high \in Int,
           \A f \in Weighed(profile, readings) :
               low <= readings[f].score /\ readings[f].score <= high
    PROVE  /\ Lean(profile, readings) \in Int
           /\ (low - 50) * Coverage(profile, readings) <= Lean(profile, readings)
           /\ Lean(profile, readings) <= (high - 50) * Coverage(profile, readings)
  <1> DEFINE S == Weighed(profile, readings)
             w == Weight(profile, readings)
             lean == [f \in S |-> w[f] * (readings[f].score - 50)]
             under == [f \in S |-> (low - 50) * w[f]]
             over == [f \in S |-> (high - 50) * w[f]]
  <1>1. /\ IsFiniteSet(S) /\ S \subseteq DOMAIN readings
        /\ Coverage(profile, readings) = SumOver(w, S)
        /\ \A f \in S : w[f] \in Nat
    BY WeightsAreBounded
  <1>2. Lean(profile, readings) = SumOver(lean, S)
    <2>1. DOMAIN lean = S
      OBVIOUS
    <2> QED
      BY <2>1 DEF Lean, Total
  <1>3. \A f \in S : low <= readings[f].score /\ readings[f].score <= high
    OBVIOUS
  <1> HIDE DEF S, w
  <1>4. ASSUME NEW f \in S
        PROVE  /\ w[f] \in Int
               /\ under[f] = (low - 50) * w[f] /\ over[f] = (high - 50) * w[f]
               /\ under[f] \in Int /\ over[f] \in Int /\ lean[f] \in Int
               /\ under[f] <= lean[f] /\ lean[f] <= over[f]
    <2> DEFINE z == readings[f].score
               x == w[f]
    <2>1. z \in 0 .. 100 /\ x \in Nat /\ low <= z /\ z <= high
      BY <1>1, <1>3 DEF Readable
    <2>2. under[f] = (low - 50) * x /\ over[f] = (high - 50) * x /\ lean[f] = x * (z - 50)
      OBVIOUS
    <2> HIDE DEF z, x, under, over, lean
    <2>3. /\ (low - 50) * x \in Int /\ (high - 50) * x \in Int /\ x * (z - 50) \in Int
          /\ (low - 50) * x <= x * (z - 50) /\ x * (z - 50) <= (high - 50) * x
      BY <2>1
    <2> QED
      BY <2>1, <2>2, <2>3 DEF x
  <1> HIDE DEF lean, under, over
  <1>5. SumOver(under, S) = (low - 50) * SumOver(w, S)
    <2> DEFINE c == low - 50
    <2>1. c \in Int /\ \A f \in S : w[f] \in Int /\ under[f] = c * w[f]
      BY <1>4
    <2> HIDE DEF c
    <2>2. SumOver(under, S) = c * SumOver(w, S)
      BY <1>1, <2>1, SumOfMultiples
    <2> QED
      BY <2>2 DEF c
  <1>6. SumOver(over, S) = (high - 50) * SumOver(w, S)
    <2> DEFINE c == high - 50
    <2>1. c \in Int /\ \A f \in S : w[f] \in Int /\ over[f] = c * w[f]
      BY <1>4
    <2> HIDE DEF c
    <2>2. SumOver(over, S) = c * SumOver(w, S)
      BY <1>1, <2>1, SumOfMultiples
    <2> QED
      BY <2>2 DEF c
  <1>7. SumOver(under, S) <= SumOver(lean, S)
    BY <1>1, <1>4, SumMonotone
  <1>8. SumOver(lean, S) <= SumOver(over, S)
    BY <1>1, <1>4, SumMonotone
  <1>9. SumOver(lean, S) \in Int
    BY <1>1, <1>4, SumType
  <1> QED
    BY <1>1, <1>2, <1>5, <1>6, <1>7, <1>8, <1>9

\* A quotient lies between the factors its dividend lies between.
LEMMA QuotientIsBetween ==
    ASSUME NEW c \in Nat \ {0}, NEW l \in Int, NEW a \in Int, NEW b \in Int,
           a * c <= l, l <= b * c
    PROVE  l \div c \in Int /\ a <= l \div c /\ l \div c <= b
  <1> DEFINE q == l \div c
  <1>1. q \in Int /\ c * q <= l /\ l < c * q + c
    OBVIOUS
  <1> HIDE DEF q
  <1>2. c * q <= b * c /\ a * c < c * (q + 1)
    BY <1>1
  <1>3. q <= b /\ a < q + 1
    BY <1>1, <1>2
  <1> QED
    BY <1>1, <1>3 DEF q

\* coverage_normalized_score: a score is a mean of what was read; it is none
\* where nothing was.
LEMMA NormalizedIsMean ==
    ASSUME NEW p, p.minNormal \in 1 .. 1000,
           NEW profile, Adds(profile, 1000), NEW readings, Readable(readings),
           NEW low \in Int, NEW high \in Int,
           \A f \in Weighed(profile, readings) :
               low <= readings[f].score /\ readings[f].score <= high
    PROVE  \/ Normalized(p, profile, readings) = None
           \/ /\ Normalized(p, profile, readings) \in Int
              /\ low <= Normalized(p, profile, readings)
              /\ Normalized(p, profile, readings) <= high
  <1> DEFINE c == Coverage(profile, readings)
             l == Lean(profile, readings)
             a == low - 50
             b == high - 50
  <1>1. c \in Nat /\ c <= 1000 * 1000
    BY CoverageIsPart
  <1>2. l \in Int /\ a * c <= l /\ l <= b * c
    BY LeanIsMean
  <1>3. Normalized(p, profile, readings) = IF c < 1000 * p.minNormal THEN None ELSE 50 + l \div c
    BY DEF Normalized
  <1>4. a \in Int /\ b \in Int
    OBVIOUS
  <1> HIDE DEF c, l, a, b
  <1>5. CASE c < 1000 * p.minNormal
    BY <1>3, <1>5
  <1>6. CASE ~(c < 1000 * p.minNormal)
    <2>1. c \in Nat \ {0}
      BY <1>1, <1>6, SMTT(30)
    <2>2. l \div c \in Int /\ a <= l \div c /\ l \div c <= b
      BY <1>2, <1>4, <2>1, QuotientIsBetween
    <2>3. Normalized(p, profile, readings) = 50 + l \div c
      BY <1>3, <1>6
    <2> DEFINE q == l \div c
    <2>4. q \in Int /\ a <= q /\ q <= b /\ Normalized(p, profile, readings) = 50 + q
      BY <2>2, <2>3
    <2> HIDE DEF q
    <2> QED
      BY <2>4 DEF a, b
  <1> QED
    BY <1>5, <1>6

\* coverage_normalized_score answers a score of 0 .. 100, or none.
LEMMA ScoreIsPoints ==
    ASSUME NEW p, p.minNormal \in 1 .. 1000,
           NEW profile, Adds(profile, 1000), NEW readings, Readable(readings)
    PROVE  Normalized(p, profile, readings) = None \/ Normalized(p, profile, readings) \in 0 .. 100
  <1>1. \A f \in Weighed(profile, readings) : 0 <= readings[f].score /\ readings[f].score <= 100
    BY SMTT(30) DEF Weighed, Readable
  <1>2. 0 \in Int /\ 100 \in Int
    OBVIOUS
  <1>3. \/ Normalized(p, profile, readings) = None
        \/ /\ Normalized(p, profile, readings) \in Int
           /\ 0 <= Normalized(p, profile, readings)
           /\ Normalized(p, profile, readings) <= 100
    BY <1>1, <1>2, NormalizedIsMean
  <1> QED
    BY <1>3

\* The effective score is one too.
LEMMA EffectiveIsPoints ==
    ASSUME NEW profile, Adds(profile, 1000), NEW readings, Readable(readings)
    PROVE  Effective(profile, readings) \in 0 .. 100
  <1> DEFINE c == Coverage(profile, readings)
             l == Lean(profile, readings)
             million == 1000000
             q == l \div million
             a == -50
             b == 50
  <1>1. c \in Nat /\ c <= 1000 * 1000
    BY CoverageIsPart
  <1>2. \A f \in Weighed(profile, readings) : 0 <= readings[f].score /\ readings[f].score <= 100
    BY DEF Weighed, Readable
  <1>3. l \in Int /\ (0 - 50) * c <= l /\ l <= (100 - 50) * c
    <2>1. 0 \in Int /\ 100 \in Int
      OBVIOUS
    <2> QED
      BY <1>2, <2>1, LeanIsMean, ZenonT(60)
  <1>4. Effective(profile, readings) = 50 + q
    BY SMT DEF Effective
  <1> HIDE DEF c, l
  <1>m. million \in Nat \ {0} /\ million = 1000 * 1000
    BY SMT
  <1> HIDE DEF million
  <1>5. a \in Int /\ b \in Int /\ a * million <= l /\ l <= b * million
    BY <1>1, <1>3, <1>m
  <1>6. q \in Int /\ a <= q /\ q <= b
    <2> HIDE DEF a, b
    <2> QED
      BY <1>3, <1>5, <1>m, QuotientIsBetween
  <1> HIDE DEF q
  <1> QED
    BY <1>4, <1>6

-----------------------------------------------------------------------------
(* What a review knows of an asset.                                        *)

ProfileFor(a) == Policy.profiles[ProfileOf(Policy, a)]

\* Every asset has a profile and families that the parser accepted.
LEMMA ProfilesAddUp ==
    ASSUME NEW a \in Assets
    PROVE  /\ Adds(ProfileFor(a), 1000)
           /\ FamilyAccepted(FamiliesOf(Policy, a).market)
           /\ FamilyAccepted(FamiliesOf(Policy, a).structural)
  <1>1. ProfilesAccepted(Policy) /\ FamiliesAccepted(Policy) /\ Scorable(Policy, Assets)
    BY AllocationPolicy DEF Accepted
  <1>2. ProfileOf(Policy, a) \in DOMAIN Policy.profiles
    BY <1>1 DEF ProfileOf, ProfilesAccepted
  <1>3. Adds(ProfileFor(a), 1000)
    BY <1>1, <1>2 DEF ProfileFor, ProfilesAccepted
  <1>4. ASSUME NEW families \in {Policy.families, Policy.assetFamilies},
               NEW name \in DOMAIN families
        PROVE  FamilyAccepted(families[name].market) /\ FamilyAccepted(families[name].structural)
    BY <1>1, Zenon DEF FamiliesAccepted
  <1>5. CASE a \in DOMAIN Policy.assetFamilies
    <2>1. FamiliesOf(Policy, a) = Policy.assetFamilies[a]
      BY <1>5 DEF FamiliesOf
    <2> QED
      BY <1>3, <1>4, <1>5, <2>1
  <1>6. CASE a \notin DOMAIN Policy.assetFamilies
    <2>1. ProfileOf(Policy, a) \in DOMAIN Policy.families
      BY <1>1, <1>6 DEF Scorable, ProfileOf
    <2>2. FamiliesOf(Policy, a) = Policy.families[ProfileOf(Policy, a)]
      BY <1>6 DEF FamiliesOf
    <2> QED
      BY <1>3, <1>4, <2>1, <2>2
  <1> QED
    BY <1>5, <1>6

\* What the factors read is readable.
LEMMA EvidenceIsReadable ==
    ASSUME NEW name \in DOMAIN Evidence
    PROVE  Readable(Evidence[name])
  BY ReviewsAreTyped DEF Readable

\* What the liveness provider makes of the chain of an asset.
ChainOf(a, v) ==
    LET reached == Collected(DefaultSources(a), Settings[a], Heads(a, v), None, 0)
    IN IF v.heads = None THEN None ELSE IF reached = None THEN "FAILED" ELSE reached

\* The view of an asset with what is derived of it.
Derived(a, v, k) ==
    LET r == Evidence[v.readings]
    IN /\ k.chain = ChainOf(a, v)
       /\ k.score = Normalized(Policy, ProfileFor(a), r)
       /\ k.effective = Effective(ProfileFor(a), r)
       /\ k.confidence = Confidence(Policy, ProfileFor(a), r, v.complete)
       /\ k.missing = MissingOf(ProfileFor(a), r)
       /\ k.market = Normalized(Policy, FamiliesOf(Policy, a).market, r)
       /\ k.unheard = MissingOf(FamiliesOf(Policy, a).market, r)
       /\ k.structural = Normalized(Policy, FamiliesOf(Policy, a).structural, r)
       /\ k.permission \in {Coverage(FamiliesOf(Policy, a).market, r),
                            Coverage(ProfileFor(a), r)}

Views == [readings : DOMAIN Evidence, relative : 0 .. 100 \cup {None}, event : Events,
          complete : BOOLEAN, heads : DOMAIN Answers \cup {None},
          where : SUBSET {"GATE", "TARGET", "ASSESSMENT"}]

TieredViews == [readings : DOMAIN Evidence, relative : 0 .. 100 \cup {None}, event : Events,
                complete : BOOLEAN, tier : Mille, alpha : BOOLEAN,
                overlay : Mille, heads : DOMAIN Answers \cup {None},
                where : SUBSET {"GATE", "TARGET", "ASSESSMENT"}]

\* Nothing that is derived takes the name of anything in the view.
LEMMA KnownDerives ==
    ASSUME NEW a, NEW v,
           DOMAIN v \cap {"chain", "score", "effective", "confidence", "missing", "market",
                          "unheard", "structural", "permission"} = {}
    PROVE  Derived(a, v, Known(a, v))
  <1> DEFINE sc == Scored(Policy, a, Evidence[v.readings], v.complete)
             ch == [chain |-> ChainOf(a, v)]
             k == Join(v, Join(ch, sc))
  <1>1. Known(a, v) = k
    BY DEF Known, ChainOf
  <1>2. /\ DOMAIN sc = {"score", "effective", "confidence", "missing", "market", "unheard",
                        "structural", "permission"}
        /\ DOMAIN ch = {"chain"} /\ ch.chain = ChainOf(a, v)
    BY DEF Scored
  <1>3. /\ sc.score = Normalized(Policy, ProfileFor(a), Evidence[v.readings])
        /\ sc.effective = Effective(ProfileFor(a), Evidence[v.readings])
        /\ sc.confidence = Confidence(Policy, ProfileFor(a), Evidence[v.readings], v.complete)
        /\ sc.missing = MissingOf(ProfileFor(a), Evidence[v.readings])
        /\ sc.market = Normalized(Policy, FamiliesOf(Policy, a).market, Evidence[v.readings])
        /\ sc.unheard = MissingOf(FamiliesOf(Policy, a).market, Evidence[v.readings])
        /\ sc.structural = Normalized(Policy, FamiliesOf(Policy, a).structural, Evidence[v.readings])
        /\ sc.permission \in {Coverage(FamiliesOf(Policy, a).market, Evidence[v.readings]),
                              Coverage(ProfileFor(a), Evidence[v.readings])}
    BY DEF Scored, ProfileFor
  <1> HIDE DEF sc, ch
  <1>4. /\ k.chain = ch.chain /\ k.score = sc.score /\ k.effective = sc.effective
        /\ k.confidence = sc.confidence /\ k.missing = sc.missing /\ k.market = sc.market
        /\ k.unheard = sc.unheard /\ k.structural = sc.structural /\ k.permission = sc.permission
    BY <1>2 DEF Join
  <1> HIDE DEF k
  <1> QED
    BY <1>1, <1>2, <1>3, <1>4 DEF Derived

\* A join keeps what its first part says.
LEMMA JoinKeeps ==
    ASSUME NEW f, NEW g, NEW x \in DOMAIN f
    PROVE  Join(f, g)[x] = f[x]
  BY DEF Join

\* What a review knows keeps what it was told.
Kept(v, k) ==
    /\ k.readings = v.readings /\ k.relative = v.relative /\ k.event = v.event
    /\ k.complete = v.complete /\ k.heads = v.heads /\ k.where = v.where

\* What is known of an asset keeps what was told of it.
LEMMA KnownKeeps ==
    ASSUME NEW a, NEW v,
           {"readings", "relative", "event", "complete", "heads", "where"} \subseteq DOMAIN v
    PROVE  /\ Kept(v, Known(a, v))
           /\ "tier" \in DOMAIN v => Known(a, v).tier = v.tier
           /\ "overlay" \in DOMAIN v => Known(a, v).overlay = v.overlay
  <1> DEFINE rest == Join([chain |-> ChainOf(a, v)],
                          Scored(Policy, a, Evidence[v.readings], v.complete))
             k == Join(v, rest)
  <1>1. Known(a, v) = k
    BY DEF Known, ChainOf
  <1> HIDE DEF rest
  <1>2. Kept(v, k)
    BY DEF Kept, Join
  <1>3. "tier" \in DOMAIN v => k.tier = v.tier
    BY DEF Join
  <1>4. "overlay" \in DOMAIN v => k.overlay = v.overlay
    BY DEF Join
  <1> QED
    BY <1>1, <1>2, <1>3, <1>4

\* Views of both kinds are what the last two lemmas ask for.
LEMMA ViewsHaveFields ==
    ASSUME NEW v, v \in Views \/ v \in TieredViews
    PROVE  /\ DOMAIN v \cap {"chain", "score", "effective", "confidence", "missing", "market",
                             "unheard", "structural", "permission"} = {}
           /\ {"readings", "relative", "event", "complete", "heads", "where"} \subseteq DOMAIN v
           /\ v.readings \in DOMAIN Evidence /\ v.relative \in 0 .. 100 \cup {None}
           /\ v.event \in Events /\ v.complete \in BOOLEAN
           /\ v.heads \in DOMAIN Answers \cup {None}
  <1>1. CASE v \in Views
    <2>1. DOMAIN v = {"readings", "relative", "event", "complete", "heads", "where"}
      BY <1>1 DEF Views
    <2>2. /\ v.readings \in DOMAIN Evidence /\ v.relative \in 0 .. 100 \cup {None}
          /\ v.event \in Events /\ v.complete \in BOOLEAN
          /\ v.heads \in DOMAIN Answers \cup {None}
      BY <1>1 DEF Views
    <2> QED
      BY <2>1, <2>2
  <1>2. CASE v \in TieredViews
    <2>1. DOMAIN v = {"readings", "relative", "event", "complete", "tier", "alpha", "overlay", "heads",
                     "where"}
      BY <1>2 DEF TieredViews
    <2>2. /\ v.readings \in DOMAIN Evidence /\ v.relative \in 0 .. 100 \cup {None}
          /\ v.event \in Events /\ v.complete \in BOOLEAN
          /\ v.heads \in DOMAIN Answers \cup {None}
      BY <1>2 DEF TieredViews
    <2> QED
      BY <2>1, <2>2
  <1> QED
    BY <1>1, <1>2

\* What is known of an asset in a review: a view of it and all that follows.
KnownFrom(a, v, k) ==
    /\ v.readings \in DOMAIN Evidence /\ v.relative \in 0 .. 100 \cup {None}
    /\ v.event \in Events /\ v.complete \in BOOLEAN /\ v.heads \in DOMAIN Answers \cup {None}
    /\ v.heads = None \/ a \in ChainAssets
    /\ Kept(v, k) /\ Derived(a, v, k) /\ k = Known(a, v)

\* Whatever a review knows of a satellite comes of a view of it.
LEMMA SatelliteIsKnown ==
    ASSUME NEW in \in Inputs, NEW s \in Satellites
    PROVE  \E v : /\ KnownFrom(s, v, in.satellites[s])
                  /\ in.satellites[s].tier \in Mille /\ in.satellites[s].overlay \in Mille
  <1>1. in.satellites[s] \in KnownOf(s, SatelliteViews)
    BY DEF Inputs
  <1>2. PICK v \in SatelliteViews : in.satellites[s] = Known(s, v) /\ (v.heads = None \/ s \in ChainAssets)
    BY <1>1 DEF KnownOf
  <1>3. v \in TieredViews
    BY ReviewsAreTyped DEF TieredViews
  <1>4. /\ v.tier \in Mille /\ "tier" \in DOMAIN v
        /\ v.overlay \in Mille /\ "overlay" \in DOMAIN v
    BY <1>3 DEF TieredViews
  <1>5. /\ DOMAIN v \cap {"chain", "score", "effective", "confidence", "missing", "market",
                          "unheard", "structural", "permission"} = {}
        /\ {"readings", "relative", "event", "complete", "heads", "where"} \subseteq DOMAIN v
        /\ v.readings \in DOMAIN Evidence /\ v.relative \in 0 .. 100 \cup {None}
        /\ v.event \in Events /\ v.complete \in BOOLEAN
        /\ v.heads \in DOMAIN Answers \cup {None}
    BY <1>3, ViewsHaveFields
  <1>6. Derived(s, v, Known(s, v))
    BY <1>5, KnownDerives
  <1>7. Kept(v, Known(s, v)) /\ Known(s, v).tier = v.tier /\ Known(s, v).overlay = v.overlay
    BY <1>4, <1>5, KnownKeeps
  <1>8. /\ KnownFrom(s, v, in.satellites[s])
        /\ in.satellites[s].tier \in Mille /\ in.satellites[s].overlay \in Mille
    BY <1>2, <1>4, <1>5, <1>6, <1>7 DEF KnownFrom
  <1> QED
    BY <1>8

\* And so it does for the core.
LEMMA CoreIsKnown ==
    ASSUME NEW in \in Inputs, NEW a \in Core
    PROVE  \E v : KnownFrom(a, v, in.core[a])
  <1>1. PICK c \in CoreViews : in.core[a] = Known(a, c[a])
    <2>1. \E c \in CoreViews : \A b \in Core : in.core[b] = Known(b, c[b])
      BY DEF Inputs
    <2> QED
      BY <2>1
  <1>2. c[a] \in Views
    BY ReviewsAreTyped DEF Views
  <1> DEFINE v == c[a]
  <1> HIDE DEF v
  <1>5. /\ DOMAIN v \cap {"chain", "score", "effective", "confidence", "missing", "market",
                          "unheard", "structural", "permission"} = {}
        /\ {"readings", "relative", "event", "complete", "heads", "where"} \subseteq DOMAIN v
        /\ v.readings \in DOMAIN Evidence /\ v.relative \in 0 .. 100 \cup {None}
        /\ v.event \in Events /\ v.complete \in BOOLEAN
        /\ v.heads \in DOMAIN Answers \cup {None}
    BY <1>2, ViewsHaveFields DEF v
  <1>6. Derived(a, v, Known(a, v))
    BY <1>5, KnownDerives
  <1>7. Kept(v, Known(a, v))
    BY <1>5, KnownKeeps
  <1>8. a \in ChainAssets
    BY DEF Core, ChainAssets
  <1>9. KnownFrom(a, v, in.core[a])
    BY <1>1, <1>5, <1>6, <1>7, <1>8 DEF KnownFrom, v
  <1> QED
    BY <1>9

\* The scores made of a view are scores.
LEMMA KnownTypes ==
    ASSUME NEW a \in Assets, NEW v, NEW k, KnownFrom(a, v, k)
    PROVE  /\ k.event \in Events /\ k.complete \in BOOLEAN /\ k.relative \in 0 .. 100 \cup {None}
           /\ k.score \in 0 .. 100 \cup {None} /\ k.market \in 0 .. 100 \cup {None}
           /\ k.structural \in 0 .. 100 \cup {None} /\ k.effective \in 0 .. 100
           /\ k.confidence \in {"HIGH", "MEDIUM", "LOW"} /\ k.permission \in Nat
  <1> DEFINE r == Evidence[v.readings]
             profile == ProfileFor(a)
             market == FamiliesOf(Policy, a).market
             structural == FamiliesOf(Policy, a).structural
  <1>1. Derived(a, v, k) /\ Kept(v, k) /\ v.readings \in DOMAIN Evidence
    BY DEF KnownFrom
  <1>2. Readable(r)
    BY <1>1, EvidenceIsReadable
  <1>3. Adds(profile, 1000) /\ Adds(market, 1000) /\ Adds(structural, 1000)
    BY ProfilesAddUp DEF FamilyAccepted
  <1>4. Policy.minNormal \in 1 .. 1000
    <2>1. CoverageAccepted(Policy)
      BY AllocationPolicy DEF Accepted
    <2> QED
      BY <2>1 DEF Mille, CoverageAccepted
  <1>5. /\ k.score = Normalized(Policy, profile, r) /\ k.market = Normalized(Policy, market, r)
        /\ k.structural = Normalized(Policy, structural, r) /\ k.effective = Effective(profile, r)
        /\ k.confidence = Confidence(Policy, profile, r, v.complete)
        /\ k.permission \in {Coverage(market, r), Coverage(profile, r)}
    BY <1>1 DEF Derived
  <1> HIDE DEF r, profile, market, structural
  <1>6. Normalized(Policy, profile, r) = None \/ Normalized(Policy, profile, r) \in 0 .. 100
    BY <1>2, <1>3, <1>4, ScoreIsPoints
  <1>7. Normalized(Policy, market, r) = None \/ Normalized(Policy, market, r) \in 0 .. 100
    BY <1>2, <1>3, <1>4, ScoreIsPoints
  <1>8. Normalized(Policy, structural, r) = None \/ Normalized(Policy, structural, r) \in 0 .. 100
    BY <1>2, <1>3, <1>4, ScoreIsPoints
  <1>9. Effective(profile, r) \in 0 .. 100
    BY <1>2, <1>3, EffectiveIsPoints
  <1>10. Coverage(market, r) \in Nat
    BY <1>2, <1>3, CoverageIsPart
  <1>11. Coverage(profile, r) \in Nat
    BY <1>2, <1>3, CoverageIsPart
  <1>12. k.confidence \in {"HIGH", "MEDIUM", "LOW"}
    BY <1>5 DEF Confidence
  <1>13. k.event \in Events /\ k.complete \in BOOLEAN /\ k.relative \in 0 .. 100 \cup {None}
    BY DEF KnownFrom, Kept
  <1> QED
    BY <1>5, <1>6, <1>7, <1>8, <1>9, <1>10, <1>11, <1>12, <1>13

-----------------------------------------------------------------------------
(* What a review asks for.                                                 *)

\* The numbers of an accepted policy.
LEMMA PolicyNumbers ==
    /\ Policy.minStable \in Mille /\ Policy.tilt \in 1 .. 1000 /\ Policy.budget \in 1 .. 1000
    /\ Policy.ethMaxShare \in Mille /\ Policy.tacticalFraction \in 1 .. 1000
    /\ Policy.investable \in Mille /\ Policy.mediumCoverage \in Mille
    /\ Policy.highCoverage \in Mille /\ Policy.minNormal \in 1 .. 1000
    /\ Policy.marketEntry \in 0 .. 100 /\ Policy.structuralConviction \in 0 .. 100
    /\ Policy.relativeBlock \in 0 .. 100 /\ Policy.relativeIncrease \in 0 .. 100
    /\ Policy.relativeBlock < Policy.relativeIncrease
    /\ Policy.ethRelativeReduce \in 0 .. 100 /\ Policy.ethRelativeIncrease \in 0 .. 100
    /\ Policy.ethHold \in 0 .. 100 /\ Policy.ethIncrease \in 0 .. 100
    /\ \A a \in Core : Policy.anchor[a] \in 0 .. 10
    /\ Policy.mediumConfidence \in 1 .. 1000
  <1>1. /\ CoverageAccepted(Policy) /\ FamiliesAccepted(Policy) /\ CurveAccepted(Policy)
        /\ CoreAccepted(Policy) /\ ConfidenceAccepted(Policy)
        /\ Policy.minStable \in Mille /\ Policy.tilt \in 1 .. 1000 /\ Policy.budget \in 1 .. 1000
    BY AllocationPolicy DEF Accepted, Fraction, Positive
  <1>2. /\ Policy.investable \in Mille /\ Policy.mediumCoverage \in Mille
        /\ Policy.highCoverage \in Mille /\ Policy.minNormal \in 1 .. 1000
    BY <1>1 DEF Mille, CoverageAccepted
  <1>3. Policy.marketEntry \in 0 .. 100 /\ Policy.structuralConviction \in 0 .. 100
    BY <1>1 DEF FamiliesAccepted, Points
  <1>4. /\ Policy.relativeBlock \in 0 .. 100 /\ Policy.relativeIncrease \in 0 .. 100
        /\ Policy.relativeBlock < Policy.relativeIncrease /\ Policy.tacticalFraction \in 1 .. 1000
    BY <1>1 DEF CurveAccepted, Positive
  <1>5. /\ Policy.ethRelativeReduce \in 0 .. 100 /\ Policy.ethRelativeIncrease \in 0 .. 100
        /\ Policy.ethHold \in 0 .. 100 /\ Policy.ethIncrease \in 0 .. 100
        /\ Policy.ethMaxShare \in Mille
    BY <1>1 DEF CoreAccepted, Fraction
  <1>6. \A a \in Core : Policy.anchor[a] \in 0 .. 10
    BY <1>1 DEF CoreAccepted, Adds, Core
  <1>7. Policy.mediumConfidence \in 1 .. 1000
    BY <1>1 DEF ConfidenceAccepted, Positive
  <1> QED
    BY <1>1, <1>2, <1>3, <1>4, <1>5, <1>6, <1>7

\* A few numbers of the policy at a time: whoever needs one names its group.
LEMMA PolicyMinStable == Policy.minStable \in Mille
  BY PolicyNumbers

\* The share of the tactical budget.
LEMMA PolicyTactical == Policy.tacticalFraction \in 1 .. 1000 /\ Policy.tilt \in 1 .. 1000
  BY PolicyNumbers

\* A review takes its situation from one of the situations.
LEMMA SituationOf ==
    ASSUME NEW in \in Inputs
    PROVE  \E s \in Situations :
               /\ in.regime = s.regime /\ in.floor = s.floor /\ in.depth = s.depth
               /\ in.scale = s.scale /\ in.stress = s.stress /\ in.score = s.score
  BY DEF Inputs

\* The regime of a review is one the policy accepts.
LEMMA RegimeIsAccepted == ASSUME NEW in \in Inputs PROVE RegimeAccepted(in.regime)
  <1>1. PICK s \in Situations : in.regime = s.regime
    BY SituationOf
  <1>2. s.regime \in Regimes
    BY AllocationPolicy
  <1> QED
    BY <1>1, <1>2, AllocationPolicy DEF Accepted

\* The limits of a review's regime.
LEMMA RegimeTypes ==
    ASSUME NEW in \in Inputs
    PROVE  /\ in.regime.stable \in Mille /\ in.regime.satelliteMax \in Mille
           /\ in.regime.single \in Mille /\ in.regime.coreMin \in Mille
  BY RegimeIsAccepted DEF RegimeAccepted

\* What the risk overlay says to a review.
LEMMA OverlayTypes ==
    ASSUME NEW in \in Inputs
    PROVE  in.floor \in Mille /\ in.scale \in Mille
  <1>1. PICK s \in Situations : in.floor = s.floor /\ in.scale = s.scale
    BY SituationOf
  <1>2. s.floor \in Mille /\ s.scale \in Mille
    BY AllocationPolicy
  <1> QED
    BY <1>1, <1>2

\* What the market says to a review.
LEMMA MarketTypes ==
    ASSUME NEW in \in Inputs
    PROVE  /\ in.depth \in Mille
           /\ in.stress \in Mille \cup {None} /\ in.score \in Mille \cup {None}
  <1>1. PICK s \in Situations :
            in.depth = s.depth /\ in.stress = s.stress /\ in.score = s.score
    BY SituationOf
  <1>2. /\ s.depth \in Mille
        /\ s.stress \in Mille \cup {None} /\ s.score \in Mille \cup {None}
    BY AllocationPolicy
  <1> QED
    BY <1>1, <1>2

\* The larger of two numbers is no smaller than either.
LEMMA MostOfTwo ==
    ASSUME NEW x \in Int, NEW y \in Int
    PROVE  Most({x, y}) \in {x, y} /\ Most({x, y}) >= x /\ Most({x, y}) >= y
  <1>1. \E m \in {x, y} : \A n \in {x, y} : m >= n
    OBVIOUS
  <1>2. Most({x, y}) \in {x, y} /\ \A n \in {x, y} : Most({x, y}) >= n
    BY <1>1 DEF Most
  <1> QED
    BY <1>2

\* The largest of three numbers is one of them and no smaller than any.
LEMMA MostOfThree ==
    ASSUME NEW x \in Int, NEW y \in Int, NEW z \in Int
    PROVE  /\ Most({x, y, z}) \in {x, y, z}
           /\ Most({x, y, z}) >= x /\ Most({x, y, z}) >= y /\ Most({x, y, z}) >= z
  <1>1. \E m \in {x, y, z} : \A n \in {x, y, z} : m >= n
    OBVIOUS
  <1>2. Most({x, y, z}) \in {x, y, z} /\ \A n \in {x, y, z} : Most({x, y, z}) >= n
    BY <1>1 DEF Most
  <1> QED
    BY <1>2

\* The budgets of a review are weights.
LEMMA BudgetTypes ==
    ASSUME NEW in \in Inputs
    PROVE  /\ StableTarget(in) \in Mille /\ StableTarget(in) >= Policy.minStable
           /\ Legacy => StableTarget(in) >= in.regime.stable /\ StableTarget(in) >= in.floor
           /\ ~Legacy => StableTarget(in) = Policy.minStable
           /\ RiskyBudget(in) = 1000 - StableTarget(in) /\ RiskyBudget(in) \in Mille
           /\ SatelliteCap(in) \in Mille /\ SatelliteCap(in) <= RiskyBudget(in)
           /\ SatelliteCap(in) <= in.regime.satelliteMax
  <1> DEFINE x == Policy.minStable
             y == in.regime.stable
             z == in.floor
             m == in.regime.satelliteMax
             st == StableTarget(in)
  <1>1. x \in Mille /\ y \in Mille /\ z \in Mille /\ m \in Mille
    BY PolicyMinStable, RegimeTypes, OverlayTypes
  <1>2. st = IF Legacy THEN Most({x, y, z}) ELSE x
    BY DEF StableTarget
  <1> HIDE DEF x, y, z, m, st
  <1>3. /\ Most({x, y, z}) \in {x, y, z}
        /\ Most({x, y, z}) >= x /\ Most({x, y, z}) >= y /\ Most({x, y, z}) >= z
    <2>1. x \in Int /\ y \in Int /\ z \in Int
      BY <1>1 DEF Mille
    <2> QED
      BY <2>1, MostOfThree
  <1>4. st \in Mille /\ st >= x /\ (Legacy => st >= y /\ st >= z) /\ (~Legacy => st = x)
    <2> DEFINE t == Most({x, y, z})
    <2>1. t \in {x, y, z} /\ t >= x /\ t >= y /\ t >= z
      BY <1>3
    <2>2. (Legacy => st = t) /\ (~Legacy => st = x)
      BY <1>2
    <2> HIDE DEF t
    <2>3. t \in Mille
      BY <1>1, <2>1
    <2>4. CASE Legacy
      BY <1>1, <2>1, <2>2, <2>3, <2>4
    <2>5. CASE ~Legacy
      BY <1>1, <2>2, <2>5 DEF Mille
    <2> QED
      BY <2>4, <2>5
  <1>5. RiskyBudget(in) = 1000 - st
    BY DEF RiskyBudget, st
  <1> DEFINE rb == RiskyBudget(in)
  <1>6. rb \in Mille /\ rb \in Int /\ m \in Int
    BY <1>1, <1>4, <1>5 DEF Mille
  <1>7. SatelliteCap(in) = Least({m, rb})
    BY DEF SatelliteCap, m
  <1> HIDE DEF rb
  <1>8. Least({m, rb}) \in {m, rb} /\ Least({m, rb}) <= m /\ Least({m, rb}) <= rb
    BY <1>6, LeastOfTwo, ZenonT(60)
  <1>9. SatelliteCap(in) \in Mille /\ SatelliteCap(in) <= rb /\ SatelliteCap(in) <= m
    <2> DEFINE t == Least({m, rb})
    <2>1. t \in {m, rb} /\ t <= m /\ t <= rb /\ SatelliteCap(in) = t
      BY <1>7, <1>8
    <2> HIDE DEF t
    <2>2. t \in Mille
      BY <1>1, <1>6, <2>1
    <2> QED
      BY <2>1, <2>2
  <1> QED
    BY <1>4, <1>5, <1>6, <1>9 DEF x, y, z, m, st, rb

\* A weight is a natural number.
LEMMA WeightIsNat == \A x \in Mille : x \in Nat
  BY DEF Mille

\* A share in thousandths of an amount is an amount.
LEMMA ThousandthsOf ==
    ASSUME NEW x \in Nat, NEW y \in Nat
    PROVE  (x * y) \div 1000 \in Nat
  <1> DEFINE z == x * y
  <1>1. z \in Nat
    OBVIOUS
  <1> HIDE DEF z
  <1>2. z \div 1000 \in Nat
    BY <1>1
  <1> QED
    BY <1>2 DEF z

\* The share of its envelope that a satellite deserves is one.
LEMMA FractionTypes ==
    ASSUME NEW s \in Satellites, NEW u, NEW v, KnownFrom(s, u, v), NEW holding
    PROVE  CurveFraction(v, holding) \in Mille
  <1>1. s \in Assets
    BY DEF Assets
  <1>2. v.score \in 0 .. 100 \cup {None} /\ v.market \in 0 .. 100 \cup {None}
    BY <1>1, KnownTypes
  <1>3. ComparisonScore(v) = None \/ ComparisonScore(v) \in Nat
    BY <1>2 DEF ComparisonScore
  <1>4. ComparisonScore(v) # None => Curve(ComparisonScore(v)) \in Mille
    <2> DEFINE c == ComparisonScore(v)
    <2>1. ASSUME c # None PROVE c \in Nat /\ c <= c
      BY <1>3, <2>1
    <2> HIDE DEF c
    <2>2. c # None => Curve(c) \in Mille
      BY <2>1, CurveClimbs, ZenonT(60)
    <2> QED
      BY <2>2 DEF c
  <1>5. Policy.tacticalFraction \in Mille
    BY PolicyTactical DEF Mille
  <1> QED
    BY <1>4, <1>5 DEF Mille, CurveFraction

\* What a satellite requests is an amount.
LEMMA RequestTypes ==
    ASSUME NEW in \in Inputs, NEW s \in Satellites, NEW holding
    PROVE  Requested(in.satellites[s], holding, in) \in Nat
  <1> DEFINE v == in.satellites[s]
             e == Envelope(v, in)
             t == (Policy.tilt * RiskyBudget(in)) \div 1000
             c == CurveFraction(v, holding)
  <1>1. PICK u : KnownFrom(s, u, v) /\ v.tier \in Mille
    BY SatelliteIsKnown
  <1>2. c \in Nat
    <2>1. KnownFrom(s, u, v)
      BY <1>1
    <2> HIDE DEF v
    <2>2. CurveFraction(v, holding) \in Mille
      BY <2>1, FractionTypes
    <2> QED
      BY <2>2, SMTT(30) DEF Mille
  <1>3. e \in Nat
    <2>0. SatelliteCap(in) \in Mille
      BY BudgetTypes
    <2>1. SatelliteCap(in) \in Nat /\ v.tier \in Nat
      BY <1>1, <2>0, WeightIsNat, ZenonT(60)
    <2>2. (SatelliteCap(in) * v.tier) \div 1000 \in Nat
      BY <2>1, ThousandthsOf
    <2> QED
      BY <2>2 DEF Envelope
  <1>4. t \in Nat
    <2>0. RiskyBudget(in) \in Mille
      BY BudgetTypes
    <2>1. RiskyBudget(in) \in Nat
      BY <2>0, WeightIsNat, ZenonT(60)
    <2>2. Policy.tilt \in Nat
      <3>1. Policy.tilt \in 1 .. 1000
        BY PolicyTactical
      <3> QED
        BY <3>1, SMTT(30)
    <2> DEFINE rb == RiskyBudget(in)
    <2>3. rb \in Nat
      BY <2>1
    <2> HIDE DEF rb
    <2>4. (Policy.tilt * rb) \div 1000 \in Nat
      BY <2>2, <2>3, ThousandthsOf
    <2> QED
      BY <2>4, ZenonT(60) DEF rb
  <1>5. Requested(v, holding, in) =
            IF AlphaGranted(v) THEN Least({t, e}) ELSE (e * c) \div 1000
    BY DEF Requested
  <1> HIDE DEF e, t, c
  <1>6. Least({t, e}) \in Nat
    <2>1. t \in Int /\ e \in Int
      BY <1>3, <1>4
    <2>2. Least({t, e}) \in {t, e}
      BY <2>1, LeastOfTwo
    <2> QED
      BY <1>3, <1>4, <2>2
  <1>7. (e * c) \div 1000 \in Nat
    BY <1>2, <1>3, ThousandthsOf
  <1> QED
    BY <1>5, <1>6, <1>7

\* What a review concludes of a satellite: it is kept, up to what is held, or
\* sized, and not both.
LEMMA VerdictTypes ==
    ASSUME NEW in \in Inputs, NEW s \in Satellites, weights[s] \in Mille,
           NEW verdict, verdict = Verdict(s, in.satellites[s], in)
    PROVE  /\ verdict.hold \in Nat /\ verdict.hold <= weights[s] /\ verdict.strategic \in Nat
           /\ verdict.hold = 0 \/ verdict.strategic = 0
           /\ verdict.factor \in Mille
  <1> DEFINE v == in.satellites[s]
             held == weights[s]
             requested == Requested(v, held > 0, in)
             bucket == Bucket(v, Eligibility(v, held > 0))
  <1>1. /\ verdict.hold = CASE bucket = "HOLD" -> held
                            [] bucket = "CAPPED_HOLD" -> Least({held, requested})
                            [] OTHER -> 0
        /\ verdict.strategic = IF bucket = "STRATEGIC" THEN requested ELSE 0
        /\ verdict.factor = DeploymentFactor(v, held > 0, in.score)
    BY DEF Verdict
  <1>2. requested \in Nat
    BY RequestTypes
  <1>3. v.event \in Events /\ v.overlay \in Mille
    <2>1. PICK u : KnownFrom(s, u, v) /\ v.overlay \in Mille
      BY SatelliteIsKnown
    <2> QED
      BY <2>1 DEF KnownFrom, Kept
  <1>4. DeploymentFactor(v, held > 0, in.score) \in Mille
    BY <1>3, AllowancesBind
  <1>5. bucket \in {"NONE", "STRATEGIC", "CAPPED_HOLD", "HOLD"}
    BY DEF Bucket
  <1>6. held \in Nat /\ held \in Int
    BY SMTT(30) DEF Mille
  <1> HIDE DEF requested, bucket, held
  <1>7. Least({held, requested}) \in Nat /\ Least({held, requested}) <= held
    <2> DEFINE l == Least({held, requested})
    <2>1. l \in {held, requested} /\ l <= held
      <3>1. requested \in Int
        BY <1>2
      <3> QED
        BY <1>6, <3>1, LeastOfTwo
    <2> HIDE DEF l
    <2>2. l \in Nat /\ l <= held
      BY <1>2, <1>6, <2>1
    <2> QED
      BY <2>2 DEF l
  <1>8. CASE bucket = "HOLD"
    <2>1. verdict.hold = held /\ verdict.strategic = 0
      BY <1>1, <1>8
    <2> QED
      BY <1>1, <1>4, <1>6, <2>1 DEF held
  <1>9. CASE bucket = "CAPPED_HOLD"
    <2>1. verdict.hold = Least({held, requested}) /\ verdict.strategic = 0
      BY <1>1, <1>9
    <2> QED
      BY <1>1, <1>4, <1>6, <1>7, <2>1 DEF held
  <1>10. CASE bucket \in {"NONE", "STRATEGIC"}
    <2>1. verdict.hold = 0 /\ verdict.strategic \in {0, requested}
      BY <1>1, <1>10
    <2>2. verdict.strategic \in Nat
      BY <1>2, <2>1
    <2>3. verdict.hold \in Nat /\ verdict.hold <= held /\ verdict.hold = 0
      BY <1>6, <2>1
    <2> QED
      BY <1>1, <1>4, <2>2, <2>3 DEF held
  <1> QED
    BY <1>5, <1>8, <1>9, <1>10, ZenonT(60)

-----------------------------------------------------------------------------
(* The sleeves.                                                            *)

Holds(in) == [s \in Satellites |-> Verdict(s, in.satellites[s], in).hold]
Wants(in) == [s \in Satellites |-> Verdict(s, in.satellites[s], in).strategic]

\* The satellites that are preserved, and those that are sized.
Preserved(in) == Share(Holds(in), SatelliteCap(in), Uniform(Satellites, in.regime.single), {})
Bought(in) ==
    Share(Wants(in), Most({0, SatelliteCap(in) - Total(Preserved(in))}),
          Uniform(Satellites, in.regime.single), {})

Booked == weights \in [Assets -> Mille]

\* The book gives a weight to each satellite.
LEMMA BookOfSatellite ==
    ASSUME Booked, NEW s \in Satellites
    PROVE  weights[s] \in Mille
  BY DEF Booked, Assets

\* What all the verdicts together hold and want; no satellite does both.
LEMMA VerdictsAreTyped ==
    ASSUME NEW in \in Inputs, Booked
    PROVE  /\ Holds(in) \in [Satellites -> Nat] /\ Wants(in) \in [Satellites -> Nat]
           /\ \A s \in Satellites : Holds(in)[s] <= weights[s]
           /\ \A s \in Satellites : Holds(in)[s] = 0 \/ Wants(in)[s] = 0
  <1>1. ASSUME NEW s \in Satellites
        PROVE  /\ Holds(in)[s] \in Nat /\ Wants(in)[s] \in Nat /\ Holds(in)[s] <= weights[s]
               /\ Holds(in)[s] = 0 \/ Wants(in)[s] = 0
    <2> DEFINE d == Verdict(s, in.satellites[s], in)
    <2>1. weights[s] \in Mille
      BY BookOfSatellite
    <2>2. /\ d.hold \in Nat /\ d.hold <= weights[s] /\ d.strategic \in Nat
          /\ d.hold = 0 \/ d.strategic = 0
      BY <2>1, VerdictTypes
    <2>3. Holds(in)[s] = d.hold /\ Wants(in)[s] = d.strategic
      BY DEF Holds, Wants
    <2> HIDE DEF d
    <2> QED
      BY <2>2, <2>3
  <1>2. Holds(in) = [s \in Satellites |-> Holds(in)[s]]
    BY DEF Holds
  <1>3. Wants(in) = [s \in Satellites |-> Wants(in)[s]]
    BY DEF Wants
  <1> QED
    BY <1>1, <1>2, <1>3

\* Every satellite has the cap of a single asset.
LEMMA CapsOfSatellites ==
    ASSUME NEW in \in Inputs
    PROVE  /\ Uniform(Satellites, in.regime.single) \in [Satellites -> Nat]
           /\ \A s \in Satellites : Uniform(Satellites, in.regime.single)[s] = in.regime.single
           /\ IsFiniteSet(Satellites)
  <1>1. in.regime.single \in Nat
    <2>1. in.regime.single \in Mille
      BY RegimeTypes
    <2> QED
      BY <2>1, WeightIsNat, ZenonT(60)
  <1> QED
    BY <1>1, AllocationPolicy DEF Uniform

\* What is preserved fits the envelope, and stays whole where it all fits.
LEMMA PreservedFits ==
    ASSUME NEW in \in Inputs, Booked, NEW kept, kept = Preserved(in),
           NEW asked, asked = Holds(in), NEW cap, cap = SatelliteCap(in)
    PROVE  /\ kept \in [Satellites -> Nat] /\ asked \in [Satellites -> Nat]
           /\ \A s \in Satellites : /\ kept[s] <= in.regime.single
                                    /\ asked[s] = 0 => kept[s] = 0
           /\ SumOver(kept, Satellites) \in Nat /\ SumOver(kept, Satellites) <= cap
           /\ SumOver(asked, Satellites) <= cap =>
                \A s \in Satellites : kept[s] = in.regime.single \/ kept[s] >= asked[s]
  <1> DEFINE caps == Uniform(Satellites, in.regime.single)
             frozen == {}
  <1>1. asked \in [Satellites -> Nat]
    BY VerdictsAreTyped
  <1>2. /\ caps \in [Satellites -> Nat] /\ IsFiniteSet(Satellites)
        /\ \A s \in Satellites : caps[s] = in.regime.single
    BY CapsOfSatellites
  <1>3. cap \in Nat
    <2>1. cap \in Mille
      BY BudgetTypes
    <2> QED
      BY <2>1 DEF Mille
  <1>4. kept = Share(asked, cap, caps, frozen) /\ frozen = {}
    BY DEF Preserved
  <1> HIDE DEF caps, frozen
  <1>5. /\ kept \in [Satellites -> Nat]
        /\ \A s \in Satellites : kept[s] <= caps[s] /\ (asked[s] = 0 => kept[s] = 0)
        /\ SumOver(kept, Satellites) \in Nat /\ SumOver(kept, Satellites) <= cap
        /\ frozen = {} /\ SumOver(asked, Satellites) <= cap =>
             \A s \in Satellites : kept[s] = caps[s] \/ kept[s] >= asked[s]
    BY <1>1, <1>2, <1>3, <1>4, ShareFits
  <1> QED
    BY <1>1, <1>2, <1>4, <1>5, Zenon

\* What is sized fits what that leaves.
LEMMA BoughtFits ==
    ASSUME NEW in \in Inputs, Booked, NEW kept, kept = Preserved(in),
           NEW new, new = Bought(in), NEW wants, wants = Wants(in)
    PROVE  /\ new \in [Satellites -> Nat]
           /\ \A s \in Satellites : /\ new[s] <= in.regime.single
                                    /\ wants[s] = 0 => new[s] = 0
           /\ SumOver(new, Satellites) \in Nat
           /\ SumOver(kept, Satellites) + SumOver(new, Satellites) <= SatelliteCap(in)
  <1> DEFINE caps == Uniform(Satellites, in.regime.single)
             frozen == {}
             cap == SatelliteCap(in)
             k == SumOver(kept, Satellites)
             rest == Most({0, cap - k})
             n == SumOver(new, Satellites)
  <1>1. wants \in [Satellites -> Nat]
    BY VerdictsAreTyped
  <1>2. /\ caps \in [Satellites -> Nat] /\ IsFiniteSet(Satellites)
        /\ \A s \in Satellites : caps[s] = in.regime.single
    BY CapsOfSatellites
  <1>3. cap \in Nat
    <2>1. cap \in Mille
      BY BudgetTypes
    <2> QED
      BY <2>1 DEF Mille
  <1>4. kept \in [Satellites -> Nat] /\ k \in Nat /\ k <= cap
    BY PreservedFits
  <1>5. Total(kept) = k
    <2>1. DOMAIN kept = Satellites
      BY <1>4
    <2> QED
      BY <2>1 DEF Total
  <1>6. new = Share(wants, rest, caps, frozen) /\ frozen = {}
    BY <1>5 DEF Bought
  <1>7. rest \in Nat /\ rest = cap - k
    <2> HIDE DEF cap, k
    <2> DEFINE z == cap - k
    <2>1. z \in Nat /\ z \in Int /\ 0 \in Int
      BY <1>3, <1>4
    <2> HIDE DEF z
    <2>2. Most({0, z}) \in {0, z} /\ Most({0, z}) >= 0 /\ Most({0, z}) >= z
      BY <2>1, MostOfTwo
    <2> DEFINE m == Most({0, z})
    <2>3. m \in {0, z} /\ m >= 0 /\ m >= z
      BY <2>2
    <2> HIDE DEF m
    <2>4. m \in Nat /\ m = z
      BY <2>1, <2>3
    <2> QED
      BY <2>4 DEF m, z
  <1> HIDE DEF caps, frozen, cap, k, rest
  <1>8. /\ new \in [Satellites -> Nat]
        /\ \A s \in Satellites : new[s] <= caps[s] /\ (wants[s] = 0 => new[s] = 0)
        /\ n \in Nat /\ n <= rest
    BY <1>1, <1>2, <1>6, <1>7, ShareFits
  <1> HIDE DEF n
  <1>9. k + n <= cap
    BY <1>3, <1>4, <1>7, <1>8
  <1> QED
    BY <1>2, <1>8, <1>9 DEF k, n, cap

\* The two shares of the satellites fit their envelope and each its cap.
LEMMA SleeveFits ==
    ASSUME NEW in \in Inputs, Booked, NEW kept, kept = Preserved(in), NEW new, new = Bought(in)
    PROVE  /\ kept \in [Satellites -> Nat] /\ new \in [Satellites -> Nat]
           /\ SumOver(kept, Satellites) \in Nat /\ SumOver(new, Satellites) \in Nat
           /\ SumOver(kept, Satellites) + SumOver(new, Satellites) <= SatelliteCap(in)
           /\ \A s \in Satellites : kept[s] + new[s] <= in.regime.single
           /\ Total(kept) = SumOver(kept, Satellites) /\ Total(new) = SumOver(new, Satellites)
  <1> DEFINE asked == Holds(in)
             wants == Wants(in)
  <1>1. /\ kept \in [Satellites -> Nat]
        /\ \A s \in Satellites : kept[s] <= in.regime.single /\ (asked[s] = 0 => kept[s] = 0)
        /\ SumOver(kept, Satellites) \in Nat
    BY PreservedFits
  <1>2. /\ new \in [Satellites -> Nat]
        /\ \A s \in Satellites : new[s] <= in.regime.single /\ (wants[s] = 0 => new[s] = 0)
        /\ SumOver(new, Satellites) \in Nat
        /\ SumOver(kept, Satellites) + SumOver(new, Satellites) <= SatelliteCap(in)
    BY BoughtFits
  <1>3. \A s \in Satellites : asked[s] = 0 \/ wants[s] = 0
    BY VerdictsAreTyped
  <1> HIDE DEF asked, wants
  <1>4. ASSUME NEW s \in Satellites PROVE kept[s] + new[s] <= in.regime.single
    <2>1. kept[s] \in Nat /\ new[s] \in Nat /\ (kept[s] = 0 \/ new[s] = 0)
      BY <1>1, <1>2, <1>3
    <2>2. kept[s] <= in.regime.single /\ new[s] <= in.regime.single
      BY <1>1, <1>2
    <2> QED
      BY <2>1, <2>2
  <1>5. Total(kept) = SumOver(kept, Satellites) /\ Total(new) = SumOver(new, Satellites)
    <2>1. DOMAIN kept = Satellites /\ DOMAIN new = Satellites
      BY <1>1, <1>2
    <2> QED
      BY <2>1 DEF Total
  <1> QED
    BY <1>1, <1>2, <1>4, <1>5

-----------------------------------------------------------------------------
(* The core.                                                               *)

States == {"ELIGIBLE_INCREASE", "HOLD_ONLY", "UNDERWEIGHT", "REDUCE", "INELIGIBLE"}

\* A core asset is in one of the five states.
LEMMA CoreStateIsOne ==
    ASSUME NEW a \in Core, NEW views
    PROVE  CoreState(a, views) \in States
  <1>1. BtcState(views[a]) \in States
    BY DEF BtcState, States
  <1>2. EthState(views[a]) \in States
    BY DEF EthState, States
  <1> QED
    BY <1>1, <1>2 DEF CoreState

\* The pull of a core asset on the anchor.
Pull(a, in) ==
    IF CoreState(a, in.core) = "INELIGIBLE" THEN 0
    ELSE (Policy.anchor[a] * (85 + (30 * CoreScore(in.core[a])) \div 100)
              * Policy.coreConfidence[in.core[a].confidence]
              * EventMultiplier(in.core[a].event)) \div 1000

\* How hard a core asset pulls at the budget is an amount.
LEMMA PullTypes ==
    ASSUME NEW in \in Inputs, NEW a \in Core
    PROVE  Pull(a, in) \in Nat
  <1> DEFINE k == in.core[a]
             z == CoreScore(k)
             q == 85 + (30 * z) \div 100
             c == Policy.coreConfidence[k.confidence]
             e == EventMultiplier(k.event)
             w == Policy.anchor[a]
  <1>1. PICK v : KnownFrom(a, v, k)
    BY CoreIsKnown
  <1>2. a \in Assets
    BY DEF Assets
  <1>3. /\ k.score \in 0 .. 100 \cup {None} /\ k.effective \in 0 .. 100
        /\ k.confidence \in {"HIGH", "MEDIUM", "LOW"} /\ k.event \in Events
    <2>1. KnownFrom(a, v, k)
      BY <1>1
    <2> HIDE DEF k
    <2> QED
      BY <1>2, <2>1, KnownTypes
  <1>4. w \in Nat
    <2>1. w \in 0 .. 10
      BY PolicyNumbers
    <2> HIDE DEF w
    <2> QED
      BY <2>1
  <1> HIDE DEF k
  <1>5. z \in 0 .. 100
    BY <1>3 DEF CoreScore
  <1>6. q \in Nat
    <2> HIDE DEF z
    <2> QED
      BY <1>5
  <1>7. c \in Nat
    <2>1. CoreAccepted(Policy)
      BY AllocationPolicy DEF Accepted
    <2>2. Fraction(c)
      BY <1>3, <2>1 DEF CoreAccepted
    <2> HIDE DEF c
    <2> QED
      BY <2>2 DEF Fraction, Mille
  <1>8. e \in Nat
    <2>1. e \in Mille
      BY <1>3, EventsAllow
    <2> HIDE DEF e
    <2> QED
      BY <2>1, WeightIsNat
  <1>9. Pull(a, in) = IF CoreState(a, in.core) = "INELIGIBLE" THEN 0
                      ELSE (w * q * c * e) \div 1000
    BY DEF Pull, k
  <1> HIDE DEF w, q, c, e
  <1>10. w * q \in Nat
    BY <1>4, <1>6
  <1>11. w * q * c \in Nat
    BY <1>7, <1>10
  <1>12. w * q * c * e \in Nat
    BY <1>8, <1>11
  <1>13. (w * q * c * e) \div 1000 \in Nat
    <2> DEFINE n == w * q * c * e
    <2>1. n \in Nat
      BY <1>12
    <2> HIDE DEF n
    <2>2. n \div 1000 \in Nat
      BY <2>1
    <2> QED
      BY <2>2 DEF n
  <1> QED
    BY <1>9, <1>13

Desired(in, budget) ==
    LET sum == Pull("BTC", in) + Pull("ETH", in)
    IN [a \in Core |-> IF sum = 0 THEN 0 ELSE (budget * Pull(a, in)) \div sum]

\* The core is BTC and ETH.
LEMMA CoreIsTwo ==
    /\ Core = {"BTC", "ETH"} /\ "BTC" # "ETH" /\ IsFiniteSet(Core)
    /\ \A f : f["BTC"] \in Int /\ f["ETH"] \in Int => SumOver(f, Core) = f["BTC"] + f["ETH"]
  <1> DEFINE x == "BTC"
             y == "ETH"
  <1>1. Core = {x, y} /\ x # y
    BY DEF Core
  <1>2. IsFiniteSet(Core)
    <2>1. IsFiniteSet({x})
      BY FS_Singleton
    <2>2. IsFiniteSet({x} \cup {y})
      BY <2>1, FS_AddElement
    <2>3. Core = {x} \cup {y}
      BY <1>1
    <2> QED
      BY <2>2, <2>3
  <1>3. ASSUME NEW f, f[x] \in Int, f[y] \in Int
        PROVE  SumOver(f, Core) = f[x] + f[y]
    <2> HIDE DEF x, y
    <2>1. SumOver(f, {x, y}) = f[x] + f[y]
      BY <1>1, <1>3, SumOfTwo
    <2> QED
      BY <1>1, <2>1
  <1> QED
    BY <1>1, <1>2, <1>3

\* Parts of a budget in proportion do not pass it.
LEMMA TwoParts ==
    ASSUME NEW b \in Nat, NEW x \in Nat, NEW y \in Nat, x + y # 0
    PROVE  /\ (b * x) \div (x + y) \in Nat /\ (b * y) \div (x + y) \in Nat
           /\ (b * x) \div (x + y) + (b * y) \div (x + y) <= b
  <1> DEFINE s == x + y
             bx == b * x
             by == b * y
             p == bx \div s
             q == by \div s
  <1>1. s \in Nat /\ s > 0 /\ bx \in Nat /\ by \in Nat /\ bx + by = b * s
    BY SMT
  <1> HIDE DEF s, bx, by
  <1>2. p \in Nat /\ q \in Nat /\ s * p <= bx /\ s * q <= by
    BY <1>1
  <1> HIDE DEF p, q
  <1>3. s * (p + q) <= b * s
    BY <1>1, <1>2
  <1>4. p + q <= b
    BY <1>1, <1>2, <1>3
  <1> QED
    BY <1>2, <1>4 DEF p, q, s, bx, by

\* What the core desires fits its budget; the ineligible desire nothing.
LEMMA DesiredFits ==
    ASSUME NEW in \in Inputs, NEW budget \in Nat, NEW d, d = Desired(in, budget)
    PROVE  /\ d \in [Core -> Nat] /\ SumOver(d, Core) \in Nat /\ SumOver(d, Core) <= budget
           /\ \A a \in Core : CoreState(a, in.core) = "INELIGIBLE" => d[a] = 0
  <1> DEFINE x == Pull("BTC", in)
             y == Pull("ETH", in)
             sum == x + y
  <1>1. x \in Nat /\ y \in Nat
    BY PullTypes, CoreIsTwo
  <1>2. /\ d["BTC"] = IF sum = 0 THEN 0 ELSE (budget * x) \div sum
        /\ d["ETH"] = IF sum = 0 THEN 0 ELSE (budget * y) \div sum
        /\ d = [a \in Core |-> d[a]]
    <2>1. "BTC" \in Core /\ "ETH" \in Core
      BY DEF Core
    <2>2. d = [a \in Core |-> IF sum = 0 THEN 0 ELSE (budget * Pull(a, in)) \div sum]
      BY DEF Desired
    <2> HIDE DEF sum
    <2> QED
      BY <2>1, <2>2
  <1>3. \A a \in Core : CoreState(a, in.core) = "INELIGIBLE" =>
            d[a] = IF sum = 0 THEN 0 ELSE (budget * 0) \div sum
    <2> SUFFICES ASSUME NEW a \in Core, CoreState(a, in.core) = "INELIGIBLE"
                 PROVE  d[a] = IF sum = 0 THEN 0 ELSE (budget * 0) \div sum
      OBVIOUS
    <2>1. Pull(a, in) = 0
      BY DEF Pull
    <2>2. d[a] = IF sum = 0 THEN 0 ELSE (budget * Pull(a, in)) \div sum
      BY DEF Desired
    <2> HIDE DEF sum
    <2> QED
      BY <2>1, <2>2
  <1> HIDE DEF x, y
  <1>4. d["BTC"] \in Nat /\ d["ETH"] \in Nat /\ d["BTC"] + d["ETH"] <= budget
    <2>1. CASE sum = 0
      BY <1>2, <2>1
    <2>2. CASE sum # 0
      <3>1. /\ (budget * x) \div sum \in Nat /\ (budget * y) \div sum \in Nat
            /\ (budget * x) \div sum + (budget * y) \div sum <= budget
        BY <1>1, <2>2, TwoParts
      <3> QED
        BY <1>2, <2>2, <3>1
    <2> QED
      BY <2>1, <2>2
  <1>5. SumOver(d, Core) = d["BTC"] + d["ETH"]
    <2>1. d["BTC"] \in Int /\ d["ETH"] \in Int
      BY <1>4
    <2> QED
      BY <2>1, CoreIsTwo
  <1>6. d \in [Core -> Nat]
    BY <1>2, <1>4, CoreIsTwo
  <1>7. sum # 0 => (budget * 0) \div sum = 0
    <2>1. sum \in Nat
      BY <1>1
    <2> HIDE DEF sum
    <2>2. budget * 0 = 0 /\ (sum # 0 => 0 \div sum = 0)
      BY <2>1
    <2> QED
      BY <2>2
  <1> HIDE DEF sum
  <1>8. \A a \in Core : CoreState(a, in.core) = "INELIGIBLE" => d[a] = 0
    BY <1>3, <1>7
  <1>9. SumOver(d, Core) \in Nat /\ SumOver(d, Core) <= budget
    BY <1>4, <1>5
  <1> QED
    BY <1>6, <1>8, <1>9

\* The smaller of two amounts is an amount and no larger than either.
LEMMA LeastOfNats ==
    ASSUME NEW x \in Nat, NEW y \in Nat
    PROVE  Least({x, y}) \in Nat /\ Least({x, y}) <= x /\ Least({x, y}) <= y
  <1> DEFINE l == Least({x, y})
  <1>1. l \in {x, y} /\ l <= x /\ l <= y
    <2>1. x \in Int /\ y \in Int
      OBVIOUS
    <2> QED
      BY <2>1, LeastOfTwo
  <1> HIDE DEF l
  <1>2. l \in Nat
    BY <1>1
  <1> QED
    BY <1>1, <1>2 DEF l

\* A sleeve that may not increase is capped at what is held, unless it asks
\* for nothing.
LEMMA GatedCapFits ==
    ASSUME NEW in, NEW a \in Core, NEW cap \in Nat, weights[a] \in Mille,
           NEW g, g = GatedCap(a, in, cap)
    PROVE  /\ g \in Nat /\ g <= cap
           /\ \/ CoreState(a, in.core) \in {"ELIGIBLE_INCREASE", "INELIGIBLE"}
              \/ g <= weights[a]
  <1> DEFINE w == weights[a]
             part == (w * 3) \div 4
             state == CoreState(a, in.core)
  <1>1. w \in Nat /\ part \in Nat /\ part <= w
    <2>1. w \in Nat
      BY SMTT(30) DEF Mille
    <2> HIDE DEF w
    <2> QED
      BY <2>1
  <1>2. g = IF state \in {"HOLD_ONLY", "UNDERWEIGHT"} THEN Least({cap, w})
            ELSE IF state = "REDUCE" THEN Least({cap, part}) ELSE cap
    BY DEF GatedCap
  <1>3. state \in States
    BY CoreStateIsOne
  <1> HIDE DEF w, part, state
  <1>4. Least({cap, w}) \in Nat /\ Least({cap, w}) <= cap /\ Least({cap, w}) <= w
    BY <1>1, LeastOfNats
  <1>5. Least({cap, part}) \in Nat /\ Least({cap, part}) <= cap /\ Least({cap, part}) <= part
    BY <1>1, LeastOfNats
  <1> DEFINE l == Least({cap, w})
             m == Least({cap, part})
  <1>6. l \in Nat /\ l <= cap /\ l <= w /\ m \in Nat /\ m <= cap /\ m <= part
    BY <1>4, <1>5
  <1>7. g = IF state \in {"HOLD_ONLY", "UNDERWEIGHT"} THEN l ELSE IF state = "REDUCE" THEN m ELSE cap
    BY <1>2
  <1> HIDE DEF l, m
  <1>8. m <= w
    BY <1>1, <1>6
  <1>9. state \in {"ELIGIBLE_INCREASE", "INELIGIBLE"} => g = cap
    BY <1>7
  <1>10. CASE state \in {"HOLD_ONLY", "UNDERWEIGHT"}
    <2>1. g = l
      BY <1>7, <1>10
    <2> QED
      BY <1>6, <2>1 DEF w
  <1>11. CASE state = "REDUCE"
    <2>1. g = m
      BY <1>7, <1>11
    <2> QED
      BY <1>6, <1>8, <2>1 DEF w
  <1>12. CASE state \in {"ELIGIBLE_INCREASE", "INELIGIBLE"}
    <2>1. g = cap /\ cap <= cap
      BY <1>9, <1>12
    <2> QED
      BY <1>12, <2>1 DEF state
  <1> QED
    BY <1>3, <1>10, <1>11, <1>12 DEF States

Ceiling(a, in, budget) ==
    IF a = "ETH" THEN Least({in.regime.single, (budget * Policy.ethMaxShare) \div 1000})
    ELSE in.regime.single

CoreCaps(in, budget) == [a \in Core |-> GatedCap(a, in, Ceiling(a, in, budget))]

\* The caps of the core are within that of a single asset, and a gated
\* sleeve may not pass what it holds.
LEMMA CoreCapsFit ==
    ASSUME NEW in \in Inputs, Booked, NEW budget \in Nat, NEW caps, caps = CoreCaps(in, budget)
    PROVE  /\ caps \in [Core -> Nat]
           /\ \A a \in Core : /\ caps[a] <= in.regime.single
                              /\ \/ CoreState(a, in.core) \in {"ELIGIBLE_INCREASE", "INELIGIBLE"}
                                 \/ caps[a] <= weights[a]
  <1> DEFINE single == in.regime.single
             part == (budget * Policy.ethMaxShare) \div 1000
  <1>1. single \in Nat
    <2>1. single \in Mille
      BY RegimeTypes
    <2> HIDE DEF single
    <2> QED
      BY <2>1 DEF Mille
  <1>2. part \in Nat
    <2>1. Policy.ethMaxShare \in Mille
      BY PolicyNumbers
    <2>2. Policy.ethMaxShare \in Nat
      BY <2>1, SMTT(30) DEF Mille
    <2> QED
      BY <2>2, ThousandthsOf
  <1>3. ASSUME NEW a \in Core
        PROVE  /\ caps[a] \in Nat /\ caps[a] <= single
               /\ \/ CoreState(a, in.core) \in {"ELIGIBLE_INCREASE", "INELIGIBLE"}
                  \/ caps[a] <= weights[a]
    <2> DEFINE c == Ceiling(a, in, budget)
    <2>1. c = IF a = "ETH" THEN Least({single, part}) ELSE single
      BY DEF Ceiling
    <2> HIDE DEF single, part, c
    <2>2. c \in Nat /\ c <= single
      <3>1. Least({single, part}) \in Nat /\ Least({single, part}) <= single
        BY <1>1, <1>2, LeastOfNats
      <3>2. single \in Nat /\ single <= single
        BY <1>1
      <3> QED
        BY <2>1, <3>1, <3>2, Zenon
    <2>3. weights[a] \in Mille
      BY DEF Booked, Assets
    <2> DEFINE g == caps[a]
    <2>4. g = GatedCap(a, in, c)
      BY DEF CoreCaps, c
    <2> HIDE DEF g
    <2>5. /\ g \in Nat /\ g <= c
          /\ \/ CoreState(a, in.core) \in {"ELIGIBLE_INCREASE", "INELIGIBLE"}
             \/ g <= weights[a]
      BY <2>2, <2>3, <2>4, GatedCapFits
    <2>6. g <= single
      BY <1>1, <2>2, <2>5
    <2> QED
      BY <2>5, <2>6 DEF g
  <1>4. caps = [a \in Core |-> caps[a]]
    BY DEF CoreCaps
  <1> QED
    BY <1>3, <1>4

\* The anchor fits its budget and the caps, and gates what may not increase.
LEMMA AnchorFits ==
    ASSUME NEW in \in Inputs, Booked, NEW budget \in Nat,
           NEW core, core = AnchorCore(in, budget)
    PROVE  /\ core \in [Core -> Nat] /\ SumOver(core, Core) \in Nat /\ SumOver(core, Core) <= budget
           /\ \A a \in Core : /\ core[a] <= in.regime.single
                              /\ CoreState(a, in.core) # "ELIGIBLE_INCREASE" => core[a] <= weights[a]
  <1> DEFINE d == Desired(in, budget)
             caps == CoreCaps(in, budget)
             frozen == {a \in Core : CoreState(a, in.core) # "ELIGIBLE_INCREASE"}
  <1>1. core = Share(d, budget, caps, frozen)
    BY ZenonT(60) DEF AnchorCore, Desired, Pull, CoreCaps, Ceiling
  <1>2. /\ d \in [Core -> Nat] /\ SumOver(d, Core) \in Nat /\ SumOver(d, Core) <= budget
        /\ \A a \in Core : CoreState(a, in.core) = "INELIGIBLE" => d[a] = 0
    BY DesiredFits
  <1>3. /\ caps \in [Core -> Nat]
        /\ \A a \in Core : /\ caps[a] <= in.regime.single
                           /\ \/ CoreState(a, in.core) \in {"ELIGIBLE_INCREASE", "INELIGIBLE"}
                              \/ caps[a] <= weights[a]
    BY CoreCapsFit
  <1>4. IsFiniteSet(Core)
    BY CoreIsTwo
  <1> HIDE DEF d, caps, frozen
  <1>5. /\ core \in [Core -> Nat]
        /\ \A a \in Core : core[a] <= caps[a] /\ (d[a] = 0 => core[a] = 0)
        /\ SumOver(core, Core) \in Nat /\ SumOver(core, Core) <= budget
    BY <1>1, <1>2, <1>3, <1>4, ShareFits
  <1>6. ASSUME NEW a \in Core
        PROVE  /\ core[a] <= in.regime.single
               /\ CoreState(a, in.core) # "ELIGIBLE_INCREASE" => core[a] <= weights[a]
    <2> DEFINE x == core[a]
               y == caps[a]
               z == in.regime.single
               w == weights[a]
    <2>1. x \in Nat /\ y \in Nat /\ x <= y /\ y <= z
      BY <1>3, <1>5
    <2>2. z \in Nat
      <3>1. z \in Mille
        BY RegimeTypes
      <3> HIDE DEF z
      <3> QED
        BY <3>1 DEF Mille
    <2>3. w \in Nat
      <3>1. w \in Mille
        BY DEF Booked, Assets
      <3> HIDE DEF w
      <3> QED
        BY <3>1 DEF Mille
    <2>4. CoreState(a, in.core) = "INELIGIBLE" => x = 0
      BY <1>2, <1>5
    <2>5. CoreState(a, in.core) \in {"ELIGIBLE_INCREASE", "INELIGIBLE"} \/ y <= w
      BY <1>3
    <2> HIDE DEF x, y, z, w
    <2>6. x <= z /\ (x = 0 => x <= w) /\ (y <= w => x <= w)
      BY <2>1, <2>2, <2>3
    <2> QED
      BY <2>4, <2>5, <2>6 DEF x, z, w
  <1> QED
    BY <1>5, <1>6

\* The baseline and its residual fill the budget with BTC, up to the cap.
LEMMA BaselineFits ==
    ASSUME NEW in \in Inputs, NEW budget \in Nat,
           NEW btc, btc = BaselineCore(in, budget) + Residual(in, budget)
    PROVE  /\ btc \in Nat /\ btc <= budget /\ btc <= in.regime.single
           /\ BaselineBlocked(in.core["BTC"]) \/ btc = budget \/ btc = in.regime.single
  <1> DEFINE z == in.regime.single
             b == BaselineCore(in, budget)
             r == Residual(in, budget)
             blocked == BaselineBlocked(in.core["BTC"])
  <1>1. z \in Nat
    <2>1. z \in Mille
      BY RegimeTypes
    <2> HIDE DEF z
    <2> QED
      BY <2>1 DEF Mille
  <1>2. /\ b = IF blocked \/ budget <= 0 THEN 0 ELSE Least({budget, z})
        /\ r = IF blocked THEN 0 ELSE Least({Most({0, budget - b}), z - b})
        /\ btc = b + r
    BY DEF BaselineCore, Residual
  <1> HIDE DEF z, b, r, blocked
  <1>3. CASE blocked
    <2>1. btc = 0
      BY <1>2, <1>3
    <2>2. btc \in Nat /\ btc <= budget /\ btc <= z
      BY <1>1, <2>1
    <2> QED
      BY <1>3, <2>2 DEF z, blocked
  <1>4. CASE ~blocked
    <2> DEFINE l == Least({budget, z})
    <2>0. /\ l \in Nat /\ l <= budget /\ l <= z /\ (l = budget \/ l = z)
      <3>1. l \in Nat /\ l <= budget /\ l <= z
        BY <1>1, LeastOfNats
      <3>2. l \in {budget, z}
        <4>1. budget \in Int /\ z \in Int
          BY <1>1
        <4> QED
          BY <4>1, LeastOfTwo
      <3> QED
        BY <3>1, <3>2
    <2>1. b \in Nat /\ b <= budget /\ b <= z /\ (b = budget \/ b = z)
      <3>1. b = IF budget <= 0 THEN 0 ELSE l
        BY <1>2, <1>4
      <3> HIDE DEF l
      <3> QED
        BY <1>1, <2>0, <3>1
    <2> DEFINE x == budget - b
               y == z - b
               m == Most({0, x})
               n == Least({m, y})
    <2>2. x \in Nat /\ y \in Nat /\ (x = 0 \/ y = 0)
      BY <1>1, <2>1
    <2>3. r = n
      BY <1>2, <1>4
    <2> HIDE DEF x, y
    <2>4. m \in {0, x} /\ m >= x
      <3>1. 0 \in Int /\ x \in Int
        BY <2>2
      <3> QED
        BY <3>1, MostOfTwo
    <2> HIDE DEF m
    <2>5. m = x
      BY <2>2, <2>4
    <2>6. n \in Nat /\ n <= m /\ n <= y
      <3>1. m \in Nat /\ y \in Nat
        BY <2>2, <2>5
      <3> QED
        BY <3>1, LeastOfNats
    <2> HIDE DEF n
    <2>7. n = 0
      BY <2>2, <2>5, <2>6
    <2>8. btc = b
      BY <1>2, <2>1, <2>3, <2>7
    <2> QED
      BY <2>1, <2>8 DEF z
  <1> QED
    BY <1>3, <1>4

\* The core of either engine.
LEMMA CoreFits ==
    ASSUME NEW in \in Inputs, Booked, NEW budget \in Nat,
           NEW core, core = CoreTarget(in, budget)
    PROVE  /\ core \in [Core -> Nat] /\ SumOver(core, Core) \in Nat /\ SumOver(core, Core) <= budget
           /\ \A a \in Core : core[a] <= in.regime.single
           /\ Legacy => \A a \in Core :
                 CoreState(a, in.core) # "ELIGIBLE_INCREASE" => core[a] <= weights[a]
           /\ ~Legacy => /\ core["ETH"] = 0 /\ SumOver(core, Core) = core["BTC"]
                         /\ \/ BaselineBlocked(in.core["BTC"])
                            \/ core["BTC"] = budget \/ core["BTC"] = in.regime.single
  <1>1. CASE Legacy
    <2>1. core = AnchorCore(in, budget)
      BY <1>1 DEF CoreTarget
    <2> QED
      BY <1>1, <2>1, AnchorFits
  <1>2. CASE ~Legacy
    <2> DEFINE btc == BaselineCore(in, budget) + Residual(in, budget)
               z == in.regime.single
    <2>1. core = [a \in Core |-> IF a = "BTC" THEN btc ELSE 0]
      BY <1>2 DEF CoreTarget
    <2>2. /\ btc \in Nat /\ btc <= budget /\ btc <= z
          /\ BaselineBlocked(in.core["BTC"]) \/ btc = budget \/ btc = z
      BY BaselineFits
    <2>3. z \in Nat
      <3>1. z \in Mille
        BY RegimeTypes
      <3> HIDE DEF z
      <3> QED
        BY <3>1 DEF Mille
    <2> HIDE DEF btc, z
    <2>4. core["BTC"] = btc /\ core["ETH"] = 0 /\ core \in [Core -> Nat]
      BY <2>1, <2>2, CoreIsTwo DEF Core
    <2>5. SumOver(core, Core) = btc
      <3>1. core["BTC"] \in Int /\ core["ETH"] \in Int
        BY <2>2, <2>4
      <3>2. SumOver(core, Core) = core["BTC"] + core["ETH"]
        BY <3>1, CoreIsTwo
      <3> QED
        BY <2>2, <2>4, <3>2
    <2>6. \A a \in Core : core[a] <= z
      BY <2>1, <2>2, <2>3
    <2> QED
      BY <1>2, <2>2, <2>4, <2>5, <2>6 DEF z
  <1> QED
    BY <1>1, <1>2

\* What the core may have, what it gets, and the sleeve before the risk caps.
Rest(in) == RiskyBudget(in) - Total(Preserved(in)) - Total(Bought(in))
CoreOf(in) == CoreTarget(in, Rest(in))
RawOf(in) ==
    [a \in Assets |-> IF a \in Core THEN CoreOf(in)[a] ELSE Preserved(in)[a] + Bought(in)[a]]

\* The assets are finitely many: the core and the satellites.
LEMMA AssetsAreFinite == IsFiniteSet(Assets) /\ Core \subseteq Assets /\ Assets \ Core = Satellites
  <1>1. IsFiniteSet(Core)
    <2>1. IsFiniteSet({"BTC"}) /\ IsFiniteSet({"ETH"})
      BY FS_Singleton
    <2>2. Core = {"BTC"} \cup {"ETH"}
      BY DEF Core
    <2> QED
      BY <2>1, <2>2, FS_Union
  <1>2. IsFiniteSet(Satellites)
    BY AllocationPolicy
  <1>3. IsFiniteSet(Core \cup Satellites)
    BY <1>1, <1>2, FS_Union
  <1>4. Satellites \cap Core = {}
    BY RolesAreDisjoint
  <1> QED
    BY <1>3, <1>4 DEF Assets

\* The core is shared what the satellites leave of the budget.
LEMMA RestFits ==
    ASSUME NEW in \in Inputs, Booked, NEW kept, kept = Preserved(in), NEW new, new = Bought(in)
    PROVE  /\ Rest(in) \in Nat
           /\ Rest(in) + SumOver(kept, Satellites) + SumOver(new, Satellites) = RiskyBudget(in)
  <1> DEFINE b == RiskyBudget(in)
             c == SatelliteCap(in)
             k == SumOver(kept, Satellites)
             n == SumOver(new, Satellites)
  <1>1. b \in Mille /\ c \in Mille /\ c <= b
    BY BudgetTypes
  <1>2. k \in Nat /\ n \in Nat /\ k + n <= c /\ Total(kept) = k /\ Total(new) = n
    BY SleeveFits
  <1>3. Rest(in) = b - k - n
    BY <1>2 DEF Rest
  <1> HIDE DEF b, c, k, n
  <1>4. b - k - n \in Nat /\ (b - k - n) + k + n = b
    BY <1>1, <1>2 DEF Mille
  <1> QED
    BY <1>3, <1>4 DEF b, k, n

\* Before the risk caps the target is within every budget and every cap.
LEMMA RawFits ==
    ASSUME NEW in \in Inputs, Booked, NEW raw, raw = RawOf(in)
    PROVE  /\ raw \in [Assets -> Nat]
           /\ \A a \in Assets : raw[a] <= in.regime.single
           /\ SumOver(raw, Satellites) \in Nat /\ SumOver(raw, Core) \in Nat
           /\ SumOver(raw, Satellites) <= SatelliteCap(in)
           /\ SumOver(raw, Assets) = SumOver(raw, Core) + SumOver(raw, Satellites)
           /\ SumOver(raw, Assets) <= RiskyBudget(in)
           /\ SumOver(raw, Core) = SumOver(CoreOf(in), Core)
           /\ SumOver(raw, Satellites) + Rest(in) = RiskyBudget(in)
  <1> DEFINE kept == Preserved(in)
             new == Bought(in)
             core == CoreOf(in)
             rest == Rest(in)
             z == in.regime.single
             both == [s \in Satellites |-> kept[s] + new[s]]
  <1>1. /\ kept \in [Satellites -> Nat] /\ new \in [Satellites -> Nat]
        /\ SumOver(kept, Satellites) \in Nat /\ SumOver(new, Satellites) \in Nat
        /\ SumOver(kept, Satellites) + SumOver(new, Satellites) <= SatelliteCap(in)
        /\ \A s \in Satellites : kept[s] + new[s] <= z
    BY SleeveFits
  <1>2. /\ rest \in Nat
        /\ rest + SumOver(kept, Satellites) + SumOver(new, Satellites) = RiskyBudget(in)
    BY RestFits
  <1>3. core = CoreTarget(in, rest)
    BY DEF CoreOf
  <1>4. raw = [a \in Assets |-> IF a \in Core THEN core[a] ELSE kept[a] + new[a]]
    BY DEF RawOf
  <1> HIDE DEF kept, new, core, rest, z
  <1>5. /\ core \in [Core -> Nat] /\ SumOver(core, Core) \in Nat /\ SumOver(core, Core) <= rest
        /\ \A a \in Core : core[a] <= in.regime.single
    BY <1>2, <1>3, CoreFits
  <1>6. IsFiniteSet(Assets) /\ Core \subseteq Assets /\ Assets \ Core = Satellites
    BY AssetsAreFinite
  <1>7. /\ \A a \in Core : raw[a] = core[a]
        /\ \A s \in Satellites : raw[s] = kept[s] + new[s] /\ raw[s] = both[s]
        /\ DOMAIN raw = Assets
    BY <1>4, <1>6
  <1>8. /\ raw \in [Assets -> Nat] /\ \A a \in Assets : raw[a] <= z
    <2>1. ASSUME NEW a \in Assets PROVE raw[a] \in Nat /\ raw[a] <= z
      <3>1. CASE a \in Core
        <4>1. raw[a] = core[a] /\ core[a] \in Nat /\ core[a] <= z
          BY <1>5, <1>7, <3>1 DEF z
        <4> QED
          BY <4>1
      <3>2. CASE a \in Satellites
        <4>1. kept[a] \in Nat /\ new[a] \in Nat /\ raw[a] = kept[a] + new[a] /\ kept[a] + new[a] <= z
          BY <1>1, <1>7, <3>2
        <4> QED
          BY <4>1
      <3> QED
        BY <1>6, <3>1, <3>2
    <2>2. raw = [a \in Assets |-> raw[a]]
      BY <1>4
    <2> QED
      BY <2>1, <2>2
  <1>9. IsFiniteSet(Satellites) /\ IsFiniteSet(Core) /\ Satellites \subseteq Assets
    BY <1>6, FS_Subset
  <1>10. SumOver(raw, Core) = SumOver(core, Core)
    <2>1. \A a \in Core : core[a] \in Int /\ core[a] = raw[a]
      BY <1>5, <1>7
    <2> QED
      BY <1>9, <2>1, SumSame
  <1>11. SumOver(raw, Satellites) = SumOver(kept, Satellites) + SumOver(new, Satellites)
    <2>1. \A a \in Satellites : kept[a] \in Int /\ new[a] \in Int /\ raw[a] = kept[a] + new[a]
      BY <1>1, <1>7
    <2> QED
      BY <1>9, <2>1, SumOfSums
  <1>12. SumOver(raw, Assets) = SumOver(raw, Core) + SumOver(raw, Satellites)
    <2>1. \A a \in Assets : raw[a] \in Int
      BY <1>8
    <2> QED
      BY <1>6, <2>1, SumOfUnion
  <1> DEFINE rs == SumOver(raw, Satellites)
             rc == SumOver(raw, Core)
             ra == SumOver(raw, Assets)
             ks == SumOver(kept, Satellites)
             ns == SumOver(new, Satellites)
             cc == SumOver(core, Core)
             rb == RiskyBudget(in)
             sc == SatelliteCap(in)
  <1>13. /\ ks \in Nat /\ ns \in Nat /\ ks + ns <= sc /\ rest \in Nat /\ rest + ks + ns = rb
         /\ cc \in Nat /\ cc <= rest /\ rc = cc /\ rs = ks + ns /\ ra = rc + rs
    BY <1>1, <1>2, <1>5, <1>10, <1>11, <1>12
  <1> HIDE DEF rs, rc, ra, ks, ns, cc, rb, sc
  <1>14. rs \in Nat /\ rc \in Nat /\ rs <= sc /\ ra <= rb /\ rs + rest = rb
    BY <1>13
  <1> QED
    BY <1>8, <1>13, <1>14 DEF rs, rc, ra, cc, rb, sc, z, core, rest

\* A set of amounts has a least one.
LEMMA LeastOfMany ==
    ASSUME NEW T \in SUBSET Nat, T # {}
    PROVE  Least(T) \in T /\ \A n \in T : Least(T) <= n
  <1>1. \E m \in T : \A n \in T : m <= n
    BY LeastOfNat
  <1> QED
    BY <1>1 DEF Least

\* A part of an amount, rounded down, is no more than the amount.
LEMMA PartOfAmount ==
    ASSUME NEW x \in Nat, NEW c \in Nat, NEW d \in Nat \ {0}, c <= d
    PROVE  (x * c) \div d \in Nat /\ (x * c) \div d <= x /\ (x * c) \div d = (c * x) \div d
  <1> DEFINE y == x * c
  <1>1. y \in Nat /\ y <= d * x /\ y = c * x
    <2>1. x * c <= x * d
      OBVIOUS
    <2> QED
      BY <2>1
  <1> HIDE DEF y
  <1>2. y \div d \in Nat /\ y \div d <= x
    BY <1>1
  <1> QED
    BY <1>1, <1>2 DEF y

\* A thousandth of an amount, rounded down, is an amount.
LEMMA ThousandthIsNat == ASSUME NEW x \in Nat PROVE x \div 1000 \in Nat
  OBVIOUS

\* The risk caps are amounts.
LEMMA CapsAreAmounts ==
    ASSUME NEW in \in Inputs, NEW r \in Nat
    PROVE  /\ RiskCaps(in, r) \subseteq Nat
           /\ 1000 - Policy.minStable \in RiskCaps(in, r)
           /\ in.floor > 0 => 1000 - in.floor \in RiskCaps(in, r)
  <1> DEFINE x == Policy.minStable
             y == in.floor
             z == in.scale
             w == in.stress
             some == {1000 - x, (r * z) \div 1000}
             more == IF y > 0 THEN {1000 - y} ELSE {}
             last == IF w # None THEN {(r * w) \div 1000} ELSE {}
  <1>1. x \in Mille /\ y \in Mille /\ z \in Mille /\ w \in Mille \cup {None}
    BY PolicyMinStable, OverlayTypes, MarketTypes
  <1>2. RiskCaps(in, r) = some \cup more \cup last
    BY DEF RiskCaps
  <1> HIDE DEF x, y, z, w
  <1>3. (r * z) \div 1000 \in Nat
    <2>1. r * z \in Nat
      BY <1>1 DEF Mille
    <2> QED
      BY <2>1, ThousandthIsNat
  <1>4. w # None => (r * w) \div 1000 \in Nat
    <2>1. w # None => r * w \in Nat
      BY <1>1 DEF Mille
    <2> QED
      BY <2>1, ThousandthIsNat
  <1>5. 1000 - x \in Nat /\ 1000 - y \in Nat
    BY <1>1 DEF Mille
  <1>6. some \subseteq Nat /\ more \subseteq Nat /\ last \subseteq Nat
    <2> DEFINE m == 1000 - x
               n == 1000 - y
               p == (r * z) \div 1000
               q == (r * w) \div 1000
               some2 == some
               more2 == more
               last2 == last
    <2>1. m \in Nat /\ n \in Nat /\ p \in Nat /\ (w # None => q \in Nat)
      BY <1>3, <1>4, <1>5
    <2>2. /\ some2 = {m, p} /\ more2 = (IF y > 0 THEN {n} ELSE {})
          /\ last2 = (IF w # None THEN {q} ELSE {})
      OBVIOUS
    <2> HIDE DEF m, n, p, q, some2, more2, last2
    <2>3. some2 \subseteq Nat /\ more2 \subseteq Nat /\ last2 \subseteq Nat
      BY <2>1, <2>2
    <2> QED
      BY <2>3 DEF some2, more2, last2
  <1>7. 1000 - x \in some /\ (y > 0 => 1000 - y \in more)
    OBVIOUS
  <1> HIDE DEF some, more, last
  <1> QED
    BY <1>2, <1>6, <1>7 DEF x, y

\* The sleeve is as large as the tightest of the caps allows.
LEMMA RiskyTotalFits ==
    ASSUME NEW in \in Inputs, NEW r \in Nat, NEW c, c = RiskyTotal(in, r)
    PROVE  /\ c \in Nat /\ c <= r /\ c <= 1000 - Policy.minStable
           /\ in.floor > 0 => c <= 1000 - in.floor
  <1> DEFINE T == {r} \cup RiskCaps(in, r)
             x == Policy.minStable
             y == in.floor
  <1>1. T \subseteq Nat /\ T # {} /\ r \in T /\ 1000 - x \in T /\ (y > 0 => 1000 - y \in T)
    BY CapsAreAmounts
  <1>2. c = IF r = 0 THEN 0 ELSE Least(T)
    BY DEF RiskyTotal
  <1>3. x \in Mille /\ y \in Mille
    BY PolicyMinStable, OverlayTypes
  <1> HIDE DEF T
  <1>4. Least(T) \in T /\ \A n \in T : Least(T) <= n
    BY <1>1, LeastOfMany
  <1> DEFINE l == Least(T)
  <1>5. /\ l \in Nat /\ l <= r /\ l <= 1000 - x /\ (y > 0 => l <= 1000 - y)
        /\ c = IF r = 0 THEN 0 ELSE l
    <2> HIDE DEF x, y
    <2>1. l \in T /\ \A n \in T : l <= n
      BY <1>4
    <2>2. c = IF r = 0 THEN 0 ELSE l
      BY <1>2
    <2> HIDE DEF l
    <2>3. l \in Nat
      BY <1>1, <2>1
    <2>4. l <= r /\ l <= 1000 - x
      BY <1>1, <2>1, ZenonT(60)
    <2>5. y > 0 => l <= 1000 - y
      BY <1>1, <2>1, ZenonT(60)
    <2> QED
      BY <2>2, <2>3, <2>4, <2>5
  <1> HIDE DEF l, x, y
  <1>6. c \in Nat /\ c <= r /\ c <= 1000 - x /\ (y > 0 => c <= 1000 - y) /\ (r > 0 => c = l)
    BY <1>3, <1>5
  <1> QED
    BY <1>5, <1>6 DEF l, T, x, y

\* A sleeve is cut to the tightest of its risk caps.
LEMMA RiskyTotalIsTightest ==
    ASSUME NEW in \in Inputs, NEW r \in Nat, NEW c, c = RiskyTotal(in, r), r > 0
    PROVE  c = Least({r} \cup RiskCaps(in, r))
  BY DEF RiskyTotal

\* Which is no larger than the sleeve.
LEMMA TightestIsWithin ==
    ASSUME NEW in \in Inputs, NEW r \in Nat, NEW l, l = Least({r} \cup RiskCaps(in, r))
    PROVE  l \in Nat /\ l <= r
  <1> DEFINE T == {r} \cup RiskCaps(in, r)
  <1>1. T \subseteq Nat /\ T # {} /\ r \in T
    BY CapsAreAmounts
  <1>2. l = Least(T)
    OBVIOUS
  <1> HIDE DEF T
  <1>3. Least(T) \in T /\ \A n \in T : Least(T) <= n
    BY <1>1, LeastOfMany
  <1> QED
    BY <1>1, <1>2, <1>3

\* _apply_risk_caps leaves nobody more than it had, and all together what
\* the tightest cap says, up to what rounding drops.
LEMMA SizedFits ==
    ASSUME NEW in \in Inputs, Booked, NEW raw, raw = RawOf(in), NEW t, t = Sized(in, raw)
    PROVE  /\ t \in [Assets -> Nat] /\ \A a \in Assets : t[a] <= raw[a]
           /\ Legacy => t = raw
           /\ Total(raw) = SumOver(raw, Assets) /\ Total(raw) \in Nat
           /\ Total(t) = SumOver(t, Assets) /\ Total(t) \in Nat /\ Total(t) <= Total(raw)
           /\ ~Legacy => /\ Total(t) <= RiskyTotal(in, Total(raw))
                         /\ RiskyTotal(in, Total(raw)) <= Total(t) + Cardinality(Assets)
  <1> DEFINE r == Total(raw)
             c == RiskyTotal(in, r)
             s == Total(t)
  <1>1. raw \in [Assets -> Nat] /\ IsFiniteSet(Assets)
    BY RawFits, AssetsAreFinite
  <1>2. r = SumOver(raw, Assets) /\ r \in Nat
    <2>1. r = SumOver(raw, Assets)
      BY <1>1 DEF Total
    <2>2. SumOver(raw, Assets) \in Nat
      BY <1>1, SumOfNaturals
    <2> QED
      BY <2>1, <2>2
  <1>3. c \in Nat /\ c <= r
    <2> HIDE DEF r
    <2>1. r \in Nat
      BY <1>2
    <2> DEFINE d == RiskyTotal(in, r)
    <2>2. d = RiskyTotal(in, r)
      OBVIOUS
    <2> HIDE DEF d
    <2>3. d \in Nat /\ d <= r
      BY <2>1, <2>2, RiskyTotalFits
    <2> QED
      BY <2>2, <2>3, Zenon
  <1>4. t = IF Legacy \/ r = 0 THEN raw ELSE [a \in Assets |-> (raw[a] * c) \div r]
    BY DEF Sized
  <1>5. Cardinality(Assets) \in Nat
    BY <1>1, FS_CardinalityType
  <1> HIDE DEF r, c
  <1>6. CASE Legacy
    <2>1. t = raw
      BY <1>4, <1>6
    <2>2. \A a \in Assets : raw[a] \in Nat
      BY <1>1
    <2>3. \A a \in Assets : t[a] <= raw[a]
      BY <2>1, <2>2
    <2>4. Total(t) = SumOver(t, Assets) /\ Total(t) \in Nat /\ Total(t) <= r
      BY <1>2, <2>1 DEF r
    <2> QED
      BY <1>1, <1>2, <1>6, <2>1, <2>3, <2>4 DEF r
  <1>7. CASE ~Legacy /\ r = 0
    <2>1. t = raw
      BY <1>4, <1>7
    <2>2. \A a \in Assets : raw[a] \in Nat
      BY <1>1
    <2>3. \A a \in Assets : t[a] <= raw[a]
      BY <2>1, <2>2
    <2>4. c = 0
      BY <1>3, <1>7
    <2>5. s = r
      BY <2>1 DEF r
    <2> HIDE DEF s
    <2>6. s \in Nat /\ s <= r /\ s <= c /\ c <= s + Cardinality(Assets)
      BY <1>2, <1>5, <1>7, <2>4, <2>5
    <2>7. s = SumOver(t, Assets)
      BY <1>2, <2>1, <2>5
    <2> QED
      BY <1>1, <1>2, <1>7, <2>1, <2>3, <2>6, <2>7 DEF r, c, s
  <1>8. CASE ~Legacy /\ r # 0
    <2>1. t = [a \in Assets |-> (raw[a] * c) \div r]
      BY <1>4, <1>8
    <2>2. r \in Nat \ {0}
      BY <1>2, <1>8
    <2>3. \A a \in Assets : /\ raw[a] \in Nat /\ t[a] \in Nat /\ t[a] <= raw[a]
                            /\ t[a] = (c * raw[a]) \div r
      <3> SUFFICES ASSUME NEW a \in Assets
                   PROVE  /\ raw[a] \in Nat /\ t[a] \in Nat /\ t[a] <= raw[a]
                          /\ t[a] = (c * raw[a]) \div r
        OBVIOUS
      <3> DEFINE x == raw[a]
                 y == t[a]
                 q == (x * c) \div r
      <3>1. x \in Nat
        BY <1>1
      <3>2. y = q
        BY <2>1
      <3> HIDE DEF x, y
      <3>3. q \in Nat /\ q <= x /\ q = (c * x) \div r
        BY <1>3, <2>2, <3>1, PartOfAmount
      <3> HIDE DEF q
      <3>4. y \in Nat /\ y <= x /\ y = (c * x) \div r
        BY <3>2, <3>3
      <3> QED
        BY <3>1, <3>4 DEF x, y
    <2>4. t \in [Assets -> Nat]
      <3>1. t = [a \in Assets |-> t[a]]
        BY <2>1
      <3>2. \A a \in Assets : t[a] \in Nat
        BY <2>3
      <3> QED
        BY <3>1, <3>2
    <2>5. s = SumOver(t, Assets)
      <3>1. DOMAIN t = Assets
        BY <2>4
      <3> QED
        BY <3>1 DEF Total
    <2>6. /\ s \in Nat
          /\ r * s <= c * r /\ c * r <= r * (s + Cardinality(Assets))
      <3>1. /\ SumOver(t, Assets) \in Nat
            /\ r * SumOver(t, Assets) <= c * SumOver(raw, Assets)
            /\ c * SumOver(raw, Assets) <= r * (SumOver(t, Assets) + Cardinality(Assets))
        <4>1. \A a \in Assets : raw[a] \in Nat /\ t[a] = (c * raw[a]) \div r
          BY <2>3
        <4>2. c \in Nat /\ r \in Nat \ {0} /\ IsFiniteSet(Assets)
          BY <1>1, <1>3, <2>2
        <4> HIDE DEF s
        <4> QED
          BY <4>1, <4>2, SumOfShares, ZenonT(60)
      <3> QED
        BY <1>2, <2>5, <3>1
    <2> DEFINE k == Cardinality(Assets)
    <2> HIDE DEF s, k
    <2>7. s <= c /\ c <= s + k
      <3>1. k \in Nat
        BY <1>5 DEF k
      <3>2. r * s <= r * c => s <= c
        BY <1>3, <2>2, <2>6
      <3>3. r * c <= r * (s + k) => c <= s + k
        BY <1>3, <2>2, <2>6, <3>1
      <3>4. r * c = c * r
        BY <1>3, <2>2
      <3>5. r * s <= r * c /\ r * c <= r * (s + k)
        BY <2>6, <3>4 DEF k
      <3> QED
        BY <3>2, <3>3, <3>5
    <2>8. s <= r
      BY <1>2, <1>3, <2>6, <2>7
    <2> QED
      BY <1>2, <1>8, <2>3, <2>4, <2>5, <2>6, <2>7, <2>8 DEF r, c, s, k
  <1> QED
    BY <1>6, <1>7, <1>8

-----------------------------------------------------------------------------
(* The standing plan is what build_target_allocation made of the standing  *)
(* book: nothing comes between a review and what is done about it.         *)

\* What a review concludes of what it sees.
Concluded(in, pl) ==
    /\ pl.verdict = [s \in Satellites |-> Verdict(s, in.satellites[s], in)]
    /\ pl.raw = RawOf(in)
    /\ pl.target = Sized(in, pl.raw)
    /\ pl.errors = GateErrors(Proposal(in, pl.target))

PlanIsConcluded ==
    plan # None =>
        \E in, pl : in \in Inputs /\ inputs = in /\ plan = pl /\ Concluded(in, pl)

\* It is read off the book and the engine, and those do not change with it.
LEMMA ConclusionsStand ==
    ASSUME engine' = engine, weights' = weights, NEW in, NEW pl
    PROVE  Concluded(in, pl)' <=> Concluded(in, pl)
  <1>1. (pl.verdict = [s \in Satellites |-> Verdict(s, in.satellites[s], in)])'
            <=> pl.verdict = [s \in Satellites |-> Verdict(s, in.satellites[s], in)]
    BY DEF Verdict, Requested, CurveFraction, AlphaGranted, Bucket, Envelope, SatelliteCap,
           RiskyBudget, StableTarget, Legacy
  <1>2. RawOf(in)' = RawOf(in)
    BY DEF RawOf, CoreOf, CoreTarget, AnchorCore, BaselineCore, Residual, GatedCap, Rest,
           Preserved, Bought, Holds, Wants, Verdict, Requested, CurveFraction, AlphaGranted,
           Bucket, Envelope, SatelliteCap, RiskyBudget, StableTarget, Legacy
  <1>3. Sized(in, pl.raw)' = Sized(in, pl.raw)
    BY DEF Sized, Legacy
  <1>4. Proposal(in, pl.target)' = Proposal(in, pl.target)
    BY DEF Proposal
  <1> QED
    BY <1>1, <1>2, <1>3, <1>4 DEF Concluded

\* Review, by what is concluded.
LEMMA ReviewConcludes ==
    ASSUME Review
    PROVE  \E in, pl : in \in Inputs /\ inputs' = in /\ plan' = pl /\ Concluded(in, pl)
  <1> DEFINE Sizing(in, verdict, raw) ==
                 \E target \in {Sized(in, raw)} :
                    /\ inputs' = in
                    /\ plan' = [verdict |-> verdict, raw |-> raw, target |-> target,
                                errors |-> GateErrors(Proposal(in, target))]
             Filling(in, verdict, kept, new) ==
                 \E core \in {CoreTarget(in, RiskyBudget(in) - Total(kept) - Total(new))} :
                 \E raw \in {[a \in Assets |-> IF a \in Core THEN core[a] ELSE kept[a] + new[a]]} :
                    Sizing(in, verdict, raw)
             Buying(in, verdict, kept) ==
                 \E new \in {Share([s \in Satellites |-> verdict[s].strategic],
                                   Most({0, SatelliteCap(in) - Total(kept)}),
                                   Uniform(Satellites, in.regime.single), {})} :
                    Filling(in, verdict, kept, new)
             Keeping(in, verdict) ==
                 \E kept \in {Share([s \in Satellites |-> verdict[s].hold], SatelliteCap(in),
                                    Uniform(Satellites, in.regime.single), {})} :
                    Buying(in, verdict, kept)
             Judging(in) ==
                 \E verdict \in {[s \in Satellites |-> Verdict(s, in.satellites[s], in)]} :
                    Keeping(in, verdict)
  <1>a. PICK in \in Inputs : Judging(in)
    BY ZenonT(60) DEF Review
  <1> HIDE DEF Keeping
  <1>b. PICK verdict : /\ verdict = [s \in Satellites |-> Verdict(s, in.satellites[s], in)]
                       /\ Keeping(in, verdict)
    BY <1>a
  <1> HIDE DEF Buying
  <1>c. PICK kept : /\ kept = Share([s \in Satellites |-> verdict[s].hold], SatelliteCap(in),
                                    Uniform(Satellites, in.regime.single), {})
                    /\ Buying(in, verdict, kept)
    BY <1>b DEF Keeping
  <1> HIDE DEF Filling
  <1>d. PICK new : /\ new = Share([s \in Satellites |-> verdict[s].strategic],
                                  Most({0, SatelliteCap(in) - Total(kept)}),
                                  Uniform(Satellites, in.regime.single), {})
                   /\ Filling(in, verdict, kept, new)
    BY <1>c DEF Buying
  <1> HIDE DEF Sizing
  <1>e. PICK core, raw :
            /\ core = CoreTarget(in, RiskyBudget(in) - Total(kept) - Total(new))
            /\ raw = [a \in Assets |-> IF a \in Core THEN core[a] ELSE kept[a] + new[a]]
            /\ Sizing(in, verdict, raw)
    BY <1>d DEF Filling
  <1>2. PICK target :
            /\ target = Sized(in, raw)
            /\ inputs' = in
            /\ plan' = [verdict |-> verdict, raw |-> raw, target |-> target,
                        errors |-> GateErrors(Proposal(in, target))]
    BY <1>e DEF Sizing
  <1>3. [s \in Satellites |-> verdict[s].hold] = Holds(in)
    BY <1>b DEF Holds
  <1>4. [s \in Satellites |-> verdict[s].strategic] = Wants(in)
    BY <1>b DEF Wants
  <1>5. kept = Preserved(in)
    BY <1>c, <1>3 DEF Preserved
  <1>6. new = Bought(in)
    BY <1>d, <1>4, <1>5 DEF Bought
  <1>7. core = CoreOf(in)
    BY <1>e, <1>5, <1>6 DEF CoreOf, Rest
  <1>8. raw = RawOf(in)
    BY <1>e, <1>5, <1>6, <1>7 DEF RawOf
  <1>9. target = Sized(in, RawOf(in))
    BY <1>2, <1>8
  <1>10. Concluded(in, [verdict |-> verdict, raw |-> raw, target |-> target,
                        errors |-> GateErrors(Proposal(in, target))])
    BY <1>2, <1>b, <1>8, <1>9 DEF Concluded
  <1> QED
    BY <1>2, <1>10

\* Reviews and executions keep the plan and its book together.
THEOREM PlanStaysConcluded == AllocationSpec => []PlanIsConcluded
  <1>1. Init => PlanIsConcluded
    BY DEF Init, PlanIsConcluded
  <1>2. PlanIsConcluded /\ [Next]_allocationVars => PlanIsConcluded'
    <2> SUFFICES ASSUME PlanIsConcluded, [Next]_allocationVars
                 PROVE  PlanIsConcluded'
      OBVIOUS
    <2>1. CASE Review
      <3>1. engine' = engine /\ weights' = weights
        BY <2>1 DEF Review
      <3>2. PICK in, pl : in \in Inputs /\ inputs' = in /\ plan' = pl /\ Concluded(in, pl)
        BY <2>1, ReviewConcludes
      <3>3. Concluded(in, pl)'
        BY <3>1, <3>2, ConclusionsStand
      <3> QED
        BY <3>2, <3>3 DEF PlanIsConcluded
    <2>2. CASE \E chosen \in {Assets, Reductions, {}} : Execute(chosen)
      <3>1. plan' = None
        BY <2>2 DEF Execute
      <3> QED
        BY <3>1 DEF PlanIsConcluded
    <2>3. CASE UNCHANGED allocationVars
      <3>1. /\ plan' = plan /\ inputs' = inputs /\ weights' = weights /\ engine' = engine
        BY <2>3 DEF allocationVars
      <3>2. CASE plan = None
        BY <3>1, <3>2 DEF PlanIsConcluded
      <3>3. CASE plan # None
        <4>1. PICK in, pl : in \in Inputs /\ inputs = in /\ plan = pl /\ Concluded(in, pl)
          BY <3>3 DEF PlanIsConcluded
        <4>2. Concluded(in, pl)'
          BY <3>1, <4>1, ConclusionsStand
        <4> QED
          BY <3>1, <4>1, <4>2 DEF PlanIsConcluded
      <3> QED
        BY <3>2, <3>3
    <2> QED
      BY <2>1, <2>2, <2>3 DEF Next
  <1> QED
    BY <1>1, <1>2, PTL DEF AllocationSpec

\* What a review concludes is weights, allowances and a sleeve within its
\* budgets.
LEMMA ConclusionsFit ==
    ASSUME NEW in \in Inputs, Booked, NEW pl, Concluded(in, pl)
    PROVE  /\ pl.target \in [Assets -> Mille]
           /\ \A a \in Assets : pl.target[a] <= pl.raw[a] /\ pl.target[a] <= in.regime.single
           /\ \A s \in Satellites : pl.verdict[s].factor \in Mille
  <1> DEFINE raw == pl.raw
             t == pl.target
             z == in.regime.single
  <1>1. raw = RawOf(in) /\ t = Sized(in, raw)
    BY DEF Concluded
  <1>2. raw \in [Assets -> Nat] /\ \A a \in Assets : raw[a] <= in.regime.single
    BY <1>1, RawFits
  <1>3. t \in [Assets -> Nat] /\ \A a \in Assets : t[a] <= raw[a]
    BY <1>1, SizedFits
  <1>4. z \in Mille
    BY RegimeTypes
  <1>5. \A s \in Satellites : pl.verdict[s].factor = Verdict(s, in.satellites[s], in).factor
    BY DEF Concluded
  <1>6. ASSUME NEW s \in Satellites PROVE pl.verdict[s].factor \in Mille
    <2>1. Verdict(s, in.satellites[s], in).factor \in Mille
      BY BookOfSatellite, VerdictTypes
    <2> QED
      BY <1>5, <2>1, ZenonT(60)
  <1> HIDE DEF raw, t
  <1>7. ASSUME NEW a \in Assets
        PROVE  t[a] \in Mille /\ t[a] <= raw[a] /\ t[a] <= z
    <2> HIDE DEF z
    <2> DEFINE x == t[a]
               y == raw[a]
    <2>1. x \in Nat /\ x <= y /\ y \in Nat
      BY <1>2, <1>3
    <2>2. y <= z
      BY <1>2 DEF z
    <2> HIDE DEF x, y
    <2>3. x \in Mille /\ x <= y /\ x <= z
      BY <1>4, <2>1, <2>2 DEF Mille
    <2> QED
      BY <2>3 DEF x, y
  <1>8. t \in [Assets -> Mille]
    <2>1. t = [a \in Assets |-> t[a]]
      BY <1>3
    <2>2. \A a \in Assets : t[a] \in Mille
      BY <1>7
    <2> QED
      BY <2>1, <2>2
  <1> QED
    BY <1>6, <1>7, <1>8 DEF raw, t, z

\* What the type invariant says of the book, and what it says of a plan.
LEMMA BookIsTyped == ASSUME AllocationTypeOK PROVE weights \in [Assets -> Mille]
  BY Zenon DEF AllocationTypeOK

\* The plan's target and its factors are per mille.
LEMMA PlanIsTyped ==
    ASSUME AllocationTypeOK, plan # None
    PROVE  /\ plan.target \in [Assets -> Mille]
           /\ \A s \in Satellites : plan.verdict[s].factor \in Mille
  BY Zenon DEF AllocationTypeOK

\* What is executed ends at a weight.
LEMMA ReachIsWeight ==
    ASSUME AllocationTypeOK, plan # None, NEW a \in Assets
    PROVE  Reach(a) \in Mille
  <1> DEFINE t == plan.target[a]
             w == weights[a]
             f == plan.verdict[a].factor
             b == w + (t * f) \div 1000
  <1>1. t \in Mille /\ w \in Mille
    BY BookIsTyped, PlanIsTyped
  <1>2. Reach(a) = IF t <= w THEN t ELSE IF plan.errors # {} THEN w ELSE IF a \in Core THEN t
                   ELSE Least({t, b})
    BY DEF Reach
  <1>3. a \notin Core => f \in Mille
    BY PlanIsTyped DEF Assets
  <1>4. a \notin Core => b \in Nat
    <2> SUFFICES ASSUME a \notin Core PROVE b \in Nat
      OBVIOUS
    <2> DEFINE p == t * f
    <2>1. p \in Nat /\ w \in Nat
      <3>1. t \in Nat /\ f \in Nat /\ w \in Nat
        BY <1>1, <1>3, WeightIsNat, ZenonT(60)
      <3> HIDE DEF t, f, w
      <3> QED
        BY <3>1
    <2> HIDE DEF p
    <2>2. p \div 1000 \in Nat
      BY <2>1
    <2> HIDE DEF w
    <2>3. w + p \div 1000 \in Nat
      BY <2>1, <2>2
    <2> QED
      BY <2>3 DEF p
  <1> HIDE DEF b
  <1>5. a \notin Core => Least({t, b}) \in Mille
    <2> SUFFICES ASSUME a \notin Core PROVE Least({t, b}) \in Mille
      OBVIOUS
    <2>1. t \in Nat /\ b \in Nat
      BY <1>1, <1>4, WeightIsNat, ZenonT(60)
    <2> HIDE DEF t
    <2>2. Least({t, b}) \in Nat /\ Least({t, b}) <= t
      BY <2>1, LeastOfNats
    <2> DEFINE l == Least({t, b})
    <2>3. l \in Nat /\ l <= t
      BY <2>2
    <2> HIDE DEF l
    <2>4. l \in Mille
      BY <1>1, <2>3 DEF Mille
    <2> QED
      BY <2>4 DEF l
  <1> DEFINE l == Least({t, b})
             r == Reach(a)
  <1>6. /\ r = IF t <= w THEN t ELSE IF plan.errors # {} THEN w ELSE IF a \in Core THEN t ELSE l
        /\ a \notin Core => l \in Mille
    BY <1>2, <1>5
  <1> HIDE DEF l, r, t, w
  <1>7. r \in Mille
    BY <1>1, <1>6
  <1> QED
    BY <1>7 DEF r

\* The engine stays what it is, and every weight of the book and of the plan
\* is one.
THEOREM AllocationTypes == AllocationSpec => []AllocationTypeOK
  <1>1. Init => AllocationTypeOK
    <2> SUFFICES ASSUME Init PROVE AllocationTypeOK
      OBVIOUS
    <2>1. weights \in [Assets -> Mille]
      BY AllocationPolicy DEF Init
    <2>2. 0 \in 0 .. MaxReviews
      BY ReviewsAreCounted
    <2> QED
      BY <2>1, <2>2 DEF Init, AllocationTypeOK
  <1>2. AllocationTypeOK /\ [Next]_allocationVars => AllocationTypeOK'
    <2> SUFFICES ASSUME AllocationTypeOK, [Next]_allocationVars
                 PROVE  AllocationTypeOK'
      OBVIOUS
    <2>1. CASE Review
      <3>1. PICK in, pl : in \in Inputs /\ inputs' = in /\ plan' = pl /\ Concluded(in, pl)
        BY <2>1, ReviewConcludes
      <3>2. Booked
        BY BookIsTyped DEF Booked
      <3>3. /\ pl.target \in [Assets -> Mille]
            /\ \A s \in Satellites : pl.verdict[s].factor \in Mille
        BY <3>1, <3>2, ConclusionsFit, ZenonT(60)
      <3>4. /\ engine' = engine /\ weights' = weights
            /\ reviews' = reviews + 1 /\ reviews < MaxReviews
        BY <2>1 DEF Review
      <3>5. reviews' \in 0 .. MaxReviews
        <4>1. reviews \in 0 .. MaxReviews
          BY Zenon DEF AllocationTypeOK
        <4> QED
          BY <3>4, <4>1, ReviewsAreCounted
      <3>6. plan' # None => /\ plan'.target \in [Assets -> Mille]
                            /\ \A s \in Satellites : plan'.verdict[s].factor \in Mille
        BY <3>1, <3>3, Zenon
      <3>7. engine' \in Engines /\ weights' \in [Assets -> Mille]
        BY <3>4, Zenon DEF AllocationTypeOK
      <3> QED
        BY <3>5, <3>6, <3>7, ZenonT(60) DEF AllocationTypeOK
    <2>2. CASE plan # None /\ \E chosen \in {Assets, Reductions, {}} : Execute(chosen)
      <3>1. PICK chosen : Execute(chosen)
        BY <2>2
      <3>2. weights' \in [Assets -> Mille]
        <4>1. \A a \in Assets : Reach(a) \in Mille /\ weights[a] \in Mille
          BY <2>2, ReachIsWeight, BookIsTyped
        <4>2. weights' = [a \in Assets |-> IF a \in chosen THEN Reach(a) ELSE weights[a]]
          BY <3>1 DEF Execute
        <4> QED
          BY <4>1, <4>2
      <3>3. plan' = None /\ engine' = engine /\ reviews' = reviews
        BY <3>1 DEF Execute
      <3> QED
        BY <3>2, <3>3, ZenonT(60) DEF AllocationTypeOK
    <2>3. CASE UNCHANGED allocationVars
      BY <2>3, ZenonT(60) DEF allocationVars, AllocationTypeOK
    <2> QED
      BY <2>1, <2>2, <2>3 DEF Next
  <1> QED
    BY <1>1, <1>2, PTL DEF AllocationSpec

\* What a conclusion is made of, for the lemmas about it.
LEMMA ConclusionIs ==
    ASSUME NEW in \in Inputs, Booked, NEW pl, Concluded(in, pl)
    PROVE  /\ pl.raw = RawOf(in) /\ pl.target = Sized(in, pl.raw)
           /\ pl.errors = GateErrors(Proposal(in, pl.target))
  BY DEF Concluded

\* The satellites of the target are within their envelope.
LEMMA TargetEnvelope ==
    ASSUME NEW in \in Inputs, Booked, NEW pl, Concluded(in, pl)
    PROVE  /\ SumOver(pl.target, Satellites) \in Nat
           /\ SumOver(pl.target, Satellites) <= SatelliteCap(in)
  <1> DEFINE raw == pl.raw
             t == pl.target
             c == SatelliteCap(in)
  <1>1. raw = RawOf(in) /\ t = Sized(in, raw)
    BY ConclusionIs
  <1>2. /\ raw \in [Assets -> Nat] /\ SumOver(raw, Satellites) \in Nat
        /\ SumOver(raw, Satellites) <= c
    BY <1>1, RawFits
  <1>3. t \in [Assets -> Nat] /\ \A a \in Assets : t[a] <= raw[a]
    BY <1>1, SizedFits
  <1>4. IsFiniteSet(Satellites) /\ Satellites \subseteq Assets
    BY AllocationPolicy DEF Assets
  <1>5. c \in Nat
    <2>1. c \in Mille
      BY BudgetTypes
    <2> QED
      BY <2>1, WeightIsNat, ZenonT(60)
  <1> HIDE DEF raw, t, c
  <1>6. \A s \in Satellites : t[s] \in Int /\ raw[s] \in Int /\ t[s] <= raw[s] /\ t[s] \in Nat
    BY <1>2, <1>3, <1>4
  <1>7. SumOver(t, Satellites) <= SumOver(raw, Satellites)
    BY <1>4, <1>6, SumMonotone
  <1>8. SumOver(t, Satellites) \in Nat
    BY <1>4, <1>6, SumOfNaturals
  <1> DEFINE x == SumOver(t, Satellites)
             y == SumOver(raw, Satellites)
  <1>9. x \in Nat /\ y \in Nat /\ x <= y /\ y <= c
    BY <1>2, <1>7, <1>8
  <1> HIDE DEF x, y
  <1>10. x <= c
    BY <1>5, <1>9
  <1> QED
    BY <1>9, <1>10 DEF x, t, c

\* What the target holds in all, in either engine.
LEMMA TargetTotal ==
    ASSUME NEW in \in Inputs, Booked, NEW pl, Concluded(in, pl)
    PROVE  /\ Total(pl.target) \in Nat /\ Total(pl.raw) \in Nat
           /\ Total(pl.raw) <= RiskyBudget(in)
           /\ Total(pl.target) <= Total(pl.raw)
           /\ Total(pl.target) <= 1000 - StableTarget(in)
           /\ Total(pl.target) <= 1000 - in.floor
           /\ ~Legacy => RiskyTotal(in, Total(pl.raw)) <= Total(pl.target) + Cardinality(Assets)
  <1> DEFINE raw == pl.raw
             t == pl.target
             r == Total(raw)
             n == Total(t)
             st == StableTarget(in)
             f == in.floor
             b == RiskyBudget(in)
             m == Policy.minStable
             c == RiskyTotal(in, r)
             k == Cardinality(Assets)
  <1>1. raw = RawOf(in) /\ t = Sized(in, raw)
    BY ConclusionIs
  <1>2. SumOver(raw, Assets) <= b
    BY <1>1, RawFits
  <1>3. r = SumOver(raw, Assets) /\ r \in Nat /\ n \in Nat /\ n <= r
    BY <1>1, SizedFits
  <1>4. r <= b
    BY <1>2, <1>3, Zenon
  <1>5. ~Legacy => n <= c /\ c <= n + k
    BY <1>1, SizedFits
  <1>6. /\ st \in Mille /\ b = 1000 - st /\ (Legacy => st >= f) /\ (~Legacy => st = m)
    BY BudgetTypes
  <1>7. f \in Mille
    BY OverlayTypes
  <1>8. c \in Nat /\ c <= r /\ c <= 1000 - m /\ (f > 0 => c <= 1000 - f)
    <2>1. r \in Nat
      BY <1>3
    <2>2. c = RiskyTotal(in, r)
      OBVIOUS
    <2> HIDE DEF r, c
    <2> QED
      BY <2>1, <2>2, RiskyTotalFits
  <1> HIDE DEF raw, t, r, n, st, f, b, m, c, k
  <1>9. n <= 1000 - st /\ n <= 1000 - f
    <2>1. CASE Legacy
      BY <1>3, <1>4, <1>6, <1>7, <2>1 DEF Mille
    <2>2. CASE ~Legacy
      BY <1>3, <1>4, <1>5, <1>6, <1>7, <1>8, <2>2 DEF Mille
    <2> QED
      BY <2>1, <2>2
  <1> QED
    BY <1>3, <1>4, <1>5, <1>9 DEF raw, t, r, n, st, f, b, c, k

\* The limits, as EveryLimitHolds states them.
LEMMA ConcludedWithinLimits ==
    ASSUME NEW in \in Inputs, Booked, NEW pl, Concluded(in, pl)
    PROVE  /\ 1000 - Total(pl.target) >= Most({StableTarget(in), in.floor})
           /\ SumOver(pl.target, Satellites) <= in.regime.satelliteMax
           /\ \A a \in Assets : pl.target[a] <= in.regime.single
  <1> DEFINE n == Total(pl.target)
             st == StableTarget(in)
             f == in.floor
             x == SumOver(pl.target, Satellites)
             c == SatelliteCap(in)
             z == in.regime.satelliteMax
  <1>1. n \in Nat /\ n <= 1000 - st /\ n <= 1000 - f
    BY TargetTotal
  <1>2. st \in Mille /\ c <= z /\ c \in Mille
    BY BudgetTypes
  <1>3. f \in Mille /\ z \in Mille
    BY OverlayTypes, RegimeTypes
  <1>4. x \in Nat /\ x <= c
    BY TargetEnvelope
  <1>5. \A a \in Assets : pl.target[a] <= in.regime.single
    BY ConclusionsFit
  <1> HIDE DEF n, st, f, x, c, z
  <1>6. x <= z
    BY <1>2, <1>3, <1>4 DEF Mille
  <1>7. 1000 - n >= Most({st, f})
    <2>1. st \in Int /\ f \in Int
      BY <1>2, <1>3 DEF Mille
    <2>2. Most({st, f}) \in {st, f}
      BY <2>1, MostOfTwo
    <2> DEFINE m == Most({st, f})
    <2>3. m \in {st, f}
      BY <2>2
    <2> HIDE DEF m
    <2>4. 1000 - n >= m
      BY <1>1, <1>2, <1>3, <2>3 DEF Mille
    <2> QED
      BY <2>4 DEF m
  <1> QED
    BY <1>5, <1>6, <1>7 DEF n, st, f, x, z

\* The sleeve is as large as the tightest cap allows, up to rounding.
LEMMA ConcludedAtTightest ==
    ASSUME NEW in \in Inputs, Booked, NEW pl, Concluded(in, pl), ~Legacy,
           NEW raw, raw = Total(pl.raw)
    PROVE  Total(pl.target) >= Least({raw} \cup RiskCaps(in, raw)) - Cardinality(Assets)
  <1> DEFINE n == Total(pl.target)
             c == RiskyTotal(in, raw)
             k == Cardinality(Assets)
             l == Least({raw} \cup RiskCaps(in, raw))
  <1>1. n \in Nat /\ raw \in Nat /\ c <= n + k
    BY TargetTotal
  <1>2. k \in Nat
    BY AssetsAreFinite, FS_CardinalityType
  <1>3. l \in Nat /\ l <= raw
    <2>1. l = Least({raw} \cup RiskCaps(in, raw))
      OBVIOUS
    <2> HIDE DEF l
    <2> QED
      BY <1>1, <2>1, TightestIsWithin
  <1>4. raw > 0 => c = l
    BY <1>1, RiskyTotalIsTightest
  <1> HIDE DEF n, c, k, l
  <1>5. CASE raw > 0
    <2>1. l <= n + k
      BY <1>1, <1>4, <1>5
    <2>2. n >= l - k
      BY <1>1, <1>2, <1>3, <2>1
    <2> QED
      BY <2>2 DEF n, l, k
  <1>6. CASE ~(raw > 0)
    <2>1. n >= l - k
      BY <1>1, <1>2, <1>3, <1>6
    <2> QED
      BY <2>1 DEF n, l, k
  <1> QED
    BY <1>5, <1>6

\* Budget no other case can justify is BTC's.
LEMMA ConcludedToBtc ==
    ASSUME NEW in \in Inputs, Booked, NEW pl, Concluded(in, pl), ~Legacy
    PROVE  \/ Total(pl.raw) = RiskyBudget(in)
           \/ in.core["BTC"].event = "SEVERE"
           \/ in.core["BTC"].chain \in Unproven /\ "TARGET" \in in.core["BTC"].where
           \/ pl.raw["BTC"] = in.regime.single
  <1> DEFINE raw == pl.raw
             core == CoreOf(in)
             rest == Rest(in)
             ra == SumOver(raw, Assets)
             rc == SumOver(raw, Core)
             rs == SumOver(raw, Satellites)
             b == RiskyBudget(in)
             btc == core["BTC"]
  <1>1. raw = RawOf(in)
    BY ConclusionIs
  <1>2. /\ ra = rc + rs /\ rc = SumOver(core, Core) /\ rs + rest = b /\ rc \in Nat /\ rs \in Nat
    BY <1>1, RawFits
  <1>3. rest \in Nat
    BY RestFits
  <1>4. core = CoreTarget(in, rest)
    BY DEF CoreOf
  <1>5. /\ SumOver(core, Core) = btc
        /\ BaselineBlocked(in.core["BTC"]) \/ btc = rest \/ btc = in.regime.single
    <2> HIDE DEF core, rest
    <2>1. /\ SumOver(core, Core) = core["BTC"]
          /\ BaselineBlocked(in.core["BTC"]) \/ core["BTC"] = rest \/ core["BTC"] = in.regime.single
      BY <1>3, <1>4, CoreFits
    <2> QED
      BY <2>1
  <1>6. raw["BTC"] = btc
    BY <1>1 DEF RawOf, Core, Assets
  <1>7. Total(raw) = ra
    <2>1. DOMAIN raw = Assets
      BY <1>1 DEF RawOf
    <2> QED
      BY <2>1 DEF Total
  <1>8. CASE BaselineBlocked(in.core["BTC"])
    BY <1>8 DEF BaselineBlocked
  <1>9. CASE btc = rest
    <2>1. ra = b
      <3> HIDE DEF ra, rc, rs, b, rest, btc, core
      <3>1. rc = rest
        BY <1>2, <1>5, <1>9
      <3> QED
        BY <1>2, <1>3, <3>1
    <2> QED
      BY <1>7, <2>1
  <1>10. CASE btc = in.regime.single
    BY <1>6, <1>10
  <1> QED
    BY <1>5, <1>8, <1>9, <1>10

\* The stable sleeve the gate asks for is what every floor of it asks for.
LEMMA RequiredStableIsFloor ==
    ASSUME NEW in \in Inputs, NEW target, NEW g, g = Proposal(in, target), engine \in Engines
    PROVE  /\ RequiredStable(g) \in {Policy.minStable, in.floor, in.regime.stable}
           /\ ~Legacy => RequiredStable(g) \in {Policy.minStable, in.floor}
  <1> DEFINE x == Policy.minStable
             y == in.floor
             z == in.regime.stable
             floors == {x, y} \cup (IF engine = "volatility_budget" THEN {} ELSE {z})
  <1>1. g.minStable = x /\ g.floor = y /\ g.engine = engine /\ g.limits.stable = z
    BY DEF Proposal
  <1>2. RequiredStable(g) = CHOOSE f \in floors : \A other \in floors : other <= f
    BY <1>1 DEF RequiredStable
  <1>3. x \in Mille /\ y \in Mille /\ z \in Mille
    BY PolicyMinStable, OverlayTypes, RegimeTypes
  <1>4. engine = "volatility_budget" <=> ~Legacy
    BY DEF Legacy, Engines
  <1>5. floors = IF Legacy THEN {x, y, z} ELSE {x, y}
    BY <1>4
  <1> HIDE DEF x, y, z, floors
  <1>6. \E f \in floors : \A other \in floors : other <= f
    <2>1. CASE Legacy
      <3>1. \E f \in {x, y, z} : \A other \in {x, y, z} : other <= f
        BY <1>3 DEF Mille
      <3> QED
        BY <1>5, <2>1, <3>1
    <2>2. CASE ~Legacy
      <3>1. \E f \in {x, y} : \A other \in {x, y} : other <= f
        BY <1>3 DEF Mille
      <3> QED
        BY <1>5, <2>2, <3>1
    <2> QED
      BY <2>1, <2>2
  <1>7. RequiredStable(g) \in floors
    BY <1>2, <1>6
  <1>8. RequiredStable(g) \in {x, y, z} /\ (~Legacy => RequiredStable(g) \in {x, y})
    BY <1>5, <1>7
  <1> QED
    BY <1>8 DEF x, y, z

\* No limit is broken by a target the allocator concluded.
LEMMA NoLimitBroken ==
    ASSUME NEW in \in Inputs, Booked, engine \in Engines, NEW pl, Concluded(in, pl),
           NEW g, g = Proposal(in, pl.target), NEW limit \in Limits
    PROVE  ~Broken(g, limit)
  <1>4. /\ SumOver(pl.target, Satellites) <= in.regime.satelliteMax
        /\ \A a \in Assets : pl.target[a] <= in.regime.single
    BY ConcludedWithinLimits, ZenonT(60)
  <1>5. pl.target \in [Assets -> Mille]
    BY ConclusionsFit, ZenonT(60)
  <1> DEFINE t == pl.target
             n == SumOver(g.target, DOMAIN g.target)
             x == SumOver(g.target, g.satellites)
             st == StableTarget(in)
             f == in.floor
             y == in.regime.stable
             m == Policy.minStable
             need == RequiredStable(g)
             c == SatelliteCap(in)
             z == g.limits.satelliteMax
  <1>1. /\ g.target = t /\ g.satellites = Satellites /\ g.limits = in.regime
        /\ g.excluded = Policy.excluded
    BY DEF Proposal
  <1>2. n = Total(t) /\ x = SumOver(t, Satellites)
    BY <1>1 DEF Total
  <1>3. Total(t) \in Nat /\ Total(t) <= 1000 - st /\ Total(t) <= 1000 - f
    BY TargetTotal
  <1>6. st \in Mille /\ st >= m /\ (Legacy => st >= y /\ st >= f)
    BY BudgetTypes
  <1>7. f \in Mille /\ y \in Mille /\ m \in Mille
    BY OverlayTypes, RegimeTypes, PolicyMinStable
  <1>8. need \in {m, f, y} /\ (~Legacy => need \in {m, f})
    BY RequiredStableIsFloor
  <1>9. n \in Nat /\ n <= 1000 - st /\ n <= 1000 - f
    BY <1>2, <1>3
  <1>10. x \in Nat /\ x <= z /\ z \in Mille
    <2>1. SumOver(t, Satellites) \in Nat
      BY TargetEnvelope
    <2>2. in.regime.satelliteMax \in Mille
      BY RegimeTypes
    <2> DEFINE u == SumOver(t, Satellites)
               w == in.regime.satelliteMax
    <2>3. u \in Nat /\ u <= w /\ w \in Mille /\ x = u /\ z = w
      BY <1>1, <1>2, <1>4, <2>1, <2>2
    <2> HIDE DEF u, w, x, z
    <2> QED
      BY <2>3
  <1>11. DOMAIN t = Assets /\ \A a \in Assets : ~(t[a] > in.regime.single)
    <2>1. DOMAIN t = Assets
      BY <1>5
    <2> SUFFICES ASSUME NEW a \in Assets PROVE ~(t[a] > in.regime.single)
      BY <2>1
    <2> DEFINE u == t[a]
               w == in.regime.single
    <2>2. u \in Mille /\ w \in Mille /\ u <= w
      BY <1>4, <1>5, RegimeTypes
    <2> HIDE DEF u, w
    <2>3. ~(u > w)
      BY <2>2 DEF Mille
    <2> QED
      BY <2>3 DEF u, w
  <1>12. Policy.excluded \cap Assets = {}
    BY AllocationPolicy DEF Accepted, Disjoint, Assets
  <1>13. CASE limit = "EXCLUDED_ASSET_TARGET"
    BY <1>1, <1>11, <1>12, <1>13 DEF Broken
  <1>14. CASE limit = "TOTAL_NOT_ONE"
    <2>1. Broken(g, limit) <=> n > 1000
      BY <1>14 DEF Broken
    <2> HIDE DEF n, st
    <2>2. ~(n > 1000)
      BY <1>6, <1>9 DEF Mille
    <2> QED
      BY <2>1, <2>2
  <1>15. CASE limit = "STABLECOIN_FLOOR"
    <2>1. Broken(g, limit) <=> 1000 - n < need
      BY <1>15 DEF Broken
    <2> HIDE DEF n, st, need, m, f, y
    <2>2. ~(1000 - n < need)
      BY <1>6, <1>7, <1>8, <1>9 DEF Mille
    <2> QED
      BY <2>1, <2>2
  <1>16. ~(x > z)
    <2> HIDE DEF x, z
    <2> QED
      BY <1>10 DEF Mille
  <1>17. CASE limit = "SATELLITE_CAP"
    BY <1>16, <1>17 DEF Broken
  <1>18. CASE limit = "SINGLE_ASSET_CAP"
    BY <1>1, <1>11, <1>18 DEF Broken
  <1>19. CASE limit = "REGIME_MISMATCH"
    BY <1>16, <1>19 DEF Broken
  <1> QED
    BY <1>13, <1>14, <1>15, <1>17, <1>18, <1>19 DEF Limits

\* Why the gate may refuse, as GateRefusesForCause states it.
Cause(in, target, code) ==
    CASE code = "DRAWDOWN_BREACH" -> in.depth > Policy.budget
      [] code = "DECISION_CONFIDENCE_BLOCK" -> in.score < Policy.mediumConfidence
      [] code = "SEVERE_EVENT_EXPOSURE" ->
           \E a \in Assets : View(a, in).event = "SEVERE" /\ target[a] > 0
      [] code = "CORE_MINIMUM" -> Total(target) > 0
      [] code \in {"CHAIN_LIVENESS_HALTED", "CHAIN_LIVENESS_UNAVAILABLE"} ->
           \E a \in Assets : View(a, in).chain \in Unproven
      [] OTHER -> FALSE

\* What run_risk_gate warns of is there to be seen.
LEMMA WarnedForCause ==
    ASSUME NEW in \in Inputs, Booked, engine \in Engines, NEW pl, Concluded(in, pl),
           NEW g, g = Proposal(in, pl.target), NEW code \in Hazards, Warned(g, code)
    PROVE  Cause(in, pl.target, code)
  <1> DEFINE t == pl.target
  <1>1. /\ g.target = t /\ g.core = Core /\ g.limits = in.regime /\ g.excluded = Policy.excluded
        /\ g.depth = in.depth /\ g.budget = Policy.budget /\ g.score = in.score
        /\ g.mediumConfidence = Policy.mediumConfidence
    BY DEF Proposal
  <1>2. t \in [Assets -> Mille]
    BY ConclusionsFit
  <1>3. /\ \A a \in Assets : g.event[a] = View(a, in).event
        /\ \A a \in Assets : g.chain[a] = GateChain(View(a, in))
        /\ DOMAIN t = Assets
    BY <1>2 DEF Proposal
  <1>4. CASE code = "DRAWDOWN_BREACH"
    <2>1. g.depth > g.budget
      BY <1>4 DEF Warned
    <2> QED
      BY <1>1, <1>4, <2>1 DEF Cause
  <1>5. CASE code = "DECISION_CONFIDENCE_BLOCK"
    <2>1. g.score < g.mediumConfidence
      BY <1>5 DEF Warned
    <2> QED
      BY <1>1, <1>5, <2>1 DEF Cause
  <1>6. CASE code = "SEVERE_EVENT_EXPOSURE"
    <2>1. \E a \in DOMAIN g.target \ g.excluded : g.event[a] = "SEVERE" /\ g.target[a] > 0
      BY <1>6 DEF Warned
    <2>2. \E a \in Assets : View(a, in).event = "SEVERE" /\ t[a] > 0
      BY <1>1, <1>3, <2>1
    <2> QED
      BY <1>6, <2>2 DEF Cause
  <1>7. CASE code = "CORE_MINIMUM"
    <2> DEFINE n == SumOver(g.target, DOMAIN g.target)
               c == SumOver(g.target, g.core)
               m == g.limits.coreMin
    <2>1. 1000 * c < m * n
      BY <1>7 DEF Warned
    <2>2. n = Total(t) /\ c = SumOver(t, Core)
      BY <1>1 DEF Total
    <2>3. Total(t) \in Nat
      BY TargetTotal
    <2>4. SumOver(t, Core) \in Nat
      <3>1. IsFiniteSet(Core) /\ Core \subseteq Assets
        BY AssetsAreFinite, FS_Subset
      <3>2. \A a \in Core : t[a] \in Nat
        BY <1>2, <3>1, SMTT(40) DEF Mille
      <3> HIDE DEF t
      <3> QED
        BY <3>1, <3>2, SumOfNaturals
    <2>5. m \in Mille
      <3>1. in.regime.coreMin \in Mille
        BY RegimeTypes
      <3> QED
        BY <1>1, <3>1
    <2>6. n \in Nat /\ c \in Nat
      BY <2>2, <2>3, <2>4
    <2> HIDE DEF n, c, m
    <2>7. n > 0
      <3> SUFFICES ASSUME n = 0 PROVE FALSE
        BY <2>6
      <3>1. m * n = 0
        BY <2>5 DEF Mille
      <3> QED
        BY <2>1, <2>6, <3>1
    <2> QED
      BY <1>7, <2>2, <2>7 DEF Cause
  <1>8. CASE code \in {"CHAIN_LIVENESS_HALTED", "CHAIN_LIVENESS_UNAVAILABLE"}
    <2>1. \E a \in DOMAIN g.target : g.chain[a] \in Unproven
      BY <1>8, ZenonT(60) DEF Warned, Stopped, Unproven
    <2>2. PICK a \in Assets : GateChain(View(a, in)) \in Unproven
      BY <1>1, <1>3, <2>1
    <2>3. View(a, in).chain \in Unproven
      BY <2>2, NoneIsNothing DEF GateChain
    <2> QED
      BY <1>8, <2>3 DEF Cause
  <1> QED
    BY <1>4, <1>5, <1>6, <1>7, <1>8 DEF Hazards

\* So every error of a plan has its cause.
LEMMA ConcludedForCause ==
    ASSUME NEW in \in Inputs, Booked, engine \in Engines, NEW pl, Concluded(in, pl),
           NEW code \in pl.errors
    PROVE  Cause(in, pl.target, code)
  <1> DEFINE g == Proposal(in, pl.target)
  <1>1. code \in GateErrors(g)
    BY ConclusionIs
  <1>2. ~(code \in Limits /\ Broken(g, code))
    BY NoLimitBroken
  <1>3. code \in Hazards /\ Warned(g, code)
    BY <1>1, <1>2 DEF GateErrors
  <1> QED
    BY <1>3, WarnedForCause

-----------------------------------------------------------------------------
(* What holds of every finished target.                                    *)

\* A standing plan was concluded by the standing review of the book.
LEMMA StandingPlan ==
    ASSUME AllocationTypeOK, PlanIsConcluded, plan # None
    PROVE  /\ inputs \in Inputs /\ Booked /\ Concluded(inputs, plan) /\ engine \in Engines
  BY DEF AllocationTypeOK, PlanIsConcluded, Booked

\* A standing plan is within every limit, and its errors have causes.
LEMMA PlansFit ==
    ASSUME AllocationTypeOK, PlanIsConcluded
    PROVE  TargetInvariant
  <1>1. EveryLimitHolds
    <2> SUFFICES ASSUME plan # None
                 PROVE  /\ 1000 - Total(plan.target) >= Most({StableTarget(inputs), inputs.floor})
                        /\ SumOver(plan.target, Satellites) <= inputs.regime.satelliteMax
                        /\ \A a \in Assets : plan.target[a] <= inputs.regime.single
      BY DEF EveryLimitHolds
    <2> QED
      BY StandingPlan, ConcludedWithinLimits, ZenonT(60)
  <1>2. TightestCapRules
    <2> SUFFICES ASSUME plan # None, ~Legacy,
                        NEW raw, raw = Total(plan.raw)
                 PROVE  Total(plan.target)
                            >= Least({raw} \cup RiskCaps(inputs, raw)) - Cardinality(Assets)
      BY DEF TightestCapRules
    <2> QED
      BY StandingPlan, ConcludedAtTightest
  <1>3. GateRefusesForCause
    <2> SUFFICES ASSUME plan # None, NEW code \in plan.errors
                 PROVE  Cause(inputs, plan.target, code)
      BY DEF GateRefusesForCause, Cause
    <2> QED
      BY StandingPlan, ConcludedForCause
  <1> QED
    BY <1>1, <1>2, <1>3 DEF TargetInvariant

\* build_target_allocation: for every policy the parser accepts, every book
\* and every evidence, the finished target is within all its limits at once,
\* as tight as the tightest, and the gate finds no fault but one that is there.
THEOREM TargetsHold == AllocationSpec => []TargetInvariant
  BY PlansFit, PlanStaysConcluded, AllocationTypes, PTL

\* _core_baseline_blocked, _allocate_core_btc_baseline: the volatility engine
\* leaves budget unused only where BTC itself may not take it.
THEOREM BtcTakesTheRest == AllocationSpec => []UnusedBudgetIsBtc
  <1>1. AllocationTypeOK /\ PlanIsConcluded => UnusedBudgetIsBtc
    <2> SUFFICES ASSUME AllocationTypeOK, PlanIsConcluded, plan # None, ~Legacy
                 PROVE  UnusedBudgetIsBtc
      BY DEF UnusedBudgetIsBtc
    <2>1. inputs \in Inputs /\ Booked /\ Concluded(inputs, plan)
      BY StandingPlan
    <2>2. \/ Total(plan.raw) = RiskyBudget(inputs)
          \/ inputs.core["BTC"].event = "SEVERE"
          \/ inputs.core["BTC"].chain \in Unproven /\ "TARGET" \in inputs.core["BTC"].where
          \/ plan.raw["BTC"] = inputs.regime.single
      BY <2>1, ConcludedToBtc
    <2> QED
      BY <2>2 DEF UnusedBudgetIsBtc
  <1> QED
    BY <1>1, PlanStaysConcluded, AllocationTypes, PTL

-----------------------------------------------------------------------------
(* What grows.                                                             *)

\* satellite_eligibility: an increase is permitted on nothing less than the
\* whole case.
LEMMA EligibleMeansCase ==
    ASSUME NEW v, NEW holding, Eligibility(v, holding) = "ELIGIBLE_INCREASE"
    PROVE  SatelliteCase(v)
  <1>1. /\ Conviction(v) # "HARD_EXIT" /\ Conviction(v) # "NO_NEW_RISK"
        /\ Relative(v) # "INELIGIBLE" /\ ~Unevidenced(v)
    BY DEF Eligibility
  <1>2. v.event # "SEVERE"
    BY <1>1 DEF Conviction
  <1>3. EvidenceClass(v) # "NOT_ACTIONABLE"
    BY <1>1, <1>2 DEF Conviction
  <1>4. v.complete /\ ~(v.permission < 1000 * Policy.investable)
    BY <1>3 DEF EvidenceClass
  <1>5. v.unheard = {} /\ v.relative # None
    BY <1>1 DEF Unevidenced
  <1>6. Relative(v) # "HOLD_ONLY"
    BY DEF Eligibility
  <1>7. v.relative >= Policy.relativeIncrease
    BY <1>1, <1>5, <1>6 DEF Relative
  <1>8. v.score # None => ~(v.score < Policy.entry)
    BY <1>1 DEF Eligibility
  <1> QED
    BY <1>2, <1>4, <1>5, <1>7, <1>8 DEF SatelliteCase, AtLeast

\* run_risk_gate: what a chain that is not seen to move adds is an error.
LEMMA StoppedMeansErrors ==
    ASSUME NEW g, NEW a \in DOMAIN g.target, g.chain[a] \in Unproven, Exposed(g, a)
    PROVE  GateErrors(g) # {}
  <1>1. CASE g.chain[a] = "HALTED"
    <2>1. Warned(g, "CHAIN_LIVENESS_HALTED")
      BY <1>1 DEF Warned, Stopped
    <2> QED
      BY <2>1 DEF GateErrors, Hazards
  <1>2. CASE g.chain[a] # "HALTED"
    <2>1. Warned(g, "CHAIN_LIVENESS_UNAVAILABLE")
      BY <1>2 DEF Warned, Stopped
    <2> QED
      BY <2>1 DEF GateErrors, Hazards
  <1> QED
    BY <1>1, <1>2

\* Order on the integers, for values the provers see only as terms.
LEMMA Trichotomy ==
    ASSUME NEW x \in Int, NEW y \in Int
    PROVE  /\ ~(x <= y) => x > y
           /\ ~(x > y /\ x <= y)
  OBVIOUS

\* A weight in per mille is an integer.
LEMMA PartOfThousand ==
    ASSUME NEW x \in Mille
    PROVE  x \in Int
  BY DEF Mille

\* What LeastOfTwo says of a value that equals the least.
LEMMA LeastIsBelow ==
    ASSUME NEW x \in Int, NEW y \in Int, NEW r, r = Least({x, y})
    PROVE  r \in Int /\ r <= y
  <1> DEFINE m == Least({x, y})
  <1>1. m \in {x, y} /\ m <= y
    BY LeastOfTwo
  <1>2. r = m
    OBVIOUS
  <1> HIDE DEF m
  <1> QED
    BY <1>1, <1>2

\* Whatever grows was meant to grow, by a plan that the gate did not refuse
\* and, if it is a satellite, with an allowance.
LEMMA Growth ==
    ASSUME AllocationTypeOK, [Next]_allocationVars,
           NEW a \in Assets, weights'[a] > weights[a]
    PROVE  /\ plan # None /\ plan.errors = {} /\ plan.target[a] > weights[a]
           /\ a \in Satellites => plan.verdict[a].factor # 0
  <1>1. weights[a] \in Mille
    BY BookIsTyped
  <1>2. weights' # weights
    BY <1>1, SMTT(30) DEF Mille
  <1>3. PICK chosen : Execute(chosen)
    BY <1>2, ZenonT(60) DEF Next, Review, allocationVars
  <1>4. plan # None
    BY <1>3 DEF Execute
  <1>5. plan.target[a] \in Mille
    BY <1>4 DEF AllocationTypeOK
  <1>6. weights'[a] = Reach(a) \/ weights'[a] = weights[a]
    BY <1>3 DEF Execute
  <1>7. Reach(a) > weights[a]
    BY <1>1, <1>6, SMTT(30) DEF Mille
  <1>8. plan.target[a] \in Int /\ weights[a] \in Int
    BY <1>1, <1>5, PartOfThousand, ZenonT(60)
  <1>9. ~(plan.target[a] <= weights[a])
    <2>1. plan.target[a] <= weights[a] => Reach(a) = plan.target[a]
      BY DEF Reach
    <2>2. ~(plan.target[a] > weights[a] /\ plan.target[a] <= weights[a])
      BY <1>8, Trichotomy
    <2>3. ASSUME plan.target[a] <= weights[a] PROVE FALSE
      <3>1. plan.target[a] > weights[a]
        BY <2>1, <2>3, <1>7
      <3> QED
        BY <2>2, <2>3, <3>1
    <2> QED
      BY <2>3
  <1>10. plan.errors = {}
    BY <1>1, <1>7, <1>9, SMTT(30) DEF Mille, Reach
  <1>11. ASSUME a \in Satellites, plan.verdict[a].factor = 0 PROVE FALSE
    <2>1. a \notin Core
      BY <1>11, RolesAreDisjoint
    <2>2. Reach(a) = Least({plan.target[a], weights[a] + (plan.target[a] * 0) \div 1000})
      BY <1>9, <1>10, <1>11, <2>1 DEF Reach
    <2>3. (plan.target[a] * 0) \div 1000 = 0
      <3>1. plan.target[a] * 0 = 0
        BY <1>5, SMTT(40) DEF Mille
      <3> QED
        BY <3>1
    <2>4. weights[a] + (plan.target[a] * 0) \div 1000 = weights[a]
      BY <1>1, <2>3, SMTT(30) DEF Mille
    <2>5. Reach(a) = Least({plan.target[a], weights[a]})
      BY <2>2, <2>4
    <2>6. Reach(a) \in Int /\ Reach(a) <= weights[a]
      BY <1>8, <2>5, LeastIsBelow
    <2> QED
      BY <1>7, <1>8, <2>6, Trichotomy
  <1>12. plan.target[a] > weights[a]
    BY <1>8, <1>9, Trichotomy
  <1>13. a \in Satellites => plan.verdict[a].factor # 0
    BY <1>11
  <1> QED
    BY <1>4, <1>10, <1>12, <1>13

\* A position never grows on a chain the review knows not to be moving, or
\* knows nothing good of: in the target, in the gate, in both engines.
StoppedChainsNeverGrow ==
    [][\A a \in Assets :
          weights'[a] > weights[a] => GateChain(View(a, inputs)) \notin Unproven]_allocationVars

\* engine/risk.py and the execution rule of research/orchestrator.py keep
\* that promise for every evidence and every book.
THEOREM StoppedChainsHold ==
    AllocationSpec => StoppedChainsNeverGrow
  <1>1. ASSUME AllocationTypeOK, PlanIsConcluded, [Next]_allocationVars,
               NEW a \in Assets, weights'[a] > weights[a],
               GateChain(View(a, inputs)) \in Unproven
        PROVE  FALSE
    <2> DEFINE g == Proposal(inputs, plan.target)
    <2>1. plan # None /\ plan.errors = {} /\ plan.target[a] > weights[a]
      BY <1>1, Growth
    <2>2. GateErrors(g) = {}
      BY <1>1, <2>1, StandingPlan DEF Concluded
    <2>3. /\ g.target = plan.target /\ g.current = weights
          /\ g.chain[a] = GateChain(View(a, inputs))
      BY DEF Proposal
    <2>4. a \in DOMAIN plan.target
      BY <1>1, <2>1, PlanIsTyped
    <2>5. weights # None
      BY <1>1, BookIsTyped, NoneIsNothing
    <2> HIDE DEF g
    <2>6. Exposed(g, a)
      BY <2>1, <2>3, <2>5 DEF Exposed
    <2> QED
      BY <1>1, <2>2, <2>3, <2>4, <2>6, StoppedMeansErrors
  <1>2. AllocationTypeOK /\ PlanIsConcluded /\ [Next]_allocationVars =>
            [\A a \in Assets :
                weights'[a] > weights[a] => GateChain(View(a, inputs)) \notin Unproven]_allocationVars
    BY <1>1
  <1> QED
    BY <1>2, PlanStaysConcluded, AllocationTypes, PTL DEF AllocationSpec, StoppedChainsNeverGrow

\* A satellite never grows without its whole case: every strategy input
\* there, good enough and current, whatever the other assets leave over.
SatellitesGrowOnTheirCase ==
    [][\A s \in Satellites :
          weights'[s] > weights[s] => SatelliteCase(inputs.satellites[s])]_allocationVars

\* The allowance of satellite_eligibility bounds what is bought at once, and
\* there is none without the case.
THEOREM SatelliteCaseHolds ==
    AllocationSpec => SatellitesGrowOnTheirCase
  <1>1. ASSUME AllocationTypeOK, PlanIsConcluded, [Next]_allocationVars,
               NEW s \in Satellites, weights'[s] > weights[s]
        PROVE  SatelliteCase(inputs.satellites[s])
    <2> DEFINE v == inputs.satellites[s]
               holding == weights[s] > 0
    <2>1. s \in Assets
      BY DEF Assets
    <2>2. plan # None /\ plan.verdict[s].factor # 0
      BY <1>1, <2>1, Growth
    <2>3. DeploymentFactor(v, holding, inputs.score) # 0
      <3>1. plan.verdict = [x \in Satellites |-> Verdict(x, inputs.satellites[x], inputs)]
        BY <1>1, <2>2, StandingPlan DEF Concluded
      <3>2. plan.verdict[s] = Verdict(s, v, inputs)
        BY <3>1
      <3>3. Verdict(s, v, inputs).factor = DeploymentFactor(v, holding, inputs.score)
        BY DEF Verdict
      <3> QED
        BY <2>2, <3>2, <3>3
    <2> HIDE DEF v, holding
    <2>4. Eligibility(v, holding) = "ELIGIBLE_INCREASE"
      BY <2>3 DEF DeploymentFactor
    <2>5. SatelliteCase(v)
      BY <2>4, EligibleMeansCase
    <2> QED
      BY <2>5 DEF v
  <1>2. AllocationTypeOK /\ PlanIsConcluded /\ [Next]_allocationVars =>
            [\A s \in Satellites :
                weights'[s] > weights[s] => SatelliteCase(inputs.satellites[s])]_allocationVars
    BY <1>1
  <1> QED
    BY <1>2, PlanStaysConcluded, AllocationTypes, PTL DEF AllocationSpec, SatellitesGrowOnTheirCase

-----------------------------------------------------------------------------
(* What missing evidence does to what is held.                             *)

\* A market family names nothing it does not weigh.
LEMMA MarketWeighsAll ==
    ASSUME NEW a \in Assets
    PROVE  /\ Adds(FamiliesOf(Policy, a).market, 1000)
           /\ \A f \in DOMAIN FamiliesOf(Policy, a).market : FamiliesOf(Policy, a).market[f] > 0
  BY ProfilesAddUp DEF FamilyAccepted

\* Where no reading condemns an asset and none makes a case, no score made
\* of them does either.
LEMMA MiddlingScores ==
    ASSUME NEW s \in Assets, NEW v, NEW k, KnownFrom(s, v, k),
           \A f \in DOMAIN Evidence[v.readings] :
              /\ Evidence[v.readings][f].score >= Policy.softExit
              /\ Evidence[v.readings][f].score < Policy.entry
              /\ Evidence[v.readings][f].score < Policy.marketEntry
    PROVE  /\ k.score = None \/ (k.score \in Int /\ Policy.softExit <= k.score /\ k.score < Policy.entry)
           /\ k.market = None \/ (k.market \in Int /\ k.market < Policy.marketEntry)
  <1> DEFINE r == Evidence[v.readings]
             profile == ProfileFor(s)
             market == FamiliesOf(Policy, s).market
             low == Policy.softExit
             high == Policy.entry - 1
             top == Policy.marketEntry - 1
  <1>1. /\ v.readings \in DOMAIN Evidence
        /\ k.score = Normalized(Policy, profile, r) /\ k.market = Normalized(Policy, market, r)
    BY DEF KnownFrom, Derived
  <1>2. Readable(r)
    BY <1>1, EvidenceIsReadable
  <1>3. Adds(profile, 1000) /\ Adds(market, 1000)
    BY ProfilesAddUp, MarketWeighsAll
  <1>4. Policy.minNormal \in 1 .. 1000 /\ Policy.marketEntry \in 0 .. 100
    BY PolicyNumbers
  <1>5. Policy.softExit \in 0 .. 100 /\ Policy.entry \in 0 .. 100
    BY AllocationPolicy DEF Accepted, CurveAccepted
  <1>6. \A f \in DOMAIN r : /\ r[f].score \in 0 .. 100
                            /\ r[f].score >= low /\ r[f].score < Policy.entry
                            /\ r[f].score < Policy.marketEntry
    <2>1. \A f \in DOMAIN r : /\ r[f].score >= low /\ r[f].score < Policy.entry
                              /\ r[f].score < Policy.marketEntry
      OBVIOUS
    <2>2. \A f \in DOMAIN r : r[f].score \in 0 .. 100
      <3> HIDE DEF r
      <3> QED
        BY <1>2 DEF Readable
    <2> QED
      BY <2>1, <2>2
  <1>7. \A f \in DOMAIN r : low <= r[f].score /\ r[f].score <= high /\ r[f].score <= top
    <2> SUFFICES ASSUME NEW f \in DOMAIN r
                 PROVE  low <= r[f].score /\ r[f].score <= high /\ r[f].score <= top
      OBVIOUS
    <2> DEFINE x == r[f].score
               e == Policy.entry
               m == Policy.marketEntry
    <2>1. x \in 0 .. 100 /\ x >= low /\ x < e /\ x < m /\ low \in 0 .. 100 /\ e \in 0 .. 100
          /\ m \in 0 .. 100
      BY <1>4, <1>5, <1>6
    <2> HIDE DEF x, e, m, low
    <2>2. low <= x /\ x <= e - 1 /\ x <= m - 1
      BY <2>1
    <2> QED
      BY <2>2 DEF x, e, m
  <1>8. low \in Int /\ high \in Int /\ top \in Int /\ 0 \in Int
    <2> DEFINE e == Policy.entry
               m == Policy.marketEntry
    <2>1. e \in Int /\ m \in Int /\ low \in Int
      BY <1>4, <1>5
    <2> HIDE DEF e, m, low
    <2>2. e - 1 \in Int /\ m - 1 \in Int
      BY <2>1
    <2> QED
      BY <2>1, <2>2 DEF e, m
  <1> HIDE DEF r, profile, market, low, high, top
  <1>9. \/ Normalized(Policy, profile, r) = None
        \/ /\ Normalized(Policy, profile, r) \in Int
           /\ low <= Normalized(Policy, profile, r) /\ Normalized(Policy, profile, r) <= high
    <2>1. \A f \in Weighed(profile, r) : low <= r[f].score /\ r[f].score <= high
      BY <1>7 DEF Weighed
    <2> QED
      BY <1>2, <1>3, <1>4, <1>8, <2>1, NormalizedIsMean
  <1>10. \/ Normalized(Policy, market, r) = None
         \/ /\ Normalized(Policy, market, r) \in Int
            /\ low <= Normalized(Policy, market, r) /\ Normalized(Policy, market, r) <= top
    <2>1. \A f \in Weighed(market, r) : low <= r[f].score /\ r[f].score <= top
      BY <1>7 DEF Weighed
    <2> QED
      BY <1>2, <1>3, <1>4, <1>8, <2>1, NormalizedIsMean
  <1>11. k.score = None \/ (k.score \in Int /\ low <= k.score /\ k.score < Policy.entry)
    <2> DEFINE x == k.score
               e == Policy.entry
    <2>1. x = None \/ (x \in Int /\ low <= x /\ x <= e - 1)
      BY <1>1, <1>9 DEF high
    <2>2. e \in Int /\ low \in Int
      BY <1>5, <1>8
    <2> HIDE DEF x, e
    <2>3. x = None \/ (x \in Int /\ low <= x /\ x < e)
      BY <2>1, <2>2
    <2> QED
      BY <2>3 DEF x, e
  <1>12. k.market = None \/ (k.market \in Int /\ k.market < Policy.marketEntry)
    <2> DEFINE x == k.market
               e == Policy.marketEntry
    <2>1. x = None \/ (x \in Int /\ x <= e - 1)
      BY <1>1, <1>10 DEF top
    <2>2. e \in Int
      BY <1>4
    <2> HIDE DEF x, e
    <2>3. x = None \/ (x \in Int /\ x < e)
      BY <2>1, <2>2
    <2> QED
      BY <2>3 DEF x, e
  <1> QED
    BY <1>11, <1>12 DEF low

\* satellite_eligibility keeps a held satellite that is not judged, and its
\* bucket keeps its weight.
LEMMA UnjudgedIsHeld ==
    ASSUME NEW s \in Assets, NEW v, NEW k, KnownFrom(s, v, k), Unjudged(s, k),
           k.event # "SEVERE", k.relative # None => k.relative >= Policy.relativeBlock
    PROVE  Bucket(k, Eligibility(k, TRUE)) = "HOLD"
  <1> DEFINE r == Evidence[k.readings]
             profile == ProfileFor(s)
             market == FamiliesOf(Policy, s).market
             unread == {f \in DOMAIN profile : profile[f] > 0} \ DOMAIN r
             state == Eligibility(k, TRUE)
  <1>1. /\ k.readings = v.readings
        /\ k.missing = MissingOf(profile, r) /\ k.unheard = MissingOf(market, r)
    BY DEF KnownFrom, Kept, Derived
  <1>2. k.missing = unread
    BY <1>1 DEF MissingOf
  <1>3. k.relative \in 0 .. 100 \cup {None} /\ Policy.relativeBlock \in 0 .. 100
    BY KnownTypes, PolicyNumbers
  <1>4. Relative(k) # "INELIGIBLE"
    <2> DEFINE x == k.relative
               b == Policy.relativeBlock
    <2>1. x # None => ~(x < b)
      <3>1. x \in 0 .. 100 \cup {None} /\ b \in 0 .. 100 /\ (x # None => x >= b)
        BY <1>3
      <3> HIDE DEF x, b
      <3> QED
        BY <3>1
    <2> QED
      BY <2>1 DEF Relative
  <1>5. Conviction(k) # "HARD_EXIT"
    BY DEF Conviction
  <1>6. CASE k.relative = None \/ ~k.complete \/ unread \cap DOMAIN market # {}
    <2>1. Unevidenced(k)
      <3>1. ASSUME unread \cap DOMAIN market # {} PROVE k.unheard # {}
        <4>1. PICK f \in DOMAIN market : f \notin DOMAIN r
          BY <3>1
        <4>2. market[f] > 0
          BY MarketWeighsAll
        <4> QED
          BY <1>1, <4>1, <4>2 DEF MissingOf
      <3> QED
        BY <1>6, <3>1 DEF Unevidenced
    <2>2. state = "HOLD_OR_REDUCE"
      BY <1>4, <1>5, <2>1 DEF Eligibility
    <2>3. Incomplete(k)
      BY <1>2, <1>6 DEF Incomplete
    <2> QED
      BY <2>2, <2>3 DEF Bucket
  <1>7. CASE /\ unread # {}
             /\ \A f \in DOMAIN r :
                   /\ r[f].score >= Policy.softExit
                   /\ r[f].score < Policy.entry /\ r[f].score < Policy.marketEntry
    <2>1. /\ k.score = None
             \/ (k.score \in Int /\ Policy.softExit <= k.score /\ k.score < Policy.entry)
          /\ k.market = None \/ (k.market \in Int /\ k.market < Policy.marketEntry)
      BY <1>1, <1>7, MiddlingScores
    <2>2. ~AtLeast(k.market, Policy.marketEntry)
      <3> DEFINE x == k.market
                 b == Policy.marketEntry
      <3>1. b \in Int /\ (x = None \/ (x \in Int /\ x < b))
        BY <2>1, PolicyNumbers
      <3> HIDE DEF x, b
      <3>2. ~(x # None /\ x >= b)
        BY <3>1
      <3> QED
        BY <3>2 DEF x, b, AtLeast
    <2>3. Conviction(k) \in {"NO_NEW_RISK", "WATCH_ONLY"}
      BY <2>2 DEF Conviction
    <2>4. k.score # None => ~(k.score < Policy.softExit) /\ k.score < Policy.entry
      <3> DEFINE x == k.score
                 b == Policy.softExit
      <3>1. b \in 0 .. 100
        BY AllocationPolicy DEF Accepted, CurveAccepted
      <3>2. x = None \/ (x \in Int /\ b <= x)
        BY <2>1
      <3> HIDE DEF x, b
      <3>3. x # None => ~(x < b)
        BY <3>1, <3>2
      <3> QED
        BY <2>1, <3>3 DEF x, b
    <2>5. state \in {"HOLD_OR_REDUCE", "SOFT_EXIT"}
      BY <1>4, <1>5, <2>3, <2>4 DEF Eligibility
    <2>6. Incomplete(k)
      BY <1>2, <1>7 DEF Incomplete
    <2> QED
      BY <2>5, <2>6 DEF Bucket
  <1> QED
    BY <1>6, <1>7 DEF Unjudged, ProfileFor

\* What is preserved stays in the legacy target.
LEMMA UnjudgedIsKept ==
    ASSUME NEW in \in Inputs, Booked, Legacy, NEW pl, Concluded(in, pl),
           Total([s \in Satellites |-> pl.verdict[s].hold]) <= SatelliteCap(in),
           NEW s \in Satellites, Unjudged(s, in.satellites[s]),
           in.satellites[s].event # "SEVERE",
           in.satellites[s].relative # None => in.satellites[s].relative >= Policy.relativeBlock
    PROVE  pl.target[s] >= Least({weights[s], in.regime.single})
  <1> DEFINE k == in.satellites[s]
             w == weights[s]
             z == in.regime.single
             kept == Preserved(in)
             new == Bought(in)
             asked == Holds(in)
             cap == SatelliteCap(in)
             t == pl.target[s]
             d == Verdict(s, k, in)
  <1>1. s \in Assets /\ s \notin Core
    BY RolesAreDisjoint DEF Assets
  <1>2. PICK v : KnownFrom(s, v, k)
    BY SatelliteIsKnown
  <1>3. w \in Mille /\ z \in Mille
    BY BookOfSatellite, RegimeTypes
  <1>4. asked[s] = d.hold
    BY DEF Holds
  <1>5. w > 0 => asked[s] = w
    <2> SUFFICES ASSUME w > 0 PROVE asked[s] = w
      OBVIOUS
    <2>1. Bucket(k, Eligibility(k, TRUE)) = "HOLD"
      BY <1>1, <1>2, UnjudgedIsHeld
    <2>2. (weights[s] > 0) = TRUE
      OBVIOUS
    <2>3. d.hold = w
      BY <2>1, <2>2 DEF Verdict
    <2> QED
      BY <1>4, <2>3
  <1>6. SumOver(asked, Satellites) <= cap
    <2>1. [x \in Satellites |-> pl.verdict[x].hold] = asked
      BY DEF Holds, Concluded
    <2>2. DOMAIN asked = Satellites
      BY DEF Holds
    <2> HIDE DEF asked
    <2> QED
      BY <2>1, <2>2 DEF Total
  <1>7. /\ kept \in [Satellites -> Nat]
        /\ kept[s] = z \/ kept[s] >= asked[s]
    <2>1. kept = Preserved(in) /\ asked = Holds(in) /\ cap = SatelliteCap(in)
      OBVIOUS
    <2> HIDE DEF kept, asked, cap
    <2>2. /\ kept \in [Satellites -> Nat]
          /\ \A x \in Satellites : kept[x] = in.regime.single \/ kept[x] >= asked[x]
      BY <1>6, <2>1, PreservedFits
    <2> QED
      BY <2>2
  <1>8. new \in [Satellites -> Nat]
    BY SleeveFits
  <1>9. t = kept[s] + new[s]
    <2>1. pl.raw = RawOf(in) /\ pl.target = Sized(in, pl.raw)
      BY ConclusionIs
    <2>2. pl.target = RawOf(in)
      BY <2>1 DEF Sized
    <2> QED
      BY <1>1, <2>2 DEF RawOf
  <1> DEFINE x == kept[s]
             y == new[s]
             h == asked[s]
  <1>10. x \in Nat /\ y \in Nat /\ (x = z \/ x >= h) /\ t = x + y /\ (w > 0 => h = w)
    BY <1>5, <1>7, <1>8, <1>9
  <1> HIDE DEF w, z, t, x, y, h
  <1>11. Least({w, z}) \in Nat /\ Least({w, z}) <= w /\ Least({w, z}) <= z
    <2>1. w \in Nat /\ z \in Nat
      BY <1>3 DEF Mille
    <2> QED
      BY <2>1, LeastOfNats
  <1> DEFINE l == Least({w, z})
  <1>12. l \in Nat /\ l <= w /\ l <= z
    BY <1>11
  <1> HIDE DEF l
  <1>13. t >= l
    BY <1>3, <1>10, <1>12 DEF Mille
  <1> QED
    BY <1>13 DEF t, l, w, z

\* build_target_allocation, for every policy the parser accepts: what is
\* held is not sold because something about it is not known.
THEOREM MissingEvidenceHolds == AllocationSpec => []MissingEvidenceNeverSells
  <1>1. AllocationTypeOK /\ PlanIsConcluded => MissingEvidenceNeverSells
    <2> SUFFICES ASSUME AllocationTypeOK, PlanIsConcluded, plan # None, Legacy,
                        Total([s \in Satellites |-> plan.verdict[s].hold]) <= SatelliteCap(inputs),
                        NEW s \in Satellites, Unjudged(s, inputs.satellites[s]),
                        inputs.satellites[s].event # "SEVERE",
                        inputs.satellites[s].relative # None
                            => inputs.satellites[s].relative >= Policy.relativeBlock
                 PROVE  plan.target[s] >= Least({weights[s], inputs.regime.single})
      BY DEF MissingEvidenceNeverSells
    <2>1. inputs \in Inputs /\ Booked /\ Concluded(inputs, plan)
      BY StandingPlan
    <2> QED
      BY <2>1, UnjudgedIsKept
  <1> QED
    BY <1>1, PlanStaysConcluded, AllocationTypes, PTL

-----------------------------------------------------------------------------
(* A chain that stands.                                                    *)

\* The catalogues of BTC, BNB and SOL: two primaries and no quorum.
LEMMA PlainCatalogue ==
    ASSUME NEW asset \in {"BTC", "BNB", "SOL"}, NEW sources, sources = DefaultSources(asset)
    PROVE  /\ \E A : sources \in Seq(A)
           /\ Len(sources) = 2 /\ DOMAIN sources = {1, 2} /\ sources # <<>>
           /\ ~Quorum(sources)
  <1>1. /\ \E A : sources \in Seq(A)
        /\ Len(sources) = 2 /\ DOMAIN sources = {1, 2}
        /\ sources[1].role = "primary" /\ sources[2].role = "primary"
    <2>1. CASE asset = "BTC"
      <3>1. sources = <<Source("primary", "blockstream", 10), Source("primary", "mempool", 20)>>
        BY <2>1 DEF DefaultSources
      <3>2. /\ Source("primary", "blockstream", 10).role = "primary"
            /\ Source("primary", "mempool", 20).role = "primary"
        BY DEF Source
      <3> QED
        BY <3>1, <3>2, TwoSources
    <2>2. CASE asset = "BNB"
      <3>1. sources = <<Source("primary", "dataseed", 10), Source("primary", "public", 20)>>
        BY <2>2 DEF DefaultSources
      <3>2. /\ Source("primary", "dataseed", 10).role = "primary"
            /\ Source("primary", "public", 20).role = "primary"
        BY DEF Source
      <3> QED
        BY <3>1, <3>2, TwoSources
    <2>3. CASE asset = "SOL"
      <3>1. sources = <<Source("primary", "mainnet", 10), Source("primary", "publicnode", 20)>>
        BY <2>3 DEF DefaultSources
      <3>2. /\ Source("primary", "mainnet", 10).role = "primary"
            /\ Source("primary", "publicnode", 20).role = "primary"
        BY DEF Source
      <3> QED
        BY <3>1, <3>2, TwoSources
    <2> QED
      BY <2>1, <2>2, <2>3
  <1>2. ~Quorum(sources) /\ sources # <<>>
    BY <1>1, SMTT(30) DEF Quorum
  <1> QED
    BY <1>1, <1>2

\* The catalogue of ETH: its third source makes a quorum.
LEMMA QuorumCatalogue ==
    ASSUME NEW sources, sources = DefaultSources("ETH")
    PROVE  /\ \E A : sources \in Seq(A)
           /\ Len(sources) = 3 /\ sources # <<>> /\ Quorum(sources)
  <1> DEFINE x == Source("primary", "flashbots", 20)
             y == Source("primary", "drpc", 25)
             z == Source("secondary", "publicnode", 10)
  <1>1. sources = <<x, y, z>>
    BY DEF DefaultSources
  <1>2. z.role = "secondary"
    BY DEF Source
  <1> HIDE DEF x, y, z
  <1>3. /\ sources \in Seq({x, y, z})
        /\ Len(sources) = 3 /\ 3 \in DOMAIN sources /\ sources[3] = z
    <2>1. /\ <<x, y, z>> \in Seq({x, y, z}) /\ Len(<<x, y, z>>) = 3
          /\ 3 \in DOMAIN <<x, y, z>> /\ <<x, y, z>>[3] = z
      BY ThreeSources
    <2> QED
      BY <1>1, <2>1, Zenon
  <1>4. Quorum(sources)
    BY <1>2, <1>3 DEF Quorum
  <1>6. sources # <<>>
    BY <1>4 DEF Quorum
  <1>5. \E A : sources \in Seq(A)
    BY <1>3
  <1> QED
    BY <1>3, <1>4, <1>5, <1>6

\* Of a chain of which no source shows a head, nothing is reached.
LEMMA SilenceIsNotHeard ==
    ASSUME NEW a \in ChainAssets, NEW t, NEW p,
           DOMAIN p = DOMAIN DefaultSources(a), \A i \in DOMAIN p : p[i] = None
    PROVE  Collected(DefaultSources(a), t, p, None, 0) = None
  <1> DEFINE sources == DefaultSources(a)
             heard == Heard(p, Asked(sources, t, p))
  <1>1. (\E A : sources \in Seq(A)) /\ sources # <<>>
    <2>1. CASE a = "ETH"
      BY <2>1, QuorumCatalogue
    <2>2. CASE a # "ETH"
      BY <2>2, PlainCatalogue DEF ChainAssets
    <2> QED
      BY <2>1, <2>2
  <1> HIDE DEF sources
  <1>2. heard \subseteq 1 .. Len(sources)
    BY <1>1, HeardAreSources
  <1>3. DOMAIN sources = 1 .. Len(sources)
    BY <1>1
  <1>4. heard = {}
    BY <1>2, <1>3 DEF Heard, sources
  <1>5. Assess(sources, t, p).status = "UNKNOWN"
    BY <1>4 DEF Assess, Judged
  <1> QED
    BY <1>5 DEF Collected, sources

\* One source is not asked alone if its head stands.
LEMMA BothAreAsked ==
    ASSUME None \notin Nat, NEW sources, Len(sources) = 2, ~Quorum(sources),
           NEW t, SomeLimits(t.head), SomeLimits(t.fin),
           NEW p, p[1] # None, p[2] # None, Timed(p[1]), Severe(t, p[1])
    PROVE  Heard(p, Asked(sources, t, p)) = {1, 2}
  <1> DEFINE T == {n \in 1 .. Len(sources) : p[n] # None /\ Enough(sources, t, p, n)}
                      \cup {Len(sources)}
  <1>1. Stale(t, p[1])
    BY SevereIsStale
  <1>2. ~Enough(sources, t, p, 1)
    <2>1. Heard(p, 1) = {1}
      BY DEF Heard
    <2>2. Cardinality(Heard(p, 1)) = 1
      BY <2>1, FS_Singleton
    <2> QED
      BY <1>1, <2>2 DEF Enough
  <1>3. T = {2}
    <2>1. 1 .. Len(sources) = {1, 2}
      OBVIOUS
    <2> QED
      BY <1>2, <2>1
  <1>4. First(T) = 2
    <2>1. T \in SUBSET Nat /\ T # {}
      BY <1>3
    <2>2. First(T) \in T
      BY <2>1, FirstIsMember
    <2> QED
      BY <1>3, <2>2
  <1>5. Asked(sources, t, p) = 2
    BY <1>4 DEF Asked
  <1> QED
    BY <1>5 DEF Heard

\* assess: two independent sources that show one head that stands make a halt.
LEMMA StandingIsHalted ==
    ASSUME None \notin Nat,
           NEW asset \in {"BTC", "BNB", "SOL"}, NEW t, AcceptedSettings(asset, t),
           NEW p, DOMAIN p = {1, 2},
           \A i \in DOMAIN p : p[i] # None =>
              /\ Timed(p[i]) /\ p[i].height \in Int
              /\ p[i].fin = None \/ p[i].fin = p[i].height,
           NEW same, \A i \in same : i \in DOMAIN p /\ p[i] # None /\ Severe(t, p[i]),
           Cardinality(GroupsOf(DefaultSources(asset), same)) >= t.needed,
           \A i, j \in same : p[i].height = p[j].height /\ p[i].hash = p[j].hash
    PROVE  Assess(DefaultSources(asset), t, p).status = "HALTED"
  <1> DEFINE sources == DefaultSources(asset)
             heard == Heard(p, Asked(sources, t, p))
  <1>1. Len(sources) = 2 /\ DOMAIN sources = {1, 2} /\ ~Quorum(sources)
    BY PlainCatalogue
  <1>2. /\ SomeLimits(t.head) /\ SomeLimits(t.fin) /\ t.needed \in Nat /\ t.needed >= 2
    BY DEF AcceptedSettings, SomeLimits
  <1> HIDE DEF sources
  <1>3. \A x : GroupsOf(sources, same) \subseteq {x} => FALSE
    <2> SUFFICES ASSUME NEW x, GroupsOf(sources, same) \subseteq {x} PROVE FALSE
      OBVIOUS
    <2>1. IsFiniteSet({x}) /\ Cardinality({x}) = 1
      BY FS_Singleton
    <2>2. IsFiniteSet(GroupsOf(sources, same)) /\ Cardinality(GroupsOf(sources, same)) <= 1
      BY <2>1, FS_Subset
    <2>3. Cardinality(GroupsOf(sources, same)) \in Nat
      BY <2>2, FS_CardinalityType
    <2>4. Cardinality(GroupsOf(sources, same)) >= t.needed
      BY DEF sources
    <2> QED
      BY <1>2, <2>2, <2>3, <2>4
  <1>4. same = {1, 2}
    <2>1. same \subseteq {1, 2}
      OBVIOUS
    <2>2. 1 \notin same => GroupsOf(sources, same) \subseteq {sources[2].group}
      BY <2>1 DEF GroupsOf
    <2>3. 2 \notin same => GroupsOf(sources, same) \subseteq {sources[1].group}
      BY <2>1 DEF GroupsOf
    <2> QED
      BY <1>3, <2>1, <2>2, <2>3
  <1>5. /\ p[1] # None /\ p[2] # None /\ Severe(t, p[1]) /\ Severe(t, p[2])
        /\ Timed(p[1]) /\ p[1].height = p[2].height /\ p[1].hash = p[2].hash
        /\ p[1].height \in Int
        /\ p[1].fin = None \/ p[1].fin = p[1].height
        /\ p[2].fin = None \/ p[2].fin = p[2].height
    BY <1>4
  <1>6. heard = {1, 2}
    BY <1>1, <1>2, <1>5, BothAreAsked
  <1> HIDE DEF heard
  <1>7. Agree(t, p, heard)
    <2>1. Consistent(t, p[1], p[2])
      <3>1. Near(p[1].height, p[2].height)
        BY <1>5 DEF Near
      <3>2. p[1].fin # None /\ p[2].fin # None => Near(p[1].fin, p[2].fin)
        BY <1>5 DEF Near
      <3> QED
        BY <1>5, <3>1, <3>2 DEF Consistent
    <2> QED
      BY <1>6, <2>1 DEF Agree
  <1>8. {i \in heard : Severe(t, p[i])} = same
    BY <1>4, <1>5, <1>6
  <1>9. PlainVerdict(sources, t, p, heard).status = "HALTED"
    <2>1. Cardinality(GroupsOf(sources, {i \in heard : Severe(t, p[i])})) >= t.needed
      BY <1>8 DEF sources
    <2> QED
      BY <1>7, <2>1 DEF PlainVerdict, Judged
  <1>10. Assess(sources, t, p) = PlainVerdict(sources, t, p, heard)
    <2>1. heard # {}
      BY <1>6
    <2> QED
      BY <1>1, <2>1 DEF Assess, heard
  <1> QED
    BY <1>9, <1>10 DEF sources

\* The readings made of what the sources answer.
LEMMA HeadsAreTimed ==
    ASSUME NEW a \in {"BTC", "BNB", "SOL"}, NEW v, v.heads \in DOMAIN Answers,
           NEW p, p = Heads(a, v)
    PROVE  /\ DOMAIN p = DOMAIN DefaultSources(a)
           /\ \A i \in DOMAIN p : p[i] # None =>
                 /\ Timed(p[i]) /\ p[i].height \in Int
                 /\ p[i].fin = None \/ p[i].fin = p[i].height
  <1> DEFINE answers == Answers[v.heads][a]
  <1>1. a \in ChainAssets
    BY DEF ChainAssets
  <1>2. /\ DOMAIN answers = DOMAIN DefaultSources(a)
        /\ \A i \in DOMAIN answers :
              answers[i] = None \/ (answers[i].at \in Int /\ answers[i].height \in Int)
    BY <1>1, ReviewsAreTyped
  <1> HIDE DEF answers
  <1>3. p = [i \in DOMAIN answers |-> Progress(a, answers[i], 0)]
    BY DEF Heads, answers
  <1>4. ASSUME NEW i \in DOMAIN p, p[i] # None
        PROVE  /\ Timed(p[i]) /\ p[i].height \in Int
               /\ p[i].fin = None \/ p[i].fin = p[i].height
    <2> DEFINE x == answers[i]
               age == BlockAge(x.at, 0)
    <2>1. p[i] = Progress(a, x, 0)
      BY <1>3
    <2>2. x # None /\ age # None
      BY <1>4, <2>1 DEF Progress
    <2>3. x.at \in Int /\ x.height \in Int
      BY <1>2, <1>3, <2>2
    <2>4. age \in Int
      <3> DEFINE at == x.at
      <3>1. at \in Int /\ age = BlockAge(at, 0)
        BY <2>3
      <3> HIDE DEF at
      <3> QED
        BY <2>2, <3>1 DEF BlockAge
    <2> HIDE DEF x, age
    <2>5. CASE a = "SOL"
      <3>1. p[i] = Reading(x.height, None, age, x.height, age, TRUE)
        BY <1>4, <2>1, <2>2, <2>5 DEF Progress, age
      <3> QED
        BY <2>3, <2>4, <3>1 DEF Reading, Timed
    <2>6. CASE a \in {"BTC", "BNB"}
      <3>1. p[i] = Reading(x.height, x.hash, age, None, None, TRUE)
        BY <1>4, <2>1, <2>2, <2>6 DEF Progress, age
      <3> QED
        BY <2>3, <2>4, <3>1 DEF Reading, Timed
    <2> QED
      BY <2>5, <2>6
  <1>5. DOMAIN p = DOMAIN answers
    BY <1>3
  <1> QED
    BY <1>2, <1>4, <1>5

\* What the gate is told of a chain that stands is not that it moves.
LEMMA StandingIsUnproven ==
    ASSUME inputs \in Inputs, NEW a \in Assets, Stands(a)
    PROVE  GateChain(View(a, inputs)) \in Unproven
  <1> DEFINE k == View(a, inputs)
  <1>1. PICK v : KnownFrom(a, v, k)
    <2>1. CASE a \in Core
      BY <2>1, CoreIsKnown DEF View
    <2>2. CASE a \in Satellites
      BY <2>2, RolesAreDisjoint, SatelliteIsKnown DEF View
    <2> QED
      BY <2>1, <2>2 DEF Assets
  <1> DEFINE p == Heads(a, k)
             stuck == {i \in DOMAIN p : p[i] # None /\ Severe(Settings[a], p[i])}
             sources == DefaultSources(a)
  <1>2. /\ "GATE" \in k.where /\ k.heads # None
        /\ \/ \A i \in DOMAIN p : p[i] = None
           \/ /\ ~Quorum(sources)
              /\ \E same \in SUBSET stuck :
                    /\ Cardinality(GroupsOf(sources, same)) >= Settings[a].needed
                    /\ \A i, j \in same : p[i].height = p[j].height /\ p[i].hash = p[j].hash
    BY DEF Stands
  <1> HIDE DEF k
  <1>3. /\ a \in ChainAssets /\ k.heads = v.heads /\ v.heads \in DOMAIN Answers
        /\ k.chain = ChainOf(a, v)
    BY <1>1, <1>2 DEF KnownFrom, Kept, Derived
  <1>4. p = Heads(a, v)
    BY <1>3 DEF Heads
  <1> DEFINE reached == Collected(sources, Settings[a], p, None, 0)
  <1>5. k.chain = IF reached = None THEN "FAILED" ELSE reached
    BY <1>2, <1>3, <1>4 DEF ChainOf
  <1>6. GateChain(k) = k.chain
    BY <1>2 DEF GateChain
  <1>7. CASE \A i \in DOMAIN p : p[i] = None
    <2>1. DOMAIN p = DOMAIN sources
      BY <1>3, <1>4, ReviewsAreTyped DEF Heads
    <2>2. reached = None
      BY <1>3, <1>7, <2>1, SilenceIsNotHeard
    <2> QED
      BY <1>5, <1>6, <2>2 DEF k, Unproven
  <1>8. CASE /\ ~Quorum(sources)
             /\ \E same \in SUBSET stuck :
                   /\ Cardinality(GroupsOf(sources, same)) >= Settings[a].needed
                   /\ \A i, j \in same : p[i].height = p[j].height /\ p[i].hash = p[j].hash
    <2>1. a \in {"BTC", "BNB", "SOL"}
      BY <1>3, <1>8, QuorumCatalogue DEF ChainAssets
    <2>2. PICK same \in SUBSET stuck :
              /\ Cardinality(GroupsOf(sources, same)) >= Settings[a].needed
              /\ \A i, j \in same : p[i].height = p[j].height /\ p[i].hash = p[j].hash
      BY <1>8
    <2>3. \A i \in same : i \in DOMAIN p /\ p[i] # None /\ Severe(Settings[a], p[i])
      OBVIOUS
    <2>4. /\ DOMAIN p = DOMAIN sources
          /\ \A i \in DOMAIN p : p[i] # None =>
                /\ Timed(p[i]) /\ p[i].height \in Int
                /\ p[i].fin = None \/ p[i].fin = p[i].height
      BY <1>3, <1>4, <2>1, HeadsAreTimed
    <2>5. DOMAIN p = {1, 2}
      BY <2>1, <2>4, PlainCatalogue
    <2>6. AcceptedSettings(a, Settings[a])
      BY <1>3, AllocationPolicy
    <2> HIDE DEF p, sources
    <2>7. Assess(sources, Settings[a], p).status = "HALTED"
      BY <2>1, <2>2, <2>3, <2>4, <2>5, <2>6, NoneIsNothing, StandingIsHalted DEF sources
    <2>8. reached = "HALTED"
      BY <2>7 DEF Collected
    <2>9. "HALTED" # None
      BY NoneIsNothing DEF Unproven
    <2> QED
      BY <1>5, <1>6, <2>8, <2>9 DEF k, Unproven
  <1> QED
    BY <1>2, <1>7, <1>8

-----------------------------------------------------------------------------
(* What a case rests on.                                                   *)

\* The coverage that current readings give a profile is theirs alone.
LEMMA CoverageIsCurrent ==
    ASSUME NEW profile, Adds(profile, 1000), NEW readings, Readable(readings),
           NEW F, F = {f \in DOMAIN profile \cap DOMAIN readings : readings[f].fresh > 0}
    PROVE  SumOver(profile, F) \in Nat /\ Coverage(profile, readings) <= 1000 * SumOver(profile, F)
  <1> DEFINE S == Weighed(profile, readings)
             w == Weight(profile, readings)
             T == S \cap F
             full == [f \in F |-> 1000 * profile[f]]
  <1>1. /\ IsFiniteSet(S) /\ S \subseteq DOMAIN profile /\ S \subseteq DOMAIN readings
        /\ Coverage(profile, readings) = SumOver(w, S)
        /\ \A f \in S : /\ w[f] \in Nat /\ w[f] <= 1000 * profile[f]
                        /\ readings[f].fresh = 0 => w[f] = 0
        /\ \A f \in DOMAIN profile : profile[f] \in Nat
        /\ IsFiniteSet(DOMAIN profile)
    BY WeightsAreBounded
  <1>2. /\ F \subseteq DOMAIN profile /\ IsFiniteSet(F) /\ IsFiniteSet(T) /\ IsFiniteSet(S \ T)
        /\ T \in SUBSET S /\ T \in SUBSET F
    BY <1>1, FS_Subset
  <1>3. \A f \in S \ T : w[f] = 0
    <2> SUFFICES ASSUME NEW f \in S \ T PROVE w[f] = 0
      OBVIOUS
    <2>1. f \in S /\ f \in DOMAIN profile /\ f \in DOMAIN readings /\ f \notin F
      BY <1>1
    <2>2. ~(readings[f].fresh > 0) /\ readings[f].fresh \in Mille
      BY <2>1 DEF Readable
    <2> DEFINE x == readings[f].fresh
    <2>3. x = 0
      <3>1. ~(x > 0) /\ x \in Mille
        BY <2>2
      <3> HIDE DEF x
      <3> QED
        BY <3>1 DEF Mille
    <2> QED
      BY <1>1, <2>1, <2>3
  <1> HIDE DEF S, w, T
  <1>4. SumOver(w, S) = SumOver(w, T) + SumOver(w, S \ T)
    <2>1. \A f \in S : w[f] \in Int
      BY <1>1
    <2> QED
      BY <1>1, <1>2, <2>1, SumOfUnion
  <1>5. SumOver(w, S \ T) = 0
    BY <1>2, <1>3, SumOfZeros
  <1>6. \A f \in F : profile[f] \in Int /\ full[f] = 1000 * profile[f] /\ full[f] \in Nat
    BY <1>1, <1>2
  <1> HIDE DEF full
  <1>7. SumOver(full, F) = 1000 * SumOver(profile, F)
    BY <1>2, <1>6, SumOfMultiples
  <1>8. SumOver(w, T) <= SumOver(full, T)
    <2>1. \A f \in T : w[f] \in Int /\ full[f] \in Int /\ w[f] <= full[f]
      BY <1>1, <1>2, <1>6
    <2> QED
      BY <1>2, <2>1, SumMonotone
  <1>9. SumOver(full, T) \in Nat /\ SumOver(full, T) <= SumOver(full, F)
    BY <1>2, <1>6, SumOfNaturals
  <1>10. SumOver(w, T) \in Nat
    <2>1. \A f \in S : w[f] \in Nat
      BY <1>1
    <2> QED
      BY <1>1, <1>2, <2>1, SumOfNaturals
  <1>11. SumOver(profile, F) \in Nat
    <2>1. \A f \in F : profile[f] \in Nat
      BY <1>1, <1>2
    <2> QED
      BY <1>2, <2>1, SumOfNaturals
  <1> QED
    BY <1>1, <1>4, <1>5, <1>7, <1>8, <1>9, <1>10, <1>11

\* What permits a deployment rests on current readings.
LEMMA PermissionRestsOnEvidence ==
    ASSUME NEW s \in Assets, NEW v, NEW k, KnownFrom(s, v, k),
           ~(k.permission < 1000 * Policy.investable)
    PROVE  RestsOnEvidence(s, k)
  <1> DEFINE r == Evidence[k.readings]
             profile == ProfileFor(s)
             market == FamiliesOf(Policy, s).market
             Current(share) == {f \in DOMAIN share \cap DOMAIN r : r[f].fresh > 0}
  <1>1. /\ k.readings = v.readings /\ k.readings \in DOMAIN Evidence
        /\ k.permission \in {Coverage(market, r), Coverage(profile, r)}
    BY DEF KnownFrom, Kept, Derived
  <1>2. Readable(r)
    BY <1>1, EvidenceIsReadable
  <1>3. Adds(profile, 1000) /\ Adds(market, 1000)
    BY ProfilesAddUp DEF FamilyAccepted
  <1>4. Policy.investable \in Nat
    <2>1. Policy.investable \in Mille
      BY PolicyNumbers
    <2> QED
      BY <2>1, SMTT(30) DEF Mille
  <1> HIDE DEF r
  <1>5. PICK share \in {profile, market} : k.permission = Coverage(share, r)
    BY <1>1
  <1>6. Adds(share, 1000)
    BY <1>3
  <1> DEFINE c == SumOver(share, Current(share))
             p == Coverage(share, r)
  <1>7. c \in Nat /\ p <= 1000 * c
    BY <1>2, <1>6, CoverageIsCurrent
  <1>8. p \in Nat
    BY <1>2, <1>6, CoverageIsPart
  <1>9. ~(p < 1000 * Policy.investable)
    BY <1>5
  <1> HIDE DEF c, p
  <1>10. c >= Policy.investable
    BY <1>4, <1>7, <1>8, <1>9
  <1> QED
    BY <1>5, <1>10, ZenonT(60) DEF RestsOnEvidence, ProfileFor, r, c

\* A confidence above LOW rests on sources that are good enough.
LEMMA ConfidenceIsWellSourced ==
    ASSUME NEW a \in Assets, NEW v, NEW k, KnownFrom(a, v, k), k.confidence # "LOW"
    PROVE  WellSourced(a, k)
  <1> DEFINE r == Evidence[k.readings]
             profile == ProfileFor(a)
             D == DOMAIN profile \cap DOMAIN r
             good == [f \in D |-> profile[f] * r[f].quality]
             S == Weighed(profile, r)
             w == Weight(profile, r)
             x == Policy.investable
             y == Policy.mediumCoverage
             m == Most({x, y})
             c == Coverage(profile, r)
  <1>1. /\ k.readings = v.readings /\ k.readings \in DOMAIN Evidence
        /\ k.confidence = Confidence(Policy, profile, r, v.complete)
    BY DEF KnownFrom, Kept, Derived
  <1>2. Readable(r)
    BY <1>1, EvidenceIsReadable
  <1>3. Adds(profile, 1000)
    BY ProfilesAddUp
  <1>4. GateBand(Policy, c, v.complete) # "LOW"
    BY <1>1 DEF Confidence
  <1>5. Max({x, y}) = m
    BY DEF Max, Most
  <1>6. ~(c < 1000 * m)
    BY <1>4, <1>5 DEF GateBand
  <1>7. x \in Int /\ y \in Int
    <2>1. x \in Mille /\ y \in Mille
      BY PolicyNumbers
    <2> HIDE DEF x, y
    <2> QED
      BY <2>1 DEF Mille
  <1>8. m \in Int
    <2> HIDE DEF x, y
    <2>1. m \in {x, y}
      BY <1>7, MostOfTwo
    <2> HIDE DEF m
    <2> QED
      BY <1>7, <2>1
  <1> HIDE DEF r, profile
  <1>9. /\ IsFiniteSet(S) /\ S \subseteq DOMAIN profile /\ S \subseteq DOMAIN r
        /\ c = SumOver(w, S)
        /\ \A f \in S : w[f] \in Nat /\ w[f] <= profile[f] * r[f].quality
        /\ \A f \in DOMAIN profile : profile[f] \in Nat
        /\ IsFiniteSet(DOMAIN profile)
    BY <1>2, <1>3, WeightsAreBounded
  <1>10. \A f \in D : good[f] = profile[f] * r[f].quality /\ good[f] \in Nat
    <2> SUFFICES ASSUME NEW f \in D
                 PROVE  good[f] = profile[f] * r[f].quality /\ good[f] \in Nat
      OBVIOUS
    <2> DEFINE p == profile[f]
               q == r[f].quality
    <2>1. p \in Nat /\ q \in Mille
      BY <1>2, <1>9 DEF Readable
    <2>2. good[f] = p * q
      OBVIOUS
    <2> HIDE DEF p, q
    <2>3. p * q \in Nat
      BY <2>1 DEF Mille
    <2> QED
      BY <2>2, <2>3 DEF p, q
  <1>11. DOMAIN good = D /\ IsFiniteSet(D) /\ S \in SUBSET D
    BY <1>9, FS_Subset
  <1> HIDE DEF S, w, good, D
  <1>12. SumOver(w, S) <= SumOver(good, S)
    <2>1. \A f \in S : w[f] \in Int /\ good[f] \in Int /\ w[f] <= good[f]
      BY <1>9, <1>10, <1>11
    <2> QED
      BY <1>9, <2>1, SumMonotone
  <1>13. SumOver(good, S) \in Nat /\ SumOver(good, S) <= SumOver(good, D) /\ SumOver(good, D) \in Nat
    BY <1>10, <1>11, SumOfNaturals
  <1>14. SumOver(w, S) \in Nat
    <2>1. \A f \in S : w[f] \in Nat
      BY <1>9
    <2> QED
      BY <1>9, <2>1, SumOfNaturals
  <1>15. Total(good) = SumOver(good, D)
    BY <1>11 DEF Total
  <1> HIDE DEF c, m
  <1>16. Total(good) >= 1000 * m
    BY <1>6, <1>8, <1>9, <1>12, <1>13, <1>14, <1>15
  <1> QED
    BY <1>16 DEF WellSourced, ProfileFor, r, profile, good, D, m, x, y

-----------------------------------------------------------------------------
(* What is capped at what is held.                                         *)

\* Where no cap is smaller than the budget nobody gets more than it asks for.
LEMMA ShareIsAsked ==
    ASSUME NEW D, IsFiniteSet(D), NEW requests \in [D -> Nat], NEW caps \in [D -> Nat],
           NEW budget \in Nat, \A a \in D : budget <= caps[a], NEW frozen, frozen = {},
           NEW s, s = Share(requests, budget, caps, frozen), NEW a \in D
    PROVE  s[a] <= requests[a]
  <1> DEFINE U == AskingOf(requests)
             taken == TakenOf(requests, caps, frozen)
             pool == PoolOf(requests, budget, caps, frozen)
             W == SumOver(requests, U)
             part == PartOf(U, requests, caps, pool)
             r == requests[a]
  <1>1. U = OpenTo(requests, frozen) /\ U \subseteq D /\ IsFiniteSet(U)
    <2>1. U \subseteq D
      BY DEF AskingOf
    <2> QED
      BY <2>1, FS_Subset DEF OpenTo
  <1>2. \A b \in U : requests[b] \in Nat \ {0} /\ caps[b] \in Nat
    BY DEF AskingOf
  <1>3. W \in Nat
    BY <1>1, <1>2, SumOfNaturals
  <1>4. Total(taken) = 0
    <2>1. DOMAIN taken = {}
      BY DEF TakenOf
    <2> QED
      BY <2>1, SumOfNothing DEF Total
  <1>5. pool \in Nat /\ pool <= budget /\ pool <= W
    <2> DEFINE l == Least({budget, W})
    <2>1. l \in Nat /\ l <= budget /\ l <= W
      <3> HIDE DEF W
      <3> QED
        BY <1>3, LeastOfNats
    <2>2. pool = l - Total(taken)
      BY DEF PoolOf
    <2> HIDE DEF l, taken, pool
    <2> QED
      BY <1>4, <2>1, <2>2
  <1>6. r \in Nat
    OBVIOUS
  <1>7. s[a] = IF a \notin U \/ budget <= 0 THEN 0
               ELSE IF LeftFor(U, caps, pool, U) <= 0 THEN 0 ELSE part[a]
    <2>1. a \in DOMAIN requests
      OBVIOUS
    <2> QED
      BY <1>1, <2>1, ShareIs
  <1> HIDE DEF taken, pool, W, U
  <1>8. LeftFor(U, caps, pool, U) = pool
    <2>1. U \ U = {} /\ SumOver(caps, {}) = 0
      BY SumOfNothing
    <2> QED
      BY <1>5, <2>1 DEF LeftFor
  <1>9. CappedIn(U, requests, caps, pool, U) = {}
    <2> SUFFICES ASSUME NEW b \in U
                 PROVE  ~(LeftFor(U, caps, pool, U) * requests[b] > caps[b] * SumOver(requests, U))
      BY DEF CappedIn
    <2> DEFINE x == requests[b]
               y == caps[b]
    <2>1. x \in Nat /\ y \in Nat /\ pool <= y
      <3>1. b \in D /\ budget <= caps[b] /\ caps[b] \in Nat
        BY <1>1, <1>2
      <3> QED
        BY <1>2, <1>5, <3>1
    <2>2. x <= W
      <3>1. \A c \in U : requests[c] \in Nat
        BY <1>2
      <3> QED
        BY <1>1, <3>1, TermOfSum DEF W
    <2> HIDE DEF x, y
    <2>3. pool * x <= y * x /\ y * x <= y * W
      BY <1>3, <1>5, <2>1, <2>2
    <2>4. pool * x \in Int /\ y * x \in Int /\ y * W \in Int
      BY <1>3, <1>5, <2>1
    <2> DEFINE px == pool * x
               yw == y * W
               yx == y * x
    <2>5. ~(px > yw)
      <3>1. px <= yx /\ yx <= yw /\ px \in Int /\ yx \in Int /\ yw \in Int
        BY <2>3, <2>4
      <3> HIDE DEF px, yx, yw
      <3> QED
        BY <3>1
    <2> QED
      BY <1>8, <2>5 DEF x, y, W
  <1>c. Claims(U, requests, caps, pool)
    BY <1>1, <1>2, <1>5 DEF Claims
  <1>10. LeftFor(U, caps, pool, U) > 0 => OpenIn(U, requests, caps, pool)[U] = U
    BY <1>c, <1>9, NobodyIsCapped
  <1>11. CASE a \in U /\ LeftFor(U, caps, pool, U) > 0
    <2>1. part[a] = (pool * r) \div W
      <3> DEFINE open == OpenIn(U, requests, caps, pool)[U]
      <3>1. part = [b \in U |-> IF b \in open
                                THEN (LeftFor(U, caps, pool, open) * requests[b])
                                         \div SumOver(requests, open)
                                ELSE caps[b]]
        BY DEF PartOf
      <3>2. open = U
        BY <1>10, <1>11
      <3> HIDE DEF open, part
      <3>3. part[a] = (LeftFor(U, caps, pool, open) * requests[a]) \div SumOver(requests, open)
        BY <1>11, <3>1, <3>2, Zenon
      <3> QED
        BY <1>8, <3>2, <3>3, Zenon DEF W, r
    <2>2. W \in Nat \ {0} /\ pool \in 0 .. W
      <3>1. \A c \in U : requests[c] \in Nat
        BY <1>2
      <3>2. r <= W /\ r \in Nat \ {0}
        BY <1>1, <1>2, <1>11, <3>1, TermOfSum DEF W
      <3> QED
        BY <1>3, <1>5, <3>2
    <2> HIDE DEF part, r
    <2>3. part[a] \in 0 .. r
      BY <1>6, <2>1, <2>2, ShareOfProduct
    <2>4. s[a] = 0 \/ s[a] = part[a]
      BY <1>7
    <2>5. s[a] <= r
      BY <1>6, <2>3, <2>4
    <2> QED
      BY <2>5 DEF r
  <1>12. CASE a \notin U \/ ~(LeftFor(U, caps, pool, U) > 0)
    <2>0. ~(LeftFor(U, caps, pool, U) > 0) => LeftFor(U, caps, pool, U) <= 0
      BY <1>5, <1>8
    <2>1. s[a] = 0
      BY <1>7, <1>12, <2>0
    <2> HIDE DEF r
    <2>2. 0 <= r
      BY <1>6
    <2> QED
      BY <2>1, <2>2 DEF r
  <1> QED
    BY <1>11, <1>12

-----------------------------------------------------------------------------
(* What a satellite grows on.                                              *)

\* In every regime the cap of one asset leaves room for the envelope.
CapsAreWide == \A limits \in Regimes : limits.satelliteMax <= limits.single

\* Then what is preserved is not more than what was to be preserved.
LEMMA PreservedIsAsked ==
    ASSUME CapsAreWide, NEW in \in Inputs, Booked, NEW s \in Satellites
    PROVE  Preserved(in)[s] <= Holds(in)[s]
  <1> DEFINE caps == Uniform(Satellites, in.regime.single)
             asked == Holds(in)
             cap == SatelliteCap(in)
             frozen == {}
             kept == Preserved(in)
             m == in.regime.satelliteMax
             z == in.regime.single
  <1>1. asked \in [Satellites -> Nat]
    BY VerdictsAreTyped
  <1>2. /\ caps \in [Satellites -> Nat] /\ IsFiniteSet(Satellites)
        /\ \A a \in Satellites : caps[a] = z
    BY CapsOfSatellites
  <1>3. cap \in Mille /\ cap <= m
    BY BudgetTypes
  <1>4. m \in Mille /\ z \in Mille
    BY RegimeTypes
  <1>5. m <= z
    <2>1. in.regime \in Regimes
      <3>1. PICK t \in Situations : in.regime = t.regime
        BY DEF Inputs
      <3>2. t.regime \in Regimes
        BY AllocationPolicy
      <3> QED
        BY <3>1, <3>2
    <2> QED
      BY <2>1 DEF CapsAreWide
  <1>6. kept = Share(asked, cap, caps, frozen) /\ frozen = {}
    BY DEF Preserved
  <1> HIDE DEF caps, asked, cap, frozen, kept, m, z
  <1>7. cap \in Nat /\ cap <= z
    BY <1>3, <1>4, <1>5 DEF Mille
  <1>8. \A a \in Satellites : cap <= caps[a]
    BY <1>2, <1>7
  <1>9. kept[s] <= asked[s]
    BY <1>1, <1>2, <1>6, <1>7, <1>8, ShareIsAsked
  <1> QED
    BY <1>9 DEF kept, asked

\* What is neither sized nor above what is held does not grow.
LEMMA CappedDoesNotGrow ==
    ASSUME CapsAreWide, NEW in \in Inputs, Booked, NEW pl, Concluded(in, pl),
           NEW s \in Satellites, Wants(in)[s] = 0
    PROVE  ~(pl.target[s] > weights[s])
  <1> DEFINE kept == Preserved(in)
             new == Bought(in)
             x == pl.target[s]
             y == pl.raw[s]
             k == kept[s]
             n == new[s]
             h == Holds(in)[s]
             w == weights[s]
  <1>1. k <= h
    BY PreservedIsAsked
  <1>2. h \in Nat /\ h <= w
    <2>1. Holds(in) \in [Satellites -> Nat] /\ h <= w
      BY VerdictsAreTyped
    <2> QED
      BY <2>1
  <1>3. n = 0
    BY BoughtFits
  <1>4. kept \in [Satellites -> Nat]
    BY SleeveFits
  <1>5. w \in Mille
    BY BookOfSatellite
  <1>6. s \in Assets /\ s \notin Core
    BY RolesAreDisjoint DEF Assets
  <1>7. y = k + n
    <2>1. pl.raw = RawOf(in)
      BY ConclusionIs
    <2>2. RawOf(in)[s] = kept[s] + new[s]
      BY <1>6 DEF RawOf
    <2> QED
      BY <2>1, <2>2
  <1>8. x \in Mille /\ x <= y
    <2>1. pl.target \in [Assets -> Mille] /\ x <= y
      BY <1>6, ConclusionsFit
    <2> QED
      BY <1>6, <2>1
  <1>9. k \in Nat
    BY <1>4
  <1> HIDE DEF kept, new, x, y, k, n, h, w
  <1>10. ~(x > w)
    BY <1>1, <1>2, <1>3, <1>5, <1>7, <1>8, <1>9 DEF Mille
  <1> QED
    BY <1>10 DEF x, w

\* What a satellite grows on, whatever the caps are.
LEMMA SatelliteGrowsOnEvidence ==
    ASSUME NEW in \in Inputs, Booked, NEW pl, Concluded(in, pl),
           NEW s \in Satellites, pl.target[s] > weights[s], pl.verdict[s].factor # 0
    PROVE  /\ SatelliteCase(in.satellites[s]) /\ RestsOnEvidence(s, in.satellites[s])
           /\ ~Legacy /\ ~in.satellites[s].alpha => Wants(in)[s] = 0
  <1> DEFINE v == in.satellites[s]
             holding == weights[s] > 0
             d == Verdict(s, v, in)
  <1>1. DeploymentFactor(v, holding, in.score) # 0
    <2>1. pl.verdict[s] = d
      BY DEF Concluded
    <2>2. d.factor = DeploymentFactor(v, holding, in.score)
      BY DEF Verdict
    <2> QED
      BY <2>1, <2>2
  <1>2. d.strategic = IF Bucket(v, Eligibility(v, holding)) = "STRATEGIC"
                      THEN Requested(v, holding, in) ELSE 0
    BY DEF Verdict
  <1>3. Wants(in)[s] = d.strategic
    BY DEF Wants
  <1>4. PICK u : KnownFrom(s, u, v)
    BY SatelliteIsKnown
  <1> HIDE DEF v, holding, d
  <1>5. Eligibility(v, holding) = "ELIGIBLE_INCREASE"
    BY <1>1 DEF DeploymentFactor
  <1>6. SatelliteCase(v)
    BY <1>5, EligibleMeansCase
  <1>7. ~(v.permission < 1000 * Policy.investable)
    BY <1>6 DEF SatelliteCase
  <1>8. RestsOnEvidence(s, v)
    <2>1. s \in Assets
      BY DEF Assets
    <2> QED
      BY <1>4, <1>7, <2>1, PermissionRestsOnEvidence
  <1>9. ASSUME ~Legacy, ~v.alpha PROVE Wants(in)[s] = 0
    <2>1. Bucket(v, Eligibility(v, holding)) = "CAPPED_HOLD"
      BY <1>5, <1>9 DEF Bucket, AlphaGranted
    <2> QED
      BY <1>2, <1>3, <2>1
  <1> QED
    BY <1>6, <1>8, <1>9 DEF v

-----------------------------------------------------------------------------
(* What the core grows on.                                                 *)

\* _btc_core_state, eth_core_eligibility: an increase of a core asset is
\* permitted on nothing less than its case.
LEMMA CoreStateMeansCase ==
    ASSUME NEW in \in Inputs, NEW a \in Core, Legacy,
           CoreState(a, in.core) = "ELIGIBLE_INCREASE"
    PROVE  CoreCase(a, in.core[a])
  <1> DEFINE v == in.core[a]
             x == CoreScore(v)
             y == Policy.ethIncrease
             r == v.relative
             e == Policy.ethRelativeIncrease
  <1>1. PICK u : KnownFrom(a, u, v)
    BY CoreIsKnown
  <1>2. a \in Assets
    BY DEF Assets
  <1>3. r \in 0 .. 100 \cup {None} /\ v.score \in 0 .. 100 \cup {None} /\ v.effective \in 0 .. 100
    BY <1>1, <1>2, KnownTypes
  <1>4. x \in 0 .. 100
    <2>1. x = IF v.score = None THEN v.effective ELSE v.score
      BY DEF CoreScore
    <2> HIDE DEF v, x
    <2> QED
      BY <1>3, <2>1
  <1>5. y \in 0 .. 100 /\ e \in 0 .. 100
    BY PolicyNumbers
  <1>6. CASE a = "ETH"
    <2>1. EthState(v) = "ELIGIBLE_INCREASE"
      BY <1>6 DEF CoreState
    <2> HIDE DEF v
    <2>2. v.event # "SEVERE" /\ v.complete
      BY <2>1 DEF EthState
    <2>3. v.relative # None /\ ~(v.relative < Policy.ethRelativeIncrease)
      BY <2>1 DEF EthState
    <2>4. ~(CoreScore(v) < Policy.ethIncrease) /\ v.confidence # "LOW"
      BY <2>1 DEF EthState
    <2>5. WellSourced(a, v)
      BY <1>1, <1>2, <2>4, ConfidenceIsWellSourced
    <2>6. x >= y
      <3>1. ~(x < y)
        BY <2>4
      <3> HIDE DEF x, y
      <3> QED
        BY <1>4, <1>5, <3>1
    <2>7. r >= e
      <3>1. ~(r < e) /\ r # None
        BY <2>3
      <3> HIDE DEF r, e
      <3> QED
        BY <1>3, <1>5, <3>1
    <2> QED
      BY <2>2, <2>3, <2>5, <2>6, <2>7 DEF CoreCase, AtLeast, v
  <1>7. CASE a # "ETH"
    <2>1. BtcState(v) = "ELIGIBLE_INCREASE"
      BY <1>7 DEF CoreState
    <2> HIDE DEF v
    <2>2. v.event # "SEVERE" /\ v.complete /\ v.confidence # "LOW"
      BY <2>1 DEF BtcState
    <2>3. WellSourced(a, v)
      BY <1>1, <1>2, <2>2, ConfidenceIsWellSourced
    <2> QED
      BY <1>7, <2>2, <2>3 DEF CoreCase, v
  <1> QED
    BY <1>6, <1>7

\* A core asset grows on its case.
LEMMA CoreGrowsOnEvidence ==
    ASSUME NEW in \in Inputs, Booked, NEW pl, Concluded(in, pl),
           NEW a \in Core, pl.target[a] > weights[a]
    PROVE  CoreCase(a, in.core[a])
  <1> DEFINE core == CoreOf(in)
             x == pl.target[a]
             c == core[a]
             w == weights[a]
             budget == Rest(in)
  <1>1. a \in Assets
    BY DEF Assets
  <1>2. w \in Mille
    BY <1>1 DEF Booked
  <1>3. x \in Mille /\ x <= c
    <2>1. pl.raw[a] = c
      <3>1. pl.raw = RawOf(in)
        BY ConclusionIs
      <3> QED
        BY <1>1, <3>1 DEF RawOf
    <2>2. pl.target \in [Assets -> Mille] /\ x <= pl.raw[a]
      BY <1>1, ConclusionsFit
    <2> QED
      BY <1>1, <2>1, <2>2
  <1>4. budget \in Nat
    BY RestFits
  <1>5. /\ core \in [Core -> Nat]
        /\ Legacy => \A b \in Core :
              CoreState(b, in.core) # "ELIGIBLE_INCREASE" => core[b] <= weights[b]
        /\ ~Legacy => core["ETH"] = 0
    <2>1. core = CoreTarget(in, budget)
      BY DEF CoreOf
    <2> HIDE DEF core, budget
    <2> QED
      BY <1>4, <2>1, CoreFits
  <1>6. c \in Nat
    BY <1>5
  <1>7. x > w
    OBVIOUS
  <1>8. ~(c <= w)
    <2> HIDE DEF x, c, w
    <2> QED
      BY <1>2, <1>3, <1>6, <1>7 DEF Mille
  <1>9. CASE Legacy
    <2>1. CoreState(a, in.core) = "ELIGIBLE_INCREASE"
      BY <1>5, <1>8, <1>9
    <2> QED
      BY <1>9, <2>1, CoreStateMeansCase
  <1>10. CASE ~Legacy
    <2>1. c # 0
      <3> HIDE DEF c, w
      <3> QED
        BY <1>2, <1>8 DEF Mille
    <2>2. a = "BTC"
      BY <1>5, <1>10, <2>1 DEF Core
    <2>3. ASSUME in.core[a].event = "SEVERE" PROVE FALSE
      <3>1. BaselineBlocked(in.core["BTC"])
        BY <2>2, <2>3 DEF BaselineBlocked
      <3>2. BaselineCore(in, budget) = 0 /\ Residual(in, budget) = 0
        BY <3>1 DEF BaselineCore, Residual
      <3>3. c = BaselineCore(in, budget) + Residual(in, budget)
        BY <1>10, <2>2 DEF CoreOf, CoreTarget
      <3> HIDE DEF c, budget
      <3>4. c = 0
        BY <3>2, <3>3
      <3> QED
        BY <2>1, <3>4
    <2> QED
      BY <1>10, <2>2, <2>3 DEF CoreCase
  <1> QED
    BY <1>9, <1>10

-----------------------------------------------------------------------------
(* What a review permits.                                                  *)

\* Under a breached drawdown, or on a confidence a host measured and found
\* wanting, the gate refuses whatever grows.
LEMMA GateKnowsTheBook ==
    ASSUME NEW in \in Inputs, Booked, NEW pl, Concluded(in, pl), pl.errors = {},
           NEW a \in Assets, pl.target[a] > weights[a]
    PROVE  /\ in.score # None => in.score >= Policy.mediumConfidence
           /\ in.depth <= Policy.budget
           /\ GateChain(View(a, in)) \notin Unproven
  <1> DEFINE g == Proposal(in, pl.target)
             q == in.score
             m == Policy.mediumConfidence
             d == in.depth
             b == Policy.budget
  <1>1. GateErrors(g) = {}
    BY ConclusionIs
  <1>2. /\ g.target = pl.target /\ g.current = weights /\ g.chain[a] = GateChain(View(a, in))
        /\ g.score = q /\ g.depth = d /\ g.budget = b /\ g.mediumConfidence = m
        /\ q # None => a \in g.increases
    BY DEF Proposal
  <1>3. a \in DOMAIN g.target
    <2>1. pl.target \in [Assets -> Mille]
      BY ConclusionsFit
    <2> QED
      BY <1>2, <2>1
  <1>4. q \in Mille \cup {None} /\ d \in Mille
    BY MarketTypes
  <1>5. m \in 1 .. 1000 /\ b \in 1 .. 1000
    BY PolicyNumbers
  <1>6. weights # None
    BY NoneIsNothing DEF Booked
  <1> HIDE DEF g, q, m, d, b
  <1>7. ~Warned(g, "DECISION_CONFIDENCE_BLOCK") /\ ~Warned(g, "DRAWDOWN_BREACH")
    BY <1>1 DEF GateErrors, Hazards
  <1>8. q # None => q >= m
    <2> SUFFICES ASSUME q # None PROVE q >= m
      OBVIOUS
    <2>1. ~(q < m)
      BY <1>2, <1>7 DEF Warned
    <2> QED
      BY <1>4, <1>5, <2>1 DEF Mille
  <1>9. d <= b
    <2>1. d # None
      <3>1. d \in Nat
        BY <1>4 DEF Mille
      <3> QED
        BY <3>1, NoneIsNothing
    <2>2. ~(d > b)
      BY <1>2, <1>7, <2>1 DEF Warned
    <2> QED
      BY <1>4, <1>5, <2>2 DEF Mille
  <1>10. ASSUME GateChain(View(a, in)) \in Unproven PROVE FALSE
    <2>1. Exposed(g, a)
      BY <1>2, <1>6 DEF Exposed
    <2> QED
      BY <1>1, <1>2, <1>3, <1>10, <2>1, StoppedMeansErrors
  <1> QED
    BY <1>8, <1>9, <1>10 DEF q, m, d, b

\* All that Entitled asks for, save the alpha of the volatility engine.
Carried(a) ==
    /\ ~Stands(a)
    /\ inputs.score # None => inputs.score >= Policy.mediumConfidence
    /\ inputs.depth <= Policy.budget
    /\ a \in Satellites => /\ SatelliteCase(inputs.satellites[a])
                           /\ RestsOnEvidence(a, inputs.satellites[a])
    /\ a \in Core => CoreCase(a, inputs.core[a])

\* Whatever grows is carried by its evidence; in the volatility engine by its
\* alpha too, where no cap is tighter than the envelope.
LEMMA WhatGrowsIsCarried ==
    ASSUME AllocationTypeOK, PlanIsConcluded, [Next]_allocationVars,
           NEW a \in Assets, weights'[a] > weights[a]
    PROVE  /\ Carried(a)
           /\ CapsAreWide /\ a \in Satellites /\ ~Legacy => inputs.satellites[a].alpha
  <1>1. /\ plan # None /\ plan.errors = {} /\ plan.target[a] > weights[a]
        /\ a \in Satellites => plan.verdict[a].factor # 0
    BY Growth
  <1>2. inputs \in Inputs /\ Booked /\ Concluded(inputs, plan)
    BY <1>1, StandingPlan
  <1>3. /\ inputs.score # None => inputs.score >= Policy.mediumConfidence
        /\ inputs.depth <= Policy.budget
        /\ GateChain(View(a, inputs)) \notin Unproven
    BY <1>1, <1>2, GateKnowsTheBook
  <1>4. ~Stands(a)
    BY <1>2, <1>3, StandingIsUnproven
  <1>5. a \in Satellites =>
            /\ SatelliteCase(inputs.satellites[a]) /\ RestsOnEvidence(a, inputs.satellites[a])
            /\ ~Legacy /\ ~inputs.satellites[a].alpha => Wants(inputs)[a] = 0
    BY <1>1, <1>2, SatelliteGrowsOnEvidence
  <1>6. a \in Core => CoreCase(a, inputs.core[a])
    BY <1>1, <1>2, CoreGrowsOnEvidence
  <1>7. ASSUME CapsAreWide, a \in Satellites, ~Legacy, ~inputs.satellites[a].alpha PROVE FALSE
    BY <1>1, <1>2, <1>5, <1>7, CappedDoesNotGrow
  <1> QED
    BY <1>3, <1>4, <1>5, <1>6, <1>7 DEF Carried

\* Nothing grows on evidence that does not carry it: build_target_allocation,
\* the gate and the execution rule of the review together, for every policy
\* the parser accepts.
GrowthIsCarried ==
    [][\A a \in Assets : weights'[a] > weights[a] => Carried(a)]_allocationVars

\* The allocator, the gate and the execution rule keep that promise in both
\* engines, for every evidence, every book and every accepted policy.
THEOREM EvidenceCarriesGrowth ==
    AllocationSpec => GrowthIsCarried
  <1>1. ASSUME AllocationTypeOK, PlanIsConcluded, [Next]_allocationVars,
               NEW a \in Assets, weights'[a] > weights[a]
        PROVE  Carried(a)
    BY <1>1, WhatGrowsIsCarried
  <1>2. AllocationTypeOK /\ PlanIsConcluded /\ [Next]_allocationVars =>
            [\A a \in Assets : weights'[a] > weights[a] => Carried(a)]_allocationVars
    BY <1>1
  <1> QED
    BY <1>2, PlanStaysConcluded, AllocationTypes, PTL DEF AllocationSpec, GrowthIsCarried

\* And nothing of the volatility engine without its alpha, where the regimes
\* leave a single asset the whole satellite envelope, as all the shipped ones
\* do.  Without that _bounded_allocate_with_caps may raise what the engine
\* only preserves, when a peer passes its cap.
THEOREM EntitlementHolds ==
    ASSUME CapsAreWide
    PROVE  AllocationSpec => OnlyTheEntitledGrow
  <1>1. ASSUME AllocationTypeOK, PlanIsConcluded, [Next]_allocationVars,
               NEW a \in Assets, weights'[a] > weights[a]
        PROVE  Entitled(a)
    <2>1. /\ Carried(a)
          /\ CapsAreWide /\ a \in Satellites /\ ~Legacy => inputs.satellites[a].alpha
      BY <1>1, WhatGrowsIsCarried
    <2> QED
      BY <2>1 DEF Carried, Entitled
  <1>2. AllocationTypeOK /\ PlanIsConcluded /\ [Next]_allocationVars =>
            [\A a \in Assets : weights'[a] > weights[a] => Entitled(a)]_allocationVars
    BY <1>1
  <1> QED
    BY <1>2, PlanStaysConcluded, AllocationTypes, PTL DEF AllocationSpec, OnlyTheEntitledGrow

=============================================================================
