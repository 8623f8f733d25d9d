------------------------- MODULE SeriesCacheProofs -------------------------
(***************************************************************************)
(* The safety of the provider cache, for any number of sessions that share *)
(* it: of the cached series, killed at any step and whatever happens to    *)
(* their content, and of the response entries, whatever rots.              *)
(***************************************************************************)
EXTENDS SeriesCache, ResponseCache, WellFoundedInduction, TLAPS

Working == {"fetch", "content", "manifest"}

\* A series about to be stored has candles; one named by a manifest is stored.
StepsHold ==
    /\ \A s \in Session : pc[s] \in {"content", "manifest"} => series[s] # {}
    /\ \A s \in Session : pc[s] = "manifest" => series[s] \in contents

\* What a review holds has closed by now.
SeriesClosed == \A s \in Session : ClosedBy(series[s], now) = series[s]

\* A review that was not overtaken holds all the manifest names, or is about
\* to quarantine damaged content.
LoadedIsCurrent ==
    \A s \in Session : ~overtaken[s] =>
        /\ pc[s] \in Working => manifest \subseteq series[s]
        /\ pc[s] = "quarantine" => manifest \in damaged

IInv ==
    /\ TypeOK /\ ManifestResolves /\ NothingUnfinished
    /\ StepsHold /\ SeriesClosed /\ LoadedIsCurrent

\* ClosedBy picks candles, and picking twice picks no fewer.
LEMMA ClosedByFacts ==
    ASSUME NEW c, NEW t
    PROVE  ClosedBy(c, t) \subseteq c /\ ClosedBy(ClosedBy(c, t), t) = ClosedBy(c, t)
  BY DEF ClosedBy

\* A candle closed by now stays closed.
LEMMA ClosedStays ==
    ASSUME NEW c \in SUBSET Listed, NEW t \in Nat, ClosedBy(c, t) = c
    PROVE  ClosedBy(c, t + 1) = c
  <1>1. ASSUME NEW d \in c PROVE d + Day <= t + 1
    <2>1. d \in Int /\ Day \in Int
      BY SeriesAssumption
    <2>2. d + Day <= t
      BY DEF ClosedBy
    <2> QED
      BY <2>1, <2>2
  <1> QED
    BY <1>1 DEF ClosedBy

\* An answer is well typed and holds nothing that had not closed by as_of.
LEMMA AnswerFacts ==
    ASSUME NEW r \in Requests \cup {Idle}, NEW from \in {"CACHE", "API"},
           NEW c \in SUBSET Listed, Answer(r, from, c)
    PROVE  /\ answer' \in [request : Requests \cup {Idle}, from : {"NONE", "CACHE", "API"},
                           values : SUBSET Listed]
           /\ ClosedBy(answer'.values, answer'.request.asOf) = answer'.values
  <1>1. CASE ClosedBy(c, r.asOf) = {}
    BY <1>1 DEF Answer, NoAnswer, ClosedBy
  <1>2. CASE ClosedBy(c, r.asOf) # {}
    <2>1. answer' = [request |-> r, from |-> from, values |-> ClosedBy(c, r.asOf)]
      BY <1>2 DEF Answer
    <2>2. ClosedBy(c, r.asOf) \subseteq c
      BY ClosedByFacts
    <2>3. ClosedBy(ClosedBy(c, r.asOf), r.asOf) = ClosedBy(c, r.asOf)
      BY ClosedByFacts
    <2> QED
      BY <2>1, <2>2, <2>3
  <1> QED
    BY <1>1, <1>2

\* So is no answer at all.
LEMMA NoAnswerFacts ==
    ASSUME answer' = NoAnswer
    PROVE  /\ answer' \in [request : Requests \cup {Idle}, from : {"NONE", "CACHE", "API"},
                           values : SUBSET Listed]
           /\ ClosedBy(answer'.values, answer'.request.asOf) = answer'.values
  BY DEF NoAnswer, ClosedBy

\* The first session finds nothing.
LEMMA InvInit == Init => IInv
  <1> SUFFICES ASSUME Init PROVE IInv
    OBVIOUS
  <1>1. TypeOK
    BY SeriesAssumption DEF Init, TypeOK, Series, NoAnswer
  <1>2. ManifestResolves /\ NothingUnfinished /\ SeriesClosed
    BY DEF Init, ManifestResolves, NothingUnfinished, SeriesClosed, NoAnswer, ClosedBy
  <1>3. StepsHold /\ LoadedIsCurrent
    BY DEF Init, StepsHold, LoadedIsCurrent, Working
  <1> QED
    BY <1>1, <1>2, <1>3 DEF IInv

\* Reading the manifest at the start of a review.
LEMMA LoadStep ==
    ASSUME IInv, NEW s \in Session, NEW r \in Requests,
           LoadCorrupt(s, r) \/ LoadIncomplete(s, r) \/ LoadAnswers(s, r)
    PROVE  IInv'
  <1> USE DEF IInv
  <1>1. CASE LoadCorrupt(s, r)
    <2>1. TypeOK'
      BY <1>1, NoAnswerFacts DEF LoadCorrupt, Start, TypeOK, Series
    <2>2. ManifestResolves' /\ NothingUnfinished' /\ SeriesClosed'
      BY <1>1, NoAnswerFacts DEF LoadCorrupt, ManifestResolves, NothingUnfinished, SeriesClosed
    <2>3. StepsHold' /\ LoadedIsCurrent'
      BY <1>1 DEF LoadCorrupt, Start, TypeOK, StepsHold, LoadedIsCurrent, Working
    <2> QED
      BY <2>1, <2>2, <2>3
  <1>2. CASE LoadIncomplete(s, r)
    <2>1. TypeOK'
      BY <1>2, NoAnswerFacts DEF LoadIncomplete, Start, TypeOK, Series
    <2>2. ManifestResolves' /\ NothingUnfinished'
      BY <1>2, NoAnswerFacts DEF LoadIncomplete, ManifestResolves, NothingUnfinished
    <2>3. SeriesClosed'
      BY <1>2 DEF LoadIncomplete, TypeOK, NothingUnfinished, SeriesClosed
    <2>4. StepsHold' /\ LoadedIsCurrent'
      BY <1>2 DEF LoadIncomplete, Start, TypeOK, StepsHold, LoadedIsCurrent, Working
    <2> QED
      BY <2>1, <2>2, <2>3, <2>4
  <1>3. CASE LoadAnswers(s, r)
    <2>1. /\ answer' \in [request : Requests \cup {Idle}, from : {"NONE", "CACHE", "API"},
                          values : SUBSET Listed]
          /\ ClosedBy(answer'.values, answer'.request.asOf) = answer'.values
      BY <1>3, AnswerFacts DEF LoadAnswers, TypeOK, Series
    <2>2. UNCHANGED <<now, manifest, contents, damaged, pc, request, series, overtaken>>
      BY <1>3 DEF LoadAnswers
    <2> QED
      BY <2>1, <2>2 DEF TypeOK, Series, ManifestResolves, NothingUnfinished, StepsHold,
         SeriesClosed, LoadedIsCurrent
  <1> QED
    BY <1>1, <1>2, <1>3

\* Moving the manifest away.
LEMMA QuarantineStep == ASSUME IInv, NEW s \in Session, Quarantine(s) PROVE IInv'
  <1> USE DEF IInv
  <1>1. TypeOK'
    BY NoAnswerFacts DEF Quarantine, Overtaken, TypeOK, Series
  <1>2. ManifestResolves' /\ NothingUnfinished' /\ SeriesClosed'
    BY NoAnswerFacts DEF Quarantine, ManifestResolves, NothingUnfinished, SeriesClosed, ClosedBy
  <1>3. StepsHold'
    BY DEF Quarantine, TypeOK, StepsHold
  <1>4. LoadedIsCurrent'
    BY DEF Quarantine, TypeOK, LoadedIsCurrent, Overtaken, Working
  <1> QED
    BY <1>1, <1>2, <1>3, <1>4

\* Merging what the provider returned.
LEMMA FetchStep == ASSUME IInv, NEW s \in Session, Fetch(s) PROVE IInv'
  <1> USE DEF IInv
  <1> DEFINE new == Completed(Klines(ToFetch(series[s], request[s]), now), now)
  <1>1. new \in SUBSET Listed /\ new # {} /\ ClosedBy(new, now) = new
    BY ClosedByFacts DEF Fetch, HasCompleted, Completed, Klines, ClosedBy
  <1>2. series' = [series EXCEPT ![s] = series[s] \cup new] /\ pc' = [pc EXCEPT ![s] = "content"]
    BY DEF Fetch, Merge, FetchedNext
  <1> HIDE DEF new
  <1>3. TypeOK'
    BY <1>1, <1>2, NoAnswerFacts DEF Fetch, TypeOK, Series
  <1>4. ManifestResolves' /\ NothingUnfinished'
    BY NoAnswerFacts DEF Fetch, ManifestResolves, NothingUnfinished
  <1>5. SeriesClosed'
    BY <1>1, <1>2 DEF Fetch, TypeOK, SeriesClosed, ClosedBy
  <1>6. StepsHold' /\ LoadedIsCurrent'
    BY <1>1, <1>2 DEF Fetch, TypeOK, StepsHold, LoadedIsCurrent, Working
  <1> QED
    BY <1>3, <1>4, <1>5, <1>6

\* Writing the content file.
LEMMA ContentStep == ASSUME IInv, NEW s \in Session, StoreContent(s) PROVE IInv'
  <1> USE DEF IInv
  <1>1. series[s] \in Series \ {{}}
    BY DEF StoreContent, TypeOK, StepsHold
  <1>2. TypeOK'
    BY <1>1, NoAnswerFacts DEF StoreContent, TypeOK, Series
  <1>3. ManifestResolves' /\ NothingUnfinished' /\ SeriesClosed'
    BY NoAnswerFacts DEF StoreContent, ManifestResolves, NothingUnfinished, SeriesClosed
  <1>4. StepsHold' /\ LoadedIsCurrent'
    BY DEF StoreContent, TypeOK, StepsHold, LoadedIsCurrent, Working
  <1> QED
    BY <1>2, <1>3, <1>4

\* Writing the manifest.
LEMMA ManifestStep == ASSUME IInv, NEW s \in Session, StoreManifest(s) PROVE IInv'
  <1> USE DEF IInv
  <1>1. /\ answer' \in [request : Requests \cup {Idle}, from : {"NONE", "CACHE", "API"},
                        values : SUBSET Listed]
        /\ ClosedBy(answer'.values, answer'.request.asOf) = answer'.values
    BY AnswerFacts DEF StoreManifest, TypeOK, Series
  <1>2. TypeOK'
    BY <1>1 DEF StoreManifest, Finish, Overtaken, TypeOK, Series
  <1>3. ManifestResolves'
    BY DEF StoreManifest, StepsHold, ManifestResolves
  <1>4. NothingUnfinished'
    BY <1>1 DEF StoreManifest, NothingUnfinished, SeriesClosed
  <1>5. SeriesClosed'
    BY DEF StoreManifest, Finish, TypeOK, SeriesClosed, ClosedBy
  <1>6. StepsHold'
    BY DEF StoreManifest, Finish, TypeOK, StepsHold
  <1>7. LoadedIsCurrent'
    BY DEF StoreManifest, Finish, Overtaken, TypeOK, LoadedIsCurrent, Working
  <1> QED
    BY <1>2, <1>3, <1>4, <1>5, <1>6, <1>7

\* A failed or killed review leaves the files alone.
LEMMA GiveUpStep == ASSUME IInv, NEW s \in Session, GiveUp(s) PROVE IInv'
  <1> USE DEF IInv
  <1>1. TypeOK'
    BY NoAnswerFacts DEF GiveUp, Finish, TypeOK, Series
  <1>2. ManifestResolves' /\ NothingUnfinished'
    BY NoAnswerFacts DEF GiveUp, ManifestResolves, NothingUnfinished
  <1>3. SeriesClosed'
    BY DEF GiveUp, Finish, TypeOK, SeriesClosed, ClosedBy
  <1>4. StepsHold' /\ LoadedIsCurrent'
    BY DEF GiveUp, Finish, TypeOK, StepsHold, LoadedIsCurrent, Working
  <1> QED
    BY <1>1, <1>2, <1>3, <1>4

\* Damage from outside, and the passing of time.
LEMMA EnvironmentStep == ASSUME IInv, Damage \/ Tick PROVE IInv'
  <1> USE DEF IInv
  <1>1. CASE Damage
    BY <1>1, NoAnswerFacts DEF Damage, TypeOK, Series, ManifestResolves, NothingUnfinished,
       StepsHold, SeriesClosed, LoadedIsCurrent
  <1>2. CASE Tick
    <2>1. TypeOK'
      BY <1>2, SeriesAssumption, NoAnswerFacts DEF Tick, TypeOK, Series
    <2>2. now \in Nat /\ now' = now + 1 /\ manifest \in SUBSET Listed
          /\ \A s \in Session : series[s] \in SUBSET Listed
      BY <1>2, SeriesAssumption DEF Tick, TypeOK, Series
    <2>3. NothingUnfinished' /\ SeriesClosed'
      BY <1>2, <2>2, NoAnswerFacts, ClosedStays DEF Tick, NothingUnfinished, SeriesClosed
    <2>4. ManifestResolves' /\ StepsHold' /\ LoadedIsCurrent'
      BY <1>2 DEF Tick, ManifestResolves, StepsHold, LoadedIsCurrent
    <2> QED
      BY <2>1, <2>3, <2>4
  <1> QED
    BY <1>1, <1>2

\* Every step keeps the invariant.
LEMMA InvStep == IInv /\ [Next]_vars => IInv'
  <1> SUFFICES ASSUME IInv, [Next]_vars PROVE IInv'
    OBVIOUS
  <1>1. CASE Next
    BY <1>1, LoadStep, QuarantineStep, FetchStep, ContentStep, ManifestStep, GiveUpStep,
       EnvironmentStep DEF Next
  <1>2. CASE UNCHANGED vars
    BY <1>2 DEF vars, IInv, TypeOK, ManifestResolves, NothingUnfinished, StepsHold, SeriesClosed,
       LoadedIsCurrent
  <1> QED
    BY <1>1, <1>2

\* The invariant of every reachable state.
LEMMA InvHolds == Spec => []IInv
  BY InvInit, InvStep, PTL DEF Spec

\* The files and the reviews hold what their types say.
THEOREM SeriesTypeCorrect == Spec => []TypeOK
  <1>1. IInv => TypeOK
    BY DEF IInv
  <1> QED
    BY <1>1, InvHolds, PTL

\* A manifest never names content that was not stored, in whatever order the
\* sessions move and wherever they are killed.
THEOREM ManifestAlwaysResolves == Spec => []ManifestResolves
  <1>1. IInv => ManifestResolves
    BY DEF IInv
  <1> QED
    BY <1>1, InvHolds, PTL

\* No open candle is kept, and no answer looks beyond its as_of.
THEOREM NothingUnfinishedHolds == Spec => []NothingUnfinished
  <1>1. IInv => NothingUnfinished
    BY DEF IInv
  <1> QED
    BY <1>1, InvHolds, PTL

\* Candles are lost only with damaged content or between overlapping reviews.
THEOREM LossNeedsARace == Spec => CandlesAreLostInRaces
  <1> DEFINE Loss ==
        manifest \ manifest' # {} =>
            \/ manifest \in damaged
            \/ \E s \in Session : pc[s] # pc'[s] /\ overtaken[s]
  <1>1. IInv /\ [Next]_vars => [Loss]_vars
    <2> SUFFICES ASSUME IInv, Next, manifest \ manifest' # {}
                 PROVE  manifest \in damaged \/ \E s \in Session : pc[s] # pc'[s] /\ overtaken[s]
      OBVIOUS
    <2>1. PICK s \in Session : Quarantine(s) \/ StoreManifest(s)
      BY DEF Next, LoadCorrupt, LoadIncomplete, LoadAnswers, Fetch, StoreContent, GiveUp, Damage, Tick
    <2>2. pc[s] # pc'[s]
      BY <2>1 DEF IInv, TypeOK, Quarantine, StoreManifest, Finish
    <2>3. CASE Quarantine(s)
      BY <2>2, <2>3 DEF IInv, LoadedIsCurrent, Quarantine
    <2>4. CASE StoreManifest(s)
      BY <2>2, <2>4 DEF IInv, LoadedIsCurrent, StoreManifest, Working
    <2> QED
      BY <2>1, <2>3, <2>4
  <1> QED
    BY <1>1, InvHolds, PTL DEF Spec, CandlesAreLostInRaces

\* What holds of the shared candle series whatever sessions are killed where.
THEOREM SeriesHolds == Spec => []SeriesInvariant
  <1>1. IInv => SeriesInvariant
    BY DEF IInv, SeriesInvariant
  <1> QED
    BY <1>1, InvHolds, PTL

-----------------------------------------------------------------------------
(* What the cache answers alone is all that was asked for.                 *)

\* Every set of candles that is not empty has a first and a last one.
LEMMA LeastNatural ==
    ASSUME NEW T \in SUBSET Nat, T # {}
    PROVE  \E m \in T : \A n \in T : m <= n
  <1>1. IsWellFoundedOn(OpToRel(<, Nat), Nat)
    BY NatLessThanWellFounded
  <1>2. PICK x \in T : \A y \in T : ~(<<y, x>> \in OpToRel(<, Nat))
    BY <1>1, WFMin
  <1>3. \A y \in T : ~(y < x)
    BY <1>2 DEF OpToRel
  <1> QED
    BY <1>3

\* A series that is not empty has a first and a last candle.
LEMMA EndsOfSeries ==
    ASSUME NEW m \in SUBSET Listed, m # {}
    PROVE  /\ First(m) \in m /\ \A c \in m : First(m) <= c
           /\ Last(m) \in m /\ \A c \in m : c <= Last(m)
  <1>1. Horizon \in Nat /\ m \in SUBSET Nat /\ \A c \in m : c <= Horizon
    BY SeriesAssumption
  <1>2. \E c \in m : \A d \in m : c <= d
    BY <1>1, LeastNatural
  <1>3. \E c \in m : \A d \in m : d <= c
    <2> DEFINE Left == {Horizon - c : c \in m}
    <2>1. Left \in SUBSET Nat /\ Left # {}
      <3>1. \A c \in m : Horizon - c \in Nat
        <4> TAKE c \in m
        <4>1. c \in Nat /\ c <= Horizon
          BY <1>1
        <4> QED
          BY <1>1, <4>1
      <3> QED
        BY <3>1
    <2>2. PICK c \in m : \A l \in Left : Horizon - c <= l
      BY <2>1, LeastNatural
    <2>3. ASSUME NEW d \in m PROVE d <= c
      <3>1. Horizon - c <= Horizon - d
        BY <2>2
      <3> QED
        BY <1>1, <3>1
    <2> QED
      BY <2>3
  <1> QED
    BY <1>2, <1>3 DEF First, Last

\* Multiples of a candle's length, and the steps between two of them.
LEMMA Multiple ==
    ASSUME NEW d \in Nat \ {0}, NEW c \in Int, c % d = 0
    PROVE  c = d * (c \div d) /\ c \div d \in Int
  OBVIOUS

\* A multiple leaves no remainder.
LEMMA IsMultiple ==
    ASSUME NEW d \in Nat \ {0}, NEW k \in Int
    PROVE  (d * k) % d = 0
  OBVIOUS

\* Multiples are ordered as their factors.
LEMMA LargerMultiple ==
    ASSUME NEW d \in Nat, NEW a \in Int, NEW b \in Int, a <= b
    PROVE  d * a <= d * b
  OBVIOUS

\* A candle that has closed is no later than the newest that can have.
LEMMA ClosedIsNoNewer ==
    ASSUME NEW d \in Nat \ {0}, NEW c \in Int, NEW t \in Int, c % d = 0, c + d <= t
    PROVE  c <= (t \div d) * d - d
  <1> DEFINE k == c \div d
             q == t \div d
  <1>1. c = d * k /\ k \in Int
    BY Multiple
  <1>2. q \in Int /\ t < d * q + d /\ q * d = d * q
    OBVIOUS
  <1> HIDE DEF k, q
  <1>3. d * (k + 1) = d * k + d /\ d * (q + 1) = d * q + d
    BY <1>1, <1>2
  <1>4. k + 1 <= q
    <2>1. CASE q + 1 <= k + 1
      <3>1. d * (q + 1) <= d * (k + 1)
        BY <1>1, <1>2, <2>1, LargerMultiple
      <3>2. /\ d * (q + 1) \in Int /\ d * (k + 1) \in Int /\ d * k \in Int /\ d * q \in Int
        BY <1>1, <1>2
      <3> QED
        BY <1>1, <1>2, <1>3, <3>1, <3>2
    <2> QED
      BY <1>1, <1>2, <2>1
  <1>5. d * (k + 1) <= d * q
    BY <1>1, <1>2, <1>4, LargerMultiple
  <1>6. d * (k + 1) \in Int /\ d * k \in Int /\ d * q \in Int
    BY <1>1, <1>2
  <1>7. c <= d * q - d
    BY <1>1, <1>3, <1>5, <1>6
  <1> QED
    BY <1>2, <1>7 DEF q

\* The steps between two candles are whole candles.
LEMMA WholeSteps ==
    ASSUME NEW d \in Nat \ {0}, NEW a \in Int, NEW b \in Int, a % d = 0, b % d = 0
    PROVE  (b - a) % d = 0
  <1>1. a = d * (a \div d) /\ a \div d \in Int /\ b = d * (b \div d) /\ b \div d \in Int
    BY Multiple
  <1> DEFINE k == (b \div d) - (a \div d)
  <1>2. b - a = d * k /\ k \in Int
    BY <1>1
  <1> HIDE DEF k
  <1>3. (d * k) % d = 0
    BY <1>2, IsMultiple
  <1> QED
    BY <1>2, <1>3

\* A series with nothing missing, up to the newest candle that can have
\* closed, holds every candle that the request spans: a request whose start
\* falls between two candles is never found covered.
LEMMA CoveredIsComplete ==
    ASSUME NEW m \in SUBSET Listed, m # {}, NEW r \in Requests \cup {Idle},
           ToFetch(m, r) = <<>>, NEW from \in m, NEW c \in Spanned(r, from)
    PROVE  c \in m
  <1> DEFINE lo == IF r.start = NoTime THEN First(m) ELSE Later(r.start, First(m))
             hi == IF r.end = NoTime THEN Last(m) ELSE Earlier(r.end, Last(m))
  <1>1. /\ Day \in Nat \ {0} /\ NoTime \notin Int
        /\ \A d \in Listed : d \in Int /\ d % Day = 0
    BY SeriesAssumption
  <1>2. /\ First(m) \in m /\ Last(m) \in m
        /\ First(m) <= from /\ \A d \in m : First(m) <= d
    BY EndsOfSeries
  <1>3. /\ First(m) \in Int /\ Last(m) \in Int /\ from \in Int
        /\ First(m) % Day = 0
    BY <1>1, <1>2
  <1>4. /\ c \in Listed /\ c \in Int /\ c % Day = 0 /\ c + Day <= r.asOf
        /\ r.start = NoTime => from <= c
        /\ r.start # NoTime => r.start <= c
        /\ r.end # NoTime => c <= r.end
    BY <1>1 DEF Spanned, ClosedBy
  <1>5. /\ r.asOf \in Int
        /\ \/ r.start = NoTime /\ r.end = NoTime
           \/ r.start \in Int /\ r.end \in Int /\ r.start <= r.end
    <2>1. \A t \in 0 .. Horizon : t \in Int /\ t - History \in Int /\ t - History <= t
      BY SeriesAssumption
    <2>2. \A t \in Int : \A mode : OpenAt(t, mode).asOf = t /\ OpenAt(t, mode).start = NoTime
                                /\ OpenAt(t, mode).end = NoTime
      BY DEF OpenAt
    <2>3. \A t \in Int : \A mode : PlannedAt(t, mode).asOf = t /\ PlannedAt(t, mode).start = t - History
                                /\ PlannedAt(t, mode).end = t
      BY DEF PlannedAt
    <2>4. CASE r = Idle
      BY <2>2, <2>4 DEF Idle
    <2>5. CASE r \in Requests
      <3>1. PICK range \in Ranges, t \in 0 .. Horizon, mode \in Modes : r = RequestAt(range, t, mode)
        BY <2>5 DEF Requests
      <3>2. r = OpenAt(t, mode) \/ r = PlannedAt(t, mode)
        BY <3>1 DEF RequestAt
      <3> QED
        BY <2>1, <2>2, <2>3, <3>2
    <2> QED
      BY <2>4, <2>5
  <1>6. MissingRange(m, r.start, r.end) = <<>> /\ ~(Last(m) < NewestClosed(r.asOf))
    BY DEF ToFetch
  <1>7. /\ ~(r.start # NoTime /\ r.start < First(m))
        /\ Cursors(lo, hi) \subseteq m
        /\ ~(r.end # NoTime /\ r.end > Last(m))
    <2>1. ~(r.start # NoTime /\ r.start < First(m))
      BY <1>6 DEF MissingRange, PrefixRange
    <2>2. Covered(m, r.start, r.end) \ m = {}
      BY <1>6, <2>1 DEF MissingRange, FirstGap
    <2>3. ~(r.end # NoTime /\ r.end > Last(m))
      BY <1>6, <2>1, <2>2 DEF MissingRange, TailRange
    <2> QED
      BY <2>1, <2>2, <2>3 DEF Covered
  <1>8. c <= Last(m)
    <2>1. c <= (r.asOf \div Day) * Day - Day
      BY <1>1, <1>4, <1>5, ClosedIsNoNewer
    <2> DEFINE newest == (r.asOf \div Day) * Day - Day
    <2>2. newest \in Int
      BY <1>1, <1>5
    <2>3. ~(Last(m) < newest)
      BY <1>6 DEF NewestClosed
    <2> HIDE DEF newest
    <2>4. c <= newest
      BY <2>1 DEF newest
    <2> QED
      BY <1>3, <1>4, <2>2, <2>3, <2>4
  <1>9. CASE r.start = NoTime
    <2>1. lo = First(m) /\ hi = Last(m)
      BY <1>1, <1>5, <1>9
    <2>2. First(m) <= c
      BY <1>2, <1>3, <1>4, <1>9
    <2>3. (c - First(m)) % Day = 0
      BY <1>1, <1>3, <1>4, WholeSteps
    <2> QED
      BY <1>3, <1>4, <1>7, <1>8, <2>1, <2>2, <2>3 DEF Cursors
  <1>10. CASE r.start # NoTime
    <2>1. /\ r.start \in Int /\ r.end \in Int /\ r.start <= r.end
          /\ First(m) <= r.start /\ r.end <= Last(m)
          /\ r.start # NoTime /\ r.end # NoTime
      BY <1>1, <1>3, <1>5, <1>7, <1>10
    <2>2. lo = r.start /\ hi = r.end
      BY <1>3, <2>1 DEF Later, Earlier
    <2>3. r.start \in Cursors(lo, hi)
      <3>1. (r.start - r.start) % Day = 0
        BY <1>1, <2>1
      <3> QED
        BY <2>1, <2>2, <3>1 DEF Cursors
    <2>4. r.start % Day = 0
      BY <1>1, <1>7, <2>3
    <2>5. (c - r.start) % Day = 0
      BY <1>1, <1>4, <2>1, <2>4, WholeSteps
    <2> QED
      BY <1>4, <1>7, <1>10, <2>1, <2>2, <2>5 DEF Cursors
  <1> QED
    BY <1>9, <1>10

\* A review that was answered without the provider got every closed candle it
\* asked for, whatever the series has lost, and whenever the review is dated.
THEOREM CacheIsComplete == Spec => []CacheAnswersAreComplete
  <1>1. Init => CacheAnswersAreComplete
    BY DEF Init, CacheAnswersAreComplete, NoAnswer
  <1>2. IInv /\ CacheAnswersAreComplete /\ [Next]_vars => CacheAnswersAreComplete'
    <2> SUFFICES ASSUME IInv, CacheAnswersAreComplete, [Next]_vars
                 PROVE  CacheAnswersAreComplete'
      OBVIOUS
    <2>1. CASE answer' = NoAnswer
      BY <2>1 DEF CacheAnswersAreComplete, NoAnswer
    <2>2. CASE answer' = answer
      BY <2>2 DEF CacheAnswersAreComplete, Spanned, ClosedBy
    <2>3. ASSUME NEW s \in Session, StoreManifest(s)
          PROVE  CacheAnswersAreComplete'
      BY <2>3 DEF StoreManifest, Answer, NoAnswer, CacheAnswersAreComplete
    <2>4. ASSUME NEW s \in Session, NEW r \in Requests, LoadAnswers(s, r)
          PROVE  CacheAnswersAreComplete'
      <3> SUFFICES ASSUME answer'.from = "CACHE", answer'.request.mode = "AUTO",
                          NEW c \in Spanned(answer'.request, First(answer'.values))
                   PROVE  c \in answer'.values
        BY DEF CacheAnswersAreComplete, Spanned, ClosedBy
      <3> DEFINE kept == ClosedBy(manifest, r.asOf)
      <3>1. kept # {} /\ answer' = [request |-> r, from |-> "CACHE", values |-> kept]
        BY <2>4 DEF LoadAnswers, Answer, NoAnswer
      <3>2. answer'.request = r /\ answer'.values = kept
        BY <3>1
      <3>3. manifest \in SUBSET Listed /\ kept \subseteq manifest
        BY ClosedByFacts DEF IInv, TypeOK, Series
      <3>4. kept \in SUBSET Listed
        BY <3>3
      <3> HIDE DEF kept
      <3>5. First(kept) \in manifest
        BY <3>1, <3>3, <3>4, EndsOfSeries
      <3>6. ToFetch(manifest, r) = <<>> /\ manifest # {}
        BY <2>4, <3>2 DEF LoadAnswers, Modes
      <3>7. c \in Spanned(r, First(kept))
        BY <3>2
      <3>8. c \in manifest
        BY <3>3, <3>5, <3>6, <3>7, CoveredIsComplete
      <3>9. c + Day <= r.asOf
        BY <3>7 DEF Spanned, ClosedBy
      <3> QED
        BY <3>2, <3>8, <3>9 DEF kept, ClosedBy
    <2> QED
      BY <2>1, <2>2, <2>3, <2>4 DEF Next, vars, LoadCorrupt, LoadIncomplete, Quarantine, Fetch,
         StoreContent, GiveUp, Damage, Tick
  <1> QED
    BY <1>1, <1>2, InvHolds, PTL DEF Spec

-----------------------------------------------------------------------------
(* The response entries.                                                   *)

PlainPaths == {p \in Paths : Mutable(p[1])}

\* What may be answered of a history: intact, parsed anew.
Sound == {e \in Entries : e.end \in Times /\ e.intact /\ e.current}

\* The forms of a job: a request under way, a pruning, an answer, none.
Asking ==
    [kind : Kinds, cutoff : 0 .. MaxTime, local : BOOLEAN, now : 0 .. MaxTime, sent : Nat,
     found : Sound \cup {None},
     pc : {"exists", "read", "quarantine", "scan", "tail", "fetch", "save"}]

Answered == [pc : {"served"}, intact : {TRUE}, current : {TRUE}, ahead : {FALSE}, expired : {FALSE}]

Pruning ==
    [pc : {"prune", "unlink"}, local : BOOLEAN, path : PlainPaths \cup {None},
     todo : SUBSET PlainPaths]

\* Only a full history is looked for in other buckets, and its tail is asked
\* for where it ends before the cutoff; what is about to be unlinked is known.
Purposes ==
    /\ \A s \in Session : job[s] \in Asking =>
        /\ job[s].pc \in {"scan", "tail"} => job[s].kind = "history"
        /\ job[s].pc = "tail" => job[s].found # None
        /\ job[s].found # None =>
            job[s].kind = "history" /\ job[s].found.end <= job[s].cutoff
    /\ \A s \in Session : At(s, "unlink") => job[s].path # None

JobsAreTyped == job \in [Session -> Asking \cup Pruning \cup Answered \cup {NoJob}]

\* Where a job stands says what it is.
LEMMA FormOfJob ==
    ASSUME JobsAreTyped, NEW s \in Session
    PROVE  /\ job[s].pc \in {"exists", "read", "quarantine", "scan", "tail", "fetch", "save"}
                => job[s] \in Asking
           /\ job[s].pc \in {"prune", "unlink"} => job[s] \in Pruning
           /\ job[s].pc = "served" => job[s] \in Answered
           /\ job[s].pc = "idle" => job[s] = NoJob
  <1>0. job[s] \in Asking \/ job[s] \in Pruning \/ job[s] \in Answered \/ job[s] = NoJob
    BY DEF JobsAreTyped
  <1>1. job[s] \in Asking
          => job[s].pc \in {"exists", "read", "quarantine", "scan", "tail", "fetch", "save"}
    BY DEF Asking
  <1>2. job[s] \in Pruning => job[s].pc \in {"prune", "unlink"}
    BY DEF Pruning
  <1>3. job[s] \in Answered => job[s].pc = "served"
    BY DEF Answered
  <1>4. job[s] = NoJob => job[s].pc = "idle"
    BY DEF NoJob
  <1> QED
    BY <1>0, <1>1, <1>2, <1>3, <1>4

\* Every request has a path.
LEMMA PathIsPath == ASSUME NEW j \in Asking PROVE PathOf(j) \in Paths /\ PathOf(j)[1] = j.kind
  <1>1. j.cutoff \in 0 .. MaxTime /\ j.kind \in Kinds
    BY DEF Asking
  <1> QED
    BY <1>1 DEF PathOf, Paths

Jobs == Asking \cup Pruning \cup Answered \cup {NoJob}

\* What is asked of a job in Purposes.
Purposeful(j) ==
    /\ j \in Asking =>
        /\ j.pc \in {"scan", "tail"} => j.kind = "history"
        /\ j.pc = "tail" => j.found # None
        /\ j.found # None => j.kind = "history" /\ j.found.end <= j.cutoff
    /\ j.pc = "unlink" => j.path # None

\* A step moves one job and leaves the others what they were.
LEMMA OneJobMoves ==
    ASSUME JobsAreTyped, Purposes, NEW s \in Session, NEW x \in Jobs, Purposeful(x),
           job' = [job EXCEPT ![s] = x]
    PROVE  JobsAreTyped' /\ Purposes'
  <1>1. job' \in [Session -> Jobs] /\ \A t \in Session : job'[t] = IF t = s THEN x ELSE job[t]
    BY DEF JobsAreTyped, Jobs
  <1>2. JobsAreTyped'
    BY <1>1 DEF JobsAreTyped, Jobs
  <1>3. Purposes'
    BY <1>1 DEF Purposes, Purposeful, At
  <1> QED
    BY <1>2, <1>3

\* A job that only goes on keeps what it asks for.
LEMMA GoingOn ==
    ASSUME NEW j \in Asking, Purposeful(j),
           NEW next \in {"exists", "read", "quarantine", "scan", "fetch", "save"},
           next = "scan" => j.kind = "history"
    PROVE  [j EXCEPT !.pc = next] \in Asking /\ Purposeful([j EXCEPT !.pc = next])
  <1> DEFINE x == [j EXCEPT !.pc = next]
  <1>1. x \in Asking
    BY DEF Asking
  <1>2. x.pc = next /\ x.kind = j.kind /\ x.found = j.found /\ x.cutoff = j.cutoff
    BY DEF Asking
  <1>3. Purposeful(x)
    BY <1>1, <1>2 DEF Purposeful
  <1> QED
    BY <1>1, <1>3

\* Where a job goes on without a usable entry, it may.
LEMMA GotoKeepsTypes ==
    ASSUME JobsAreTyped, Purposes, NEW s \in Session, job[s] \in Asking,
           NEW next \in {"read", "quarantine", "scan", "fetch", "failed"},
           next = "scan" => job[s].kind = "history", Goto(s, next)
    PROVE  JobsAreTyped' /\ Purposes'
  <1>1. CASE next = "failed"
    <2>1. job' = [job EXCEPT ![s] = NoJob]
      BY <1>1 DEF Goto, Failed
    <2>2. NoJob \in Jobs /\ Purposeful(NoJob)
      BY DEF Jobs, NoJob, Purposeful, Asking
    <2> QED
      BY <2>1, <2>2, OneJobMoves
  <1>2. CASE next # "failed"
    <2>1. job' = [job EXCEPT ![s] = [job[s] EXCEPT !.pc = next]]
      BY <1>2 DEF Goto
    <2>2. Purposeful(job[s])
      BY DEF Purposes, Purposeful, Asking
    <2>3. [job[s] EXCEPT !.pc = next] \in Asking /\ Purposeful([job[s] EXCEPT !.pc = next])
      BY <1>2, <2>2, GoingOn
    <2> QED
      BY <2>1, <2>3, OneJobMoves DEF Jobs
  <1> QED
    BY <1>1, <1>2

\* An answer from an entry that no guard refuses is sound.
LEMMA ServingIsSound ==
    ASSUME NEW j, NEW e \in Entries, e.intact, e.current, ~Ahead(j, e), ~Expired(PathOf(j), e, j.now)
    PROVE  FromCache(j, e) \in Answered
  <1>1. Ahead(j, e) \in BOOLEAN /\ Expired(PathOf(j), e, j.now) \in BOOLEAN
    BY Zenon DEF Ahead, Expired
  <1>2. e.intact \in BOOLEAN /\ e.current \in BOOLEAN
    BY DEF Entries
  <1>3. /\ e.intact = TRUE /\ e.current = TRUE
        /\ Ahead(j, e) = FALSE /\ Expired(PathOf(j), e, j.now) = FALSE
    BY <1>1, <1>2, Zenon
  <1>4. FromCache(j, e)
          = [pc |-> "served", intact |-> TRUE, current |-> TRUE, ahead |-> FALSE, expired |-> FALSE]
    BY <1>3, Zenon DEF FromCache
  <1>5. [pc |-> "served", intact |-> TRUE, current |-> TRUE, ahead |-> FALSE, expired |-> FALSE]
          \in [pc : {"served"}, intact : {TRUE}, current : {TRUE}, ahead : {FALSE}, expired : {FALSE}]
    BY Zenon
  <1> QED
    BY <1>4, <1>5, Zenon DEF Answered

\* What may be answered is no absent file.
LEMMA SoundIsEntry == ASSUME NEW e \in Sound PROVE e \in Entries /\ e # None
  <1>1. e \in Entries
    BY DEF Sound
  <1> QED
    BY <1>1, NoneIsNoFile

\* A history parsed anew is sound up to the cutoff.
LEMMA ParsedIsSound ==
    ASSUME NEW e \in Entries, e.intact, NEW cutoff \in Times
    PROVE  Parsed(e, cutoff) \in Sound /\ Parsed(e, cutoff).end <= cutoff
  <1>1. /\ e.rows \in Nat /\ e.rows <= MaxTime /\ cutoff \in Nat /\ cutoff <= MaxTime
        /\ MaxTime \in Nat
    BY CacheAssumption DEF Entries, Times
  <1> DEFINE end == Min2(e.rows, cutoff)
  <1>2. end \in Times /\ end <= cutoff
    BY <1>1 DEF Min2, Times
  <1>3. Parsed(e, cutoff) = [e EXCEPT !.end = end, !.current = TRUE]
    BY DEF Parsed
  <1> HIDE DEF end
  <1> DEFINE y == [e EXCEPT !.end = end, !.current = TRUE]
  <1>4. y \in Entries
    BY <1>2 DEF Entries
  <1>5. y.end = end
    BY DEF Entries
  <1>6. y.intact
    BY DEF Entries
  <1>7. y.current
    BY DEF Entries
  <1> HIDE DEF y
  <1>8. y \in Sound /\ y.end <= cutoff
    BY <1>2, <1>4, <1>5, <1>6, <1>7 DEF Sound
  <1> QED
    BY <1>3, <1>8 DEF y

\* And no guard refuses it.
LEMMA HistoryIsServed ==
    ASSUME NEW j \in Asking, j.kind = "history", NEW e \in Sound, e.end <= j.cutoff
    PROVE  FromCache(j, e) \in Answered
  <1>1. e.end \in Nat /\ j.cutoff \in Nat
    BY CacheAssumption DEF Sound, Times, Asking
  <1>2. e.end # None /\ ~(e.end > j.cutoff)
    BY <1>1, CacheAssumption
  <1>3. ~Ahead(j, e)
    BY <1>2, Zenon DEF Ahead
  <1>4. PathOf(j)[1] = "history"
    BY PathIsPath
  <1>5. ~Expired(PathOf(j), e, j.now)
    BY <1>4, Zenon DEF Expired, Mutable
  <1>6. e \in Entries /\ e.intact /\ e.current
    BY DEF Sound
  <1> QED
    BY <1>3, <1>5, <1>6, ServingIsSound

\* A job that is answered so is a job still.
LEMMA ServeKeepsTypes ==
    ASSUME JobsAreTyped, Purposes, NEW s \in Session, NEW e,
           FromCache(job[s], e) \in Answered, Serve(s, e)
    PROVE  JobsAreTyped' /\ Purposes'
  <1> DEFINE x == FromCache(job[s], e)
  <1>1. job' = [job EXCEPT ![s] = x]
    BY DEF Serve
  <1>2. x \in Answered
    OBVIOUS
  <1> HIDE DEF x
  <1>3. x \in Jobs /\ Purposeful(x)
    BY <1>2 DEF Jobs, Answered, Purposeful, Asking
  <1> QED
    BY <1>1, <1>3, OneJobMoves

-----------------------------------------------------------------------------
(* The types.                                                              *)

FilesAreTyped ==
    /\ clock \in 0 .. MaxTime /\ dataset \in Kinds
    /\ file \in [Paths -> Entries \cup {None}]
    /\ saves \in [Session -> 0 .. PruneInterval - 1]
    /\ damage \in 0 .. MaxMishaps

ResponseInvariant == FilesAreTyped /\ JobsAreTyped /\ Purposes

\* What a run checks follows.
LEMMA InvariantSuffices == ResponseInvariant => CacheInvariant
  <1> SUFFICES ASSUME ResponseInvariant PROVE CacheInvariant
    OBVIOUS
  <1>1. ASSUME NEW s \in Session, job[s].pc = "prune" PROVE job[s].todo \subseteq Paths
    <2>1. job[s] \in Pruning
      BY <1>1, FormOfJob DEF ResponseInvariant
    <2> QED
      BY <2>1 DEF Pruning, PlainPaths
  <1>2. ResponseTypeOK
    BY <1>1 DEF ResponseInvariant, FilesAreTyped, ResponseTypeOK
  <1>3. ASSUME NEW s \in Session, At(s, "served")
        PROVE  job[s].intact /\ job[s].current /\ ~job[s].ahead /\ ~job[s].expired
    <2>1. job[s] \in [pc : {"served"}, intact : {TRUE}, current : {TRUE}, ahead : {FALSE},
                      expired : {FALSE}]
      BY <1>3, FormOfJob DEF ResponseInvariant, At, Answered
    <2>2. /\ job[s].intact \in {TRUE} /\ job[s].current \in {TRUE}
          /\ job[s].ahead \in {FALSE} /\ job[s].expired \in {FALSE}
      BY <2>1, Zenon
    <2> QED
      BY <2>2, Zenon
  <1> QED
    BY <1>2, <1>3 DEF CacheInvariant, AnswersAreSound

\* It holds of the empty cache.
LEMMA ResponsesBeginTyped == InitResponses => ResponseInvariant
  <1> SUFFICES ASSUME InitResponses PROVE ResponseInvariant
    OBVIOUS
  <1>1. FilesAreTyped
    BY CacheAssumption DEF InitResponses, FilesAreTyped
  <1>2. JobsAreTyped /\ Purposes
    BY DEF InitResponses, JobsAreTyped, Purposes, At, NoJob, Asking
  <1> QED
    BY <1>1, <1>2 DEF ResponseInvariant

\* A request begins.
LEMMA BeginTyped ==
    ASSUME ResponseInvariant, NEW s \in Session, NEW cutoff \in 0 .. MaxTime,
           NEW mode \in FetchModes, Begin(s, cutoff, mode)
    PROVE  ResponseInvariant'
  <1> DEFINE next == IF mode = "REFRESH" /\ Mutable(dataset) THEN "fetch" ELSE "exists"
             local == mode = "CACHE_ONLY"
             x == [kind |-> dataset, cutoff |-> cutoff, local |-> local, now |-> clock,
                   sent |-> 0, found |-> None, pc |-> next]
  <1>1. job' = [job EXCEPT ![s] = x] /\ UNCHANGED <<dataset, clock, file, saves, damage>>
    BY DEF Begin
  <1>2. /\ next \in {"exists", "fetch"} /\ local \in BOOLEAN /\ clock \in 0 .. MaxTime
        /\ dataset \in Kinds
    BY DEF ResponseInvariant, FilesAreTyped
  <1> HIDE DEF next, local
  <1>3. x \in Asking
    BY <1>2 DEF Asking
  <1>4. x.found = None /\ x.pc = next
    OBVIOUS
  <1> HIDE DEF x
  <1>5. Purposeful(x) /\ x \in Jobs
    BY <1>2, <1>3, <1>4 DEF Purposeful, Jobs
  <1>6. JobsAreTyped' /\ Purposes'
    BY <1>1, <1>5, OneJobMoves DEF ResponseInvariant
  <1> QED
    BY <1>1, <1>6 DEF ResponseInvariant, FilesAreTyped

\* Looking for a file, reading it.
LEMMA LookTyped ==
    ASSUME ResponseInvariant, NEW s \in Session, Exists(s) \/ Read(s)
    PROVE  ResponseInvariant'
  <1> DEFINE j == job[s]
  <1>1. At(s, "exists") \/ At(s, "read")
    BY DEF Exists, Read
  <1>2. j \in Asking
    BY <1>1, FormOfJob DEF At, ResponseInvariant
  <1>3. JobsAreTyped /\ Purposes /\ FilesAreTyped
    BY DEF ResponseInvariant
  <1>4. Missed(j) \in {"scan", "failed", "fetch"} /\ (Missed(j) = "scan" => j.kind = "history")
    BY DEF Missed
  <1>5. UNCHANGED <<dataset, clock, file, saves, damage>>
    BY DEF Exists, Read
  <1>6. JobsAreTyped' /\ Purposes'
    <2>1. CASE Exists(s)
      <3>1. Goto(s, Missed(j)) \/ Goto(s, "read")
        BY <2>1 DEF Exists
      <3> HIDE DEF j
      <3> QED
        BY <1>2, <1>3, <1>4, <3>1, GotoKeepsTypes DEF j
    <2>2. CASE Read(s)
      <3> DEFINE e == file[PathOf(j)]
      <3>1. \/ Goto(s, AfterCorruption(j)) \/ Goto(s, Missed(j))
            \/ e # None /\ ~IsCorrupt(e) /\ Usable(j, e) /\ Serve(s, e)
        BY <2>2 DEF Read
      <3>2. AfterCorruption(j) \in {"failed", "quarantine"}
        BY DEF AfterCorruption
      <3>3. CASE e # None /\ ~IsCorrupt(e) /\ Usable(j, e) /\ Serve(s, e)
        <4>1. PathOf(j) \in Paths
          BY <1>2, PathIsPath
        <4>2. e \in Entries
          BY <1>3, <3>3, <4>1 DEF FilesAreTyped
        <4>3. e.intact /\ e.current
          BY <3>3, Zenon DEF IsCorrupt, Usable
        <4>4. ~Ahead(j, e) /\ ~Expired(PathOf(j), e, j.now)
          BY <3>3, Zenon DEF Usable
        <4>5. FromCache(j, e) \in Answered
          BY <4>2, <4>3, <4>4, ServingIsSound
        <4>6. Serve(s, e)
          BY <3>3
        <4> HIDE DEF e
        <4> QED
          BY <1>3, <4>5, <4>6, ServeKeepsTypes
      <3> HIDE DEF e
      <3> QED
        BY <1>2, <1>3, <1>4, <3>1, <3>2, <3>3, GotoKeepsTypes
    <2> QED
      BY <2>1, <2>2
  <1> QED
    BY <1>3, <1>5, <1>6 DEF ResponseInvariant, FilesAreTyped

\* Moving a corrupt file away.
LEMMA QuarantineTyped ==
    ASSUME ResponseInvariant, NEW s \in Session, QuarantineEntry(s)
    PROVE  ResponseInvariant'
  <1> DEFINE j == job[s]
  <1>1. j \in Asking
    BY FormOfJob DEF QuarantineEntry, At, ResponseInvariant
  <1>2. Missed(j) \in {"scan", "failed", "fetch"} /\ (Missed(j) = "scan" => j.kind = "history")
    BY DEF Missed
  <1>3. JobsAreTyped /\ Purposes /\ FilesAreTyped
    BY DEF ResponseInvariant
  <1>4. Goto(s, Missed(j)) /\ UNCHANGED <<dataset, clock, saves, damage>>
    BY DEF QuarantineEntry
  <1>5. file' = [file EXCEPT ![PathOf(j)] = None]
    BY DEF QuarantineEntry
  <1> HIDE DEF j
  <1>6. JobsAreTyped' /\ Purposes'
    BY <1>1, <1>2, <1>3, <1>4, GotoKeepsTypes DEF j
  <1>7. FilesAreTyped'
    BY <1>3, <1>4, <1>5 DEF FilesAreTyped
  <1> QED
    BY <1>6, <1>7 DEF ResponseInvariant

\* Looking for a full history in other buckets.
LEMMA ScanTyped ==
    ASSUME ResponseInvariant, NEW s \in Session, Scan(s)
    PROVE  ResponseInvariant'
  <1>1. job[s] \in Asking /\ job[s].kind = "history"
    BY FormOfJob DEF Scan, At, ResponseInvariant, Purposes
  <1>2. JobsAreTyped /\ Purposes /\ FilesAreTyped
    BY DEF ResponseInvariant
  <1>3. UNCHANGED <<dataset, clock, file, saves, damage>>
    BY DEF Scan
  <1>4. JobsAreTyped' /\ Purposes'
    <2>1. CASE Goto(s, "failed") \/ Goto(s, "fetch")
      BY <1>1, <1>2, <2>1, GotoKeepsTypes
    <2>2. ASSUME NEW p \in Histories
          PROVE  LET e == Parsed(file[p], job[s].cutoff) IN e \in Sound /\ e.end <= job[s].cutoff
      <3>1. file[p] \in Entries /\ job[s].cutoff \in Times
        BY <1>1, <1>2, <2>2 DEF Histories, FilesAreTyped, Asking, Times
      <3>2. file[p].intact
        BY <2>2, Zenon DEF Histories
      <3> QED
        BY <3>1, <3>2, ParsedIsSound
    <2>3. ASSUME NEW e \in Sound, e.end <= job[s].cutoff,
                 job' = [job EXCEPT ![s].pc = "tail", ![s].found = e]
          PROVE  JobsAreTyped' /\ Purposes'
      <3> DEFINE x == [job[s] EXCEPT !.pc = "tail", !.found = e]
      <3>1. /\ x \in Asking /\ x.pc = "tail" /\ x.kind = "history" /\ x.found = e
            /\ x.cutoff = job[s].cutoff
        BY <1>1 DEF Asking
      <3>2. job' = [job EXCEPT ![s] = x]
        BY <2>3
      <3> HIDE DEF x
      <3>3. Purposeful(x) /\ x \in Jobs
        BY <2>3, <3>1, SoundIsEntry DEF Purposeful, Jobs
      <3> QED
        BY <1>2, <3>2, <3>3, OneJobMoves
    <2>4. ASSUME NEW e \in Sound, e.end <= job[s].cutoff, Serve(s, e)
          PROVE  JobsAreTyped' /\ Purposes'
      BY <1>1, <1>2, <2>4, HistoryIsServed, ServeKeepsTypes
    <2>5. \/ Goto(s, "failed") \/ Goto(s, "fetch")
          \/ \E p \in Histories :
                LET e == Parsed(file[p], job[s].cutoff)
                IN  \/ job' = [job EXCEPT ![s].pc = "tail", ![s].found = e]
                    \/ Serve(s, e)
      BY DEF Scan
    <2> QED
      BY <2>1, <2>2, <2>3, <2>4, <2>5
  <1> QED
    BY <1>2, <1>3, <1>4 DEF ResponseInvariant, FilesAreTyped

\* Asking the provider, for a request or for its tail.
LEMMA AskTyped ==
    ASSUME ResponseInvariant, NEW s \in Session,
           SkipTail(s) \/ \E result \in {"ok", "again", "failed"} : Attempt(s, result)
    PROVE  ResponseInvariant'
  <1>1. job[s] \in Asking
    BY FormOfJob DEF SkipTail, Attempt, At, ResponseInvariant
  <1>2. JobsAreTyped /\ Purposes /\ FilesAreTyped
    BY DEF ResponseInvariant
  <1>3. UNCHANGED <<dataset, clock, file, saves, damage>>
    BY DEF SkipTail, Attempt
  <1>4. Purposeful(job[s])
    BY <1>1, <1>2 DEF Purposes, Purposeful, Asking
  <1>5. JobsAreTyped' /\ Purposes'
    <2>1. CASE SkipTail(s)
      <3>1. Serve(s, job[s].found) /\ job[s].pc = "tail"
        BY <2>1 DEF SkipTail, At
      <3>2. /\ job[s].kind = "history" /\ job[s].found \in Sound
            /\ job[s].found.end <= job[s].cutoff
        BY <1>1, <1>4, <3>1 DEF Purposeful, Asking
      <3> QED
        BY <1>1, <1>2, <3>1, <3>2, HistoryIsServed, ServeKeepsTypes
    <2>2. ASSUME NEW result \in {"ok", "again", "failed"}, Attempt(s, result)
          PROVE  JobsAreTyped' /\ Purposes'
      <3>1. \/ job' = [job EXCEPT ![s] = [job[s] EXCEPT !.sent = 0, !.pc = "save"]]
            \/ job' = [job EXCEPT ![s] = [job[s] EXCEPT !.sent = job[s].sent + 1]]
            \/ job' = [job EXCEPT ![s] = NoJob]
        BY <2>2 DEF Attempt, Failed
      <3> DEFINE x == [job[s] EXCEPT !.sent = 0, !.pc = "save"]
                 y == [job[s] EXCEPT !.sent = job[s].sent + 1]
      <3>2. /\ x \in Asking /\ x.pc = "save" /\ x.kind = job[s].kind
            /\ x.found = job[s].found /\ x.cutoff = job[s].cutoff
        BY <1>1 DEF Asking
      <3>3. /\ y \in Asking /\ y.pc = job[s].pc /\ y.kind = job[s].kind
            /\ y.found = job[s].found /\ y.cutoff = job[s].cutoff
        BY <1>1 DEF Asking
      <3> HIDE DEF x, y
      <3>4. Purposeful(x) /\ x \in Jobs
        BY <1>1, <1>4, <3>2 DEF Purposeful, Jobs
      <3>5. Purposeful(y) /\ y \in Jobs
        BY <1>1, <1>4, <3>3 DEF Purposeful, Jobs, Asking
      <3>6. Purposeful(NoJob) /\ NoJob \in Jobs
        BY DEF Purposeful, Jobs, NoJob, Asking
      <3>7. \/ job' = [job EXCEPT ![s] = x]
            \/ job' = [job EXCEPT ![s] = y]
            \/ job' = [job EXCEPT ![s] = NoJob]
        BY <3>1 DEF x, y
      <3> QED
        BY <1>2, <3>4, <3>5, <3>6, <3>7, OneJobMoves
    <2> QED
      BY <2>1, <2>2
  <1> QED
    BY <1>2, <1>3, <1>5 DEF ResponseInvariant, FilesAreTyped

\* What may be stored for a request.
Storable(j) == {Entry(j, Joined(j, a)) : a \in Answers(j)}

\* It is an intact entry, and a tail never shortens what was found.
LEMMA StorableFits ==
    ASSUME ResponseInvariant, NEW j \in Asking, NEW x \in Storable(j)
    PROVE  /\ x \in Entries /\ x.intact /\ x # None
           /\ j.found # None => j.found.rows <= x.rows
  <1>1. /\ j.cutoff \in Nat /\ j.cutoff <= MaxTime /\ j.now \in Times /\ MaxTime \in Nat
        /\ clock \in Nat /\ clock <= MaxTime
        /\ j.found \in Sound \cup {None} /\ j.kind \in Kinds
    BY CacheAssumption DEF Asking, ResponseInvariant, FilesAreTyped, Times
  <1>2. PICK a \in Answers(j) : x = Entry(j, Joined(j, a))
    BY DEF Storable
  <1> DEFINE reach == {j.cutoff - 1, j.cutoff, clock} \cap Nat
  <1>3. reach \subseteq Times /\ 0 \in Times
    BY <1>1 DEF Times
  <1>4. \A r \in Times : Min2(r, j.cutoff) \in Times
    BY <1>1 DEF Times, Min2
  <1>5. a.end \in Times \cup {None} /\ a.rows \in Times
    <2>1. CASE j.kind = "plain"
      <3>1. a \in [end : reach \cup {None}, rows : {0}]
        BY <1>2, <2>1 DEF Answers
      <3> HIDE DEF reach
      <3> QED
        BY <1>3, <3>1
    <2>2. CASE j.kind = "live"
      <3>1. a = [end |-> None, rows |-> 0]
        BY <1>2, <2>2 DEF Answers
      <3> QED
        BY <1>3, <3>1
    <2>3. CASE j.kind = "history"
      <3>1. a \in {[end |-> Min2(r, j.cutoff), rows |-> r] : r \in reach}
        BY <1>2, <2>3 DEF Answers
      <3> HIDE DEF reach
      <3> QED
        BY <1>3, <1>4, <3>1
    <2> QED
      BY <1>1, <2>1, <2>2, <2>3 DEF Kinds
  <1> HIDE DEF reach
  <1> DEFINE d == Joined(j, a)
  <1>6. /\ d.end \in Times \cup {None} /\ d.rows \in Times
        /\ j.found # None => j.found.rows <= d.rows
    <2>1. CASE j.found = None
      BY <1>5, <2>1 DEF Joined
    <2>2. CASE j.found # None
      <3>1. j.found.rows \in Times
        <4>1. j.found \in Entries
          BY <1>1, <2>2, SoundIsEntry
        <4> QED
          BY <4>1 DEF Entries
      <3>2. j.found.rows \in Int /\ a.rows \in Int
        BY <1>1, <1>5, <3>1 DEF Times
      <3>3. CASE j.found.rows < a.rows
        BY <1>5, <3>2, <3>3 DEF Joined
      <3>4. CASE ~(j.found.rows < a.rows)
        <4>1. d = [end |-> Min2(j.found.rows, j.cutoff), rows |-> j.found.rows]
          BY <2>2, <3>4 DEF Joined
        <4> QED
          BY <1>4, <3>1, <3>2, <4>1
      <3> QED
        BY <3>3, <3>4
    <2> QED
      BY <2>1, <2>2
  <1> HIDE DEF d
  <1> DEFINE fetched == IF Mutable(j.kind) THEN j.now ELSE 0
  <1>7. fetched \in Times
    BY <1>1, <1>3
  <1>8. x = [end |-> d.end, rows |-> d.rows, fetched |-> fetched, intact |-> TRUE, current |-> TRUE]
    BY <1>2 DEF Entry, d
  <1> HIDE DEF fetched
  <1>9. x \in Entries /\ x.rows = d.rows
    BY <1>6, <1>7, <1>8 DEF Entries
  <1>10. x.intact
    BY <1>8
  <1>11. x # None
    BY <1>9, NoneIsNoFile
  <1> QED
    BY <1>6, <1>9, <1>10, <1>11

\* What a save does.
LEMMA SaveEffect ==
    ASSUME ResponseInvariant, NEW s \in Session, Save(s)
    PROVE  /\ job[s] \in Asking /\ PathOf(job[s]) \in Paths
           /\ \E x \in Storable(job[s]) : file' = [file EXCEPT ![PathOf(job[s])] = x]
           /\ \E x \in {NoJob} \cup Pruning :
                /\ job' = [job EXCEPT ![s] = x]
                /\ x.pc # "unlink" /\ (x.pc \in {"prune", "idle"})
           /\ saves' \in [Session -> 0 .. PruneInterval - 1]
           /\ UNCHANGED <<dataset, clock, damage, jobs, raced>>
  <1> DEFINE j == job[s]
  <1>1. j \in Asking
    BY FormOfJob DEF Save, At, ResponseInvariant
  <1>2. PathOf(j) \in Paths
    BY <1>1, PathIsPath
  <1>3. /\ \E a \in Answers(j) : file' = [file EXCEPT ![PathOf(j)] = Entry(j, Joined(j, a))]
        /\ UNCHANGED <<dataset, clock, damage, jobs, raced>>
        /\ \/ /\ PruneDue(saves[s] + 1)
              /\ saves' = [saves EXCEPT ![s] = 0]
              /\ job' = [job EXCEPT ![s] =
                    [pc |-> "prune", local |-> j.local, path |-> None, todo |-> Prunable']]
           \/ /\ ~PruneDue(saves[s] + 1)
              /\ saves' = [saves EXCEPT ![s] = saves[s] + 1]
              /\ job' = [job EXCEPT ![s] = NoJob]
    BY DEF Save, FromProvider
  <1>4. \E x \in Storable(j) : file' = [file EXCEPT ![PathOf(j)] = x]
    BY <1>3, Zenon DEF Storable
  <1> DEFINE todo == Prunable'
             y == [pc |-> "prune", local |-> j.local, path |-> None, todo |-> todo]
  <1>5. todo \in SUBSET PlainPaths
    BY DEF Prunable, PlainPaths
  <1>6. j.local \in BOOLEAN
    BY <1>1 DEF Asking
  <1> HIDE DEF todo
  <1>7. y \in Pruning /\ y.pc = "prune"
    BY <1>5, <1>6 DEF Pruning
  <1>8. job' = [job EXCEPT ![s] = NoJob] \/ job' = [job EXCEPT ![s] = y]
    BY <1>3 DEF todo
  <1>9. saves' \in [Session -> 0 .. PruneInterval - 1]
    <2>1. saves \in [Session -> 0 .. PruneInterval - 1] /\ PruneInterval \in Nat /\ PruneInterval > 0
      BY CacheAssumption DEF ResponseInvariant, FilesAreTyped
    <2>2. \/ saves' = [saves EXCEPT ![s] = 0]
          \/ ~PruneDue(saves[s] + 1) /\ saves' = [saves EXCEPT ![s] = saves[s] + 1]
      BY <1>3, Zenon
    <2>3. CASE saves' = [saves EXCEPT ![s] = 0]
      BY <2>1, <2>3
    <2>4. CASE ~PruneDue(saves[s] + 1) /\ saves' = [saves EXCEPT ![s] = saves[s] + 1]
      <3>1. saves[s] + 1 \in 0 .. PruneInterval - 1
        BY <2>1, <2>4 DEF PruneDue
      <3> QED
        BY <2>1, <2>4, <3>1
    <2> QED
      BY <2>2, <2>3, <2>4
  <1> HIDE DEF y
  <1>10. NoJob.pc = "idle"
    BY DEF NoJob
  <1>11. \E z \in {NoJob} \cup Pruning :
            job' = [job EXCEPT ![s] = z] /\ z.pc # "unlink" /\ z.pc \in {"prune", "idle"}
    BY <1>7, <1>8, <1>10
  <1> QED
    BY <1>1, <1>2, <1>3, <1>4, <1>9, <1>11

\* An answer or a pruning under way has no purpose to keep.
LEMMA EndsArePurposeful ==
    ASSUME NEW x \in Answered \cup Pruning \cup {NoJob}, x.pc # "unlink"
    PROVE  x \in Jobs /\ Purposeful(x)
  <1>1. x.pc \in {"served", "prune", "idle"}
    <2>1. x \in Answered => x.pc = "served"
      BY DEF Answered
    <2>2. x \in Pruning => x.pc \in {"prune", "unlink"}
      BY DEF Pruning
    <2>3. x = NoJob => x.pc = "idle"
      BY DEF NoJob
    <2> QED
      BY <2>1, <2>2, <2>3
  <1>2. x \notin Asking
    BY <1>1 DEF Asking
  <1> QED
    BY <1>2 DEF Jobs, Purposeful

\* Saving an answer.
LEMMA SaveTyped ==
    ASSUME ResponseInvariant, NEW s \in Session, Save(s)
    PROVE  ResponseInvariant'
  <1> DEFINE path == PathOf(job[s])
  <1>1. PICK x \in {NoJob} \cup Pruning : job' = [job EXCEPT ![s] = x] /\ x.pc # "unlink"
    BY SaveEffect
  <1>2. JobsAreTyped' /\ Purposes'
    BY <1>1, EndsArePurposeful, OneJobMoves DEF ResponseInvariant
  <1>3. PICK entry \in Storable(job[s]) : file' = [file EXCEPT ![path] = entry]
    BY SaveEffect
  <1>4. entry \in Entries /\ path \in Paths
    BY SaveEffect, StorableFits
  <1> HIDE DEF path
  <1>5. FilesAreTyped'
    BY <1>3, <1>4, SaveEffect DEF ResponseInvariant, FilesAreTyped
  <1> QED
    BY <1>2, <1>5 DEF ResponseInvariant

\* Reading one file of a pruning: its path is kept if the entry is dead.
LEMMA PruneReadEffect ==
    ASSUME ResponseInvariant, NEW s \in Session, NEW p \in Paths, PruneRead(s, p)
    PROVE  /\ UNCHANGED <<dataset, clock, file, saves, damage, jobs, raced>>
           /\ job[s] \in Pruning
           /\ \E x \in Pruning :
                /\ job' = [job EXCEPT ![s] = x]
                /\ x.pc = "unlink" => x.path = p /\ file[p] # None /\ Expired(p, file[p], clock)
  <1>1. job[s] \in Pruning /\ p \in job[s].todo
    BY FormOfJob DEF PruneRead, At, ResponseInvariant
  <1>2. PICK parses \in BOOLEAN :
            LET dead == file[p] # None /\ parses /\ Expired(p, file[p], clock)
            IN  job' = [job EXCEPT ![s].todo = @ \ {p},
                            ![s].path = IF dead THEN p ELSE None,
                            ![s].pc = IF dead THEN "unlink" ELSE "prune"]
    BY DEF PruneRead
  <1> DEFINE dead == file[p] # None /\ parses /\ Expired(p, file[p], clock)
             path == IF dead THEN p ELSE None
             next == IF dead THEN "unlink" ELSE "prune"
             x == [job[s] EXCEPT !.todo = job[s].todo \ {p}, !.path = path, !.pc = next]
  <1>3. job' = [job EXCEPT ![s] = x]
    BY <1>2
  <1>4. p \in PlainPaths
    BY <1>1 DEF Pruning
  <1>5. /\ path \in PlainPaths \cup {None} /\ next \in {"prune", "unlink"}
        /\ next = "unlink" => path = p /\ dead
    BY <1>4
  <1>6. dead => file[p] # None /\ Expired(p, file[p], clock)
    OBVIOUS
  <1> HIDE DEF dead, path, next
  <1>7. x \in Pruning /\ x.pc = next /\ x.path = path
    BY <1>1, <1>5 DEF Pruning
  <1> HIDE DEF x
  <1> QED
    BY <1>1, <1>3, <1>5, <1>6, <1>7 DEF PruneRead

\* The steps of a pruning.
LEMMA PruneTyped ==
    ASSUME ResponseInvariant, NEW s \in Session,
           (\E p \in Paths : PruneRead(s, p)) \/ PruneUnlink(s) \/ PruneEnd(s)
    PROVE  ResponseInvariant'
  <1>1. JobsAreTyped /\ Purposes /\ FilesAreTyped
    BY DEF ResponseInvariant
  <1>2. job[s] \in Pruning
    BY FormOfJob, PruneReadEffect DEF PruneUnlink, PruneEnd, At, ResponseInvariant
  <1>3. ASSUME NEW p \in Paths, PruneRead(s, p) PROVE ResponseInvariant'
    <2>1. PICK x \in Pruning : job' = [job EXCEPT ![s] = x] /\ (x.pc = "unlink" => x.path = p)
      BY <1>3, PruneReadEffect
    <2>2. x.pc # "idle" /\ x \notin Asking
      BY DEF Asking, Pruning
    <2>3. p # None
      BY NoneIsNoFile
    <2>4. x \in Jobs /\ Purposeful(x)
      BY <2>1, <2>2, <2>3 DEF Jobs, Purposeful
    <2>5. JobsAreTyped' /\ Purposes'
      BY <1>1, <2>1, <2>4, OneJobMoves
    <2>6. UNCHANGED <<dataset, clock, file, saves, damage>>
      BY <1>3, PruneReadEffect
    <2> QED
      BY <1>1, <2>5, <2>6 DEF ResponseInvariant, FilesAreTyped
  <1>4. CASE PruneUnlink(s)
    <2> DEFINE todo == IF file[job[s].path] = None THEN {} ELSE job[s].todo
               x == [job[s] EXCEPT !.pc = "prune", !.todo = todo]
    <2>1. job' = [job EXCEPT ![s] = x] /\ file' = [file EXCEPT ![job[s].path] = None]
      BY <1>4 DEF PruneUnlink
    <2>2. todo \in SUBSET PlainPaths
      BY <1>2 DEF Pruning
    <2> HIDE DEF todo
    <2>3. x \in Pruning /\ x.pc = "prune"
      BY <1>2, <2>2 DEF Pruning
    <2> HIDE DEF x
    <2>4. x \in Jobs /\ Purposeful(x)
      BY <2>3, EndsArePurposeful
    <2>5. JobsAreTyped' /\ Purposes'
      BY <1>1, <2>1, <2>4, OneJobMoves
    <2>6. UNCHANGED <<dataset, clock, saves, damage>>
      BY <1>4 DEF PruneUnlink
    <2>7. FilesAreTyped'
      BY <1>1, <2>1, <2>6 DEF FilesAreTyped
    <2> QED
      BY <2>5, <2>7 DEF ResponseInvariant
  <1>5. CASE PruneEnd(s)
    <2>1. job' = [job EXCEPT ![s] = NoJob] /\ UNCHANGED <<dataset, clock, file, saves, damage>>
      BY <1>5 DEF PruneEnd, FromProvider
    <2>2. NoJob.pc # "unlink"
      BY DEF NoJob
    <2>3. NoJob \in Jobs /\ Purposeful(NoJob)
      BY <2>2, EndsArePurposeful
    <2>4. JobsAreTyped' /\ Purposes'
      BY <1>1, <2>1, <2>3, OneJobMoves
    <2> QED
      BY <1>1, <2>1, <2>4 DEF ResponseInvariant, FilesAreTyped
  <1> QED
    BY <1>3, <1>4, <1>5

\* Processes end, time passes, files rot, source contracts are retired.
LEMMA WorldTyped ==
    ASSUME ResponseInvariant,
           Pass \/ Retire \/ (\E p \in Paths : Rot(p)) \/ \E s \in Session : Restart(s)
    PROVE  ResponseInvariant'
  <1>1. JobsAreTyped /\ Purposes /\ FilesAreTyped
    BY DEF ResponseInvariant
  <1>2. CASE Pass
    <2>1. clock' \in 0 .. MaxTime /\ UNCHANGED <<dataset, file, job, saves, damage>>
      BY <1>1, <1>2, CacheAssumption DEF Pass, FilesAreTyped
    <2> QED
      BY <1>1, <2>1 DEF ResponseInvariant, FilesAreTyped, JobsAreTyped, Purposes, At
  <1>3. ASSUME NEW p \in Paths, Rot(p) PROVE ResponseInvariant'
    <2>1. /\ damage' \in 0 .. MaxMishaps /\ UNCHANGED <<dataset, clock, job, saves>>
          /\ file' = [file EXCEPT ![p] = [file[p] EXCEPT !.intact = FALSE]]
      BY <1>1, <1>3, CacheAssumption DEF Rot, FilesAreTyped
    <2>2. [file[p] EXCEPT !.intact = FALSE] \in Entries
      <3>1. file[p] \in Entries
        BY <1>1, <1>3 DEF Rot, FilesAreTyped
      <3> QED
        BY <3>1 DEF Entries
    <2>3. file' \in [Paths -> Entries \cup {None}]
      BY <1>1, <2>1, <2>2 DEF FilesAreTyped
    <2> QED
      BY <1>1, <2>1, <2>3 DEF ResponseInvariant, FilesAreTyped, JobsAreTyped, Purposes, At
  <1>4. ASSUME NEW s \in Session, Restart(s) PROVE ResponseInvariant'
    <2>1. /\ job' = [job EXCEPT ![s] = NoJob] /\ saves' = [saves EXCEPT ![s] = 0]
          /\ UNCHANGED <<dataset, clock, file, damage>>
      BY <1>4 DEF Restart
    <2>2. NoJob \in Jobs /\ Purposeful(NoJob)
      BY EndsArePurposeful DEF NoJob
    <2>3. JobsAreTyped' /\ Purposes'
      BY <1>1, <2>1, <2>2, OneJobMoves
    <2>4. saves' \in [Session -> 0 .. PruneInterval - 1]
      BY <1>1, <2>1, CacheAssumption DEF FilesAreTyped
    <2> QED
      BY <1>1, <2>1, <2>3, <2>4 DEF ResponseInvariant, FilesAreTyped
  <1>5. CASE Retire
    <2>1. /\ damage' \in 0 .. MaxMishaps /\ UNCHANGED <<dataset, clock, job>>
          /\ saves' \in [Session -> 0 .. PruneInterval - 1]
      BY <1>1, <1>5, CacheAssumption DEF Retire, FilesAreTyped
    <2>2. ASSUME NEW p \in Paths, file[p] # None
          PROVE  [file[p] EXCEPT !.current = FALSE] \in Entries
      <3>1. file[p] \in Entries
        BY <1>1, <2>2 DEF FilesAreTyped
      <3> QED
        BY <3>1 DEF Entries
    <2>3. file' \in [Paths -> Entries \cup {None}]
      BY <1>5, <2>2 DEF Retire
    <2> QED
      BY <1>1, <2>1, <2>3 DEF ResponseInvariant, FilesAreTyped, JobsAreTyped, Purposes, At
  <1> QED
    BY <1>2, <1>3, <1>4, <1>5

\* Every step keeps it.
LEMMA ResponseStep == ResponseInvariant /\ [NextResponse]_responseVars => ResponseInvariant'
  <1> SUFFICES ASSUME ResponseInvariant, [NextResponse]_responseVars PROVE ResponseInvariant'
    OBVIOUS
  <1>1. CASE Pass \/ Retire \/ (\E p \in Paths : Rot(p)) \/ \E s \in Session : Restart(s)
    BY <1>1, WorldTyped
  <1>2. ASSUME NEW s \in Session, Step(s) PROVE ResponseInvariant'
    <2>1. \/ Exists(s) \/ Read(s) \/ QuarantineEntry(s) \/ Scan(s)
          \/ SkipTail(s) \/ (\E result \in {"ok", "again", "failed"} : Attempt(s, result))
          \/ Save(s)
          \/ (\E p \in Paths : PruneRead(s, p)) \/ PruneUnlink(s) \/ PruneEnd(s)
      BY <1>2 DEF Step
    <2> QED
      BY <2>1, LookTyped, QuarantineTyped, ScanTyped, AskTyped, SaveTyped, PruneTyped
  <1>3. ASSUME NEW s \in Session, NEW cutoff \in 0 .. MaxTime,
               NEW mode \in FetchModes, Begin(s, cutoff, mode)
        PROVE  ResponseInvariant'
    BY <1>3, BeginTyped
  <1>4. CASE UNCHANGED responseVars
    BY <1>4 DEF responseVars, ResponseInvariant, FilesAreTyped, JobsAreTyped, Purposes, At
  <1> QED
    BY <1>1, <1>2, <1>3, <1>4 DEF NextResponse

\* Whatever sessions do to the shared cache, whatever rots in it, whatever
\* providers answer and is stored, an answer from the cache is intact, of the
\* source contract in force, alive, and holds nothing later than its cutoff.
THEOREM ResponsesHold == ResponseSpec => []CacheInvariant
  <1>1. ResponseSpec => []ResponseInvariant
    BY ResponsesBeginTyped, ResponseStep, PTL DEF ResponseSpec
  <1> QED
    BY <1>1, InvariantSuffices, PTL

-----------------------------------------------------------------------------
(* Without a race.                                                         *)

HistoriesIn(files) == {p \in Paths : p[1] = "history" /\ files[p] # None /\ files[p].intact}

\* What a job found out stays true until it acts on it: the file it moves away
\* is corrupt, the file it unlinks is dead, and no full history reaches further
\* than the one whose tail it asks for.
Knows(j, files, time) ==
    /\ j.pc = "quarantine" => IsCorrupt(files[PathOf(j)])
    /\ j.pc = "unlink" => files[j.path] = None \/ files[j.path].fetched + Ttl < time
    /\ j.pc \in {"fetch", "save", "tail"} /\ j.kind = "history" =>
        \A p \in HistoriesIn(files) : j.found # None /\ files[p].rows <= j.found.rows

LoneInv ==
    ~raced => /\ \A s, t \in Session : s # t => ~(Busy(s) /\ Busy(t))
              /\ \A s \in Session : Knows(job[s], file, clock)

\* A session that is alone needs to know only its own next step.
LEMMA AloneMoves ==
    ASSUME JobsAreTyped, NEW s \in Session, \A t \in Session \ {s} : ~Busy(t),
           NEW x \in Jobs, job' = [job EXCEPT ![s] = x], Knows(x, file', clock')
    PROVE  LoneInv'
  <1>1. \A t \in Session : job'[t] = IF t = s THEN x ELSE job[t]
    BY DEF JobsAreTyped
  <1>2. \A t \in Session \ {s} : job'[t] = job[t] /\ job[t].pc \in {"idle", "served"}
    BY <1>1 DEF Busy
  <1>3. \A t \in Session \ {s} : Knows(job'[t], file', clock')
    BY <1>2 DEF Knows
  <1>4. \A t \in Session : Knows(job'[t], file', clock')
    BY <1>1, <1>3
  <1>5. \A u, t \in Session : u # t => ~(Busy(u)' /\ Busy(t)')
    BY <1>2 DEF Busy
  <1> QED
    BY <1>4, <1>5 DEF LoneInv

\* It holds of the empty cache.
LEMMA LoneInit == InitResponses => LoneInv
  BY DEF InitResponses, LoneInv, Busy, Knows, NoJob

\* A lone request goes on, to the quarantine from a corrupt file, and to the
\* provider for a full history when there is none.
LEMMA AskingMoves ==
    ASSUME JobsAreTyped, NEW s \in Session, \A t \in Session \ {s} : ~Busy(t),
           job[s] \in Asking,
           NEW next \in {"read", "quarantine", "scan", "fetch", "failed"}, Goto(s, next),
           next = "quarantine" => IsCorrupt(file'[PathOf(job[s])]),
           next = "fetch" => job[s].kind # "history" \/ HistoriesIn(file') = {}
    PROVE  LoneInv'
  <1>1. CASE next = "failed"
    <2>1. job' = [job EXCEPT ![s] = NoJob] /\ NoJob \in Jobs
      BY <1>1 DEF Goto, Failed, Jobs
    <2>2. Knows(NoJob, file', clock')
      BY DEF Knows, NoJob
    <2> QED
      BY <2>1, <2>2, AloneMoves
  <1>2. CASE next # "failed"
    <2> DEFINE x == [job[s] EXCEPT !.pc = next]
    <2>1. job' = [job EXCEPT ![s] = x]
      BY <1>2 DEF Goto
    <2>2. x \in Asking /\ x.pc = next /\ x.kind = job[s].kind /\ x.cutoff = job[s].cutoff
      BY <1>2 DEF Asking
    <2> HIDE DEF x
    <2>3. PathOf(x) = PathOf(job[s])
      BY <2>2 DEF PathOf
    <2>4. Knows(x, file', clock')
      BY <2>2, <2>3 DEF Knows
    <2> QED
      BY <2>1, <2>2, <2>4, AloneMoves DEF Jobs
  <1> QED
    BY <1>1, <1>2

\* Until the sessions race, one that takes a step is the only one at work.
LEMMA StepIsOwn ==
    ASSUME JobsAreTyped, LoneInv, ~raced, NEW s \in Session, Step(s)
    PROVE  (\A t \in Session \ {s} : ~Busy(t)) /\ Knows(job[s], file, clock)
  <1>1. At(s, "exists") \/ At(s, "read") \/ At(s, "quarantine") \/ At(s, "scan") \/ At(s, "tail")
        \/ At(s, "fetch") \/ At(s, "save") \/ At(s, "prune") \/ At(s, "unlink")
    BY DEF Step, Exists, Read, QuarantineEntry, Scan, SkipTail, Attempt, Save, PruneRead,
       PruneUnlink, PruneEnd
  <1>2. Busy(s)
    BY <1>1 DEF At, Busy
  <1> QED
    BY <1>2 DEF LoneInv

\* A session that is alone knows what it acts on.
LEMMA LoneStep ==
    ASSUME ResponseInvariant, LoneInv, ~raced, NEW s \in Session, Step(s)
    PROVE  LoneInv'
  <1> DEFINE j == job[s]
  <1>0. JobsAreTyped /\ Purposes /\ FilesAreTyped
    BY DEF ResponseInvariant
  <1>1. (\A t \in Session \ {s} : ~Busy(t)) /\ Knows(j, file, clock)
    BY <1>0, StepIsOwn
  <1>2. /\ Missed(j) \in {"scan", "failed", "fetch"}
        /\ Missed(j) = "fetch" => j.kind # "history"
    BY DEF Missed
  <1>3. CASE Exists(s)
    <2>1. j \in Asking /\ UNCHANGED file
      BY <1>0, <1>3, FormOfJob DEF Exists, At
    <2>2. Goto(s, Missed(j)) \/ Goto(s, "read")
      BY <1>3 DEF Exists
    <2> HIDE DEF j
    <2> QED
      BY <1>0, <1>1, <1>2, <2>1, <2>2, AskingMoves DEF j
  <1>4. CASE Read(s)
    <2>1. j \in Asking /\ UNCHANGED <<file, clock>>
      BY <1>0, <1>4, FormOfJob DEF Read, At
    <2>2. \/ IsCorrupt(file[PathOf(j)]) /\ Goto(s, AfterCorruption(j))
          \/ Goto(s, Missed(j))
          \/ job' = [job EXCEPT ![s] = FromCache(j, file[PathOf(j)])]
      BY <1>4 DEF Read, Serve
    <2>3. CASE IsCorrupt(file[PathOf(j)]) /\ Goto(s, AfterCorruption(j))
      <3>1. AfterCorruption(j) \in {"failed", "quarantine"}
        BY DEF AfterCorruption
      <3> QED
        BY <1>0, <1>1, <2>1, <2>3, <3>1, AskingMoves
    <2>4. CASE Goto(s, Missed(j))
      <3> HIDE DEF j
      <3> QED
        BY <1>0, <1>1, <1>2, <2>1, <2>4, AskingMoves DEF j
    <2>5. CASE job' = [job EXCEPT ![s] = FromCache(j, file[PathOf(j)])]
      <3> DEFINE x == FromCache(j, file[PathOf(j)])
      <3>1. x.pc = "served"
        BY DEF FromCache
      <3>2. job' = [job EXCEPT ![s] = x]
        BY <2>5
      <3> HIDE DEF x
      <3>3. Knows(x, file', clock')
        BY <3>1 DEF Knows
      <3>4. x \in Jobs
        <4>1. JobsAreTyped'
          BY <1>4, LookTyped DEF ResponseInvariant
        <4>2. job'[s] = x
          BY <1>0, <3>2 DEF JobsAreTyped
        <4> QED
          BY <4>1, <4>2 DEF JobsAreTyped, Jobs
      <3> QED
        BY <1>0, <1>1, <3>2, <3>3, <3>4, AloneMoves
    <2> QED
      BY <2>2, <2>3, <2>4, <2>5
  <1>5. CASE QuarantineEntry(s)
    <2>1. j \in Asking /\ Goto(s, Missed(j))
      BY <1>0, <1>5, FormOfJob DEF QuarantineEntry, At
    <2> HIDE DEF j
    <2> QED
      BY <1>0, <1>1, <1>2, <2>1, AskingMoves DEF j
  <1>6. CASE Scan(s)
    <2>1. j \in Asking /\ UNCHANGED <<file, clock>>
      BY <1>0, <1>6, FormOfJob DEF Scan, At
    <2>2. Histories = HistoriesIn(file)
      BY DEF Histories, HistoriesIn
    <2>3. \/ Goto(s, "failed")
          \/ Histories = {} /\ Goto(s, "fetch")
          \/ \E p \in Histories :
                /\ \A q \in Histories : file[q].rows <= file[p].rows
                /\ \/ job' = [job EXCEPT ![s].pc = "tail", ![s].found = Parsed(file[p], j.cutoff)]
                   \/ job' = [job EXCEPT ![s] = FromCache(j, Parsed(file[p], j.cutoff))]
      BY <1>6 DEF Scan, Serve
    <2>4. ASSUME NEW p \in Histories, \A q \in Histories : file[q].rows <= file[p].rows,
                 job' = [job EXCEPT ![s].pc = "tail", ![s].found = Parsed(file[p], j.cutoff)]
          PROVE  LoneInv'
      <3> DEFINE e == Parsed(file[p], j.cutoff)
                 x == [j EXCEPT !.pc = "tail", !.found = e]
      <3>1. e.rows = file[p].rows
        BY DEF Parsed
      <3>2. JobsAreTyped'
        BY <1>6, ScanTyped DEF ResponseInvariant
      <3>3. job' = [job EXCEPT ![s] = x]
        BY <2>4
      <3>4. x.pc = "tail" /\ x.found = e
        BY <2>1 DEF Asking
      <3> HIDE DEF x, e
      <3>5. job'[s] = x
        BY <1>0, <3>3 DEF JobsAreTyped
      <3>6. x \in Jobs
        BY <3>2, <3>5 DEF JobsAreTyped, Jobs
      <3>7. job'[s] \in Asking
        <4>1. x \in Asking \/ x \in Pruning \/ x \in Answered \/ x = NoJob
          BY <3>6 DEF Jobs
        <4>2. x \notin Pruning
          BY <3>4 DEF Pruning
        <4>3. x \notin Answered
          BY <3>4 DEF Answered
        <4>4. x # NoJob
          BY <3>4 DEF NoJob
        <4> QED
          BY <3>5, <4>1, <4>2, <4>3, <4>4
      <3>8. x.found # None
        <4>1. Purposes'
          BY <1>6, ScanTyped DEF ResponseInvariant
        <4> QED
          BY <3>4, <3>5, <3>7, <4>1 DEF Purposes
      <3>9. Knows(x, file', clock')
        BY <2>1, <2>2, <2>4, <3>1, <3>4, <3>8 DEF Knows
      <3> QED
        BY <1>0, <1>1, <3>3, <3>6, <3>9, AloneMoves
    <2>5. ASSUME NEW p \in Histories,
                 job' = [job EXCEPT ![s] = FromCache(j, Parsed(file[p], j.cutoff))]
          PROVE  LoneInv'
      <3> DEFINE x == FromCache(j, Parsed(file[p], j.cutoff))
      <3>1. x.pc = "served" /\ job' = [job EXCEPT ![s] = x]
        BY <2>5 DEF FromCache
      <3> HIDE DEF x
      <3>2. Knows(x, file', clock')
        BY <3>1 DEF Knows
      <3>3. x \in Jobs
        <4>1. JobsAreTyped'
          BY <1>6, ScanTyped DEF ResponseInvariant
        <4>2. job'[s] = x
          BY <1>0, <3>1 DEF JobsAreTyped
        <4> QED
          BY <4>1, <4>2 DEF JobsAreTyped, Jobs
      <3> QED
        BY <1>0, <1>1, <3>1, <3>2, <3>3, AloneMoves
    <2>6. CASE Goto(s, "failed") \/ (Histories = {} /\ Goto(s, "fetch"))
      BY <1>0, <1>1, <2>1, <2>2, <2>6, AskingMoves
    <2> QED
      BY <2>3, <2>4, <2>5, <2>6
  <1>7. CASE SkipTail(s) \/ (\E result \in {"ok", "again", "failed"} : Attempt(s, result))
    <2>1. j \in Asking /\ j.pc \in {"tail", "fetch"} /\ UNCHANGED <<file, clock>>
      BY <1>0, <1>7, FormOfJob DEF SkipTail, Attempt, At
    <2>2. \/ \E x \in Asking : /\ job' = [job EXCEPT ![s] = x] /\ x.kind = j.kind /\ x.found = j.found
                               /\ x.pc \in {"save", "tail", "fetch"}
          \/ job' = [job EXCEPT ![s] = NoJob]
          \/ SkipTail(s)
      <3>1. ASSUME NEW result \in {"ok", "again", "failed"}, Attempt(s, result)
            PROVE  \/ job' = [job EXCEPT ![s] = [j EXCEPT !.sent = 0, !.pc = "save"]]
                   \/ job' = [job EXCEPT ![s] = [j EXCEPT !.sent = j.sent + 1]]
                   \/ job' = [job EXCEPT ![s] = NoJob]
        BY <3>1 DEF Attempt, Failed
      <3> DEFINE x == [j EXCEPT !.sent = 0, !.pc = "save"]
                 y == [j EXCEPT !.sent = j.sent + 1]
      <3>2. x \in Asking /\ x.kind = j.kind /\ x.found = j.found /\ x.pc = "save"
        BY <2>1 DEF Asking
      <3>3. y \in Asking /\ y.kind = j.kind /\ y.found = j.found /\ y.pc \in {"tail", "fetch"}
        BY <2>1 DEF Asking
      <3> HIDE DEF x, y
      <3> QED
        BY <1>7, <3>1, <3>2, <3>3 DEF x, y
    <2>3. ASSUME NEW x \in Asking, job' = [job EXCEPT ![s] = x], x.kind = j.kind, x.found = j.found,
                 x.pc \in {"save", "tail", "fetch"}
          PROVE  LoneInv'
      <3>1. Knows(x, file', clock')
        BY <1>1, <2>1, <2>3 DEF Knows
      <3> QED
        BY <1>0, <1>1, <2>3, <3>1, AloneMoves DEF Jobs
    <2>4. CASE job' = [job EXCEPT ![s] = NoJob]
      BY <1>0, <1>1, <2>4, AloneMoves DEF Jobs, Knows, NoJob
    <2>5. CASE SkipTail(s)
      <3> DEFINE x == FromCache(j, j.found)
      <3>1. x.pc = "served" /\ job' = [job EXCEPT ![s] = x]
        BY <2>5 DEF FromCache, SkipTail, Serve
      <3> HIDE DEF x
      <3>2. Knows(x, file', clock')
        BY <3>1 DEF Knows
      <3>3. x \in Jobs
        <4>1. JobsAreTyped'
          BY <2>5, AskTyped DEF ResponseInvariant
        <4>2. job'[s] = x
          BY <1>0, <3>1 DEF JobsAreTyped
        <4> QED
          BY <4>1, <4>2 DEF JobsAreTyped, Jobs
      <3> QED
        BY <1>0, <1>1, <3>1, <3>2, <3>3, AloneMoves
    <2> QED
      BY <2>2, <2>3, <2>4, <2>5
  <1>8. CASE Save(s)
    <2>1. PICK x \in {NoJob} \cup Pruning :
            job' = [job EXCEPT ![s] = x] /\ x.pc \in {"prune", "idle"}
      BY <1>8, SaveEffect
    <2>2. Knows(x, file', clock')
      BY <2>1 DEF Knows
    <2> QED
      BY <1>0, <1>1, <2>1, <2>2, AloneMoves DEF Jobs
  <1>9. ASSUME NEW p \in Paths, PruneRead(s, p) PROVE LoneInv'
    <2>1. PICK x \in Pruning :
            /\ job' = [job EXCEPT ![s] = x]
            /\ x.pc = "unlink" => x.path = p /\ file[p] # None /\ Expired(p, file[p], clock)
      BY <1>9, PruneReadEffect
    <2>2. UNCHANGED <<clock, file>>
      BY <1>9, PruneReadEffect
    <2>3. x.pc \in {"prune", "unlink"}
      BY DEF Pruning
    <2>4. Knows(x, file', clock')
      BY <2>1, <2>2, <2>3 DEF Knows, Expired
    <2> QED
      BY <1>0, <1>1, <2>1, <2>4, AloneMoves DEF Jobs
  <1>10. CASE PruneUnlink(s) \/ PruneEnd(s)
    <2>1. j \in Pruning
      BY <1>0, <1>10, FormOfJob DEF PruneUnlink, PruneEnd, At
    <2>2. PICK x \in Jobs : job' = [job EXCEPT ![s] = x] /\ x.pc \in {"prune", "idle"}
      <3>1. CASE PruneUnlink(s)
        <4> DEFINE todo == IF file[j.path] = None THEN {} ELSE j.todo
                   y == [j EXCEPT !.pc = "prune", !.todo = todo]
        <4>1. todo \in SUBSET PlainPaths
          BY <2>1 DEF Pruning
        <4>2. job' = [job EXCEPT ![s] = y]
          BY <3>1 DEF PruneUnlink
        <4> HIDE DEF todo
        <4>3. y \in Pruning /\ y.pc = "prune"
          BY <2>1, <4>1 DEF Pruning
        <4> HIDE DEF y
        <4> QED
          BY <4>2, <4>3 DEF Jobs
      <3>2. CASE PruneEnd(s)
        <4>1. job' = [job EXCEPT ![s] = NoJob]
          BY <3>2 DEF PruneEnd, FromProvider
        <4>2. NoJob.pc = "idle"
          BY DEF NoJob
        <4> QED
          BY <4>1, <4>2 DEF Jobs
      <3> QED
        BY <1>10, <3>1, <3>2
    <2>3. Knows(x, file', clock')
      BY <2>2 DEF Knows
    <2> QED
      BY <1>0, <1>1, <2>2, <2>3, AloneMoves
  <1> QED
    BY <1>3, <1>4, <1>5, <1>6, <1>7, <1>8, <1>9, <1>10 DEF Step

\* A request begins alone, or the sessions have raced.
LEMMA LoneBegin ==
    ASSUME ResponseInvariant, NEW s \in Session,
           NEW cutoff \in 0 .. MaxTime, NEW mode \in FetchModes, Begin(s, cutoff, mode)
    PROVE  LoneInv'
  <1> DEFINE kind == dataset
             next == IF mode = "REFRESH" /\ Mutable(kind) THEN "fetch" ELSE "exists"
             local == mode = "CACHE_ONLY"
             x == [kind |-> kind, cutoff |-> cutoff, local |-> local, now |-> clock,
                   sent |-> 0, found |-> None, pc |-> next]
  <1>1. job' = [job EXCEPT ![s] = x] /\ raced' = (raced \/ \E t \in Session \ {s} : Busy(t))
    BY DEF Begin
  <1>2. next \in {"exists", "fetch"} /\ (next = "fetch" => kind # "history")
    BY DEF Mutable
  <1>3. local \in BOOLEAN /\ clock \in 0 .. MaxTime /\ kind \in Kinds /\ JobsAreTyped
    BY DEF ResponseInvariant, FilesAreTyped
  <1> HIDE DEF next, local
  <1>4. x \in Asking /\ x.pc = next /\ x.kind = kind
    BY <1>2, <1>3 DEF Asking
  <1> HIDE DEF x
  <1>5. Knows(x, file', clock')
    BY <1>2, <1>4 DEF Knows
  <1>6. CASE \A t \in Session \ {s} : ~Busy(t)
    BY <1>1, <1>3, <1>4, <1>5, <1>6, AloneMoves DEF Jobs
  <1>7. CASE \E t \in Session \ {s} : Busy(t)
    BY <1>1, <1>7, Zenon DEF LoneInv
  <1> QED
    BY <1>6, <1>7

\* What a session found out outlives the steps of the world.
LEMMA LoneWorld ==
    ASSUME ResponseInvariant, LoneInv,
           \/ Pass \/ Retire
           \/ \E p \in Paths : Rot(p)
           \/ \E s \in Session : Restart(s)
           \/ UNCHANGED responseVars
    PROVE  LoneInv'
  <1>0. JobsAreTyped /\ Purposes /\ FilesAreTyped
    BY DEF ResponseInvariant
  <1>1. raced' = raced
    BY DEF Pass, Retire, Rot, Restart, responseVars
  <1>2. CASE UNCHANGED responseVars
    BY <1>2 DEF responseVars, LoneInv, Busy, Knows, HistoriesIn
  <1>3. CASE Pass
    <2>1. UNCHANGED <<file, job>> /\ clock' = clock + 1
      BY <1>3 DEF Pass
    <2>2. ASSUME NEW s \in Session, Knows(job[s], file, clock) PROVE Knows(job[s], file, clock')
      <3>1. job[s].pc = "unlink" => job[s] \in Pruning /\ job[s].path # None
        BY <1>0, FormOfJob DEF Purposes, At
      <3>2. job[s].pc = "unlink" => job[s].path \in Paths
        BY <3>1 DEF Pruning, PlainPaths
      <3>3. job[s].pc = "unlink" =>
                file[job[s].path] = None \/ file[job[s].path].fetched + Ttl < clock'
        <4> SUFFICES ASSUME job[s].pc = "unlink", file[job[s].path] # None
                     PROVE  file[job[s].path].fetched + Ttl < clock'
          OBVIOUS
        <4> DEFINE e == file[job[s].path]
        <4>1. e \in Entries
          BY <1>0, <3>2 DEF FilesAreTyped
        <4>2. e.fetched \in Int /\ clock \in Int /\ Ttl \in Int
          BY <1>0, <4>1, CacheAssumption DEF FilesAreTyped, Entries, Times
        <4>3. e.fetched + Ttl < clock
          BY <2>2 DEF Knows
        <4> HIDE DEF e
        <4>4. e.fetched + Ttl < clock'
          BY <2>1, <4>2, <4>3
        <4> QED
          BY <4>4 DEF e
      <3> QED
        BY <2>2, <3>3 DEF Knows
    <2> QED
      BY <1>1, <2>1, <2>2 DEF LoneInv, Busy
  <1>4. ASSUME NEW p \in Paths, Rot(p) PROVE LoneInv'
    <2>1. /\ UNCHANGED <<job, clock>>
          /\ file' = [file EXCEPT ![p] = [file[p] EXCEPT !.intact = FALSE]]
          /\ file[p] # None /\ file[p].intact
      BY <1>4 DEF Rot
    <2>2. file[p] \in Entries
      BY <1>0, <2>1 DEF FilesAreTyped
    <2>3. /\ file'[p].fetched = file[p].fetched /\ file'[p].rows = file[p].rows
          /\ ~file'[p].intact /\ file'[p] # None
      <3> DEFINE x == [file[p] EXCEPT !.intact = FALSE]
      <3>1. x \in Entries /\ x.fetched = file[p].fetched /\ x.rows = file[p].rows
        BY <2>2 DEF Entries
      <3>2. ~x.intact
        BY <2>2 DEF Entries
      <3>3. file'[p] = x
        BY <1>0, <2>1 DEF FilesAreTyped
      <3> HIDE DEF x
      <3> QED
        BY <3>1, <3>2, <3>3, NoneIsNoFile
    <2>4. \A q \in Paths : q # p => file'[q] = file[q]
      BY <1>0, <2>1 DEF FilesAreTyped
    <2>5. HistoriesIn(file') \subseteq HistoriesIn(file)
          /\ \A q \in HistoriesIn(file') : file'[q].rows = file[q].rows
      BY <2>3, <2>4 DEF HistoriesIn
    <2>6. ASSUME NEW s \in Session, Knows(job[s], file, clock) PROVE Knows(job[s], file', clock)
      <3>1. job[s].pc = "quarantine" => IsCorrupt(file'[PathOf(job[s])])
        <4> SUFFICES ASSUME job[s].pc = "quarantine" PROVE IsCorrupt(file'[PathOf(job[s])])
          OBVIOUS
        <4>1. PathOf(job[s]) \in Paths
          BY <1>0, FormOfJob, PathIsPath
        <4>2. IsCorrupt(file[PathOf(job[s])])
          BY <2>6 DEF Knows
        <4>3. CASE PathOf(job[s]) = p
          BY <2>3, <4>3, Zenon DEF IsCorrupt
        <4>4. CASE PathOf(job[s]) # p
          BY <2>4, <4>1, <4>2, <4>4
        <4> QED
          BY <4>3, <4>4
      <3>2. job[s].pc = "unlink" =>
                file'[job[s].path] = None \/ file'[job[s].path].fetched + Ttl < clock
        <4> SUFFICES ASSUME job[s].pc = "unlink"
                     PROVE  file'[job[s].path] = None \/ file'[job[s].path].fetched + Ttl < clock
          OBVIOUS
        <4>1. job[s] \in Pruning /\ job[s].path # None
          BY <1>0, FormOfJob DEF Purposes, At
        <4>2. job[s].path \in Paths
          BY <4>1 DEF Pruning, PlainPaths
        <4>3. file[job[s].path] = None \/ file[job[s].path].fetched + Ttl < clock
          BY <2>6 DEF Knows
        <4> QED
          BY <2>1, <2>3, <2>4, <4>2, <4>3
      <3>3. job[s].pc \in {"fetch", "save", "tail"} /\ job[s].kind = "history" =>
              \A q \in HistoriesIn(file') : job[s].found # None /\ file'[q].rows <= job[s].found.rows
        BY <2>5, <2>6 DEF Knows
      <3> QED
        BY <3>1, <3>2, <3>3 DEF Knows
    <2> QED
      BY <1>1, <2>1, <2>6 DEF LoneInv, Busy
  <1>5. ASSUME NEW s \in Session, Restart(s) PROVE LoneInv'
    <2>1. job' = [job EXCEPT ![s] = NoJob] /\ UNCHANGED <<clock, file>>
      BY <1>5 DEF Restart
    <2>2. \A t \in Session : job'[t] = IF t = s THEN NoJob ELSE job[t]
      BY <1>0, <2>1 DEF JobsAreTyped
    <2>3. ~Busy(s)'
      BY <2>2 DEF Busy, NoJob
    <2>4. \A t \in Session : Busy(t)' => Busy(t)
      BY <2>2, <2>3 DEF Busy
    <2>5. Knows(NoJob, file, clock)
      BY DEF Knows, NoJob
    <2>6. \A t \in Session : ~raced => Knows(job'[t], file', clock')
      BY <2>1, <2>2, <2>5 DEF LoneInv
    <2> QED
      BY <1>1, <2>4, <2>6 DEF LoneInv
  <1>6. CASE Retire
    <2>1. UNCHANGED job /\ \A s \in Session : ~Busy(s)
      BY <1>6 DEF Retire
    <2>2. \A s \in Session : job[s].pc \in {"idle", "served"}
      BY <2>1 DEF Busy
    <2>3. \A s \in Session : Knows(job[s], file', clock')
      BY <2>2 DEF Knows
    <2> QED
      BY <2>1, <2>3 DEF LoneInv, Busy
  <1> QED
    BY <1>2, <1>3, <1>4, <1>5, <1>6

\* Races are never forgotten, and until the first one a session is alone.
LEMMA LoneNext == ResponseInvariant /\ LoneInv /\ [NextResponse]_responseVars => LoneInv'
  <1> SUFFICES ASSUME ResponseInvariant, LoneInv, [NextResponse]_responseVars PROVE LoneInv'
    OBVIOUS
  <1>1. ASSUME NEW s \in Session, Step(s) PROVE LoneInv'
    <2>1. raced' = raced
      BY <1>1 DEF Step, Exists, Read, QuarantineEntry, Scan, SkipTail, Attempt, Save, PruneRead,
         PruneUnlink, PruneEnd
    <2>2. CASE raced
      BY <2>1, <2>2, Zenon DEF LoneInv
    <2> QED
      BY <1>1, <2>2, LoneStep
  <1>2. ASSUME NEW s \in Session, NEW cutoff \in 0 .. MaxTime,
               NEW mode \in FetchModes, Begin(s, cutoff, mode)
        PROVE  LoneInv'
    BY <1>2, LoneBegin
  <1>3. CASE \/ Pass \/ Retire
             \/ \E p \in Paths : Rot(p)
             \/ \E s \in Session : Restart(s)
             \/ UNCHANGED responseVars
    BY <1>3, LoneWorld
  <1> QED
    BY <1>1, <1>2, <1>3 DEF NextResponse

\* The times up to which histories reach have a furthest one.
LEMMA FurthestTime ==
    ASSUME NEW T \in SUBSET (0 .. MaxTime), T # {}
    PROVE  \E e \in T : \A d \in T : d <= e
  <1>1. MaxTime \in Nat /\ \A e \in T : e \in Nat /\ e <= MaxTime
    BY CacheAssumption
  <1> DEFINE Left == {MaxTime - e : e \in T}
  <1>2. Left \in SUBSET Nat /\ Left # {}
    <2>1. \A e \in T : MaxTime - e \in Nat
      <3> TAKE e \in T
      <3>1. e \in Nat /\ e <= MaxTime
        BY <1>1
      <3> QED
        BY <1>1, <3>1
    <2> QED
      BY <2>1
  <1>3. PICK e \in T : \A l \in Left : MaxTime - e <= l
    <2> HIDE DEF Left
    <2>1. PICK k \in Left : \A l \in Left : k <= l
      BY <1>2, LeastNatural
    <2> QED
      BY <2>1 DEF Left
  <1>4. ASSUME NEW d \in T PROVE d <= e
    <2>1. MaxTime - e <= MaxTime - d
      BY <1>3, <1>4
    <2>2. d \in Nat /\ e \in Nat
      BY <1>1, <1>3, <1>4
    <2> QED
      BY <1>1, <2>1, <2>2
  <1> QED
    BY <1>3, <1>4

\* The coverage is how far the furthest intact history reaches.
LEMMA CoverageIs ==
    ASSUME NEW f \in [Paths -> Entries \cup {None}]
    PROVE  /\ \A p \in HistoriesIn(f) : f[p].rows \in Nat
           /\ HistoriesIn(f) = {} => Coverage(f) = -1
           /\ HistoriesIn(f) # {} =>
                /\ \E p \in HistoriesIn(f) : Coverage(f) = f[p].rows
                /\ \A p \in HistoriesIn(f) : f[p].rows <= Coverage(f)
  <1> DEFINE ends == {f[p].rows : p \in HistoriesIn(f)}
  <1>1. Coverage(f) = IF ends = {} THEN -1 ELSE CHOOSE e \in ends : \A d \in ends : d <= e
    BY DEF Coverage, HistoriesIn
  <1>2. \A p \in HistoriesIn(f) : f[p].rows \in 0 .. MaxTime
    BY DEF HistoriesIn, Entries, Times
  <1>3. ends \in SUBSET (0 .. MaxTime)
    BY <1>2
  <1>4. ends = {} <=> HistoriesIn(f) = {}
    OBVIOUS
  <1>5. \A p \in HistoriesIn(f) : f[p].rows \in ends
    OBVIOUS
  <1>6. \A e \in ends : \E p \in HistoriesIn(f) : e = f[p].rows
    OBVIOUS
  <1>7. \A p \in HistoriesIn(f) : f[p].rows \in Nat
    BY <1>2, CacheAssumption
  <1> HIDE DEF ends
  <1>8. CASE ends # {}
    <2>1. \E e \in ends : \A d \in ends : d <= e
      BY <1>3, <1>8, FurthestTime
    <2>2. Coverage(f) \in ends /\ \A d \in ends : d <= Coverage(f)
      BY <1>1, <1>8, <2>1
    <2> QED
      BY <1>4, <1>5, <1>6, <1>7, <1>8, <2>2
  <1>9. CASE ends = {}
    BY <1>1, <1>4, <1>7, <1>9
  <1> QED
    BY <1>8, <1>9

\* It does not shrink while every history is matched by one that reaches as far.
LEMMA CoverageGrows ==
    ASSUME NEW f \in [Paths -> Entries \cup {None}], NEW g \in [Paths -> Entries \cup {None}],
           \A p \in HistoriesIn(f) : \E q \in HistoriesIn(g) : f[p].rows <= g[q].rows
    PROVE  Coverage(g) >= Coverage(f)
  <1>1. /\ \A p \in HistoriesIn(f) : f[p].rows \in Nat
        /\ HistoriesIn(f) = {} => Coverage(f) = -1
        /\ HistoriesIn(f) # {} => \E p \in HistoriesIn(f) : Coverage(f) = f[p].rows
    BY CoverageIs
  <1>2. /\ \A q \in HistoriesIn(g) : g[q].rows \in Nat
        /\ HistoriesIn(g) = {} => Coverage(g) = -1
        /\ HistoriesIn(g) # {} => /\ \E q \in HistoriesIn(g) : Coverage(g) = g[q].rows
                                  /\ \A q \in HistoriesIn(g) : g[q].rows <= Coverage(g)
    BY CoverageIs
  <1>3. Coverage(g) \in Int /\ Coverage(g) >= -1
    BY <1>2
  <1>4. CASE HistoriesIn(f) = {}
    BY <1>1, <1>3, <1>4
  <1>5. CASE HistoriesIn(f) # {}
    <2>1. PICK p \in HistoriesIn(f) : Coverage(f) = f[p].rows
      BY <1>1, <1>5
    <2>2. PICK q \in HistoriesIn(g) : f[p].rows <= g[q].rows
      BY <2>1
    <2> QED
      BY <1>1, <1>2, <1>3, <2>1, <2>2
  <1> QED
    BY <1>4, <1>5

\* Nothing is lost by a step that leaves every file that is intact and of use.
LEMMA KeepsWhatIsOfUse ==
    ASSUME ResponseInvariant, ResponseInvariant', NEW path \in Paths, NEW x,
           file' = [file EXCEPT ![path] = x],
           \/ IsCorrupt(file[path])
           \/ Mutable(path[1]) /\ (file[path] # None => ~(file[path].fetched + Ttl >= clock))
           \/ x # None /\ x.intact /\ Mutable(path[1])
           \/ /\ x # None /\ x.intact /\ path[1] = "history"
              /\ \A p \in HistoriesIn(file) : file[p].rows <= x.rows
    PROVE  LosesNothing
  <1>1. /\ file \in [Paths -> Entries \cup {None}] /\ file' \in [Paths -> Entries \cup {None}]
        /\ file'[path] = x
        /\ \A p \in Paths : p # path => file'[p] = file[p]
    BY DEF ResponseInvariant, FilesAreTyped
  <1>2. \A p \in Paths :
            (file[p] # None /\ file[p].intact /\ Mutable(p[1]) /\ file[p].fetched + Ttl >= clock)
                => file'[p] # None /\ file'[p].intact
    BY <1>1 DEF IsCorrupt, Mutable
  <1>3. ASSUME NEW p \in HistoriesIn(file)
        PROVE  \E q \in HistoriesIn(file') : file[p].rows <= file'[q].rows
    <2>1. p \in Paths /\ p[1] = "history" /\ file[p] # None /\ file[p].intact
      BY <1>3 DEF HistoriesIn
    <2>2. file[p].rows \in Nat
      BY <1>1, <1>3, CoverageIs
    <2>3. CASE p # path
      <3>1. p \in HistoriesIn(file') /\ file'[p].rows = file[p].rows
        BY <1>1, <2>1, <2>3 DEF HistoriesIn
      <3> QED
        BY <2>2, <3>1
    <2>4. CASE p = path
      <3>1. /\ x # None /\ x.intact /\ path[1] = "history"
            /\ \A q \in HistoriesIn(file) : file[q].rows <= x.rows
        BY <2>1, <2>4 DEF IsCorrupt, Mutable
      <3>2. path \in HistoriesIn(file')
        BY <1>1, <3>1 DEF HistoriesIn
      <3> QED
        BY <1>1, <1>3, <3>1, <3>2
    <2> QED
      BY <2>3, <2>4
  <1>4. Coverage(file') >= Coverage(file)
    BY <1>1, <1>3, CoverageGrows
  <1> QED
    BY <1>2, <1>4 DEF LosesNothing

\* A step of a session that is alone loses nothing.
LEMMA LoneStepLosesNothing ==
    ASSUME ResponseInvariant, ResponseInvariant', LoneInv, ~raced, NEW s \in Session, Step(s)
    PROVE  LosesNothing
  <1> DEFINE j == job[s]
  <1>0. JobsAreTyped /\ Purposes /\ FilesAreTyped
    BY DEF ResponseInvariant
  <1>1. Knows(j, file, clock)
    BY <1>0, StepIsOwn
  <1>2. CASE file' = file
    <2>1. file \in [Paths -> Entries \cup {None}]
      BY <1>0 DEF FilesAreTyped
    <2>2. \A p \in HistoriesIn(file) : \E q \in HistoriesIn(file) : file[p].rows <= file[q].rows
      <3>1. \A p \in HistoriesIn(file) : file[p].rows \in Nat
        BY <2>1, CoverageIs
      <3> QED
        BY <3>1
    <2>3. Coverage(file) >= Coverage(file)
      BY <2>1, <2>2, CoverageGrows
    <2> QED
      BY <1>2, <2>3 DEF LosesNothing
  <1>3. CASE QuarantineEntry(s)
    <2>1. j \in Asking /\ IsCorrupt(file[PathOf(j)])
      BY <1>0, <1>1, <1>3, FormOfJob DEF QuarantineEntry, At, Knows
    <2>2. PathOf(j) \in Paths
      BY <2>1, PathIsPath
    <2>3. file' = [file EXCEPT ![PathOf(j)] = None]
      BY <1>3 DEF QuarantineEntry
    <2> QED
      BY <2>1, <2>2, <2>3, KeepsWhatIsOfUse
  <1>4. CASE Save(s)
    <2> DEFINE path == PathOf(j)
    <2>1. j \in Asking /\ path \in Paths
      BY <1>4, SaveEffect
    <2>2. PICK x \in Storable(j) : file' = [file EXCEPT ![path] = x]
      BY <1>4, SaveEffect
    <2>3. path[1] = j.kind /\ j.kind \in Kinds
      BY <2>1, PathIsPath DEF Asking
    <2>4. x \in Entries /\ x.intact /\ x # None /\ (j.found # None => j.found.rows <= x.rows)
      BY <2>1, <2>2, StorableFits
    <2>5. ASSUME j.kind = "history", NEW p \in HistoriesIn(file) PROVE file[p].rows <= x.rows
      <3>1. j.found # None /\ file[p].rows <= j.found.rows
        BY <1>1, <1>4, <2>5 DEF Save, At, Knows
      <3>2. j.found.rows \in Int
        <4>1. j.found \in Entries
          BY <2>1, <3>1, SoundIsEntry DEF Asking
        <4> QED
          BY <4>1, CacheAssumption DEF Entries, Times
      <3>3. x.rows \in Int
        BY <2>4, CacheAssumption DEF Entries, Times
      <3>4. file[p].rows \in Int
        BY <1>0, <2>5, CoverageIs DEF FilesAreTyped
      <3> QED
        BY <2>4, <3>1, <3>2, <3>3, <3>4
    <2>6. Mutable(path[1]) \/ path[1] = "history"
      BY <2>3 DEF Mutable
    <2> HIDE DEF path
    <2> QED
      BY <2>1, <2>2, <2>3, <2>4, <2>5, <2>6, KeepsWhatIsOfUse
  <1>5. CASE PruneUnlink(s)
    <2> DEFINE path == j.path
    <2>1. j \in Pruning /\ path # None /\ (file[path] = None \/ file[path].fetched + Ttl < clock)
      BY <1>0, <1>1, <1>5, FormOfJob DEF PruneUnlink, At, Knows, Purposes
    <2>2. path \in Paths /\ Mutable(path[1])
      BY <2>1 DEF Pruning, PlainPaths
    <2>3. file' = [file EXCEPT ![path] = None]
      BY <1>5 DEF PruneUnlink
    <2>4. file[path] # None => ~(file[path].fetched + Ttl >= clock)
      <3>1. file[path] # None => file[path].fetched \in Int /\ clock \in Int /\ Ttl \in Int
        BY <1>0, <2>2, CacheAssumption DEF FilesAreTyped, Entries, Times
      <3> QED
        BY <2>1, <3>1
    <2> HIDE DEF path
    <2> QED
      BY <2>2, <2>3, <2>4, KeepsWhatIsOfUse
  <1> QED
    BY <1>2, <1>3, <1>4, <1>5
       DEF Step, Exists, Read, Scan, SkipTail, Attempt, PruneRead, PruneEnd

\* Until two jobs overlap, no step but the rotting of a file loses anything.
LEMMA AloneLosesNothing ==
    ASSUME ResponseInvariant, ResponseInvariant', LoneInv, [NextResponse]_responseVars,
           ~raced', damage' = damage
    PROVE  LosesNothing
  <1>1. ASSUME NEW s \in Session, Step(s) PROVE LosesNothing
    <2>1. raced' = raced
      BY <1>1 DEF Step, Exists, Read, QuarantineEntry, Scan, SkipTail, Attempt, Save, PruneRead,
         PruneUnlink, PruneEnd
    <2> QED
      BY <1>1, <2>1, LoneStepLosesNothing
  <1>2. CASE UNCHANGED file
    <2>1. file \in [Paths -> Entries \cup {None}]
      BY DEF ResponseInvariant, FilesAreTyped
    <2>2. \A p \in HistoriesIn(file) : \E q \in HistoriesIn(file) : file[p].rows <= file[q].rows
      <3>1. \A p \in HistoriesIn(file) : file[p].rows \in Nat
        BY <2>1, CoverageIs
      <3> QED
        BY <3>1
    <2>3. Coverage(file) >= Coverage(file)
      BY <2>1, <2>2, CoverageGrows
    <2> QED
      BY <1>2, <2>3 DEF LosesNothing
  <1>3. ASSUME NEW p \in Paths, Rot(p) PROVE FALSE
    <2>1. damage \in Nat
      BY CacheAssumption DEF ResponseInvariant, FilesAreTyped
    <2> QED
      BY <1>3, <2>1 DEF Rot
  <1>4. CASE Retire
    <2>1. damage \in Nat
      BY CacheAssumption DEF ResponseInvariant, FilesAreTyped
    <2> QED
      BY <1>4, <2>1 DEF Retire
  <1> QED
    BY <1>1, <1>2, <1>3, <1>4 DEF NextResponse, Pass, Begin, Restart, responseVars

\* While no two jobs have overlapped, neither the quarantine nor the pruning nor
\* a back-dated review takes an entry of use: only files that rot are lost.
THEOREM LoneSessionIsSafe == ResponseSpec => LoneSessionLosesNothing
  <1>1. ResponseSpec => [](ResponseInvariant /\ LoneInv)
    <2>1. InitResponses => ResponseInvariant /\ LoneInv
      BY ResponsesBeginTyped, LoneInit
    <2>2. ResponseInvariant /\ LoneInv /\ [NextResponse]_responseVars => (ResponseInvariant /\ LoneInv)'
      BY ResponseStep, LoneNext
    <2> QED
      BY <2>1, <2>2, PTL DEF ResponseSpec
  <1>2. ResponseInvariant /\ LoneInv /\ ResponseInvariant' /\ [NextResponse]_responseVars
          => [~raced' /\ damage' = damage => LosesNothing]_responseVars
    BY AloneLosesNothing
  <1> QED
    BY <1>1, <1>2, PTL DEF ResponseSpec, LoneSessionLosesNothing

=============================================================================
