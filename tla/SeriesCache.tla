---------------------------- MODULE SeriesCache ----------------------------
(***************************************************************************)
(* The cached candle series of one market: the series half of              *)
(* providers/cache.py over the content-addressed store of                  *)
(* state/market_data.py, as _collect_ohlcv of providers/router.py uses it, *)
(* shared by several host sessions without a lock.                         *)
(*                                                                         *)
(* A candle is its opening time; a series is a set of candles, the empty   *)
(* set stands for no series.  Prices are left out: a series names its own  *)
(* content.  Time counts ticks, Day of them to a candle, so that a review  *)
(* may fall between two candles.  REFRESH treats candles as AUTO does.     *)
(***************************************************************************)
EXTENDS Sessions, Integers, FiniteSets

CONSTANTS
    Day,              \* ticks of one candle
    History,          \* ticks of history that a planned request asks for
    Listed,           \* the candles the exchange has or will have
    Ranges,           \* the requests there are, of PLANNED and OPEN
    Ages,             \* bound: how far back reviews are dated
    Horizon,          \* bound on the clock
    MaxContents,      \* bound on the content files stored
    MaxDamage,        \* bound on the content files damaged from outside
    NoTime            \* an absent start or end

ASSUME SeriesAssumption ==
    /\ Day \in Nat \ {0} /\ History \in Nat /\ Horizon \in Nat /\ MaxDamage \in Nat
    /\ Listed \subseteq {c \in 0 .. Horizon : c % Day = 0}
    /\ MaxContents \in Nat /\ Ages \subseteq Nat
    /\ Ranges \subseteq {"PLANNED", "OPEN"} /\ NoTime \notin Int

Modes == {"AUTO", "CACHE_ONLY"}

\* build_provider_requests asks for the history up to as_of, which carries the
\* time of day; a request of the provider interface may leave the range open.
PlannedAt(t, mode) == [asOf |-> t, start |-> t - History, end |-> t, mode |-> mode]
OpenAt(t, mode) == [asOf |-> t, start |-> NoTime, end |-> NoTime, mode |-> mode]

RequestAt(range, t, mode) == IF range = "PLANNED" THEN PlannedAt(t, mode) ELSE OpenAt(t, mode)

Requests == {RequestAt(range, t, m) : range \in Ranges, t \in 0 .. Horizon, m \in Modes}

VARIABLES
    now,
    manifest,         \* the series manifest.json names
    contents,         \* the series stored under market-data/sha256
    damaged,          \* those of them that no longer pass load_ohlcv
    pc,               \* where each session is in _collect_ohlcv
    request,          \* what it was asked
    series,           \* the series it loaded; once it has fetched, the one it stores
    answer,           \* what the last step returned to its review, if anything
    overtaken         \* history: the manifest changed under its review

vars == <<now, manifest, contents, damaged, pc, request, series, answer, overtaken>>

-----------------------------------------------------------------------------
(* missing_series_range and the freshness of the tail.                     *)

First(candles) == CHOOSE c \in candles : \A d \in candles : c <= d
Last(candles) == CHOOSE c \in candles : \A d \in candles : d <= c

Later(a, b) == IF a < b THEN b ELSE a
Earlier(a, b) == IF a < b THEN a ELSE b

\* The steps of the cursor from lo to hi.
Cursors(lo, hi) == {c \in lo .. hi : (c - lo) % Day = 0}

\* The first run of cursors that the series has no candle at.
FirstGap(candles, cursors) ==
    LET from == First(cursors \ candles)
        run == {c \in cursors : from <= c /\ Cursors(from, c) \cap candles = {}}
    IN  <<from, Last(run)>>

PrefixRange(candles, start, end) ==
    LET before == First(candles) - Day
    IN  <<start, IF end = NoTime THEN before ELSE Earlier(end, before)>>

TailRange(candles, start, end) ==
    LET after == Last(candles) + Day
    IN  <<IF start = NoTime THEN after ELSE Later(start, after), end>>

\* The cursors of the part of the request that the series spans.
Covered(candles, start, end) ==
    Cursors(IF start = NoTime THEN First(candles) ELSE Later(start, First(candles)),
            IF end = NoTime THEN Last(candles) ELSE Earlier(end, Last(candles)))

\* Mutant: gaps inside the series are not looked for.
MissingRangeAtEnds(candles, start, end) ==
    IF candles = {} THEN <<start, end>>
    ELSE IF start # NoTime /\ start < First(candles) THEN PrefixRange(candles, start, end)
    ELSE IF end # NoTime /\ end > Last(candles) THEN TailRange(candles, start, end)
    ELSE <<>>

\* One missing range, <<>> when the request is covered.
MissingRange(candles, start, end) ==
    IF candles = {} THEN <<start, end>>
    ELSE IF start # NoTime /\ start < First(candles) THEN PrefixRange(candles, start, end)
    ELSE IF Covered(candles, start, end) \ candles # {}
    THEN FirstGap(candles, Covered(candles, start, end))
    ELSE IF end # NoTime /\ end > Last(candles) THEN TailRange(candles, start, end)
    ELSE <<>>

\* The candle of the day before as_of: the newest that can be closed.
NewestClosed(asOf) == (asOf \div Day) * Day - Day

\* What the router asks the provider for: the missing range, or else the
\* candles after a tail that lags as_of.
ToFetch(candles, r) ==
    LET missing == MissingRange(candles, r.start, r.end)
    IN  IF missing # <<>> THEN missing
        ELSE IF Last(candles) < NewestClosed(r.asOf) THEN <<Last(candles) + Day, NoTime>>
        ELSE <<>>

-----------------------------------------------------------------------------
(* The provider, and what is done with its answer.                         *)

\* The candles opened in the range by time t, the open one included.
Klines(range, t) ==
    {c \in Listed : /\ c <= t
                    /\ range[1] = NoTime \/ range[1] <= c
                    /\ range[2] = NoTime \/ c <= range[2]}

ClosedBy(candles, t) == {c \in candles : c + Day <= t}

LatestOnly(old, incoming) == incoming

Completed(candles, t) == ClosedBy(candles, t)

HasCompleted(candles, t) == Completed(candles, t) # {}

Merge(old, incoming) == old \cup incoming

\* Mutant: the content is left to be written later.
FetchedThenManifest == "manifest"

FetchedNext == "content"

-----------------------------------------------------------------------------
(* One review of the series by a session.                                  *)

Idle == OpenAt(0, "CACHE_ONLY")

NoAnswer == [request |-> Idle, from |-> "NONE", values |-> {}]

\* The values derived from the candles closed by as_of; there are none without.
Answer(r, from, candles) ==
    answer' = IF ClosedBy(candles, r.asOf) = {} THEN NoAnswer
              ELSE [request |-> r, from |-> from, values |-> ClosedBy(candles, r.asOf)]

\* A session that is in no review holds nothing.
Finish(s) ==
    /\ pc' = [pc EXCEPT ![s] = "idle"]
    /\ request' = [request EXCEPT ![s] = Idle]
    /\ series' = [series EXCEPT ![s] = {}]

\* A new manifest overtakes the reviews of the other sessions.
Overtaken(s, t) == overtaken[t] \/ (t # s /\ pc[t] # "idle")

Start(s, r, step) ==
    /\ pc' = [pc EXCEPT ![s] = step]
    /\ request' = [request EXCEPT ![s] = r]

\* The manifest and the content it names are read at once: content is never
\* rewritten.  Corruption is quarantined by a review that may fetch.
LoadCorrupt(s, r) ==
    /\ pc[s] = "idle" /\ now - r.asOf \in Ages
    /\ manifest \in damaged /\ r.mode = "AUTO"
    /\ Start(s, r, "quarantine")
    /\ answer' = NoAnswer
    /\ UNCHANGED <<now, manifest, contents, damaged, series, overtaken>>

LoadIncomplete(s, r) ==
    /\ pc[s] = "idle" /\ now - r.asOf \in Ages
    /\ manifest \notin damaged /\ r.mode = "AUTO" /\ ToFetch(manifest, r) # <<>>
    /\ Start(s, r, "fetch")
    /\ series' = [series EXCEPT ![s] = manifest]
    /\ answer' = NoAnswer
    /\ UNCHANGED <<now, manifest, contents, damaged, overtaken>>

\* CACHE_ONLY takes the series as it is, and fails without one.
LoadAnswers(s, r) ==
    /\ pc[s] = "idle" /\ now - r.asOf \in Ages
    /\ manifest \notin damaged /\ manifest # {}
    /\ r.mode = "CACHE_ONLY" \/ ToFetch(manifest, r) = <<>>
    /\ Answer(r, "CACHE", manifest)
    /\ UNCHANGED <<now, manifest, contents, damaged, pc, request, series, overtaken>>

\* quarantine_series moves away whatever manifest is there now.
Quarantine(s) ==
    /\ pc[s] = "quarantine"
    /\ manifest' = {}
    /\ IF manifest = {} THEN UNCHANGED overtaken
       ELSE overtaken' = [t \in Session |-> Overtaken(s, t)]
    /\ pc' = [pc EXCEPT ![s] = "fetch"]
    /\ answer' = NoAnswer
    /\ UNCHANGED <<now, contents, damaged, request, series>>

\* The provider answers with completed candles.  An answer without any, like a
\* refusal or a candle that contradicts the series, is GiveUp.
Fetch(s) ==
    LET klines == Klines(ToFetch(series[s], request[s]), now)
    IN  /\ pc[s] = "fetch"
        /\ HasCompleted(klines, now)
        /\ series' = [series EXCEPT ![s] = Merge(series[s], Completed(klines, now))]
        /\ pc' = [pc EXCEPT ![s] = FetchedNext]
        /\ answer' = NoAnswer
        /\ UNCHANGED <<now, manifest, contents, damaged, request, overtaken>>

\* cache_ohlcv refuses content whose file exists and cannot be read: GiveUp.
StoreContent(s) ==
    /\ pc[s] = "content"
    /\ series[s] \notin damaged
    /\ Cardinality(contents \cup {series[s]}) <= MaxContents
    /\ contents' = contents \cup {series[s]}
    /\ pc' = [pc EXCEPT ![s] = "manifest"]
    /\ answer' = NoAnswer
    /\ UNCHANGED <<now, manifest, damaged, request, series, overtaken>>

StoreManifest(s) ==
    /\ pc[s] = "manifest"
    /\ manifest' = series[s]
    /\ overtaken' = [t \in Session |-> t # s /\ Overtaken(s, t)]
    /\ Answer(request[s], "API", series[s])
    /\ Finish(s)
    /\ UNCHANGED <<now, contents, damaged>>

\* The review fails with what it raised, or the session is killed.
GiveUp(s) ==
    /\ pc[s] # "idle"
    /\ Finish(s)
    /\ overtaken' = [overtaken EXCEPT ![s] = FALSE]
    /\ answer' = NoAnswer
    /\ UNCHANGED <<now, manifest, contents, damaged>>

-----------------------------------------------------------------------------
(* The environment.                                                        *)

Damage ==
    /\ Cardinality(damaged) < MaxDamage
    /\ \E c \in contents \ damaged : damaged' = damaged \cup {c}
    /\ answer' = NoAnswer
    /\ UNCHANGED <<now, manifest, contents, pc, request, series, overtaken>>

Tick ==
    /\ now < Horizon
    /\ now' = now + 1
    /\ answer' = NoAnswer
    /\ UNCHANGED <<manifest, contents, damaged, pc, request, series, overtaken>>

Init ==
    /\ now = 0
    /\ manifest = {} /\ contents = {} /\ damaged = {}
    /\ pc = [s \in Session |-> "idle"]
    /\ request = [s \in Session |-> Idle]
    /\ series = [s \in Session |-> {}]
    /\ answer = NoAnswer
    /\ overtaken = [s \in Session |-> FALSE]

Next ==
    \/ \E s \in Session :
          \/ \E r \in Requests : LoadCorrupt(s, r) \/ LoadIncomplete(s, r) \/ LoadAnswers(s, r)
          \/ Quarantine(s) \/ Fetch(s) \/ StoreContent(s) \/ StoreManifest(s) \/ GiveUp(s)
    \/ Damage
    \/ Tick

Spec == Init /\ [][Next]_vars

-----------------------------------------------------------------------------
(* Properties.                                                             *)

Series == SUBSET Listed

\* What _collect_ohlcv holds at each of its steps.
TypeOK ==
    /\ now \in 0 .. Horizon
    /\ manifest \in Series /\ contents \subseteq Series \ {{}} /\ damaged \subseteq contents
    /\ pc \in [Session -> {"idle", "quarantine", "fetch", "content", "manifest"}]
    /\ request \in [Session -> Requests \cup {Idle}]
    /\ series \in [Session -> Series]
    /\ answer \in [request : Requests \cup {Idle}, from : {"NONE", "CACHE", "API"}, values : Series]
    /\ overtaken \in [Session -> BOOLEAN]

\* The content a manifest names was stored first, whatever session was killed
\* between the two writes of store_series.
ManifestResolves == manifest # {} => manifest \in contents

\* data-providers.md:624: incomplete candles are not kept as evidence, and a
\* back-dated review sees nothing that had not closed by its as_of.
NothingUnfinished ==
    /\ ClosedBy(manifest, now) = manifest
    /\ ClosedBy(answer.values, answer.request.asOf) = answer.values

\* A candle leaves the cached series only with damaged content, or when two
\* reviews overlapped: merge_ohlcv_series works on what was loaded.
CandlesAreLostInRaces ==
    [][manifest \ manifest' # {} =>
          \/ manifest \in damaged
          \/ \E s \in Session : pc[s] # pc'[s] /\ overtaken[s]]_vars

\* The closed candles of the exchange that a request spans; an open start
\* begins where the series does.
Spanned(r, from) ==
    {c \in ClosedBy(Listed, r.asOf) :
        /\ IF r.start = NoTime THEN from <= c ELSE r.start <= c
        /\ r.end # NoTime => c <= r.end}

\* An AUTO review is answered from the cache only with every candle it asked for.
CacheAnswersAreComplete ==
    answer.from = "CACHE" /\ answer.request.mode = "AUTO"
        => Spanned(answer.request, First(answer.values)) \subseteq answer.values

\* What holds of the cached series whichever session is killed or overtaken:
\* its manifest names stored content, and nothing unfinished is kept or told.
SeriesInvariant == TypeOK /\ ManifestResolves /\ NothingUnfinished

=============================================================================
