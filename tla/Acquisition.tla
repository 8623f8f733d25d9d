----------------------------- MODULE Acquisition -----------------------------
(***************************************************************************)
(* One review's acquisition of evidence (acquisition.py): the local         *)
(* observations that are reused, the requests the router is asked for, the  *)
(* event scans the host or a resolver supplies, the relative returns that   *)
(* are derived, the verdict on each requested metric and the gate before    *)
(* scoring.  A review runs the acquisition as often as it needs, in any     *)
(* fetch mode and for any date up to today.                                 *)
(*                                                                          *)
(* No metric of the bundled registry leaves room for a generic web search   *)
(* (only the event metrics allow it, and these have their scans), so web    *)
(* fallbacks are left out.  Observations have no numbers, so the refusal of  *)
(* a relative return below -100% is left out too.                           *)
(***************************************************************************)
EXTENDS EventScan, Integers, Sequences

CONSTANTS Bitcoin,      \* the asset relative returns are relative to
          Venues,       \* the exchanges returns come from
          Plans,        \* the plans a review may have
          ReviewTypes,  \* the types of the reviews looked at
          Window,       \* the days an observation of each kind stays fresh
          MaxDay,       \* bound of the model: the last day
          MaxRuns,      \* bound of the model: acquisitions
          MaxLag,       \* bound of the model: days a routed return lies behind
          HostScans,    \* the finished scans a host may hand in
          HostAnswers,  \* the answers of sources a host may hand in
          ResolverAnswers,  \* the answers a configured resolver may find
          Horizon,      \* the days a return looks back
          CandleCaches  \* the daily candles a run may find cached

FetchModes == {"AUTO", "CACHE_ONLY", "REFRESH"}
Reviews == {"SNAPSHOT_REVIEW", "FULL_REVIEW", "EVENT_REVIEW"}
Days == 0..MaxDay
Today == MaxDay + 1     \* no as_of: the review is about now
Categories == {"security", "regulatory"}
Kinds == Categories \cup {"liveness", "return", "relative"}
Mutable == Kinds \ {"return"}

ASSUME AcquisitionAssumption ==
    /\ Bitcoin \in Assets
    /\ ReviewTypes \subseteq Reviews
    /\ Plans \subseteq Seq(Assets \X Kinds)
    /\ Window \in [Kinds -> Nat] /\ MaxDay \in Nat /\ MaxRuns \in Nat /\ MaxLag \in Nat
    /\ Horizon \in Nat /\ CandleCaches \subseteq [Assets \X Venues -> SUBSET Int]

\* The registry keeps a return and the relative return made of it as long;
\* the return counts from the end of its candle, the relative return, which
\* has no completed_through, from its beginning.
ASSUME WindowsAgree == Window["return"] = Window["relative"]

\* What a host hands in: scans whose state their events and coverage make, or
\* an answer for every scope.
ASSUME SuppliesAssumption ==
    /\ \A scans \in HostScans :
        /\ DOMAIN scans \subseteq Scopes \X Categories
        /\ \A key \in DOMAIN scans : scans[key] \in Scans /\ Derivable(scans[key])
    /\ HostAnswers \cup ResolverAnswers \subseteq [Scopes -> Answers] \cup {<<>>}

Identities == Assets \X Kinds
Observations == [id : Identities, at : Int, value : {Clear, Material, "VALUE"},
                 source : Venues \cup {"scan", "chain"},
                 full : BOOLEAN, disputed : BOOLEAN]
Statuses == {"SUCCESS", "STALE", "FAILED"}

VARIABLES
    plan,       \* the requested metrics, in order
    review,     \* the type of the review
    today,      \* the current day
    store,      \* the persisted observations
    result,     \* what the last run answered
    runs        \* the runs so far, for the bound

acquisitionVars == <<plan, review, today, store, result, runs>>

NoResult == [ran |-> FALSE]
Supplies == {"nothing", "scans", "answers"}

Scope(id) == IF id[2] = "regulatory" THEN Market ELSE id[1]

(* A relative return needs the returns of its asset and of bitcoin; the     *)
(* model of the plan asks for them too.                                     *)
Inputs(id) == IF id[2] = "relative" /\ id[1] # Bitcoin
              THEN {<<id[1], "return">>, <<Bitcoin, "return">>} ELSE {}
Asked == {plan[i] : i \in DOMAIN plan}
Expanded == Asked \cup UNION {Inputs(id) : id \in Asked}

Critical(id) == \/ id[2] \in {"security", "liveness"}
                \/ id[2] = "regulatory" /\ review = "EVENT_REVIEW"

\* Mutant: a back-dated review reuses whatever is newest.
FreshWhenever(id, cutoff) == {o \in store : o.id = id /\ cutoff <= o.at + Window[id[2]]}

(***************************************************************************)
(* Local observations.                                                      *)
(***************************************************************************)
Fresh(id, cutoff) ==
    {o \in store : o.id = id /\ o.at <= cutoff /\ cutoff - o.at <= Window[id[2]]}

Newest(observations) ==
    CHOOSE o \in observations : \A p \in observations : p.at <= o.at

Reusable(mode, cutoff) ==
    {id \in Expanded : Fresh(id, cutoff) # {} /\ (mode # "REFRESH" \/ id[2] \notin Mutable)}

Compatible(o, p) == o.source = p.source /\ o.at = p.at

(* Two returns that do not belong together are both fetched again.  The     *)
(* relative metrics are looked at in the order of the plan, and all of them *)
(* need the return of bitcoin: so the first one whose returns are missing or *)
(* apart takes its own along and those of every later one.                  *)
Synchronized(ids, cutoff) ==
    LET Latest(id) == Newest(Fresh(id, cutoff))
        Aligned(id) == /\ Inputs(id) \subseteq ids
                       /\ Compatible(Latest(<<id[1], "return">>), Latest(<<Bitcoin, "return">>))
        Apart(i) == Inputs(plan[i]) # {} /\ ~Aligned(plan[i])
    IN ids \ UNION {Inputs(plan[j]) : j \in {j \in DOMAIN plan : \E i \in 1..j : Apart(i)}}

Reused(mode, cutoff) ==
    [id \in Synchronized(Reusable(mode, cutoff), cutoff) |-> Newest(Fresh(id, cutoff))]

(***************************************************************************)
(* What the router may answer: a return of one of its venues, the liveness  *)
(* of a chain unless the review is about an earlier day.                    *)
(***************************************************************************)
RouterObservations(id, cutoff) ==
    [id : {id}, at : IF id[2] = "return" THEN {day \in 0..cutoff : cutoff - day <= MaxLag} ELSE {today},
     value : {"VALUE"}, full : {TRUE}, disputed : {FALSE},
     source : IF id[2] = "return" THEN Venues ELSE {"chain"}]

Historical(id, cutoff) == id[2] = "liveness" /\ cutoff < today

Routable(reused, cutoff) ==
    {id \in Expanded \ DOMAIN reused : id[2] \in {"return", "liveness"} /\ ~Historical(id, cutoff)}

Routings(ids, cutoff) ==
    UNION {{r \in [answered -> UNION {RouterObservations(id, cutoff) : id \in answered}] :
              \A id \in answered : r[id].id = id} : answered \in SUBSET ids}

(***************************************************************************)
(* The relative returns.  For a return it uses or has been routed, a run    *)
(* loads the cached candles of the venue it came from, or else of another   *)
(* one; a series that is missing or unreadable is an empty one here.        *)
(***************************************************************************)
Loaded(known, candles) ==
    LET Until(asset, venue) == {day \in candles[<<asset, venue>>] : day < today}
        Having(asset) == {venue \in Venues : Until(asset, venue) # {}}
        Chosen(id) == CHOOSE venue \in Having(id[1]) :
                          known[id].source \in Having(id[1]) => venue = known[id].source
    IN [id \in {id \in DOMAIN known \cap UNION {Inputs(r) : r \in Expanded} : Having(id[1]) # {}} |->
          [venue |-> Chosen(id), days |-> Until(id[1], Chosen(id))]]

(* The day two returns share: returns of one venue and one day.  They count *)
(* from the end of their candle, what is made of them from its beginning.   *)
OfReturns(mine, base) ==
    IF Compatible(mine, base) THEN {[venue |-> base.source, day |-> base.at - 1]} ELSE {}

(* The day two series share: the newest that is complete in both, if both   *)
(* reach back over the horizon without a gap (derive_aligned_relative_return). *)
OfCandles(mine, base, cutoff) ==
    LET common == {day \in mine.days \cap base.days : day < cutoff}
    IN {[venue |-> base.venue, day |-> day] :
          day \in {d \in common : /\ mine.venue = base.venue
                                  /\ \A other \in common : other <= d
                                  /\ (d - Horizon)..d \subseteq mine.days \cap base.days}}

\* Mutant: a series that is missing is made up for by the returns.
CohortWithoutSeries(id, known, loaded, cutoff) ==
    LET mine == <<id[1], "return">>
        base == <<Bitcoin, "return">>
    IN IF {mine, base} \subseteq DOMAIN loaded THEN OfCandles(loaded[mine], loaded[base], cutoff)
       ELSE IF {mine, base} \subseteq DOMAIN known THEN OfReturns(known[mine], known[base])
       ELSE {}

(* One series is not enough, and while there is one the returns do not      *)
(* count.                                                                   *)
Cohort(id, known, loaded, cutoff) ==
    LET mine == <<id[1], "return">>
        base == <<Bitcoin, "return">>
    IN IF {mine, base} \subseteq DOMAIN loaded THEN OfCandles(loaded[mine], loaded[base], cutoff)
       ELSE IF {mine, base} \subseteq DOMAIN known \ DOMAIN loaded THEN OfReturns(known[mine], known[base])
       ELSE {}

Derived(known, loaded, cutoff) ==
    LET Of(id) == Cohort(id, known, loaded, cutoff)
    IN [id \in {id \in Expanded : Inputs(id) # {} /\ Of(id) # {}} |->
          LET cohort == CHOOSE c \in Of(id) : TRUE
          IN [id |-> id, at |-> cohort.day, value |-> "VALUE", source |-> cohort.venue,
              full |-> TRUE, disputed |-> FALSE]]

(***************************************************************************)
(* Event scans.  "handed" are finished scans from the host, "answers" the   *)
(* responses it brings back, "fetched" those of a configured resolver.      *)
(***************************************************************************)
Missing(category, reused, handed) ==
    {asset \in Assets : /\ <<asset, category>> \in Expanded \ DOMAIN reused
                        /\ <<asset, category>> \notin DOMAIN handed}

SharedScans(assets, handed) ==
    IF <<Market, "regulatory">> \in DOMAIN handed
    THEN Over([id \in assets \X {"regulatory"} |-> MapTo(id[1], handed[<<Market, "regulatory">>])],
              handed)
    ELSE handed

Scanned(day, answers, security, regulatory) ==
    [id \in {<<a, "security">> : a \in {a \in security : CanBuild(a, answers[a])}}
            \cup (IF CanBuild(Market, answers[Market]) THEN regulatory \X {"regulatory"} ELSE {}) |->
        IF id[2] = "security" THEN Build(id[1], day, answers[id[1]])
        ELSE MapTo(id[1], Build(Market, day, answers[Market]))]

EventScans(mode, day, reused, handed, answers, fetched) ==
    LET security == Missing("security", reused, handed)
        regulatory == Missing("regulatory", reused, handed)
        shared == SharedScans(regulatory, handed)
        open == IF regulatory \X {"regulatory"} \subseteq DOMAIN shared THEN {} ELSE regulatory
        answered == IF answers = <<>> THEN shared
                    ELSE Over(Scanned(day, answers, security, open), shared)
    IN IF fetched = <<>> \/ mode = "CACHE_ONLY" THEN answered
       ELSE Over(Scanned(day, fetched, security, regulatory), answered)

(* The scopes whose sources the host is asked to read.                      *)
ScanRequests(mode, reused, handed, scans) ==
    IF mode = "CACHE_ONLY" THEN {}
    ELSE {a \in Missing("security", reused, handed) :
            <<a, "security">> \notin DOMAIN scans /\ Catalog[a] # {}}
         \cup {m \in {Market} : \E a \in Missing("regulatory", reused, handed) :
                 <<a, "regulatory">> \notin DOMAIN scans}

(* A scan that covers its sources, and is not dated after now, is evidence. *)
EventEvidence(scans) ==
    [id \in {id \in DOMAIN scans \cap Expanded : Status(scans[id]) # Insufficient /\ scans[id].at <= today} |->
        [id |-> id, at |-> scans[id].at, value |-> Status(scans[id]), source |-> "scan",
         full |-> scans[id].full, disputed |-> scans[id].disputed]]

(***************************************************************************)
(* The verdict on each requested metric and the gate.                       *)
(***************************************************************************)
Verdict(o, cutoff, dated) ==
    IF ~dated \/ (o.at <= cutoff /\ cutoff - o.at <= Window[o.id[2]]) THEN "SUCCESS"
    ELSE IF o.at > cutoff THEN "FAILED" ELSE "STALE"

Known(id, cutoff, dated) ==
    \E o \in store : o.id = id /\ (id[2] = "liveness" /\ dated => o.at <= cutoff)

StatusOf(id, reused, found, cutoff, dated) ==
    IF id \in DOMAIN reused THEN "SUCCESS"
    ELSE IF id \in DOMAIN found THEN Verdict(found[id], cutoff, dated)
    ELSE IF Known(id, cutoff, dated) THEN "STALE" ELSE "FAILED"

\* Mutant: a scan that reached too few of its sources settles its group.
UnresolvedUnlessScanned(status, pending, scans) ==
    LET done == {<<Scope(id), id[2]>> : id \in DOMAIN scans}
    IN {id \in Asked : /\ Critical(id)
                       /\ \/ id[2] = "liveness" /\ status[id] # "SUCCESS"
                          \/ id[2] \in Categories
                             /\ \/ Scope(id) \in pending
                                \/ <<Scope(id), id[2]>> \notin done /\ status[id] # "SUCCESS"}

(* Regulatory scans count for the market as a whole.                        *)
Unresolved(status, pending, scans) ==
    LET done == {<<Scope(id), id[2]>> : id \in {i \in DOMAIN scans : Status(scans[i]) # Insufficient}}
    IN {id \in Asked : /\ Critical(id)
                       /\ \/ id[2] = "liveness" /\ status[id] # "SUCCESS"
                          \/ id[2] \in Categories
                             /\ \/ Scope(id) \in pending
                                \/ <<Scope(id), id[2]>> \notin done /\ status[id] # "SUCCESS"}

Ready == result.ran /\ result.pending = {} /\ result.unresolved = {}

Run(mode, asOf, handed, answers, fetched, candles) ==
    LET dated == asOf # Today
        cutoff == IF dated THEN asOf ELSE today
    IN /\ runs < MaxRuns /\ (dated => asOf <= today)
       /\ \E reused \in {Reused(mode, cutoff)} :
          \E routed \in Routings(Routable(reused, cutoff), cutoff) :
          \E loaded \in {Loaded(Over(reused, routed), candles)} :
          \E derived \in {Derived(Over(reused, routed), loaded, cutoff)} :
          \E scans \in {EventScans(mode, cutoff, reused, handed, answers, fetched)} :
          \E found \in {Over(EventEvidence(scans), Over(derived, routed))} :
          \E status \in {[id \in Asked |-> StatusOf(id, reused, found, cutoff, dated)]} :
          \E pending \in {ScanRequests(mode, reused, handed, scans)} :
             LET evidence == [id \in {i \in Asked : status[i] = "SUCCESS"} |-> Over(reused, found)[id]]
             IN /\ result' = [ran |-> TRUE, asOf |-> cutoff, dated |-> dated,
                              supply |-> IF handed # <<>> THEN "scans"
                                         ELSE IF answers # <<>> THEN "answers" ELSE "nothing",
                              pending |-> pending, loaded |-> loaded,
                              evidence |-> evidence, status |-> status,
                              unresolved |-> Unresolved(status, pending, scans)]
                /\ store' = store \cup {evidence[id] : id \in DOMAIN evidence}
    /\ runs' = runs + 1
    /\ UNCHANGED <<plan, review, today>>

NextDay ==
    /\ today < MaxDay
    /\ today' = today + 1
    /\ UNCHANGED <<plan, review, store, result, runs>>

InitAcquisition ==
    /\ plan \in Plans /\ review \in ReviewTypes
    /\ today = 0 /\ store = {} /\ result = NoResult /\ runs = 0

(* Scans are handed in where events are asked for.                          *)
Offered(supplies) ==
    {s \in supplies : s = <<>> \/ \E id \in Asked : id[2] \in Categories}

(* The cached candles matter where relative returns are asked for.          *)
Cached == IF \E id \in Asked : Inputs(id) # {} THEN CandleCaches ELSE {[key \in Assets \X Venues |-> {}]}

RunAny(mode, asOf) ==
    \E fetched \in Offered(ResolverAnswers), candles \in Cached :
        \/ \E handed \in Offered(HostScans) : Run(mode, asOf, handed, <<>>, fetched, candles)
        \/ \E answers \in Offered(HostAnswers) \ {<<>>} : Run(mode, asOf, <<>>, answers, fetched, candles)

NextAcquisition ==
    \/ \E mode \in FetchModes, asOf \in Days \cup {Today} : RunAny(mode, asOf)
    \/ NextDay

AcquisitionSpec == InitAcquisition /\ [][NextAcquisition]_acquisitionVars

(***************************************************************************)
(* Properties.                                                              *)
(***************************************************************************)

(* Observations and results are well formed; a metric has evidence in a     *)
(* result exactly where its verdict is SUCCESS.                             *)
AcquisitionTypeOK ==
    /\ today \in Days /\ runs \in 0..MaxRuns /\ plan \in Plans /\ review \in ReviewTypes
    /\ store \subseteq Observations
    /\ result.ran =>
        /\ result.asOf \in Days /\ result.supply \in Supplies
        /\ DOMAIN result.status = Asked /\ result.unresolved \subseteq Asked
        /\ \A id \in Asked : (result.status[id] = "SUCCESS") = (id \in DOMAIN result.evidence)
        /\ \A id \in DOMAIN result.evidence : result.evidence[id].id = id

(* The shared regulatory scan missed some of its sources and found an event  *)
(* of this asset.                                                           *)
PartlyRead(id) ==
    /\ id[2] = "regulatory" /\ id \in DOMAIN result.evidence
    /\ result.evidence[id].value = Material /\ ~result.evidence[id].full

(* A review that is cleared for scoring has evidence for every metric that  *)
(* is critical to it, unless the host handed in finished scans              *)
(* (AcquisitionResult.ready_for_scoring).  The scan of regulation is shared: *)
(* an event it found of one asset settles it for the others, whatever it    *)
(* did not read.                                                            *)
ReadyMeansEvidence ==
    Ready /\ result.supply # "scans" =>
        \A id \in Asked : Critical(id) =>
            \/ result.status[id] = "SUCCESS"
            \/ id[2] = "regulatory" /\ \E other \in Asked : PartlyRead(other)

(* Whatever was shared, reused or handed in since: no metric says that      *)
(* nothing is known unless every group of its sources was read, and a       *)
(* security metric does not say so where its sources disagreed.             *)
ClearWasSeen ==
    \A o \in store : o.value = Clear => o.full /\ (o.id[2] = "security" => ~o.disputed)

(* A back-dated review sees nothing later than its date and nothing that    *)
(* had expired by then.                                                     *)
NothingFromTheFuture ==
    result.ran /\ result.dated =>
        \A id \in DOMAIN result.evidence :
            LET o == result.evidence[id] IN o.at <= result.asOf /\ result.asOf - o.at <= Window[id[2]]

(* A new relative return is of one cohort: of two series of one venue that  *)
(* both cover its horizon, up to the newest day complete in both by the date *)
(* of the review; or, where no candles are cached for either return, of the *)
(* two returns the same result reports, of one venue and one candle.        *)
IsOfOneCohort(o, outcome) ==
    LET inputs == Inputs(o.id)
        Covers(series) == series.venue = o.source /\ (o.at - Horizon)..o.at \subseteq series.days
    IN \/ /\ inputs \subseteq DOMAIN outcome.loaded
          /\ \A input \in inputs : Covers(outcome.loaded[input])
          /\ \A day \in outcome.loaded[<<Bitcoin, "return">>].days :
                day \in outcome.loaded[<<o.id[1], "return">>].days /\ day < outcome.asOf => day <= o.at
       \/ /\ inputs \cap DOMAIN outcome.loaded = {}
          /\ inputs \cap Asked \subseteq DOMAIN outcome.evidence
          /\ \A input \in inputs \cap Asked :
                outcome.evidence[input].source = o.source /\ outcome.evidence[input].at = o.at + 1

OneCohort ==
    [][\A o \in store' \ store : Inputs(o.id) # {} => IsOfOneCohort(o, result')]_acquisitionVars

\* What holds of every result and of the observations it leaves behind.
AcquisitionInvariant == AcquisitionTypeOK /\ NothingFromTheFuture

=============================================================================
