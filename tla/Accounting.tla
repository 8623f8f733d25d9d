----------------------------- MODULE Accounting -----------------------------
(***************************************************************************)
(* Portfolio accounting: snapshots.jsonl and cash-flow-resolutions.jsonl   *)
(* (state/snapshots.py, state/cash_flows.py), the overlay that joins them  *)
(* (engine/cash_flow.py) and the unitized NAV computed from the join       *)
(* (engine/ledger.py), as build_history_context of state/context.py reads  *)
(* them before a review.                                                   *)
(*                                                                         *)
(* Both files are append-only and both appends check what they read before *)
(* they take the lock to write, so several sessions may interleave.  The   *)
(* files are taken to be whole here; JsonlFile and DecisionLedger model    *)
(* torn ones.  A session that is killed never takes its append step.       *)
(***************************************************************************)
EXTENDS Integers, Sequences, FiniteSets

CONSTANTS
    Session,
    Ids,              \* snapshot ids
    Times,            \* snapshot timestamps, ordered integers
    Inputs,           \* [value, status, flow] a persisted snapshot may bring
    Answers,          \* [status, flow] a resolution may bring
    MaxSnapshots,     \* bound on the lines of each file
    MaxResolutions,
    Nothing

Explicit == {"CONFIRMED_NONE", "CONFIRMED_AMOUNT", "BASELINE_RESET"}
FlowStatuses == Explicit \cup {"ASSUMED_NONE", "UNRESOLVED"}

\* Only a CONFIRMED_AMOUNT has a flow; the null of UNRESOLVED is never read.
WellTyped(c) == c.status \in FlowStatuses /\ (c.flow # 0 <=> c.status = "CONFIRMED_AMOUNT")

ASSUME AccountingAssumption ==
    /\ Times \subseteq Int
    /\ \A c \in Inputs : c.value \in Nat /\ c.flow \in Int /\ WellTyped(c)
    /\ \A a \in Answers : a.flow \in Int /\ WellTyped(a) /\ a.status # "ASSUMED_NONE"

VARIABLES
    snapshots,        \* snapshots.jsonl: [id, time, value, status, flow]
    resolutions,      \* cash-flow-resolutions.jsonl: [snapshot, status, flow]
    snapping,         \* of each session: the snapshot it has checked, or Nothing
    resolving         \* of each session: the resolution it has checked, or Nothing

vars == <<snapshots, resolutions, snapping, resolving>>

SnapshotOf(id, time, input) ==
    [id |-> id, time |-> time, value |-> input.value, status |-> input.status, flow |-> input.flow]

SnapshotRecords == {SnapshotOf(id, time, input) : id \in Ids, time \in Times, input \in Inputs}

ResolutionOf(id, answer) == [snapshot |-> id, status |-> answer.status, flow |-> answer.flow]

ResolutionRecords == {ResolutionOf(id, answer) : id \in Ids, answer \in Answers}

Free(s) == snapping[s] = Nothing /\ resolving[s] = Nothing

-----------------------------------------------------------------------------
(* The appends.                                                            *)

DuplicateSnapshot(r) ==
    \E i \in DOMAIN snapshots : snapshots[i].id = r.id \/ [snapshots[i] EXCEPT !.id = r.id] = r

CheckSnapshot(s, r) ==
    /\ Free(s)
    /\ Len(snapshots) < MaxSnapshots
    /\ ~DuplicateSnapshot(r)
    /\ snapping' = [snapping EXCEPT ![s] = r]
    /\ UNCHANGED <<snapshots, resolutions, resolving>>

AppendSnapshot(s) ==
    /\ snapping[s] # Nothing
    /\ snapshots' = Append(snapshots, snapping[s])
    /\ snapping' = [snapping EXCEPT ![s] = Nothing]
    /\ UNCHANGED <<resolutions, resolving>>

\* The check reads the resolutions only: that the snapshot exists, and that
\* its classification may be overridden, is left to every later read.
AlreadyResolved(r) == \E i \in DOMAIN resolutions : resolutions[i].snapshot = r.snapshot

CheckResolution(s, r) ==
    /\ Free(s)
    /\ Len(resolutions) < MaxResolutions
    /\ ~AlreadyResolved(r)
    /\ resolving' = [resolving EXCEPT ![s] = r]
    /\ UNCHANGED <<snapshots, resolutions, snapping>>

AppendResolution(s) ==
    /\ resolving[s] # Nothing
    /\ resolutions' = Append(resolutions, resolving[s])
    /\ resolving' = [resolving EXCEPT ![s] = Nothing]
    /\ UNCHANGED <<snapshots, snapping>>

Init ==
    /\ snapshots = <<>> /\ resolutions = <<>>
    /\ snapping = [s \in Session |-> Nothing]
    /\ resolving = [s \in Session |-> Nothing]

Next == \E s \in Session :
    \/ \E r \in SnapshotRecords : CheckSnapshot(s, r)
    \/ AppendSnapshot(s)
    \/ \E r \in ResolutionRecords : CheckResolution(s, r)
    \/ AppendResolution(s)

Spec == Init /\ [][Next]_vars

-----------------------------------------------------------------------------
(* apply_cash_flow_resolutions.  An ASSUMED_NONE snapshot never carries an *)
(* explicit source: models/portfolio.py refuses it.                        *)

\* Mutant: every classification may be overridden.
OverridableAlways(status) == TRUE

Overridable(status) == status \in {"UNRESOLVED", "ASSUMED_NONE"}

Targets(r) == {i \in DOMAIN snapshots : snapshots[i].id = r.snapshot}

\* A repeated, unknown or forbidden resolution makes the whole overlay raise.
OverlayRaises ==
    \/ \E i, j \in DOMAIN resolutions : i # j /\ resolutions[i].snapshot = resolutions[j].snapshot
    \/ \E i \in DOMAIN resolutions :
          \/ Targets(resolutions[i]) = {}
          \/ \E k \in Targets(resolutions[i]) : ~Overridable(snapshots[k].status)

Effective(i) ==
    LET hits == {j \in DOMAIN resolutions : resolutions[j].snapshot = snapshots[i].id}
    IN  IF hits = {} THEN snapshots[i]
        ELSE LET r == resolutions[CHOOSE j \in hits : TRUE]
             IN  [snapshots[i] EXCEPT !.status = r.status, !.flow = r.flow]

\* _cash_flow_snapshots: by timestamp, then by position in the file.
Earlier(i, j) ==
    snapshots[i].time < snapshots[j].time \/ (snapshots[i].time = snapshots[j].time /\ i < j)

\* How many lines stand before line i in that order.
Position(i) == Cardinality({j \in DOMAIN snapshots : Earlier(j, i)})

Ordered == [k \in DOMAIN snapshots |-> CHOOSE i \in DOMAIN snapshots : Position(i) = k - 1]

History == [k \in DOMAIN Ordered |-> Effective(Ordered[k])]

-----------------------------------------------------------------------------
(* build_nav_history, over the records a .. b of a history.  The numbers   *)
(* are exact fractions <<numerator, denominator>>.                         *)

One == <<1, 1>>
Times2(x, y) == <<x[1] * y[1], x[2] * y[2]>>
Over(x, y) == <<x[1] * y[2], x[2] * y[1]>>
Plus(x, y) == <<x[1] * y[2] + y[1] * x[2], x[2] * y[2]>>
Less(x, y) == x[1] * y[2] < y[1] * x[2]
Same(x, y) == x[1] * y[2] = y[1] * x[2]

BuildRaises(h, a, b) ==
    \/ \E k \in a + 1 .. b : h[k].time <= h[k - 1].time
    \/ h[a].value <= 0 \/ h[a].flow # 0
    \/ \E k \in a + 1 .. b :
          \/ h[k].status = "UNRESOLVED"
          \/ h[k].status # "BASELINE_RESET" /\ (h[k].value - h[k].flow <= 0 \/ h[k].value <= 0)
          \/ h[k - 1].status = "BASELINE_RESET" /\ h[k - 1].value = 0

Baseline(r) == [units |-> <<r.value, 1>>, nav |-> One, peak |-> One, drawdown |-> One, worst |-> One]

\* Mutant: the flow is turned into units at the NAV of after it.
ValuedAfterFlow(s, r) ==
    LET units == Plus(s.units, Over(<<r.flow, 1>>, Over(<<r.value, 1>>, s.units)))
        nav == Over(<<r.value, 1>>, units)
        peak == IF Less(s.peak, nav) THEN nav ELSE s.peak
        drawdown == Over(nav, peak)
    IN  [units |-> units, nav |-> nav, peak |-> peak, drawdown |-> drawdown,
         worst |-> IF Less(drawdown, s.worst) THEN drawdown ELSE s.worst]

\* One snapshot: the flow comes first, at the NAV it finds.  A drawdown d is
\* kept as d + 1, the ratio of the NAV to its peak.
Valued(s, r) ==
    LET preFlowNav == Over(<<r.value - r.flow, 1>>, s.units)
        units == Plus(s.units, Over(<<r.flow, 1>>, preFlowNav))
        nav == Over(<<r.value, 1>>, units)
        peak == IF Less(s.peak, nav) THEN nav ELSE s.peak
        drawdown == Over(nav, peak)
    IN  [units |-> units, nav |-> nav, peak |-> peak, drawdown |-> drawdown,
         worst |-> IF Less(drawdown, s.worst) THEN drawdown ELSE s.worst]

NavHistory(h, a, b) ==
    LET states[k \in a .. b] ==
            IF k = a \/ h[k].status = "BASELINE_RESET" THEN Baseline(h[k])
            ELSE Valued(states[k - 1], h[k])
    IN  states

-----------------------------------------------------------------------------
(* build_nav_history_result: a BASELINE_RESET starts a segment, and only   *)
(* the last segment is current; in a segment, what follows an UNRESOLVED   *)
(* record is not valued.                                                   *)

Starts(h) == {1} \cup {k \in 2 .. Len(h) : h[k].status = "BASELINE_RESET"}

CurrentStart(h) == CHOOSE k \in Starts(h) : \A j \in Starts(h) : j <= k

SegmentEnd(h, a) == IF a = CurrentStart(h) THEN Len(h) ELSE (CHOOSE k \in Starts(h) :
                        k > a /\ \A j \in Starts(h) : j > a => k <= j) - 1

Gaps(h, a) == {k \in a .. SegmentEnd(h, a) : h[k].status = "UNRESOLVED"}

\* Mutant: one unresolved record takes its whole segment with it.
AllOrNothing(h, a) == IF Gaps(h, a) = {} THEN SegmentEnd(h, a) ELSE a - 1

ConfirmedEnd(h, a) ==
    IF Gaps(h, a) = {} THEN SegmentEnd(h, a) ELSE (CHOOSE k \in Gaps(h, a) : \A j \in Gaps(h, a) : k <= j) - 1

NavRaises(h) == \E a \in Starts(h) : a <= ConfirmedEnd(h, a) /\ BuildRaises(h, a, ConfirmedEnd(h, a))

\* Mutant: only the newest record decides.
NavFinalityOfNewest(h) == IF h[Len(h)].status = "UNRESOLVED" THEN "PROVISIONAL" ELSE "FINAL"

NavFinality(h) == IF Gaps(h, CurrentStart(h)) # {} THEN "PROVISIONAL" ELSE "FINAL"

\* external_cash_flow_review: any unresolved record asks for confirmation.
ReviewFinality(h) ==
    IF \E k \in DOMAIN h : h[k].status = "UNRESOLVED" THEN "PROVISIONAL" ELSE "FINAL"

\* nav_return: of the current segment, as the history context reports it, and
\* of all the records in one pass, as cash_flow_adjusted_performance does when
\* none of them is unresolved.
NavReturn(h, a) == LET nav == NavHistory(h, a, Len(h)) IN Over(nav[Len(h)].nav, nav[a].nav)

\* The joined history is readable, and so is every segment of it.
Computable == snapshots # <<>> /\ ~OverlayRaises /\ ~NavRaises(History)

\* The state the ledger gives to line i of snapshots.jsonl, if it is valued.
StateOf(i) ==
    LET h == History
        k == Position(i) + 1
        a == CHOOSE s \in Starts(h) : s <= k /\ \A j \in Starts(h) : j <= s \/ k < j
    IN  IF k <= ConfirmedEnd(h, a) THEN NavHistory(h, a, k)[k].nav ELSE Nothing

-----------------------------------------------------------------------------
(* Properties.                                                             *)

\* The files and what the sessions hold keep their types.
TypeOK ==
    /\ snapshots \in Seq(SnapshotRecords) /\ resolutions \in Seq(ResolutionRecords)
    /\ snapping \in [Session -> SnapshotRecords \cup {Nothing}]
    /\ resolving \in [Session -> ResolutionRecords \cup {Nothing}]

\* The reference: the NAV of a record is the product of the market growths
\* since the baseline, each the value before the record's own flow over the
\* value of the record before it.
TimeWeighted(h, a, b) ==
    LET growth[k \in a .. b] ==
            IF k = a THEN One
            ELSE Times2(growth[k - 1], <<h[k].value - h[k].flow, h[k - 1].value>>)
    IN  growth

\* "Deposits and withdrawals change units and must never be booked as market
\* gains or losses" (USAGE.md:357): in every segment the unit arithmetic gives
\* the time-weighted NAV, the units are worth the portfolio, and both drawdowns
\* are those of the time-weighted NAV against its own past.
FlowsAreNotReturns ==
    Computable =>
        LET h == History IN \A a \in Starts(h) :
            LET b == ConfirmedEnd(h, a)
                nav == NavHistory(h, a, b)
                twr == TimeWeighted(h, a, b)
            IN  \A k \in a .. b :
                  /\ Same(nav[k].nav, twr[k])
                  /\ Same(Times2(nav[k].units, nav[k].nav), <<h[k].value, 1>>)
                  /\ \A j \in a .. k : ~Less(Over(twr[k], twr[j]), nav[k].drawdown)
                  /\ \A i \in a .. k, j \in a .. k :
                        i <= j => ~Less(Over(twr[j], twr[i]), nav[k].worst)
                  /\ \E j \in a .. k : Same(nav[k].drawdown, Over(twr[k], twr[j]))
                  /\ \E i \in a .. k, j \in a .. k : i <= j /\ Same(nav[k].worst, Over(twr[j], twr[i]))

\* Until a baseline is reset, the history context's two answers about
\* finality, computed by different modules, are the same.
FinalityAgrees ==
    Computable /\ Starts(History) = {1} => NavFinality(History) = ReviewFinality(History)

\* When nothing is unresolved, the segmented NAV result and the one-pass
\* performance report the same return, resets included.
ReturnsAgree ==
    Computable /\ ReviewFinality(History) = "FINAL" =>
        LET h == History
        IN  BuildRaises(h, 1, Len(h)) \/ Same(NavReturn(h, CurrentStart(h)), NavReturn(h, 1))

\* A classification the user has made explicit is never silently rewritten:
\* as long as the history can be read, it stays what it was
\* (engine/cash_flow.py:190-192).
ExplicitIsForever ==
    [][\A i \in DOMAIN snapshots :
          ~OverlayRaises /\ ~OverlayRaises' /\ Effective(i).status \in Explicit
              => Effective(i)' = Effective(i)]_vars

\* The timestamps of the records that the append of session s is about.
LateTimes(s) ==
    IF snapping[s] # Nothing THEN {snapping[s].time}
    ELSE {snapshots[k].time : k \in Targets(resolving[s])}

\* No look-ahead: a snapshot or a resolution that arrives late restates the NAV
\* of the records at and after its own timestamp, and of none before it.
LateFactsRestateOnlyLater ==
    [][\A s \in Session :
          /\ <<snapshots, resolutions>>' # <<snapshots, resolutions>>
          /\ snapping'[s] # snapping[s] \/ resolving'[s] # resolving[s]
          /\ Computable /\ Computable'
          => \A i \in DOMAIN snapshots :
                (\A t \in LateTimes(s) : snapshots[i].time < t) => StateOf(i)' = StateOf(i)]_vars

\* What holds of the files and of the NAV computed from them.
AccountingInvariant == TypeOK /\ FlowsAreNotReturns

\* The answers that different modules give about one history agree: finality,
\* until a baseline is reset, and the return of a history with nothing
\* unresolved (engine/ledger.py, state/context.py, engine/cash_flow.py).
ViewsAgree == FinalityAgrees /\ ReturnsAgree

=============================================================================
