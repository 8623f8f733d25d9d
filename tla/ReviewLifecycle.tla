--------------------------- MODULE ReviewLifecycle ---------------------------
(***************************************************************************)
(* What state/review.py makes of the plans of earlier reviews, against     *)
(* what happens on the exchange meanwhile.  finalize_review sees a         *)
(* snapshot, the trades and the order book as they were when each was      *)
(* fetched, and answers with an instruction for the orders that still      *)
(* rest; the user acts on it by hand, later, or not at all.                *)
(*                                                                         *)
(* One asset.  Time is counted in snapshots: epoch k lies between snapshot *)
(* k and snapshot k + 1, review k is based on snapshot k and takes its     *)
(* decision within epoch k.  Amounts are whole units of the asset, prices  *)
(* are zones; the two tolerances of _zones_match and match_plan_resting_   *)
(* orders are left out.                                                    *)
(***************************************************************************)
EXTENDS Integers, Sequences, FiniteSets, SequencesExt, Sums

CONSTANTS
    Zones,
    Plans,            \* executable plans: [action, amount] with an amount for each zone
    MaxReviews,       \* bound: reviews
    MaxTrades,        \* bound: trades
    MaxTransfers,     \* bound: units deposited or withdrawn
    None

Sides == {"BUY", "SELL"}

\* _EXECUTABLE_PLAN_ACTIONS
ExecutableActions == {"INCREASE", "REDUCE", "EXIT"}

Statuses == {"PENDING", "CONFIRMED", "NOT_EXECUTED"}
Evidence == {"records", "delta", "status"}
Instructions == {"NOTHING_RESTING", "KEEP_EQUIVALENT_ORDERS", "CANCEL_RESTING", "REPLACE_WITH_NEW_PLAN"}

\* Units of the asset, by side and zone.
Units == [Sides \X Zones -> Nat]

ASSUME BoundsAssumption ==
    /\ IsFiniteSet(Zones) /\ None \notin Nat \cup Instructions
    /\ {MaxReviews, MaxTrades, MaxTransfers} \subseteq Nat

ASSUME PlansAssumption ==
    \A plan \in Plans :
        /\ plan.action \in ExecutableActions
        /\ plan.amount \in [Zones -> Nat]
        /\ \E z \in Zones : plan.amount[z] > 0

NoAmount == [z \in Zones |-> 0]

\* A decision without a plan for the asset, or with one that waits.
Absent == [action |-> "NONE", amount |-> NoAmount]
Waiting == [action |-> "WAIT", amount |-> NoAmount]

AllPlans == Plans \cup {Absent, Waiting}

VARIABLES
    stage,            \* "open", "snapped" or "decided"
    held,             \* quantity of each snapshot
    flow,             \* whether each snapshot carries an external flow
    decisions,        \* [plan, status] of each review
    fills,            \* units traded in each epoch, by side and zone
    quantity,         \* quantity on the exchange
    orders,           \* units resting, by side and zone
    transfers,        \* units deposited or withdrawn so far
    advice,           \* the instruction of the newest review, and the plan it is about
    proposed,         \* superseded_status_events_to_append of the newest review
    causes            \* history: what may have led the disposition astray

lifecycleVars == <<stage, held, flow, decisions, fills, quantity, orders, transfers,
                   advice, proposed, causes>>

exchange == <<quantity, orders, fills>>

\* A trade was not of the plan whose window it falls in; an instruction was not
\* followed; orders were kept that are larger than the plan they are kept for.
Causes == {"foreign_trade", "ignored", "larger_orders"}
Because(cause, condition) == causes' = IF condition THEN causes \cup {cause} ELSE causes

Executable(plan) == plan.action \in ExecutableActions
SideOf(plan) == IF plan.action = "INCREASE" THEN "BUY" ELSE "SELL"
NoTrades == [x \in Sides \X Zones |-> 0]
Traded(trades) == \E x \in Sides \X Zones : trades[x] > 0

-----------------------------------------------------------------------------
(* prior_plan_disposition.                                                 *)

\* latest_plan_by_symbol: the newest earlier decision with an executable plan.
PriorOf(history) ==
    LET found == {i \in DOMAIN history : Executable(history[i].plan)}
    IN  IF found = {} THEN None ELSE Max(found)

\* _attribution_window: (snapshot of the prior, snapshot of the current], as epochs.
Window(prior, current) == prior .. current - 1

\* _fills_attribution: in-window trades of the plan's side, zone by zone.
Matched(plan, prior, current) ==
    [z \in Zones |-> Total([e \in Window(prior, current) |-> fills[e][SideOf(plan), z]])]

\* What the snapshots show of the plan, and _external_flow_between them.
Delta(plan, prior, current) ==
    IF plan.action = "INCREASE" THEN held[current] - held[prior] ELSE held[prior] - held[current]
FlowBetween(prior, current) == \E k \in prior + 1 .. current : flow[k]

Attribution(evidence, plan, status, prior, current) ==
    LET filled == Total([z \in Zones |-> IF plan.amount[z] > 0 THEN Matched(plan, prior, current)[z] ELSE 0])
        moved == Delta(plan, prior, current) # 0
    IN  CASE evidence = "records" ->
                IF status = "NOT_EXECUTED" /\ filled > 0 THEN "STATUS_EVENT_CONFLICT"
                ELSE "EXCHANGE_TRADE_RECORDS"
          [] evidence = "delta" ->
                IF \/ status = "NOT_EXECUTED" /\ moved
                   \/ status = "CONFIRMED" /\ ~moved
                THEN "STATUS_EVENT_CONFLICT"
                ELSE IF FlowBetween(prior, current) THEN "UNRESOLVED_EXTERNAL_FLOW"
                ELSE "EXCHANGE_QUANTITY_DELTA"
          [] OTHER -> "STATUS_EVENT_ONLY"

\* Mutant: a quantity delta is believed whatever flows lie between.
RestsByDelta(evidence, plan, status, prior, current) ==
    IF evidence = "records"
    THEN \E z \in Zones : Matched(plan, prior, current)[z] < plan.amount[z]
    ELSE evidence = "delta" => Delta(plan, prior, current) < Total(plan.amount)

\* Some tranche is UNFILLED, PARTIAL or UNKNOWN.
Rests(evidence, plan, status, prior, current) ==
    IF evidence = "records"
    THEN \E z \in Zones : Matched(plan, prior, current)[z] < plan.amount[z]
    ELSE Attribution(evidence, plan, status, prior, current) = "EXCHANGE_QUANTITY_DELTA"
            => Delta(plan, prior, current) < Total(plan.amount)

\* match_plan_resting_orders against the current plan: some tranche is covered.
Covered(plan) == \E z \in Zones : plan.amount[z] > 0 /\ orders[SideOf(plan), z] > 0

\* Mutant: the tranches are compared pairwise, without their number.
ZonesMatchPairwise(old, new) == \A z \in Zones : new.amount[z] > 0 => old.amount[z] > 0

\* _zones_match compares the prices of the tranches, never their amounts.
ZonesMatch(old, new) == \A z \in Zones : (old.amount[z] > 0) <=> (new.amount[z] > 0)

Instruction(rests, book, old, status, new) ==
    CASE ~rests -> "NOTHING_RESTING"
      [] rests /\ book /\ Executable(new) /\ Covered(new) -> "KEEP_EQUIVALENT_ORDERS"
      [] OTHER -> IF status = "NOT_EXECUTED" \/ ~Executable(new) THEN "CANCEL_RESTING"
                  ELSE IF new.action # old.action \/ ~ZonesMatch(old, new) THEN "REPLACE_WITH_NEW_PLAN"
                  ELSE "KEEP_EQUIVALENT_ORDERS"

NoAdvice == [instruction |-> None, book |-> FALSE, old |-> Absent]

Disposition(evidence, book, new) ==
    LET current == Len(held)
        prior == PriorOf(decisions)
    IN  IF prior = None THEN NoAdvice
        ELSE LET old == decisions[prior].plan
                 status == decisions[prior].status
             IN  [instruction |-> Instruction(Rests(evidence, old, status, prior, current), book, old, status, new),
                  book |-> book, old |-> old]

\* Mutant: only the newest earlier decision is closed.
SupersededNewest(history, new) ==
    {i \in {Len(history)} \cap DOMAIN history :
        history[i].status = "PENDING" /\ history[i].plan # Absent /\ new # Absent}

\* superseded_status_events: every pending decision that planned the same asset.
Superseded(history, new) ==
    {i \in DOMAIN history : history[i].status = "PENDING" /\ history[i].plan # Absent /\ new # Absent}

-----------------------------------------------------------------------------
(* The review and its surroundings.                                        *)

LifecycleInit ==
    /\ stage = "open"
    /\ held = <<>> /\ flow = <<>> /\ decisions = <<>> /\ fills = <<>>
    /\ quantity = 0
    /\ orders = NoTrades
    /\ transfers = 0
    /\ advice = NoAdvice /\ proposed = {}
    /\ causes = {}

\* append_snapshot of the quantity as it is now; what was deposited since the
\* last one, or withdrawn, is recorded as its external flow.
Snapshot(deposited) ==
    /\ stage = "open"
    /\ Len(held) < MaxReviews
    /\ transfers' = transfers + (IF deposited < 0 THEN -deposited ELSE deposited)
    /\ transfers' <= MaxTransfers
    /\ held = <<>> => deposited = 0
    /\ quantity' = quantity + deposited
    /\ held' = Append(held, quantity')
    /\ flow' = Append(flow, deposited # 0)
    /\ fills' = Append(fills, NoTrades)
    /\ stage' = "snapped"
    /\ UNCHANGED <<decisions, orders, advice, proposed, causes>>

\* finalize_review with persist: the disposition from what was fetched, then
\* the decision, appended as PENDING.  Trades since the snapshot lie in the
\* window of the new plan.
Finalize(new, evidence, book) ==
    /\ stage = "snapped"
    /\ advice' = Disposition(evidence, book, new)
    /\ proposed' = Superseded(decisions, new)
    /\ decisions' = Append(decisions, [plan |-> new, status |-> "PENDING"])
    /\ Because("foreign_trade", Executable(new) /\ Traded(Last(fills)))
    /\ stage' = "decided"
    /\ UNCHANGED <<held, flow, exchange, transfers>>

ClosedAs == "NOT_EXECUTED"

\* The host appends the proposed status events, all of them or, killed before
\* the end, some.
CloseSuperseded(closed) ==
    /\ stage = "decided"
    /\ proposed # {}
    /\ closed \subseteq proposed
    /\ decisions' = [i \in DOMAIN decisions |->
                        IF i \in closed THEN [decisions[i] EXCEPT !.status = ClosedAs] ELSE decisions[i]]
    /\ proposed' = proposed \ closed
    /\ UNCHANGED <<stage, held, flow, exchange, transfers, advice, causes>>

\* append_status_event of the user: a pending decision was, or was not, executed.
Report(i, status) ==
    /\ stage = "open"
    /\ decisions[i].status = "PENDING"
    /\ decisions' = [decisions EXCEPT ![i].status = status]
    /\ UNCHANGED <<stage, held, flow, exchange, transfers, advice, proposed, causes>>

Without(resting, plan) ==
    [x \in Sides \X Zones |-> IF x[1] = SideOf(plan) /\ plan.amount[x[2]] > 0 THEN 0 ELSE resting[x]]

\* The orders of a plan are placed, on top of what still rests of it.
With(resting, plan) ==
    [x \in Sides \X Zones |->
        IF Executable(plan) /\ x[1] = SideOf(plan) /\ plan.amount[x[2]] > resting[x]
        THEN plan.amount[x[2]] ELSE resting[x]]

\* Outside every zone of the plan: what the report asks to cancel as stale.
WithoutStale(resting, plan) ==
    [x \in Sides \X Zones |-> IF x[1] = SideOf(plan) /\ plan.amount[x[2]] > 0 THEN resting[x] ELSE 0]

\* The user follows the instruction of the report.
Follow ==
    LET new == Last(decisions).plan
        kept == CASE advice.instruction \in {"CANCEL_RESTING", "REPLACE_WITH_NEW_PLAN"} -> Without(orders, advice.old)
                  [] advice.instruction = "KEEP_EQUIVALENT_ORDERS" /\ advice.book -> WithoutStale(orders, new)
                  [] OTHER -> orders
    IN  /\ stage = "decided"
        /\ orders' = With(kept, new)
        /\ stage' = "open"
        /\ advice' = NoAdvice
        /\ Because("larger_orders", \E x \in Sides \X Zones :
                /\ Executable(new) /\ x[1] = SideOf(new)
                /\ new.amount[x[2]] > 0 /\ kept[x] > new.amount[x[2]])
        /\ UNCHANGED <<held, flow, decisions, fills, quantity, transfers, proposed>>

\* The report is never acted on: the host dies after the append, or the user is away.
Ignore ==
    /\ stage = "decided"
    /\ stage' = "open"
    /\ advice' = NoAdvice
    /\ Because("ignored", TRUE)
    /\ UNCHANGED <<held, flow, decisions, exchange, transfers, proposed>>

TradesSoFar == Total([e \in DOMAIN fills |-> Total(fills[e])])

UnitTraded(x) ==
    /\ fills # <<>> /\ TradesSoFar < MaxTrades
    /\ fills' = [fills EXCEPT ![Len(fills)][x] = @ + 1]
    /\ quantity' = quantity + (IF x[1] = "BUY" THEN 1 ELSE -1)
    /\ UNCHANGED <<stage, held, flow, decisions, transfers, advice, proposed>>

\* One unit of a resting order is executed, at any time.
Fill(x) ==
    /\ orders[x] > 0
    /\ orders' = [orders EXCEPT ![x] = @ - 1]
    /\ Because("foreign_trade", stage = "decided" /\ Executable(Last(decisions).plan))
    /\ UnitTraded(x)

\* The user trades by hand, beside every plan.
TradeByHand(x) ==
    /\ Because("foreign_trade", TRUE)
    /\ UNCHANGED orders
    /\ UnitTraded(x)

LifecycleNext ==
    \/ \E deposited \in -MaxTransfers .. MaxTransfers : Snapshot(deposited)
    \/ \E new \in AllPlans, evidence \in Evidence, book \in BOOLEAN : Finalize(new, evidence, book)
    \/ \E closed \in SUBSET proposed : CloseSuperseded(closed)
    \/ \E i \in DOMAIN decisions, status \in Statuses \ {"PENDING"} : Report(i, status)
    \/ Follow
    \/ Ignore
    \/ \E x \in Sides \X Zones : Fill(x) \/ TradeByHand(x)

LifecycleSpec == LifecycleInit /\ [][LifecycleNext]_lifecycleVars

-----------------------------------------------------------------------------
(* Properties.                                                             *)

\* Every record keeps its type, and snapshots, epochs and decisions stay in step.
LifecycleTypeOK ==
    /\ stage \in {"open", "snapped", "decided"}
    /\ held \in Seq(Int) /\ flow \in Seq(BOOLEAN) /\ fills \in Seq(Units)
    /\ decisions \in Seq([plan : AllPlans, status : Statuses])
    /\ Len(flow) = Len(held) /\ Len(fills) = Len(held)
    /\ stage # "open" => held # <<>>
    /\ Len(decisions) = IF stage = "snapped" THEN Len(held) - 1 ELSE Len(held)
    /\ quantity \in Int /\ orders \in Units /\ transfers \in Nat
    /\ advice \in [instruction : Instructions \cup {None}, book : BOOLEAN, old : AllPlans]
    /\ proposed \subseteq DOMAIN decisions
    /\ causes \subseteq Causes

\* NOTHING_RESTING is true: when a report says so, no order of the plan rests,
\* whatever evidence it was read from, unless a trade from outside the plan was
\* made before (a fill between a decision and the user's action on it is one),
\* a report was not followed, or the user kept larger orders than the plan's.
NothingRestingIsTrue ==
    [][stage = "snapped" /\ stage' = "decided" /\ causes = {}
        /\ advice'.instruction = "NOTHING_RESTING"
        => \A z \in Zones : advice'.old.amount[z] > 0 => orders[SideOf(advice'.old), z] = 0]_lifecycleVars

\* Whoever follows the instructions has no order on the book that the newest
\* decision does not plan, on its side and in its zones; an order goes astray
\* only by one of the causes.
NoOrderGoesAstray ==
    stage = "open" /\ causes = {} =>
        \A x \in Sides \X Zones : orders[x] > 0 =>
            LET plan == Last(decisions).plan
            IN  Executable(plan) /\ x[1] = SideOf(plan) /\ plan.amount[x[2]] > 0

\* Whatever status events earlier hosts lost, the ones the newest review
\* proposes close every older plan of an asset it plans itself: once they are
\* appended, it is the only one open.
LostClosuresAreProposedAgain ==
    decisions # <<>> /\ stage # "snapped" /\ proposed = {} /\ Last(decisions).plan # Absent =>
        \A i \in 1 .. Len(decisions) - 1 : decisions[i].plan # Absent => decisions[i].status # "PENDING"

\* What holds of the records and of the orders that follow them.
LifecycleInvariant == LifecycleTypeOK /\ NoOrderGoesAstray

=============================================================================
