----------------------------- MODULE Rebalance -----------------------------
(***************************************************************************)
(* recommend_rebalance of engine/rebalance.py and what is done with it: a  *)
(* review compares the book with the target it is given, decides an action *)
(* per asset through bands, hard reasons and the direction gate, sizes and *)
(* funds it; the operator executes the plan, some of it or none; the       *)
(* market moves and the next review finds a new book and a new target.     *)
(*                                                                         *)
(* Amounts are whole dollars and weights whole percentages, so a gap       *)
(* between a target weight and a holding is a number of hundredths of a    *)
(* dollar.  The stable symbols are one sleeve, `cash'.  Assets the policy  *)
(* excludes count in the total and are part of no target and no plan.      *)
(* Sizing divides rounding down.  The confidence factor is an allowance of *)
(* 0, 50 or 100.                                                           *)
(***************************************************************************)
EXTENDS DirectionGate, FiniteSetsExt

CONSTANTS
    Assets,            \* the risky symbols the policy does not exclude
    Rank,              \* their alphabetical order
    HoldBelow, WatchBelow, HighAbove,      \* rebalance.*_pp
    RelativeFloor, RelativeWatch, RelativeHigh,   \* relative_*, percentages
    CloseFraction, MaxStep,                \* staging.*, percentages
    Overshoot,         \* immediate_overshoot_pp
    StableMandate,     \* the larger of min_stablecoin_weight and the regime's target
    HardCap,           \* hard_exposure_caps, 100 where there is none
    Portfolios,        \* [book, cash, excluded] the market may leave behind
    Mandates,          \* [want, overlay] a review may be given
    Requests,          \* [deposit, broken, caller, allowance] a review may be given
    MaxReviews, MaxDay \* bounds on the recorded reviews and on the calendar

StableTarget(want) == 100 - MapThenSumSet(LAMBDA a : want[a], Assets)

ASSUME RebalancePolicy ==
    /\ IsFiniteSet(Assets)
    /\ Rank \in [Assets -> Nat] /\ \A a, b \in Assets : a # b => Rank[a] # Rank[b]
    /\ {HoldBelow, WatchBelow, HighAbove, Overshoot} \subseteq Nat
    /\ HoldBelow < WatchBelow /\ WatchBelow < HighAbove
    /\ {RelativeFloor, RelativeWatch} \subseteq Nat \ {0}
    /\ RelativeHigh \in Nat /\ RelativeWatch <= RelativeHigh
    /\ CloseFraction \in 1 .. 100 /\ MaxStep \in Nat \ {0} /\ StableMandate \in 0 .. 100
    /\ HardCap \in [Assets -> 1 .. 100]
    /\ MaxReviews \in Nat /\ MaxDay \in Nat
    /\ Portfolios \subseteq [book : [Assets -> Nat], cash : Nat, excluded : Nat]
    /\ Mandates \subseteq [want : [Assets -> 0 .. 100], overlay : 0 .. 100]
    \* a target below its stable floor is refused before anything is decided
    /\ \A m \in Mandates :
          StableTarget(m.want) >= StableMandate /\ StableTarget(m.want) >= m.overlay
    /\ Requests \subseteq [deposit : Nat, broken : SUBSET Assets, caller : SUBSET Assets,
                           allowance : [Assets -> {0, 50, 100}]]

VARIABLES
    book,       \* dollars held of each asset
    cash,       \* dollars in the stable sleeve
    excluded,   \* dollars in excluded assets
    mandate,    \* the target weights and the overlay floor in force
    orders,     \* dollars of the standing plan, sales negative
    stableSale, \* the plan's sale of the stable sleeve
    answer,     \* "NONE", "PLAN" or "RAISED": what the last review returned
    phase,      \* "review" or "execute"
    today, history, last, standing, held    \* as in DirectionFlip, per asset

gateVars == <<today, history, last, standing, held>>
rebalanceVars == <<book, cash, excluded, mandate, orders, stableSale, answer, phase, gateVars>>

Sum(f) == MapThenSumSet(LAMBDA a : f[a], Assets)
Worth == Sum(book) + cash + excluded
Size(x) == IF x < 0 THEN -x ELSE x
LargerOf(a, b) == IF a >= b THEN a ELSE b
SmallerOf(a, b) == IF a <= b THEN a ELSE b

-----------------------------------------------------------------------------
(* One asset's action.  T is the post-cash total.                          *)

Gap(a, T) == mandate.want[a] * T - 100 * book[a]

\* The band of a gap, for a target weight.
Band(gap, weight, T) ==
    LET base == LargerOf(weight, RelativeFloor) * T
        hold == Size(gap) < HoldBelow * T /\ 100 * Size(gap) < RelativeWatch * base
        high == Size(gap) > HighAbove * T \/ 100 * Size(gap) > RelativeHigh * base
    IN IF hold THEN "HOLD" ELSE IF ~high /\ Size(gap) <= WatchBelow * T THEN "WATCH" ELSE "ACT"

\* Overweight before the new cash, under an overlay above the regime's own
\* mandate, or above its cap after it.
Binding == mandate.overlay > StableMandate

HardReasons(in, T) ==
    in.caller
        \cup {a \in Assets : Binding /\ 100 * book[a] > mandate.want[a] * Worth}
        \cup {a \in Assets \ in.broken : 100 * book[a] > HardCap[a] * T}

Broken(in) == {a \in in.broken : book[a] > 0}

Hard(in, T) ==
    {a \in HardReasons(in, T) \ Broken(in) :
        Gap(a, T) <= 0 /\ (book[a] > 0 \/ mandate.want[a] = 0)}

Leaves(a, T) == mandate.want[a] = 0 /\ Gap(a, T) < 0

CandidateAction(a, in, T) ==
    LET band == Band(Gap(a, T), mandate.want[a], T)
    IN CASE a \in Broken(in) -> "EXIT"
         [] a \in Hard(in, T) -> IF mandate.want[a] = 0 THEN "EXIT" ELSE "REDUCE"
         [] OTHER -> IF Leaves(a, T) THEN "EXIT"
                     ELSE IF band = "HOLD" THEN "HOLD"
                     ELSE IF band = "WATCH" THEN "WAIT"
                     ELSE IF Gap(a, T) > 0 THEN "INCREASE" ELSE "REDUCE"

Proposal(a, in, T) ==
    [action |-> CandidateAction(a, in, T),
     bypass |-> a \in Broken(in) \cup Hard(in, T) \/ Leaves(a, T),
     decisive |-> Size(Gap(a, T)) - WatchBelow * T >= Overshoot * T]

Moves(a, in, T) ==
    LET p == Proposal(a, in, T) IN p.action \in Executable /\ ~IsHeld(history[a], p)

-----------------------------------------------------------------------------
(* Its size, and what funds it.                                            *)

Staged(gap, T) == SmallerOf(Size(gap) * CloseFraction, 100 * MaxStep * T) \div 10000

Sale(a, in, T) ==
    IF ~Moves(a, in, T) \/ CandidateAction(a, in, T) = "INCREASE" THEN 0
    ELSE IF a \in Broken(in) THEN book[a]
    ELSE IF Proposal(a, in, T).bypass THEN Size(Gap(a, T)) \div 100
    ELSE Staged(Gap(a, T), T)

Wanted(a, in, T) ==
    IF Moves(a, in, T) /\ CandidateAction(a, in, T) = "INCREASE"
    THEN (Staged(Gap(a, T), T) * in.allowance[a]) \div 100 ELSE 0

\* The sleeve's staged sale, before it is cut to what the buys need.
StableOffer(T, total) ==
    LET gap == StableTarget(mandate.want) * T - 100 * total
    IN IF gap < 0 /\ Band(gap, StableTarget(mandate.want), T) = "ACT" THEN Staged(gap, T) ELSE 0

\* Mutant: every buy is shown the whole pool.
ApprovedAlone(a, wanted, pool) == SmallerOf(wanted[a], pool)

\* Mutant: the first buy takes the whole pool.
ApprovedWhole(a, wanted, pool) ==
    IF wanted[a] > 0 /\ \A b \in Assets : wanted[b] <= wanted[a] THEN pool ELSE 0

\* The largest buy draws first, and the pool shrinks by what it draws.
Approved(a, wanted, pool) ==
    LET before == {b \in Assets : wanted[b] > wanted[a] \/ (wanted[b] = wanted[a] /\ Rank[b] < Rank[a])}
    IN SmallerOf(wanted[a], LargerOf(0, pool - MapThenSumSet(LAMBDA b : wanted[b], before)))

Sells(a, in, T) == Moves(a, in, T) /\ CandidateAction(a, in, T) # "INCREASE"

\* A hard reason that does not end in a sale raises, and so does a sale of
\* nothing: of an asset that stands exactly at its target.
Raises(in, T) ==
    \E a \in Assets :
        \/ a \in HardReasons(in, T) /\ ~Sells(a, in, T)
        \/ Sells(a, in, T) /\ a \notin Broken(in) /\ Gap(a, T) = 0

\* Mutant: an asset beyond the high band is not shown to the gate.
OutcomeUngated(a, in, T, bought) ==
    LET p == Proposal(a, in, T)
    IN IF p.action = "INCREASE" THEN (IF bought > 0 THEN "EXECUTED" ELSE "WAIT")
       ELSE IF p.action \in Executable THEN "EXECUTED" ELSE p.action

OutcomeOf(a, in, T, bought) ==
    LET p == Proposal(a, in, T)
    IN IF IsHeld(history[a], p) THEN "HELD"
       ELSE IF p.action = "INCREASE" THEN (IF bought > 0 THEN "EXECUTED" ELSE "WAIT")
       ELSE IF p.action \in Executable THEN "EXECUTED" ELSE p.action

-----------------------------------------------------------------------------
(* The steps.                                                              *)

Plan(in) ==
    LET T == Worth + in.deposit
        sold == [a \in Assets |-> Sale(a, in, T)]
        wanted == [a \in Assets |-> Wanted(a, in, T)]
        offer == StableOffer(T, cash + in.deposit)
        bought == [a \in Assets |-> Approved(a, wanted, Sum(sold) + offer)]
        outcome == [a \in Assets |-> OutcomeOf(a, in, T, bought[a])]
    IN /\ ~Raises(in, T)
       /\ answer' = "PLAN" /\ phase' = "execute"
       /\ cash' = cash + in.deposit
       /\ orders' = [a \in Assets |-> bought[a] - sold[a]]
       /\ stableSale' = SmallerOf(offer, LargerOf(0, Sum(bought) - Sum(sold)))
       /\ last' = [a \in Assets |-> [proposal |-> Proposal(a, in, T), outcome |-> outcome[a]]]
       /\ history' = [a \in Assets |->
             <<[date |-> today, action |-> Recorded(last'[a].proposal, outcome[a])]>> \o history[a]]
       /\ standing' = [a \in Assets |->
             IF outcome[a] = "EXECUTED" THEN last'[a].proposal.action ELSE standing[a]]
       /\ held' = [a \in Assets |-> HeldAfter(held[a], last'[a].proposal, outcome[a], today)]
       /\ UNCHANGED <<book, excluded, mandate, today>>

\* The review raises: nothing is recommended and nothing recorded.
Fail(in) ==
    /\ Raises(in, Worth + in.deposit)
    /\ answer' = "RAISED"
    /\ UNCHANGED <<book, cash, excluded, mandate, orders, stableSale, phase, gateVars>>

ReviewBook(in) ==
    /\ phase = "review" /\ answer = "NONE"
    /\ \A a \in Assets : Len(history[a]) < MaxReviews
    /\ Plan(in) \/ Fail(in)

\* The operator carries out any part of the plan, buying only once every sale
\* is done.
Execute(done) ==
    /\ phase = "execute" /\ phase' = "review"
    /\ (\E a \in done : orders[a] > 0) => \A a \in Assets : orders[a] < 0 => a \in done
    /\ book' = [a \in Assets |-> IF a \in done THEN book[a] + orders[a] ELSE book[a]]
    /\ cash' = Worth - excluded - Sum(book')
    /\ orders' = [a \in Assets |-> 0] /\ stableSale' = 0
    /\ UNCHANGED <<excluded, mandate, answer, gateVars>>

\* The portfolio as it is.
Standing == [book |-> book, cash |-> cash, excluded |-> excluded]

\* Prices, the target and the overlay change; a day may pass.
Market(p, m, day) ==
    /\ phase = "review" /\ answer # "NONE"
    /\ answer' = "NONE"
    /\ book' = p.book /\ cash' = p.cash /\ excluded' = p.excluded
    /\ mandate' = m
    /\ day <= MaxDay /\ today' = day
    /\ UNCHANGED <<orders, stableSale, phase, history, last, standing, held>>

InitBook ==
    /\ \E p \in Portfolios : book = p.book /\ cash = p.cash /\ excluded = p.excluded
    /\ mandate \in Mandates
    /\ orders = [a \in Assets |-> 0] /\ stableSale = 0
    /\ answer = "NONE" /\ phase = "review"
    /\ today = 1
    /\ history = [a \in Assets |-> <<>>]
    /\ last = [a \in Assets |->
          [proposal |-> [action |-> "HOLD", bypass |-> FALSE, decisive |-> FALSE], outcome |-> "HOLD"]]
    /\ standing = [a \in Assets |-> "NONE"]
    /\ held = [a \in Assets |-> NoHold]

NextBook ==
    \/ \E in \in Requests : ReviewBook(in)
    \/ \E done \in SUBSET {a \in Assets : orders[a] # 0} : Execute(done)
    \/ \E p \in Portfolios \cup {Standing}, m \in Mandates,
          day \in {today, today + 1} : Market(p, m, day)

RebalanceSpec == InitBook /\ [][NextBook]_rebalanceVars

-----------------------------------------------------------------------------
(* Properties.                                                             *)

Gate(a) == INSTANCE DirectionFlip WITH
    history <- history[a], last <- last[a], standing <- standing[a], held <- held[a]

\* Holdings never go negative, orders stand only between a review and its
\* execution, and every history is one the next review accepts.
RebalanceTypeOK ==
    /\ book \in [Assets -> Nat] /\ cash \in Nat /\ excluded \in Nat
    /\ mandate \in Mandates
    /\ orders \in [Assets -> Int] /\ stableSale \in Nat
    /\ answer \in {"NONE", "PLAN", "RAISED"} /\ phase \in {"review", "execute"}
    /\ phase = "review" => orders = [a \in Assets |-> 0] /\ stableSale = 0
    /\ \A a \in Assets : Gate(a)!TypeOK

\* Each asset's actions, as bands, hard reasons, sizing and funding shape
\* them, go through the direction gate and nothing else: DirectionFlip's
\* specification, for every asset at once.
GatePerAsset ==
    /\ \A a \in Assets : Gate(a)!Init
    /\ [][\A a \in Assets : [Gate(a)!Next]_(Gate(a)!vars)]_rebalanceVars

\* So an asset is turned round on a marginal gap only in the direction that
\* was held back last since its standing action, and a direction on hold is
\* never held back again.  One hold is what the code asks for, whatever number
\* of closes the policy requires, and a hold of the same day will do.
TurnsAreHeldOnce ==
    [][\A a \in Assets : Gate(a)!HeldFirst /\ Gate(a)!HeldOnce]_rebalanceVars

\* What references/decision-rules.md:88-93 says of such a turn: it waits until
\* its direction has persisted across the required distinct daily closes, and
\* reviews of the same day count once.
TurnsPersistAcrossCloses ==
    [][\A a \in Assets : Gate(a)!OnDistinctCloses]_rebalanceVars

\* Buys are paid for by the sales of the same plan and by a part of the
\* stable sleeve that is really there, never twice by the same dollar.
EveryBuyIsFunded ==
    LET spent == Sum([a \in Assets |-> LargerOf(0, orders[a])])
        raised == Sum([a \in Assets |-> LargerOf(0, -orders[a])])
    IN phase = "execute" => spent <= raised + stableSale /\ stableSale <= cash

\* A plan never carries an asset past its target: in any order, and with any
\* part of it left out, what is executed shrinks the gaps it works on (a
\* broken thesis is sold whatever the target says).
NeverPastTarget ==
    phase = "execute" =>
        \A a \in Assets :
            /\ orders[a] > 0 => 100 * (book[a] + orders[a]) <= mandate.want[a] * Worth
            /\ orders[a] < 0 /\ last[a].proposal.action = "REDUCE"
                  => 100 * (book[a] + orders[a]) >= mandate.want[a] * Worth

\* What the targets, in hundredths of a dollar, lack of whole dollars: a sale
\* in whole dollars stops that short of them.
Rounding == Sum([a \in Assets |-> (-(mandate.want[a] * Worth)) % 100])

\* Once the overlay binds, a review that answers leaves no asset above its
\* target, so that its plan, carried out, restores the stable floor at once,
\* but for what is held of excluded assets, which no plan sells.
OverlayRestoresFloor ==
    phase = "execute" /\ Binding =>
        100 * (cash + excluded - Sum(orders)) + Rounding >= LargerOf(StableMandate, mandate.overlay) * Worth

\* As long as no target stands above its own hard cap, only new cash or a
\* reason of the caller's can make a review raise: the reductions the overlay
\* and the caps force on the book always end in a sale.
OwnReasonsNeverRaise ==
    phase = "review" /\ (\A a \in Assets : mandate.want[a] <= HardCap[a]) =>
        \A in \in Requests : in.deposit = 0 /\ in.caller = {} => ~Raises(in, Worth)

\* What holds of every plan of orders: it moves each asset towards its target
\* and not past it, and where the overlay binds it restores the stable floor.
PlanInvariant == RebalanceTypeOK /\ NeverPastTarget /\ OverlayRestoresFloor

=============================================================================
