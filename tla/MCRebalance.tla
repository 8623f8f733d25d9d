---------------------------- MODULE MCRebalance ----------------------------
(***************************************************************************)
(* Rebalance for TLC: two assets, the bands and staging of the shipped     *)
(* policy, portfolios worth 100 dollars and a deposit that doubles them,   *)
(* so that every gap is a whole number of dollars.                         *)
(***************************************************************************)
EXTENDS Rebalance

TwoAssets == {"BTC", "ETH"}
Both(x, y) == [a \in TwoAssets |-> IF a = "BTC" THEN x ELSE y]

Alphabetical == Both(1, 2)
Caps == Both(60, 100)

SamplePortfolios ==
    {[book |-> Both(45, 5), cash |-> 50, excluded |-> 0],
     [book |-> Both(62, 23), cash |-> 5, excluded |-> 10]}

SampleMandates ==
    {[want |-> Both(50, 35), overlay |-> 0],
     [want |-> Both(40, 0), overlay |-> 60],
     [want |-> Both(35, 25), overlay |-> 0],
     [want |-> Both(62, 20), overlay |-> 0]}  \* above BTC's cap: one that is preserved

Full == Both(100, 100)
SampleRequests ==
    {[deposit |-> 0, broken |-> {}, caller |-> {}, allowance |-> Full],
     [deposit |-> 0, broken |-> {"ETH"}, caller |-> {}, allowance |-> Both(0, 50)],
     [deposit |-> 0, broken |-> {}, caller |-> {"BTC"}, allowance |-> Both(0, 50)],
     [deposit |-> 100, broken |-> {}, caller |-> {}, allowance |-> Full]}
=============================================================================
