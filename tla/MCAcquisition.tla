---------------------------- MODULE MCAcquisition ----------------------------
EXTENDS Acquisition, TLC

CONSTANTS btc, eth, sol, market, venue1, venue2

MCAssets == {btc, eth, sol}
(* Two sources of one group for BTC, two groups for ETH, none for SOL.      *)
MCCatalog == (btc :> {1, 2}) @@ (eth :> {3, 4}) @@ (sol :> {}) @@ (market :> {5, 6})
MCSourceGroup == <<"core", "core", "foundation", "geth", "sec", "esma">>
MCVenues == {venue1, venue2}
MCWindow == [kind \in Kinds |-> IF kind \in {"return", "relative"} THEN 1 ELSE 0]

MCPlans == {
    <<<<eth, "security">>, <<sol, "security">>, <<eth, "liveness">>>>,
    <<<<btc, "security">>, <<btc, "regulatory">>, <<eth, "regulatory">>>>,
    <<<<eth, "return">>, <<btc, "return">>, <<eth, "relative">>>>}

Notice == [severity |-> "WATCH", affects |-> {eth}]
Exploit == [severity |-> "CRITICAL", affects |-> {}]

Complete == [Unanswered EXCEPT !.reached = {1, 3, 4, 5, 6}]
Everywhere(answer) == [scope \in Scopes |-> answer]
MCHostAnswers == {<<>>} \cup {Everywhere(a) : a \in {
    Complete,
    [Complete EXCEPT !.disputed = TRUE],
    [Complete EXCEPT !.items = {Notice}],
    [Complete EXCEPT !.reached = {2, 3, 5}],
    [Complete EXCEPT !.reached = {4, 6}, !.items = {Exploit}],
    [Complete EXCEPT !.reached = {4, 6}, !.items = {Notice}],
    [Complete EXCEPT !.open = TRUE]}}

MCResolverAnswers == {<<>>, [Everywhere([Complete EXCEPT !.open = TRUE]) EXCEPT ![eth] = Complete]}

Quiet(day) == Build(btc, day, Complete)
MCHostScans == {<<>>} \cup
    {<<btc, "security">> :> Quiet(day) : day \in {0, MaxDay}} \cup
    {key :> Quiet(0) : key \in {<<btc, "regulatory">>, <<market, "regulatory">>}}
    \cup {<<market, "regulatory">> :> Build(market, 0, [Complete EXCEPT !.items = {Notice}])}

(* No candles; two series of one venue, one with a gap; and two that start  *)
(* on different days, at different venues or too late to have a day in      *)
(* common.                                                                  *)
Held(days) == [key \in MCAssets \X MCVenues |-> IF key \in DOMAIN days THEN days[key] ELSE {}]
MCCandleCaches == {
    Held(<<>>),
    Held((<<eth, venue1>> :> (-2)..MaxDay \ {0}) @@ (<<btc, venue1>> :> (-2)..MaxDay)),
    Held((<<eth, venue1>> :> 0..MaxDay) @@ (<<btc, venue1>> :> {-2, -1}) @@ (<<btc, venue2>> :> (-2)..MaxDay))}
=============================================================================
