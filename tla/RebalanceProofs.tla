--------------------------- MODULE RebalanceProofs ---------------------------
(***************************************************************************)
(* First the direction gate, for every history and every number of         *)
(* required closes: what a review adds to a history is explained by what   *)
(* the gate read from it, so no marginal reversal comes out of the blue,   *)
(* and a direction on hold is not held back again.  Then the book, for any *)
(* assets, policy, books, targets and requests: whatever bands, hard       *)
(* reasons, staging and funding make of a gap, each asset's actions go     *)
(* through the direction gate and through nothing else; so an asset is     *)
(* turned round only in the direction that was held back last.             *)
(* Then the accounting, for any sessions, inputs and length of the files:  *)
(* what is explicit stays, the answers of different modules agree, a late  *)
(* fact restates nothing before it, and the NAV is the time-weighted one.  *)
(***************************************************************************)
EXTENDS Rebalance, Accounting, SetSums, SequenceTheorems

-----------------------------------------------------------------------------
(* The gate.                                                               *)

Entries == [date : Nat, action : Actions]

\* A review is recorded in front of the history.
LEMMA Prepended ==
    ASSUME NEW h \in Seq(Entries), NEW e \in Entries
    PROVE  /\ <<e>> \o h \in Seq(Entries)
           /\ Len(<<e>> \o h) = Len(h) + 1
           /\ DOMAIN (<<e>> \o h) = 1 .. Len(h) + 1
           /\ (<<e>> \o h)[1] = e
           /\ \A i \in 1 .. Len(h) : (<<e>> \o h)[i + 1] = h[i]
  OBVIOUS

\* The positions of a history that move the asset, and the first of them.
Moving(h) == {i \in DOMAIN h : h[i].action \in Executable}

\* A first position is what CHOOSE finds.
LEMMA FirstIsChosen ==
    ASSUME NEW h \in Seq(Entries), NEW m \in Moving(h), \A j \in Moving(h) : m <= j
    PROVE  PreviousExecutable(h) = h[m].action
  <1>1. \A i \in Moving(h) : i \in Nat
    BY DEF Moving
  <1>2. \A i \in Moving(h) : (\A j \in Moving(h) : i <= j) => i = m
    BY <1>1
  <1>3. (CHOOSE i \in Moving(h) : \A j \in Moving(h) : i <= j) = m
    BY <1>2
  <1> QED
    BY <1>3 DEF PreviousExecutable, Moving

\* What moves the position last is the newest entry if that moves it, and what
\* it was before otherwise.
LEMMA PreviousAfter ==
    ASSUME NEW h \in Seq(Entries), NEW e \in Entries
    PROVE  PreviousExecutable(<<e>> \o h) =
               IF e.action \in Executable THEN e.action ELSE PreviousExecutable(h)
  <1> DEFINE g == <<e>> \o h
  <1>1. /\ g \in Seq(Entries) /\ g[1] = e
        /\ \A i \in 1 .. Len(h) : g[i + 1] = h[i]
        /\ DOMAIN g = 1 .. Len(h) + 1 /\ DOMAIN h = 1 .. Len(h) /\ Len(h) \in Nat
    BY Prepended
  <1> HIDE DEF g
  <1>2. CASE e.action \in Executable
    <2>1. 1 \in Moving(g) /\ \A j \in Moving(g) : 1 <= j
      BY <1>1, <1>2 DEF Moving
    <2> QED
      BY <1>1, <1>2, <2>1, FirstIsChosen DEF g
  <1>3. CASE e.action \notin Executable
    <2>1. /\ \A i \in Moving(h) : i \in Nat /\ i + 1 \in Moving(g)
          /\ \A i \in Moving(g) : i \in Int /\ i - 1 \in Moving(h)
      <3>1. \A i \in Moving(g) : i # 1
        BY <1>1, <1>3 DEF Moving
      <3>2. ASSUME NEW i \in Moving(g) PROVE i \in Int /\ i - 1 \in Moving(h)
        <4>1. i \in 2 .. Len(h) + 1
          BY <1>1, <3>1, <3>2 DEF Moving
        <4>2. i - 1 \in 1 .. Len(h) /\ g[(i - 1) + 1] = h[i - 1] /\ (i - 1) + 1 = i
          BY <1>1, <4>1
        <4> QED
          BY <1>1, <4>1, <4>2 DEF Moving
      <3>3. ASSUME NEW i \in Moving(h) PROVE i \in Nat /\ i + 1 \in Moving(g)
        BY <1>1, <3>3 DEF Moving
      <3> QED
        BY <3>2, <3>3
    <2>2. CASE Moving(h) = {}
      <3>1. Moving(g) = {}
        BY <2>1, <2>2
      <3> QED
        BY <1>3, <2>2, <3>1 DEF PreviousExecutable, Moving, g
    <2>3. CASE Moving(h) # {}
      <3>1. PICK m \in Moving(h) : \A j \in Moving(h) : m <= j
        BY <2>1, <2>3, LeastOfNat
      <3>2. m + 1 \in Moving(g) /\ \A j \in Moving(g) : m + 1 <= j
        BY <2>1, <3>1
      <3>3. PreviousExecutable(h) = h[m].action
        BY <3>1, FirstIsChosen
      <3>4. PreviousExecutable(g) = g[m + 1].action
        BY <1>1, <3>2, FirstIsChosen
      <3>5. g[m + 1] = h[m]
        BY <1>1 DEF Moving
      <3> QED
        BY <1>3, <3>3, <3>4, <3>5 DEF g
    <2> QED
      BY <2>2, <2>3
  <1> QED
    BY <1>2, <1>3

\* An action at the head of the history is what moved the position last.
LEMMA StreakIsPrevious ==
    ASSUME NEW h \in Seq(Entries), NEW a \in Executable, StreakDates(h, a) # {}
    PROVE  PreviousExecutable(h) = a
  <1>1. 1 \in DOMAIN h /\ h[1].action = a
    BY DEF StreakDates
  <1>2. 1 \in Moving(h) /\ \A j \in Moving(h) : 1 <= j
    BY <1>1 DEF Moving
  <1> QED
    BY <1>1, <1>2, FirstIsChosen

-----------------------------------------------------------------------------
(* One review of the gate: a proposal p meets the history h, of which the  *)
(* standing action is s and the last hold since it is H.                   *)

Ends == {"EXECUTED", "HELD", "HOLD", "WAIT"}

\* What the gate and the funding make of a proposal.
MayEnd(h, p, outcome) ==
    /\ outcome = "HELD" <=> IsHeld(h, p)
    /\ outcome = "EXECUTED" => p.action \in Executable

After(h, p, outcome, day) == <<[date |-> day, action |-> Recorded(p, outcome)]>> \o h
StandingAfter(s, p, outcome) == IF outcome = "EXECUTED" THEN p.action ELSE s

\* The history last moved the position in the direction that was held back
\* last since the standing action, and in that action's own where none was.
Explained(h, s, H) ==
    IF s = "NONE" THEN PreviousExecutable(h) = "NONE" /\ H.direction = "NONE"
    ELSE /\ PreviousExecutable(h) \in Executable
         /\ Direction(PreviousExecutable(h)) =
                IF H.direction = "NONE" THEN Direction(s) ELSE H.direction

\* What a review leaves in front of the history.
LEMMA AfterFacts ==
    ASSUME NEW h \in Seq(Entries), NEW p \in Proposals, NEW outcome \in Ends, NEW day \in Nat,
           MayEnd(h, p, outcome)
    PROVE  /\ After(h, p, outcome, day) \in Seq(Entries)
           /\ outcome \in {"EXECUTED", "HELD"} => p.action \in Executable
           /\ PreviousExecutable(After(h, p, outcome, day)) =
                  IF outcome \in {"EXECUTED", "HELD"} THEN p.action ELSE PreviousExecutable(h)
  <1> DEFINE e == [date |-> day, action |-> Recorded(p, outcome)]
  <1>1. p.action \in Actions
    BY DEF Proposals
  <1>2. outcome \in {"EXECUTED", "HELD"} => p.action \in Executable
    BY DEF MayEnd, IsHeld
  <1>3. e \in Entries
    BY <1>1 DEF Recorded, Entries, Actions, Ends
  <1>4. e.action \in Executable <=> outcome \in {"EXECUTED", "HELD"}
    BY <1>2 DEF Recorded, Executable, Ends
  <1>5. outcome \in {"EXECUTED", "HELD"} => e.action = p.action
    BY DEF Recorded
  <1> HIDE DEF e
  <1>6. <<e>> \o h \in Seq(Entries)
    BY <1>3, Prepended
  <1>7. PreviousExecutable(<<e>> \o h) =
            IF outcome \in {"EXECUTED", "HELD"} THEN p.action ELSE PreviousExecutable(h)
    BY <1>3, <1>4, <1>5, PreviousAfter
  <1> QED
    BY <1>2, <1>6, <1>7 DEF After, e

\* A review keeps the history explained.
LEMMA ReviewKeepsExplained ==
    ASSUME NEW h \in Seq(Entries), NEW p \in Proposals, NEW outcome \in Ends, NEW day \in Nat,
           MayEnd(h, p, outcome), NEW s, NEW H, Explained(h, s, H)
    PROVE  Explained(After(h, p, outcome, day), StandingAfter(s, p, outcome),
                     HeldAfter(H, p, outcome, day))
  <1> DEFINE g == After(h, p, outcome, day)
  <1>1. /\ outcome \in {"EXECUTED", "HELD"} => p.action \in Executable
        /\ PreviousExecutable(g) =
               IF outcome \in {"EXECUTED", "HELD"} THEN p.action ELSE PreviousExecutable(h)
    BY AfterFacts
  <1>2. \A x \in Executable : x # "NONE" /\ Direction(x) # "NONE"
    BY DEF Executable, Direction
  <1> HIDE DEF g
  <1>3. CASE outcome = "EXECUTED"
    BY <1>1, <1>2, <1>3 DEF Explained, StandingAfter, HeldAfter, NoHold, g
  <1>4. CASE outcome = "HELD"
    <2>1. s # "NONE"
      BY <1>4 DEF Explained, MayEnd, IsHeld
    <2>2. /\ StandingAfter(s, p, outcome) = s
          /\ HeldAfter(H, p, outcome, day).direction = Direction(p.action)
      BY <1>4 DEF StandingAfter, HeldAfter
    <2> QED
      BY <1>1, <1>2, <1>4, <2>1, <2>2 DEF Explained, g
  <1>5. CASE outcome \notin {"EXECUTED", "HELD"}
    BY <1>1, <1>5 DEF Explained, StandingAfter, HeldAfter, g
  <1> QED
    BY <1>3, <1>4, <1>5

\* A marginal reversal that is executed was held back since the action it
\* reverses (_requires_direction_flip_confirmation).
LEMMA ReversalWasHeld ==
    ASSUME NEW h \in Seq(Entries), NEW p \in Proposals, MayEnd(h, p, "EXECUTED"),
           NEW s \in Executable, NEW H, Explained(h, s, H),
           RequiredCloses > 1, ~p.bypass, ~p.decisive, IsFlip(s, p.action)
    PROVE  H.direction = Direction(p.action)
  <1> DEFINE prev == PreviousExecutable(h)
  <1>1. p.action \in Executable /\ ~IsHeld(h, p) /\ s # "NONE"
    BY DEF MayEnd, Executable
  <1>2. /\ prev \in Executable
        /\ Direction(prev) = IF H.direction = "NONE" THEN Direction(s) ELSE H.direction
    BY <1>1 DEF Explained
  <1>3. ~IsFlip(prev, p.action)
    <2> SUFFICES ASSUME IsFlip(prev, p.action) PROVE FALSE
      OBVIOUS
    <2>1. ~(Cardinality(StreakDates(h, p.action)) < RequiredCloses - 1)
      BY <1>1, <1>2 DEF IsHeld, Executable
    <2>2. StreakDates(h, p.action) # {}
      <3>1. 0 < RequiredCloses - 1
        BY GateAssumption
      <3>2. Cardinality({}) = 0
        BY FS_EmptySet
      <3> QED
        BY <2>1, <3>1, <3>2
    <2>3. prev = p.action
      BY <1>1, <2>2, StreakIsPrevious
    <2> QED
      BY <2>3 DEF IsFlip
  <1> QED
    BY <1>2, <1>3 DEF IsFlip, Direction

\* A direction on hold is not held back again.
LEMMA HeldIsNotHeldAgain ==
    ASSUME NEW h, NEW p, NEW s, NEW H, Explained(h, s, H), IsHeld(h, p)
    PROVE  H.direction # Direction(p.action)
  <1>1. s # "NONE" /\ Direction(PreviousExecutable(h)) # Direction(p.action)
    BY DEF IsHeld, Explained, IsFlip, Direction
  <1>2. Direction(p.action) # "NONE"
    BY DEF Direction
  <1> QED
    BY <1>1, <1>2 DEF Explained

-----------------------------------------------------------------------------
(* The book.                                                               *)

\* Only a reduction bypasses the gate (_requires_direction_flip_confirmation).
LEMMA ProposalType ==
    ASSUME NEW a \in Assets, NEW in, NEW T
    PROVE  Proposal(a, in, T) \in Proposals
  <1> DEFINE bypass == a \in Broken(in) \cup Hard(in, T) \/ Leaves(a, T)
             decisive == Size(Gap(a, T)) - WatchBelow * T >= Overshoot * T
  <1>1. CandidateAction(a, in, T) \in Actions
    BY DEF CandidateAction, Actions, Executable
  <1>2. bypass => CandidateAction(a, in, T) \in {"REDUCE", "EXIT"}
    BY DEF CandidateAction
  <1>3. bypass \in BOOLEAN /\ decisive \in BOOLEAN
    OBVIOUS
  <1>4. Proposal(a, in, T) = [action |-> CandidateAction(a, in, T), bypass |-> bypass, decisive |-> decisive]
    BY DEF Proposal
  <1> HIDE DEF bypass, decisive
  <1> QED
    BY <1>1, <1>2, <1>3, <1>4 DEF Proposals

\* The gate of an asset's instance is the gate of this module.
LEMMA GateIsTheGate ==
    ASSUME NEW a \in Assets, NEW h, NEW p
    PROVE  /\ Gate(a)!IsHeld(h, p) <=> IsHeld(h, p)
           /\ Gate(a)!Executable = Executable /\ Gate(a)!Actions = Actions
           /\ Gate(a)!Proposals = Proposals
           /\ Gate(a)!Direction(p.action) = Direction(p.action)
           /\ \A outcome : Gate(a)!Recorded(p, outcome) = Recorded(p, outcome)
           /\ \A H, outcome, day : Gate(a)!HeldAfter(H, p, outcome, day) = HeldAfter(H, p, outcome, day)
  <1>1. Gate(a)!Executable = Executable
    BY DEF Gate!Executable, Executable
  <1>2. Gate(a)!Actions = Actions
    BY <1>1 DEF Gate!Actions, Actions
  <1>3. Gate(a)!Proposals = Proposals
    BY <1>2 DEF Gate!Proposals, Proposals
  <1>4. Gate(a)!PreviousExecutable(h) = PreviousExecutable(h)
    BY <1>1 DEF Gate!PreviousExecutable, PreviousExecutable
  <1>5. Gate(a)!StreakDates(h, p.action) = StreakDates(h, p.action)
    BY DEF Gate!StreakDates, StreakDates
  <1>6. Gate(a)!IsHeld(h, p) <=> IsHeld(h, p)
    <2>1. \A x, y : Gate(a)!IsFlip(x, y) = IsFlip(x, y)
      BY DEF Gate!IsFlip, IsFlip
    <2>2. \A S : Gate(a)!Cardinality(S) = Cardinality(S)
      BY DEF Gate!Cardinality, Cardinality
    <2> QED
      BY <1>1, <1>4, <1>5, <2>1, <2>2 DEF Gate!IsHeld, IsHeld
  <1>7. Gate(a)!Direction(p.action) = Direction(p.action)
    BY DEF Gate!Direction, Direction
  <1>8. \A outcome : Gate(a)!Recorded(p, outcome) = Recorded(p, outcome)
    BY DEF Gate!Recorded, Recorded
  <1>9. \A H, outcome, day : Gate(a)!HeldAfter(H, p, outcome, day) = HeldAfter(H, p, outcome, day)
    BY <1>7 DEF Gate!HeldAfter, HeldAfter, Gate!NoHold, NoHold
  <1> QED
    BY <1>1, <1>2, <1>3, <1>6, <1>7, <1>8, <1>9

\* What becomes of a proposal is what the gate allows it to become.
LEMMA OutcomeType ==
    ASSUME NEW a \in Assets, NEW in, NEW T, NEW bought
    PROVE  LET p == Proposal(a, in, T)
               outcome == OutcomeOf(a, in, T, bought)
           IN  outcome \in Ends /\ MayEnd(history[a], p, outcome) /\ outcome \in Gate(a)!Outcomes(p)
  <1> DEFINE p == Proposal(a, in, T)
             outcome == OutcomeOf(a, in, T, bought)
  <1>1. p.action \in Actions
    BY ProposalType DEF Proposals
  <1>2. (Gate(a)!IsHeld(history[a], p) <=> IsHeld(history[a], p)) /\ Gate(a)!Executable = Executable
    BY GateIsTheGate
  <1>3. outcome =
          IF IsHeld(history[a], p) THEN "HELD"
          ELSE IF p.action = "INCREASE" THEN (IF bought > 0 THEN "EXECUTED" ELSE "WAIT")
          ELSE IF p.action \in Executable THEN "EXECUTED" ELSE p.action
    BY DEF OutcomeOf
  <1>4. Gate(a)!Outcomes(p) =
          IF IsHeld(history[a], p) THEN {"HELD"}
          ELSE IF p.action \notin Executable THEN {p.action}
          ELSE IF p.action = "INCREASE" THEN {"EXECUTED", "WAIT"}
          ELSE {"EXECUTED"}
    BY <1>2 DEF Gate!Outcomes
  <1> HIDE DEF p, outcome
  <1>5. p.action \in {"INCREASE", "REDUCE", "EXIT", "HOLD", "WAIT"}
    BY <1>1 DEF Actions, Executable
  <1>6. outcome \in Gate(a)!Outcomes(p)
    BY <1>3, <1>4, <1>5 DEF Executable
  <1>7. outcome \in Ends
    BY <1>3, <1>5 DEF Executable, Ends
  <1>8. MayEnd(history[a], p, outcome)
    BY <1>3, <1>5 DEF Executable, MayEnd
  <1> QED
    BY <1>6, <1>7, <1>8 DEF p, outcome

\* One review of one asset, as the gate sees it.
Reviewed(a, p, outcome) ==
    /\ MayEnd(history[a], p, outcome)
    /\ last'[a] = [proposal |-> p, outcome |-> outcome]
    /\ history'[a] = After(history[a], p, outcome, today)
    /\ standing'[a] = StandingAfter(standing[a], p, outcome)
    /\ held'[a] = HeldAfter(held[a], p, outcome, today)
    /\ today' = today

\* A plan is one review of the gate, for every asset.
LEMMA PlanReviews ==
    ASSUME NEW a \in Assets, NEW in, Plan(in)
    PROVE  \E p \in Proposals, outcome \in Ends :
               /\ Reviewed(a, p, outcome)
               /\ Len(history[a]) < MaxReviews => Gate(a)!Review(p, outcome)
  <1> DEFINE T == Worth + in.deposit
             p == Proposal(a, in, T)
  <1>1. PICK outcome \in Ends :
          /\ MayEnd(history[a], p, outcome)
          /\ outcome \in Gate(a)!Outcomes(p)
          /\ last'[a] = [proposal |-> p, outcome |-> outcome]
          /\ history'[a] =
                <<[date |-> today, action |-> Recorded(last'[a].proposal, outcome)]>> \o history[a]
          /\ standing'[a] = IF outcome = "EXECUTED" THEN last'[a].proposal.action ELSE standing[a]
          /\ held'[a] = HeldAfter(held[a], last'[a].proposal, outcome, today)
          /\ today' = today
    <2> DEFINE sold == [b \in Assets |-> Sale(b, in, T)]
               wanted == [b \in Assets |-> Wanted(b, in, T)]
               bought == [b \in Assets |->
                             Approved(b, wanted, Sum(sold) + StableOffer(T, cash + in.deposit))]
               outcomes == [b \in Assets |-> OutcomeOf(b, in, T, bought[b])]
    <2>1. outcomes[a] = OutcomeOf(a, in, T, bought[a])
      OBVIOUS
    <2>2. /\ last' = [b \in Assets |-> [proposal |-> Proposal(b, in, T), outcome |-> outcomes[b]]]
          /\ history' = [b \in Assets |->
                <<[date |-> today, action |-> Recorded(last'[b].proposal, outcomes[b])]>> \o history[b]]
          /\ standing' = [b \in Assets |->
                IF outcomes[b] = "EXECUTED" THEN last'[b].proposal.action ELSE standing[b]]
          /\ held' = [b \in Assets |-> HeldAfter(held[b], last'[b].proposal, outcomes[b], today)]
          /\ today' = today
      BY DEF Plan
    <2>3. /\ outcomes[a] \in Ends /\ MayEnd(history[a], p, outcomes[a])
          /\ outcomes[a] \in Gate(a)!Outcomes(p)
      BY <2>1, OutcomeType
    <2> HIDE DEF outcomes, p
    <2> QED
      BY <2>2, <2>3 DEF p
  <1>2. p \in Proposals
    BY ProposalType
  <1> HIDE DEF p
  <1>3. last'[a].proposal = p
    BY <1>1
  <1>4. Reviewed(a, p, outcome)
    BY <1>1, <1>3 DEF Reviewed, After, StandingAfter
  <1>5. Len(history[a]) < MaxReviews => Gate(a)!Review(p, outcome)
    <2>1. /\ Gate(a)!Recorded(p, outcome) = Recorded(p, outcome)
          /\ Gate(a)!HeldAfter(held[a], p, outcome, today) = HeldAfter(held[a], p, outcome, today)
      BY GateIsTheGate
    <2>2. /\ last'[a] = [proposal |-> p, outcome |-> outcome]
          /\ history'[a] = <<[date |-> today, action |-> Recorded(p, outcome)]>> \o history[a]
          /\ standing'[a] = IF outcome = "EXECUTED" THEN p.action ELSE standing[a]
          /\ held'[a] = HeldAfter(held[a], p, outcome, today)
          /\ today' = today
      BY <1>1, <1>3
    <2> QED
      BY <1>1, <2>1, <2>2 DEF Gate!Review
  <1> QED
    BY <1>1, <1>2, <1>4, <1>5

-----------------------------------------------------------------------------
(* The steps of the book, as the gate of one asset sees them.              *)

\* A step that records nothing: a day may pass.
Rests ==
    /\ history' = history /\ last' = last /\ standing' = standing /\ held' = held
    /\ \/ today' = today
       \/ today' = today + 1 /\ today' <= MaxDay

\* Every step is a review of every asset, or records nothing for any.
LEMMA StepsOfTheGate ==
    ASSUME NextBook
    PROVE  \/ Rests
           \/ \E in \in Requests : Plan(in) /\ \A a \in Assets : Len(history[a]) < MaxReviews
  <1>1. ASSUME NEW in \in Requests, ReviewBook(in)
        PROVE  Rests \/ (Plan(in) /\ \A a \in Assets : Len(history[a]) < MaxReviews)
    <2>1. ASSUME Fail(in) PROVE Rests
      BY <2>1 DEF Fail, Rests, gateVars
    <2> QED
      BY <1>1, <2>1 DEF ReviewBook
  <1>2. ASSUME NEW done, Execute(done) PROVE Rests
    BY <1>2 DEF Execute, Rests, gateVars
  <1>3. ASSUME NEW p, NEW m, NEW day \in {today, today + 1}, Market(p, m, day) PROVE Rests
    BY <1>3 DEF Market, Rests
  <1> QED
    BY <1>1, <1>2, <1>3 DEF NextBook

\* A proposal and what became of it; what was held back last.
Ended == [proposal : Proposals, outcome : Ends]
Holds == [direction : {"UP", "DOWN", "NONE"}, date : Nat]

\* Every history is explained by what stands and what was held back.
GateInv ==
    /\ today \in Nat
    /\ \A a \in Assets :
          /\ history[a] \in Seq(Entries)
          /\ standing[a] \in Executable \cup {"NONE"}
          /\ last[a] \in Ended /\ held[a] \in Holds
          /\ Explained(history[a], standing[a], held[a])

\* A book nobody has reviewed has explained histories.
LEMMA GateInit == InitBook => GateInv
  <1> SUFFICES ASSUME InitBook, NEW a \in Assets
               PROVE  /\ history[a] \in Seq(Entries)
                      /\ standing[a] \in Executable \cup {"NONE"}
                      /\ last[a] \in Ended /\ held[a] \in Holds
                      /\ Explained(history[a], standing[a], held[a])
    BY DEF InitBook, GateInv
  <1>1. /\ history[a] = <<>> /\ standing[a] = "NONE" /\ held[a] = NoHold
        /\ last[a] = [proposal |-> [action |-> "HOLD", bypass |-> FALSE, decisive |-> FALSE],
                      outcome |-> "HOLD"]
    BY DEF InitBook
  <1>2. last[a] \in Ended
    BY <1>1 DEF Ended, Ends, Proposals, Actions
  <1>3. PreviousExecutable(<<>>) = "NONE"
    BY DEF PreviousExecutable
  <1> QED
    BY <1>1, <1>2, <1>3 DEF Explained, NoHold, Holds

\* A review keeps them explained, and keeps the two promises of the gate.
LEMMA ReviewKeeps ==
    ASSUME GateInv, NEW a \in Assets, NEW p \in Proposals, NEW outcome \in Ends,
           Reviewed(a, p, outcome)
    PROVE  /\ history'[a] \in Seq(Entries)
           /\ standing'[a] \in Executable \cup {"NONE"}
           /\ last'[a] \in Ended /\ held'[a] \in Holds
           /\ Explained(history'[a], standing'[a], held'[a])
  <1>1. /\ history[a] \in Seq(Entries) /\ today \in Nat
        /\ Explained(history[a], standing[a], held[a])
        /\ MayEnd(history[a], p, outcome)
    BY DEF GateInv, Reviewed
  <1>2. After(history[a], p, outcome, today) \in Seq(Entries)
    BY <1>1, AfterFacts
  <1>3. Explained(After(history[a], p, outcome, today), StandingAfter(standing[a], p, outcome),
                  HeldAfter(held[a], p, outcome, today))
    BY <1>1, ReviewKeepsExplained
  <1>4. StandingAfter(standing[a], p, outcome) \in Executable \cup {"NONE"}
    BY <1>1 DEF GateInv, StandingAfter, MayEnd
  <1>5. HeldAfter(held[a], p, outcome, today) \in Holds
    BY <1>1 DEF GateInv, HeldAfter, Direction, NoHold, Holds
  <1>6. [proposal |-> p, outcome |-> outcome] \in Ended
    BY DEF Ended
  <1> QED
    BY <1>2, <1>3, <1>4, <1>5, <1>6 DEF Reviewed

\* The same from one state of the book to the next.
LEMMA GateStep == GateInv /\ NextBook => GateInv'
  <1> SUFFICES ASSUME GateInv, NextBook PROVE GateInv'
    OBVIOUS
  <1>1. CASE Rests
    BY <1>1 DEF Rests, GateInv
  <1>2. ASSUME NEW in \in Requests, Plan(in) PROVE GateInv'
    <2>1. ASSUME NEW a \in Assets
          PROVE  /\ history'[a] \in Seq(Entries)
                 /\ standing'[a] \in Executable \cup {"NONE"}
                 /\ last'[a] \in Ended /\ held'[a] \in Holds
                 /\ Explained(history'[a], standing'[a], held'[a])
      BY <1>2, PlanReviews, ReviewKeeps
    <2>2. today' \in Nat
      BY <1>2 DEF Plan, GateInv
    <2> QED
      BY <2>1, <2>2 DEF GateInv
  <1> QED
    BY <1>1, <1>2, StepsOfTheGate

\* The histories stay explained for ever.
LEMMA GateInvariant == RebalanceSpec => []GateInv
  <1>1. GateInv /\ [NextBook]_rebalanceVars => GateInv'
    <2> SUFFICES ASSUME GateInv, UNCHANGED rebalanceVars PROVE GateInv'
      BY GateStep
    <2> QED
      BY DEF rebalanceVars, gateVars, GateInv
  <1> QED
    BY GateInit, <1>1, PTL DEF RebalanceSpec

-----------------------------------------------------------------------------

\* For any assets, policy and requests the book's steps are, asset by asset,
\* steps of the gate's own specification: nothing in sizing, funding, hard
\* reasons or new cash goes round it.
THEOREM GateHolds == RebalanceSpec => GatePerAsset
  <1>1. InitBook => \A a \in Assets : Gate(a)!Init
    BY DEF InitBook, Gate!Init, Gate!NoHold, NoHold
  <1>2. GateInv /\ [NextBook]_rebalanceVars
            => [\A a \in Assets : [Gate(a)!Next]_(Gate(a)!vars)]_rebalanceVars
    <2> SUFFICES ASSUME GateInv, NextBook, NEW a \in Assets
                 PROVE  [Gate(a)!Next]_(Gate(a)!vars)
      OBVIOUS
    <2>1. CASE Rests
      <3>1. today \in Nat /\ MaxDay \in Nat
        BY RebalancePolicy DEF GateInv
      <3> QED
        BY <2>1, <3>1 DEF Rests, Gate!Next, Gate!NextDay, Gate!vars
    <2>2. ASSUME NEW in \in Requests, Plan(in), Len(history[a]) < MaxReviews
          PROVE  Gate(a)!Next
      <3>1. PICK p \in Proposals, outcome \in Ends : Gate(a)!Review(p, outcome)
        BY <2>2, PlanReviews
      <3> QED
        BY <3>1, GateIsTheGate DEF Gate!Next, Ends
    <2> QED
      BY <2>1, <2>2, StepsOfTheGate
  <1> QED
    BY <1>1, <1>2, GateInvariant, PTL DEF RebalanceSpec, GatePerAsset

\* So an asset is turned round on a marginal gap only in the direction that was
\* held back last since its standing action, and a direction on hold is never
\* held back again, whatever the asset is shown in between.
THEOREM TurnsHold == RebalanceSpec => TurnsAreHeldOnce
  <1>1. GateInv /\ [NextBook]_rebalanceVars
            => [\A a \in Assets : Gate(a)!HeldFirst /\ Gate(a)!HeldOnce]_rebalanceVars
    <2> SUFFICES ASSUME GateInv, NextBook, NEW a \in Assets
                 PROVE  Gate(a)!HeldFirst /\ Gate(a)!HeldOnce
      OBVIOUS
    <2>1. CASE Rests
      <3>1. history'[a] = history[a] /\ Len(history[a]) \in Nat
        BY <2>1 DEF Rests, GateInv
      <3> QED
        BY <3>1 DEF Gate!HeldFirst, Gate!HeldOnce, Gate!MarginalReversal, Gate!Reviewed
    <2>2. ASSUME NEW p \in Proposals, NEW outcome \in Ends, Reviewed(a, p, outcome)
          PROVE  Gate(a)!HeldFirst /\ Gate(a)!HeldOnce
      <3>1. /\ last'[a].proposal = p /\ last'[a].outcome = outcome
            /\ MayEnd(history[a], p, outcome) /\ history[a] \in Seq(Entries)
            /\ standing[a] \in Executable \cup {"NONE"}
            /\ Explained(history[a], standing[a], held[a])
        BY <2>2 DEF Reviewed, GateInv
      <3>2. /\ \A x, y : Gate(a)!IsFlip(x, y) <=> IsFlip(x, y)
            /\ \A x : Gate(a)!Direction(x) = Direction(x)
        BY DEF Gate!IsFlip, IsFlip, Gate!Direction, Direction
      <3>3. Gate(a)!HeldFirst
        <4> SUFFICES ASSUME RequiredCloses > 1, outcome = "EXECUTED", ~p.bypass, ~p.decisive,
                            standing[a] # "NONE", IsFlip(standing[a], p.action)
                     PROVE  held[a].direction = Direction(p.action)
          BY <3>1, <3>2 DEF Gate!HeldFirst, Gate!MarginalReversal
        <4> QED
          BY <3>1, ReversalWasHeld
      <3>4. Gate(a)!HeldOnce
        <4> SUFFICES ASSUME outcome = "HELD"
                     PROVE  held[a].direction # Direction(p.action)
          BY <3>1, <3>2 DEF Gate!HeldOnce
        <4> QED
          BY <3>1, HeldIsNotHeldAgain DEF MayEnd
      <3> QED
        BY <3>3, <3>4
    <2> QED
      BY <2>1, <2>2, PlanReviews, StepsOfTheGate
  <1> QED
    BY <1>1, GateInvariant, PTL DEF RebalanceSpec, TurnsAreHeldOnce


-----------------------------------------------------------------------------
(* Sizing: one asset's sale and one asset's purchase.                      *)

\* The sums of the book are those the lemmas of SetSums speak of.
LEMMA SumIs == ASSUME NEW f PROVE Sum(f) = SumOver(f, Assets)
  BY DEF Sum, SumOver

\* The stable target is what the mandate leaves of the whole.
LEMMA StableTargetIs == ASSUME NEW w PROVE StableTarget(w) = 100 - SumOver(w, Assets)
  BY DEF StableTarget, SumOver

\* A staged step closes no more than the gap.
LEMMA StagedWithinGap ==
    ASSUME NEW gap \in Int, NEW T \in Nat
    PROVE  /\ Staged(gap, T) \in Nat
           /\ 100 * Staged(gap, T) <= Size(gap)
  <1> DEFINE size == Size(gap)
             share == size * CloseFraction
             step == 100 * MaxStep * T
             x == SmallerOf(share, step)
  <1>1. size \in Nat
    BY DEF Size
  <1> HIDE DEF size
  <1>2. CloseFraction \in Nat /\ CloseFraction <= 100 /\ MaxStep \in Nat
    BY RebalancePolicy
  <1>3. share \in Nat /\ share <= 100 * size
    <2>1. \A c \in Nat : c <= 100 => size * c <= 100 * size /\ size * c \in Nat
      BY <1>1
    <2> QED
      BY <1>2, <2>1
  <1>4. step \in Nat
    BY <1>2
  <1> HIDE DEF share, step
  <1>5. x \in Nat /\ x <= 100 * size
    BY <1>1, <1>3, <1>4 DEF SmallerOf
  <1> HIDE DEF x
  <1>6. x \div 10000 \in Nat /\ 10000 * (x \div 10000) <= x
    BY <1>5
  <1>7. Staged(gap, T) = x \div 10000
    BY DEF Staged, x, share, step, size
  <1>8. 100 * (x \div 10000) <= size
    BY <1>1, <1>5, <1>6
  <1> QED
    BY <1>6, <1>7, <1>8 DEF size

\* Whole dollars of a gap: what they leave is less than a dollar.
LEMMA WholeDollars ==
    ASSUME NEW gap \in Nat
    PROVE  /\ gap \div 100 \in Nat
           /\ 100 * (gap \div 100) <= gap
           /\ gap - 100 * (gap \div 100) = gap % 100
  OBVIOUS

\* The funding draws: the buys share the pool, each no more than it wants.
LEMMA LastOfSet ==
    ASSUME NEW S, IsFiniteSet(S), S \subseteq Assets, S # {}, NEW w, \A a \in S : w[a] \in Nat
    PROVE  \E z \in S : \A b \in S \ {z} : w[b] > w[z] \/ (w[b] = w[z] /\ Rank[b] < Rank[z])
  <1> DEFINE Before(b, z) == w[b] > w[z] \/ (w[b] = w[z] /\ Rank[b] < Rank[z])
             Good == {U \in SUBSET S : U # {} => \E z \in U : \A b \in U \ {z} : Before(b, z)}
  <1>1. {} \in Good
    OBVIOUS
  <1>2. ASSUME NEW U \in SUBSET S, NEW x \in S, x \in U, U \ {x} \in Good
        PROVE  U \in Good
    <2>1. CASE U \ {x} = {}
      <3>1. \A b \in U \ {x} : Before(b, x)
        BY <2>1
      <3> QED
        BY <1>2, <3>1
    <2>2. CASE U \ {x} # {}
      <3>1. PICK y \in U \ {x} : \A b \in (U \ {x}) \ {y} : Before(b, y)
        BY <1>2, <2>2
      <3>2. /\ \A b \in U : w[b] \in Nat /\ Rank[b] \in Nat
            /\ Rank[x] # Rank[y]
        BY <1>2, <3>1, RebalancePolicy
      <3>3. Before(x, y) \/ Before(y, x)
        BY <1>2, <3>1, <3>2
      <3>4. CASE Before(x, y)
        <4>1. \A b \in U \ {y} : Before(b, y)
          BY <3>1, <3>4
        <4> QED
          BY <3>1, <4>1
      <3>5. CASE Before(y, x)
        <4>1. \A b \in U \ {x} : Before(b, x)
          <5> SUFFICES ASSUME NEW b \in U \ {x} PROVE Before(b, x)
            OBVIOUS
          <5>1. b = y \/ Before(b, y)
            BY <3>1
          <5>2. w[b] \in Nat /\ Rank[b] \in Nat /\ w[x] \in Nat /\ Rank[x] \in Nat
                /\ w[y] \in Nat /\ Rank[y] \in Nat
            BY <1>2, <3>1, <3>2
          <5> QED
            BY <3>5, <5>1, <5>2
        <4> QED
          BY <1>2, <4>1
      <3> QED
        BY <3>3, <3>4, <3>5
    <2> QED
      BY <2>1, <2>2
  <1>3. S \in Good
    <2> HIDE DEF Good
    <2> QED
      BY <1>1, <1>2, MemberByMember
  <1> QED
    BY <1>3
\* What one buy draws is a part of what it wants.
LEMMA ApprovedType ==
    ASSUME NEW w, \A b \in Assets : w[b] \in Nat, NEW pool \in Nat, NEW a \in Assets
    PROVE  /\ Approved(a, w, pool) \in Nat
           /\ Approved(a, w, pool) <= w[a]
  <1> DEFINE before == {b \in Assets : w[b] > w[a] \/ (w[b] = w[a] /\ Rank[b] < Rank[a])}
             earlier == SumOver(w, before)
  <1>1. earlier \in Nat
    <2>1. before \in SUBSET Assets /\ IsFiniteSet(Assets)
      BY RebalancePolicy
    <2> HIDE DEF before
    <2> QED
      BY <2>1, SumOfNaturals
  <1>2. Approved(a, w, pool) = SmallerOf(w[a], LargerOf(0, pool - earlier))
    BY DEF Approved, SumOver
  <1> HIDE DEF earlier
  <1> QED
    BY <1>1, <1>2 DEF SmallerOf, LargerOf

\* Together the buys draw no more than the pool holds.
LEMMA PoolIsEnough ==
    ASSUME NEW w, \A b \in Assets : w[b] \in Nat, NEW pool \in Nat,
           NEW bought, \A a \in Assets : bought[a] = Approved(a, w, pool)
    PROVE  SumOver(bought, Assets) <= pool
  <1> DEFINE Before(a) == {b \in Assets : w[b] > w[a] \/ (w[b] = w[a] /\ Rank[b] < Rank[a])}
             Good == {U \in SUBSET Assets : SumOver(bought, U) <= pool}
  <1>0. IsFiniteSet(Assets)
    BY RebalancePolicy
  <1>1. \A a \in Assets : bought[a] \in Nat /\ bought[a] <= w[a]
    BY ApprovedType
  <1>2. {} \in Good
    <2>1. SumOver(bought, {}) = 0
      BY SumOfNothing
    <2> QED
      BY <2>1
  <1>3. ASSUME NEW U \in SUBSET Assets, U # {}, \A x \in U : U \ {x} \in Good
        PROVE  U \in Good
    <2>1. IsFiniteSet(U) /\ \A b \in U : w[b] \in Nat
      BY <1>0, FS_Subset
    <2>2. PICK z \in U : \A b \in U \ {z} : w[b] > w[z] \/ (w[b] = w[z] /\ Rank[b] < Rank[z])
      BY <1>3, <2>1, LastOfSet
    <2> DEFINE rest == U \ {z}
               earlier == SumOver(w, Before(z))
    <2>3. rest \in SUBSET Before(z) /\ Before(z) \in SUBSET Assets /\ rest \in SUBSET Assets
      BY <2>2
    <2> HIDE DEF Before
    <2>4. IsFiniteSet(Before(z)) /\ IsFiniteSet(rest)
      BY <1>0, <2>3, FS_Subset
    <2>5. (\A b \in Before(z) : w[b] \in Nat) /\ (\A b \in rest : w[b] \in Nat)
      BY <2>3
    <2>6. earlier \in Nat /\ SumOver(w, rest) \in Nat /\ SumOver(w, rest) <= earlier
      BY <2>3, <2>4, <2>5, SumOfNaturals
    <2>7. SumOver(bought, rest) <= SumOver(w, rest) /\ SumOver(bought, rest) \in Int
      <3>1. \A b \in rest : bought[b] \in Int /\ w[b] \in Int /\ bought[b] <= w[b]
        BY <1>1, <2>3, <2>5
      <3> HIDE DEF rest
      <3> QED
        BY <2>4, <3>1, SumMonotone, SumType
    <2>8. bought[z] = SmallerOf(w[z], LargerOf(0, pool - earlier)) /\ w[z] \in Nat
      BY DEF Approved, SumOver, Before
    <2>9. SumOver(bought, U) = bought[z] + SumOver(bought, rest)
      <3>1. \A b \in Assets : bought[b] \in Int
        BY <1>1
      <3>2. Summable(bought, Assets)
        BY <1>0, <3>1 DEF Summable
      <3>3. Splits(bought, U, z)
        BY <3>2, SumStep
      <3> QED
        BY <3>3 DEF Splits
    <2>10. SumOver(bought, rest) <= pool
      BY <1>3, <2>2
    <2> HIDE DEF earlier, rest
    <2>11. SumOver(bought, U) <= pool
      BY <2>6, <2>7, <2>8, <2>9, <2>10 DEF SmallerOf, LargerOf
    <2> QED
      BY <2>11
  <1>4. \A U \in SUBSET Assets : U \in Good
    <2> HIDE DEF Good
    <2> QED
      BY <1>0, <1>2, <1>3, SubsetInduction
  <1> QED
    BY <1>4


-----------------------------------------------------------------------------
(* One asset under review, in a book of whole dollars and a mandate that    *)
(* may be given.                                                           *)

Money == book \in [Assets -> Nat] /\ cash \in Nat /\ excluded \in Nat /\ mandate \in Mandates

\* The dollars an asset's target is worth, in hundredths.
Goal(a, T) == mandate.want[a] * T

\* A gap is a whole number of cents, up or down.
LEMMA GapFacts ==
    ASSUME Money, NEW a \in Assets, NEW T \in Nat
    PROVE  /\ Goal(a, T) \in Nat /\ book[a] \in Nat
           /\ Gap(a, T) = Goal(a, T) - 100 * book[a] /\ Gap(a, T) \in Int
           /\ mandate.want[a] \in 0 .. 100
  <1>1. mandate.want[a] \in 0 .. 100 /\ book[a] \in Nat
    BY RebalancePolicy DEF Money
  <1>2. \A m \in 0 .. 100 : m * T \in Nat
    OBVIOUS
  <1>3. mandate.want[a] * T \in Nat
    BY <1>1, <1>2
  <1> QED
    BY <1>1, <1>3 DEF Gap, Goal

\* What the chain of reasons makes of a gap.
LEMMA CandidateCases ==
    ASSUME NEW a \in Assets, NEW in, NEW T
    PROVE  /\ a \in Broken(in) => CandidateAction(a, in, T) = "EXIT"
           /\ a \in Hard(in, T)
                 => CandidateAction(a, in, T) = IF mandate.want[a] = 0 THEN "EXIT" ELSE "REDUCE"
           /\ a \notin Broken(in) \cup Hard(in, T)
                 => CandidateAction(a, in, T) =
                       IF Leaves(a, T) THEN "EXIT"
                       ELSE IF Band(Gap(a, T), mandate.want[a], T) = "HOLD" THEN "HOLD"
                       ELSE IF Band(Gap(a, T), mandate.want[a], T) = "WATCH" THEN "WAIT"
                       ELSE IF Gap(a, T) > 0 THEN "INCREASE" ELSE "REDUCE"
  <1>1. a \in Hard(in, T) => a \notin Broken(in)
    BY DEF Hard
  <1> DEFINE broken == a \in Broken(in)
             hard == a \in Hard(in, T)
  <1>2. CandidateAction(a, in, T) =
            CASE broken -> "EXIT"
              [] hard -> IF mandate.want[a] = 0 THEN "EXIT" ELSE "REDUCE"
              [] OTHER -> IF Leaves(a, T) THEN "EXIT"
                          ELSE IF Band(Gap(a, T), mandate.want[a], T) = "HOLD" THEN "HOLD"
                          ELSE IF Band(Gap(a, T), mandate.want[a], T) = "WATCH" THEN "WAIT"
                          ELSE IF Gap(a, T) > 0 THEN "INCREASE" ELSE "REDUCE"
    BY DEF CandidateAction
  <1>3. hard => ~broken
    BY <1>1
  <1> HIDE DEF broken, hard
  <1>4. /\ broken => CandidateAction(a, in, T) = "EXIT"
        /\ hard => CandidateAction(a, in, T) = IF mandate.want[a] = 0 THEN "EXIT" ELSE "REDUCE"
        /\ ~broken /\ ~hard
              => CandidateAction(a, in, T) =
                       IF Leaves(a, T) THEN "EXIT"
                       ELSE IF Band(Gap(a, T), mandate.want[a], T) = "HOLD" THEN "HOLD"
                       ELSE IF Band(Gap(a, T), mandate.want[a], T) = "WATCH" THEN "WAIT"
                       ELSE IF Gap(a, T) > 0 THEN "INCREASE" ELSE "REDUCE"
    BY <1>2, <1>3
  <1> QED
    BY <1>4 DEF broken, hard

\* An increase works on a gap below the target, a sale on one above it.
LEMMA CandidateFacts ==
    ASSUME Money, NEW a \in Assets, NEW in, NEW T \in Nat
    PROVE  /\ CandidateAction(a, in, T) = "INCREASE" => Gap(a, T) > 0 /\ a \notin Broken(in)
           /\ CandidateAction(a, in, T) \in {"REDUCE", "EXIT"} /\ a \notin Broken(in) => Gap(a, T) <= 0
           /\ CandidateAction(a, in, T) = "REDUCE" => a \notin Broken(in)
  <1>1. Gap(a, T) \in Int
    BY GapFacts
  <1>2. a \in Hard(in, T) => Gap(a, T) <= 0
    BY DEF Hard
  <1>3. Leaves(a, T) => Gap(a, T) <= 0
    BY <1>1 DEF Leaves
  <1>4. CASE a \in Broken(in)
    BY <1>4, CandidateCases
  <1>5. CASE a \in Hard(in, T)
    <2>1. a \notin Broken(in)
      BY <1>5 DEF Hard
    <2>2. CandidateAction(a, in, T) \in {"REDUCE", "EXIT"}
      BY <1>5, CandidateCases
    <2> QED
      BY <1>2, <1>5, <2>1, <2>2
  <1>6. CASE a \notin Broken(in) \cup Hard(in, T)
    <2>1. CandidateAction(a, in, T) =
              IF Leaves(a, T) THEN "EXIT"
              ELSE IF Band(Gap(a, T), mandate.want[a], T) = "HOLD" THEN "HOLD"
              ELSE IF Band(Gap(a, T), mandate.want[a], T) = "WATCH" THEN "WAIT"
              ELSE IF Gap(a, T) > 0 THEN "INCREASE" ELSE "REDUCE"
      BY <1>6, CandidateCases
    <2> QED
      BY <1>1, <1>3, <1>6, <2>1
  <1> QED
    BY <1>4, <1>5, <1>6

\* A sale never exceeds the holding, and only that of a broken thesis goes
\* past the target; one that bypasses the gate stops less than a dollar short.
LEMMA SaleFacts ==
    ASSUME Money, NEW a \in Assets, NEW in, NEW T \in Nat
    PROVE  LET s == Sale(a, in, T)
           IN  /\ s \in Nat /\ s <= book[a]
               /\ s > 0 => Moves(a, in, T) /\ CandidateAction(a, in, T) # "INCREASE"
               /\ s > 0 /\ a \notin Broken(in) => 100 * (book[a] - s) >= Goal(a, T)
               /\ Sells(a, in, T) /\ a \in Broken(in) => s = book[a]
               /\ Sells(a, in, T) /\ a \in Hard(in, T)
                     => 100 * (book[a] - s) = Goal(a, T) + ((-Gap(a, T)) % 100)
  <1> DEFINE action == CandidateAction(a, in, T)
             gap == Gap(a, T)
             bypass == Proposal(a, in, T).bypass
             s == Sale(a, in, T)
  <1>1. /\ Goal(a, T) \in Nat /\ book[a] \in Nat
        /\ gap = Goal(a, T) - 100 * book[a] /\ gap \in Int
    BY GapFacts
  <1>2. CASE ~Sells(a, in, T)
    <2>1. s = 0
      BY <1>2 DEF Sale, Sells
    <2> QED
      BY <1>1, <1>2, <2>1
  <1>3. CASE Sells(a, in, T) /\ a \in Broken(in)
    <2>1. s = book[a] /\ Moves(a, in, T) /\ action # "INCREASE"
      BY <1>3 DEF Sale, Sells
    <2>2. a \notin Hard(in, T)
      BY <1>3 DEF Hard
    <2> QED
      BY <1>1, <1>3, <2>1, <2>2
  <1>4. CASE Sells(a, in, T) /\ a \notin Broken(in)
    <2>1. /\ Moves(a, in, T) /\ action # "INCREASE"
          /\ s = IF bypass THEN Size(gap) \div 100 ELSE Staged(gap, T)
      BY <1>4 DEF Sale, Sells
    <2>2. action \in Executable
      BY <2>1 DEF Moves, Proposal
    <2>3. gap <= 0
      BY <1>4, <2>1, <2>2, CandidateFacts DEF Executable
    <2>4. Size(gap) = -gap /\ -gap \in Nat
      BY <1>1, <2>3 DEF Size
    <2>5. s \in Nat /\ 100 * s <= -gap
      <3>1. Staged(gap, T) \in Nat /\ 100 * Staged(gap, T) <= Size(gap)
        BY <1>1, StagedWithinGap
      <3>2. (-gap) \div 100 \in Nat /\ 100 * ((-gap) \div 100) <= -gap
        BY <2>4, WholeDollars
      <3> HIDE DEF gap, bypass
      <3> QED
        BY <2>1, <2>4, <3>1, <3>2
    <2> DEFINE quotient == (-gap) \div 100
               rest == (-gap) % 100
    <2>6. -gap - 100 * quotient = rest /\ quotient \in Nat /\ rest \in Int
      BY <2>4, WholeDollars
    <2>7. a \in Hard(in, T) => s = quotient
      <3>1. a \in Hard(in, T) => bypass
        BY DEF Proposal
      <3> HIDE DEF bypass
      <3> QED
        BY <2>1, <2>4, <3>1
    <2> HIDE DEF s, gap, action, quotient, rest
    <2>8. s <= book[a] /\ 100 * (book[a] - s) >= Goal(a, T)
      BY <1>1, <2>5
    <2>9. a \in Hard(in, T) => 100 * (book[a] - s) = Goal(a, T) + rest
      BY <1>1, <2>5, <2>6, <2>7
    <2> QED
      BY <1>4, <2>1, <2>5, <2>8, <2>9 DEF s, gap, action, rest
  <1> QED
    BY <1>2, <1>3, <1>4


\* A buy never goes past the target.
LEMMA WantedFacts ==
    ASSUME Money, NEW a \in Assets, NEW in \in Requests, NEW T \in Nat
    PROVE  LET w == Wanted(a, in, T)
           IN  /\ w \in Nat
               /\ w > 0 => CandidateAction(a, in, T) = "INCREASE"
               /\ w > 0 => 100 * (book[a] + w) <= Goal(a, T)
  <1> DEFINE action == CandidateAction(a, in, T)
             gap == Gap(a, T)
             w == Wanted(a, in, T)
             s == Staged(gap, T)
             share == in.allowance[a]
  <1>1. /\ Goal(a, T) \in Nat /\ book[a] \in Nat
        /\ gap = Goal(a, T) - 100 * book[a] /\ gap \in Int
    BY GapFacts
  <1>2. CASE Moves(a, in, T) /\ action = "INCREASE"
    <2>1. w = (s * share) \div 100
      BY <1>2 DEF Wanted
    <2>2. gap > 0 /\ Size(gap) = gap
      BY <1>1, <1>2, CandidateFacts DEF Size
    <2>3. s \in Nat /\ 100 * s <= gap
      BY <1>1, <2>2, StagedWithinGap
    <2>4. share \in {0, 50, 100}
      BY RebalancePolicy
    <2> HIDE DEF s, share, gap
    <2>5. s * share \in Nat /\ s * share <= 100 * s
      BY <2>3, <2>4
    <2> DEFINE x == s * share
    <2>6. x \in Nat /\ x <= 100 * s
      BY <2>5
    <2> HIDE DEF x
    <2>7. x \div 100 \in Nat /\ x \div 100 <= s
      BY <2>3, <2>6
    <2>8. w \in Nat /\ w <= s
      BY <2>1, <2>7 DEF x
    <2> HIDE DEF w
    <2>9. 100 * (book[a] + w) <= Goal(a, T)
      BY <1>1, <2>3, <2>8
    <2> QED
      BY <1>2, <2>8, <2>9 DEF w
  <1>3. CASE ~(Moves(a, in, T) /\ action = "INCREASE")
    <2>1. w = 0
      BY <1>3 DEF Wanted
    <2> QED
      BY <2>1
  <1> QED
    BY <1>2, <1>3

\* The sleeve offers no more than it holds.
LEMMA OfferFacts ==
    ASSUME Money, NEW T \in Nat, NEW total \in Nat
    PROVE  StableOffer(T, total) \in Nat /\ StableOffer(T, total) <= total
  <1> DEFINE target == StableTarget(mandate.want)
             gap == target * T - 100 * total
             s == Staged(gap, T)
  <1>1. target \in Nat
    <2>1. mandate \in Mandates /\ mandate.want \in [Assets -> 0 .. 100] /\ IsFiniteSet(Assets)
      BY RebalancePolicy DEF Money
    <2>2. SumOver(mandate.want, Assets) \in Int
      BY <2>1, SumType
    <2>3. target >= StableMandate /\ StableMandate \in Nat
      BY <2>1, RebalancePolicy
    <2>4. target = 100 - SumOver(mandate.want, Assets)
      BY StableTargetIs
    <2> HIDE DEF target
    <2> QED
      BY <2>2, <2>3, <2>4
  <1>2. StableOffer(T, total) = s \/ StableOffer(T, total) = 0
    BY DEF StableOffer
  <1>3. StableOffer(T, total) = s => gap < 0 \/ StableOffer(T, total) = 0
    BY DEF StableOffer
  <1> HIDE DEF target
  <1>4. target * T \in Nat
    BY <1>1
  <1> DEFINE worth == target * T
  <1>5. worth \in Nat /\ gap = worth - 100 * total
    BY <1>4
  <1> HIDE DEF worth, gap
  <1>6. s \in Nat /\ 100 * s <= Size(gap)
    BY <1>5, StagedWithinGap
  <1> HIDE DEF s
  <1>7. gap < 0 => s <= total
    BY <1>5, <1>6 DEF Size
  <1> QED
    BY <1>2, <1>3, <1>6, <1>7

-----------------------------------------------------------------------------
(* A plan: the total it sizes by, its legs and what funds them.            *)

WorthWith(in) == Worth + in.deposit
Sold(in) == [a \in Assets |-> Sale(a, in, WorthWith(in))]
Wants(in) == [a \in Assets |-> Wanted(a, in, WorthWith(in))]
Offer(in) == StableOffer(WorthWith(in), cash + in.deposit)
Bought(in) == [a \in Assets |-> Approved(a, Wants(in), Sum(Sold(in)) + Offer(in))]

\* recommend_rebalance, by what it plans and leaves alone.
LEMMA PlanIs ==
    ASSUME NEW in, Plan(in)
    PROVE  /\ ~Raises(in, WorthWith(in)) /\ phase' = "execute" /\ answer' = "PLAN"
           /\ book' = book /\ cash' = cash + in.deposit /\ excluded' = excluded /\ mandate' = mandate
           /\ orders' = [a \in Assets |-> Bought(in)[a] - Sold(in)[a]]
           /\ stableSale' = SmallerOf(Offer(in), LargerOf(0, Sum(Bought(in)) - Sum(Sold(in))))
           /\ \A a \in Assets : last'[a].proposal.action = CandidateAction(a, in, WorthWith(in))
  <1>1. \A a \in Assets : Proposal(a, in, WorthWith(in)).action = CandidateAction(a, in, WorthWith(in))
    BY DEF Proposal
  <1>2. \A a \in Assets : last'[a].proposal = Proposal(a, in, WorthWith(in))
    BY DEF Plan, WorthWith
  <1>3. orders' = [a \in Assets |-> Bought(in)[a] - Sold(in)[a]]
    BY DEF Plan, WorthWith, Sold, Wants, Offer, Bought
  <1>4. stableSale' = SmallerOf(Offer(in), LargerOf(0, Sum(Bought(in)) - Sum(Sold(in))))
    BY DEF Plan, WorthWith, Sold, Wants, Offer, Bought
  <1>5. /\ ~Raises(in, WorthWith(in)) /\ phase' = "execute" /\ answer' = "PLAN"
        /\ book' = book /\ cash' = cash + in.deposit /\ excluded' = excluded /\ mandate' = mandate
    BY DEF Plan, WorthWith
  <1> QED
    BY <1>1, <1>2, <1>3, <1>4, <1>5

\* The worth is what the book, the cash and the excluded assets hold.
LEMMA WorthIs == ASSUME Money PROVE Worth \in Nat /\ Worth = SumOver(book, Assets) + cash + excluded
  <1>1. IsFiniteSet(Assets) /\ \A a \in Assets : book[a] \in Nat
    BY RebalancePolicy DEF Money
  <1>2. SumOver(book, Assets) \in Nat
    BY <1>1, SumOfNaturals
  <1>3. Worth = SumOver(book, Assets) + cash + excluded
    BY SumIs DEF Worth
  <1> QED
    BY <1>2, <1>3 DEF Money

\* The legs of a plan, asset by asset.
LEMMA Legs ==
    ASSUME Money, NEW in \in Requests
    PROVE  /\ WorthWith(in) \in Nat /\ Offer(in) \in Nat /\ Offer(in) <= cash + in.deposit
           /\ SumOver(Sold(in), Assets) \in Nat /\ SumOver(Bought(in), Assets) \in Nat
           /\ SumOver(Bought(in), Assets) <= SumOver(Sold(in), Assets) + Offer(in)
           /\ \A a \in Assets :
                 /\ Sold(in)[a] \in Nat /\ Sold(in)[a] <= book[a] /\ Bought(in)[a] \in Nat
                 /\ Sold(in)[a] = 0 \/ Bought(in)[a] = 0
                 /\ Bought(in)[a] > 0 => 100 * (book[a] + Bought(in)[a]) <= Goal(a, WorthWith(in))
  <1> DEFINE T == WorthWith(in)
             pool == SumOver(Sold(in), Assets) + Offer(in)
  <1>0. in.deposit \in Nat
    BY RebalancePolicy
  <1>1. in.deposit \in Nat /\ cash \in Nat /\ Worth \in Nat /\ T \in Nat
    <2>1. Worth \in Nat
      BY WorthIs
    <2>2. cash \in Nat
      BY DEF Money
    <2> QED
      BY <1>0, <2>1, <2>2 DEF WorthWith
  <1>2. Offer(in) \in Nat /\ Offer(in) <= cash + in.deposit
    <2>1. cash + in.deposit \in Nat
      BY <1>1
    <2>2. StableOffer(T, cash + in.deposit) \in Nat /\ StableOffer(T, cash + in.deposit) <= cash + in.deposit
      BY <1>1, <2>1, OfferFacts
    <2> QED
      BY <2>2 DEF Offer
  <1>3. \A a \in Assets : Sold(in)[a] = Sale(a, in, T) /\ Wants(in)[a] = Wanted(a, in, T)
    BY DEF Sold, Wants
  <1> HIDE DEF T
  <1>4. \A a \in Assets : Sold(in)[a] \in Nat /\ Sold(in)[a] <= book[a]
    BY <1>1, <1>3, SaleFacts
  <1>5. \A a \in Assets : Wants(in)[a] \in Nat
    BY <1>1, <1>3, WantedFacts
  <1>6. IsFiniteSet(Assets)
    BY RebalancePolicy
  <1>7. SumOver(Sold(in), Assets) \in Nat
    BY <1>4, <1>6, SumOfNaturals
  <1>8. pool \in Nat
    BY <1>2, <1>7
  <1>9. \A a \in Assets : Bought(in)[a] = Approved(a, Wants(in), pool)
    BY SumIs DEF Bought
  <1> HIDE DEF pool
  <1>10. \A a \in Assets : Bought(in)[a] \in Nat /\ Bought(in)[a] <= Wants(in)[a]
    BY <1>5, <1>8, <1>9, ApprovedType
  <1>11. SumOver(Bought(in), Assets) \in Nat /\ SumOver(Bought(in), Assets) <= pool
    <2>1. SumOver(Bought(in), Assets) \in Nat
      BY <1>6, <1>10, SumOfNaturals
    <2>2. SumOver(Bought(in), Assets) <= pool
      BY <1>5, <1>8, <1>9, PoolIsEnough
    <2> QED
      BY <2>1, <2>2
  <1>12. ASSUME NEW a \in Assets
         PROVE  /\ Sold(in)[a] = 0 \/ Bought(in)[a] = 0
                /\ Bought(in)[a] > 0 => 100 * (book[a] + Bought(in)[a]) <= Goal(a, T)
    <2>1. Sold(in)[a] > 0 => CandidateAction(a, in, T) # "INCREASE"
      BY <1>1, <1>3, SaleFacts
    <2>2. /\ Wants(in)[a] > 0 => CandidateAction(a, in, T) = "INCREASE"
          /\ Wants(in)[a] > 0 => 100 * (book[a] + Wants(in)[a]) <= Goal(a, T)
      BY <1>1, <1>3, WantedFacts
    <2>3. Goal(a, T) \in Nat /\ book[a] \in Nat
      BY <1>1, GapFacts
    <2>4. /\ Sold(in)[a] \in Nat /\ Wants(in)[a] \in Nat
          /\ Bought(in)[a] \in Nat /\ Bought(in)[a] <= Wants(in)[a]
      BY <1>4, <1>5, <1>10
    <2> QED
      BY <2>1, <2>2, <2>3, <2>4
  <1> QED
    BY <1>1, <1>2, <1>4, <1>7, <1>10, <1>11, <1>12 DEF T, pool


-----------------------------------------------------------------------------
(* The sums a plan is judged by, for any books b and orders o.             *)

Up(o) == [a \in Assets |-> LargerOf(0, o[a])]
Down(o) == [a \in Assets |-> LargerOf(0, -o[a])]

\* Orders split into what they buy and what they sell.
LEMMA UpAndDown ==
    ASSUME NEW o \in [Assets -> Int]
    PROVE  /\ \A a \in Assets : /\ Up(o)[a] \in Nat /\ Down(o)[a] \in Nat
                                /\ o[a] = Up(o)[a] - Down(o)[a]
           /\ SumOver(o, Assets) = SumOver(Up(o), Assets) - SumOver(Down(o), Assets)
           /\ SumOver(Up(o), Assets) \in Nat /\ SumOver(Down(o), Assets) \in Nat
  <1>1. \A a \in Assets : /\ Up(o)[a] \in Nat /\ Down(o)[a] \in Nat
                          /\ o[a] = Up(o)[a] - Down(o)[a] /\ o[a] \in Int
    BY DEF Up, Down, LargerOf
  <1>2. IsFiniteSet(Assets)
    BY RebalancePolicy
  <1>3. SumOver(Up(o), Assets) \in Nat /\ SumOver(Down(o), Assets) \in Nat
    BY <1>1, <1>2, SumOfNaturals
  <1>4. SumOver(Up(o), Assets) = SumOver(o, Assets) + SumOver(Down(o), Assets)
    <2>1. \A a \in Assets : o[a] \in Int /\ Down(o)[a] \in Int /\ Up(o)[a] = o[a] + Down(o)[a]
      BY <1>1
    <2> QED
      BY <1>2, <2>1, SumOfSums
  <1>5. SumOver(o, Assets) \in Int
    BY <1>1, <1>2, SumType
  <1> QED
    BY <1>1, <1>3, <1>4, <1>5

\* Where each asset is only bought or only sold, nothing cancels.
LEMMA LegsAddUp ==
    ASSUME NEW b, NEW s, NEW o \in [Assets -> Int],
           \A a \in Assets : /\ b[a] \in Nat /\ s[a] \in Nat /\ o[a] = b[a] - s[a]
                             /\ s[a] = 0 \/ b[a] = 0
    PROVE  SumOver(Up(o), Assets) = SumOver(b, Assets) /\ SumOver(Down(o), Assets) = SumOver(s, Assets)
  <1>1. IsFiniteSet(Assets)
    BY RebalancePolicy
  <1>2. \A a \in Assets : Up(o)[a] \in Int /\ Up(o)[a] = b[a]
    BY DEF Up, LargerOf
  <1>3. \A a \in Assets : Down(o)[a] \in Int /\ Down(o)[a] = s[a]
    BY DEF Down, LargerOf
  <1> QED
    BY <1>1, <1>2, <1>3, SumSame

\* Carrying out a part of a funded plan, no buy before the sales, never takes
\* more than the sleeve's own sale.
Partly(b, o, sale, done) ==
    /\ b \in [Assets -> Nat] /\ o \in [Assets -> Int] /\ sale \in Nat /\ done \subseteq Assets
    /\ \A a \in Assets : b[a] + o[a] \in Nat
    /\ SumOver(Up(o), Assets) <= SumOver(Down(o), Assets) + sale
    /\ (\E a \in done : o[a] > 0) => \A a \in Assets : o[a] < 0 => a \in done

Carried(b, o, done) == [a \in Assets |-> IF a \in done THEN b[a] + o[a] ELSE b[a]]

\* Whatever part of funded orders is executed is funded.
LEMMA PartIsFunded ==
    ASSUME NEW b, NEW o, NEW sale, NEW done, Partly(b, o, sale, done)
    PROVE  /\ Carried(b, o, done) \in [Assets -> Nat]
           /\ SumOver(Carried(b, o, done), Assets) <= SumOver(b, Assets) + sale
  <1> DEFINE n == [a \in Assets |-> IF a \in done THEN b[a] + o[a] ELSE b[a]]
  <1>0. /\ b \in [Assets -> Nat] /\ o \in [Assets -> Int] /\ sale \in Nat /\ done \subseteq Assets
        /\ \A a \in Assets : b[a] + o[a] \in Nat
        /\ SumOver(Up(o), Assets) <= SumOver(Down(o), Assets) + sale
        /\ (\E a \in done : o[a] > 0) => \A a \in Assets : o[a] < 0 => a \in done
    BY DEF Partly
  <1> DEFINE part == [a \in Assets |-> IF a \in done THEN o[a] ELSE 0]
  <1>1. n \in [Assets -> Nat] /\ part \in [Assets -> Int]
    BY <1>0
  <1>2. \A a \in Assets : b[a] \in Int /\ part[a] \in Int /\ n[a] = b[a] + part[a]
    BY <1>0
  <1>3. IsFiniteSet(Assets)
    BY RebalancePolicy
  <1>4. SumOver(part, Assets) <= sale
    <2>1. CASE \E a \in done : o[a] > 0
      <3>1. \A a \in Assets : part[a] \in Int /\ o[a] \in Int /\ part[a] <= o[a]
        BY <1>0, <2>1
      <3> HIDE DEF part
      <3>2. SumOver(part, Assets) <= SumOver(o, Assets)
        BY <1>3, <3>1, SumMonotone
      <3>3. SumOver(part, Assets) \in Int
        BY <1>3, <3>1, SumType
      <3>4. /\ SumOver(o, Assets) = SumOver(Up(o), Assets) - SumOver(Down(o), Assets)
            /\ SumOver(Up(o), Assets) \in Nat /\ SumOver(Down(o), Assets) \in Nat
        BY <1>0, UpAndDown
      <3> QED
        BY <1>0, <3>2, <3>3, <3>4
    <2>2. CASE ~\E a \in done : o[a] > 0
      <3> DEFINE nothing == [a \in Assets |-> 0]
      <3>1. \A a \in Assets : part[a] \in Int /\ nothing[a] \in Int /\ part[a] <= nothing[a]
        BY <1>0, <2>2
      <3>2. \A a \in Assets : nothing[a] \in Int /\ nothing[a] = 0 * nothing[a]
        OBVIOUS
      <3> HIDE DEF part, nothing
      <3>3. SumOver(part, Assets) <= SumOver(nothing, Assets) /\ SumOver(part, Assets) \in Int
        BY <1>3, <3>1, SumMonotone, SumType
      <3>4. SumOver(nothing, Assets) = 0
        <4>1. SumOver(nothing, Assets) \in Int
          BY <1>3, <3>2, SumType
        <4>2. SumOver(nothing, Assets) = 0 * SumOver(nothing, Assets)
          BY <1>3, <3>2, SumOfMultiples
        <4> QED
          BY <4>1, <4>2
      <3> QED
        BY <1>0, <3>3, <3>4
    <2> QED
      BY <2>1, <2>2
  <1> HIDE DEF n, part
  <1>5. SumOver(n, Assets) = SumOver(b, Assets) + SumOver(part, Assets)
    BY <1>2, <1>3, SumOfSums
  <1>6. SumOver(b, Assets) \in Int /\ SumOver(part, Assets) \in Int
    BY <1>2, <1>3, SumType
  <1> QED
    BY <1>0, <1>1, <1>4, <1>5, <1>6 DEF n, Carried

\* An order book that carries no asset beyond its target, but for the rounding
\* r, and the cash c it leaves, but for all roundings.
UpToTargets(w, T, b, o, r) ==
    \A a \in Assets : r[a] \in Nat /\ 100 * (b[a] + o[a]) <= w[a] * T + r[a]
LeavesFloor(c, o, r, floor, T) ==
    100 * (c - SumOver(o, Assets)) + SumOver(r, Assets) >= floor * T

\* With every asset at or under its target, rounded up to the dollar, the
\* sleeve is at its own.
LEMMA SleeveIsRestored ==
    ASSUME NEW w \in [Assets -> 0 .. 100], NEW T \in Nat, NEW c \in Nat,
           NEW b \in [Assets -> Nat], NEW o \in [Assets -> Int], T = SumOver(b, Assets) + c,
           NEW floor \in Nat, StableTarget(w) >= floor,
           NEW r, UpToTargets(w, T, b, o, r)
    PROVE  LeavesFloor(c, o, r, floor, T)
  <1> DEFINE held_ == [a \in Assets |-> b[a] + o[a]]
             hundredfold == [a \in Assets |-> 100 * held_[a]]
             worth == [a \in Assets |-> T * w[a]]
             limit == [a \in Assets |-> worth[a] + r[a]]
  <1>0. \A a \in Assets : r[a] \in Nat /\ 100 * (b[a] + o[a]) <= w[a] * T + r[a]
    BY DEF UpToTargets
  <1>1. IsFiniteSet(Assets)
    BY RebalancePolicy
  <1>2. \A a \in Assets : w[a] * T = T * w[a] /\ T * w[a] \in Nat /\ w[a] \in Int
    <2>1. \A m \in 0 .. 100 : m * T = T * m /\ T * m \in Nat
      OBVIOUS
    <2> QED
      BY <2>1
  <1>3. \A a \in Assets : b[a] \in Int /\ o[a] \in Int /\ held_[a] \in Int /\ held_[a] = b[a] + o[a]
    OBVIOUS
  <1>4. \A a \in Assets : held_[a] \in Int /\ hundredfold[a] = 100 * held_[a] /\ hundredfold[a] \in Int
    OBVIOUS
  <1>5. \A a \in Assets : w[a] \in Int /\ worth[a] = T * w[a] /\ worth[a] \in Int
    BY <1>2
  <1>6. \A a \in Assets : worth[a] \in Int /\ r[a] \in Int /\ limit[a] = worth[a] + r[a]
    BY <1>0, <1>5
  <1>7. \A a \in Assets : hundredfold[a] \in Int /\ limit[a] \in Int /\ hundredfold[a] <= limit[a]
    BY <1>0, <1>2, <1>4, <1>6
  <1> HIDE DEF held_, hundredfold, worth, limit
  <1>8. SumOver(held_, Assets) = SumOver(b, Assets) + SumOver(o, Assets)
    BY <1>1, <1>3, SumOfSums
  <1>9. SumOver(hundredfold, Assets) = 100 * SumOver(held_, Assets)
    BY <1>1, <1>4, SumOfMultiples
  <1>10. SumOver(worth, Assets) = T * SumOver(w, Assets)
    BY <1>1, <1>5, SumOfMultiples
  <1>11. SumOver(limit, Assets) = SumOver(worth, Assets) + SumOver(r, Assets)
    BY <1>1, <1>6, SumOfSums
  <1>12. SumOver(hundredfold, Assets) <= SumOver(limit, Assets)
    BY <1>1, <1>7, SumMonotone
  <1>13. /\ SumOver(b, Assets) \in Int /\ SumOver(o, Assets) \in Int
         /\ SumOver(w, Assets) \in Int /\ SumOver(r, Assets) \in Int
    <2>1. (\A a \in Assets : b[a] \in Int) /\ (\A a \in Assets : o[a] \in Int)
      BY <1>3
    <2>2. \A a \in Assets : w[a] \in Int
      BY <1>2
    <2>3. \A a \in Assets : r[a] \in Int
      BY <1>6
    <2>4. SumOver(b, Assets) \in Int
      BY <1>1, <2>1, SumType
    <2>5. SumOver(o, Assets) \in Int
      BY <1>1, <2>1, SumType
    <2>6. SumOver(w, Assets) \in Int
      BY <1>1, <2>2, SumType
    <2>7. SumOver(r, Assets) \in Int
      BY <1>1, <2>3, SumType
    <2> QED
      BY <2>4, <2>5, <2>6, <2>7
  <1> DEFINE sb == SumOver(b, Assets)
             so == SumOver(o, Assets)
             sw == SumOver(w, Assets)
             sr == SumOver(r, Assets)
  <1>14. 100 * (sb + so) <= T * sw + sr
    BY <1>8, <1>9, <1>10, <1>11, <1>12
  <1>15. floor <= 100 - sw /\ T = sb + c
    BY StableTargetIs
  <1>16. sb \in Int /\ so \in Int /\ sw \in Int /\ sr \in Int
    BY <1>13
  <1> HIDE DEF sb, so, sw, sr
  <1>17. \A x, y \in Int : x <= 100 - y => x * T <= 100 * T - T * y
    OBVIOUS
  <1>18. floor * T <= 100 * T - T * sw
    BY <1>15, <1>16, <1>17
  <1>19. T * sw \in Int /\ floor * T \in Int
    BY <1>16
  <1> DEFINE product == T * sw
             least == floor * T
  <1>20. 100 * (sb + so) <= product + sr /\ least <= 100 * T - product /\ product \in Int /\ least \in Int
    BY <1>14, <1>18, <1>19
  <1> HIDE DEF product, least
  <1>21. 100 * (c - so) + sr >= least
    BY <1>15, <1>16, <1>20
  <1> QED
    BY <1>21 DEF LeavesFloor, least, so, sr


\* What a target lacks of whole dollars is what a whole number of dollars
\* stands above it.
LEMMA SameRemainder ==
    ASSUME NEW g \in Nat, NEW k \in Nat
    PROVE  (100 * k - g) % 100 = (-g) % 100 /\ (-g) % 100 \in Nat
  OBVIOUS

\* Where the overlay binds, a review that answers brings every asset down to
\* its target, rounded up to the dollar.
LEMMA UnderTarget ==
    ASSUME Money, Binding, NEW in \in Requests, ~Raises(in, WorthWith(in)), NEW a \in Assets
    PROVE  100 * (book[a] + (Bought(in)[a] - Sold(in)[a]))
               <= Goal(a, WorthWith(in)) + ((-Goal(a, WorthWith(in))) % 100)
  <1> DEFINE T == WorthWith(in)
             g == Goal(a, T)
             r == (-g) % 100
             b == Bought(in)[a]
             s == Sold(in)[a]
  <1>1. T \in Nat /\ b \in Nat /\ s \in Nat /\ s <= book[a]
    BY Legs
  <1>2. (s = 0 \/ b = 0) /\ (b > 0 => 100 * (book[a] + b) <= g)
    BY Legs
  <1>3. g \in Nat /\ book[a] \in Nat /\ Gap(a, T) = g - 100 * book[a] /\ Gap(a, T) \in Int
    BY <1>1, GapFacts
  <1>4. s = Sale(a, in, T)
    BY DEF Sold
  <1>5. r \in Nat /\ (100 * book[a] - g) % 100 = r
    BY <1>3, SameRemainder
  <1>6. CASE b > 0
    <2> HIDE DEF T, g, r, b, s
    <2> QED
      BY <1>1, <1>2, <1>3, <1>5, <1>6 DEF T, g, r, b, s
  <1>7. CASE b = 0 /\ a \notin HardReasons(in, T)
    <2>1. ~(100 * book[a] > mandate.want[a] * Worth)
      BY <1>7 DEF HardReasons
    <2>2. mandate.want[a] * Worth <= g /\ mandate.want[a] * Worth \in Nat
      <3>1. mandate.want[a] \in Nat /\ Worth \in Nat /\ in.deposit \in Nat
        <4>1. mandate.want[a] \in Nat
          <5>1. mandate.want[a] \in 0 .. 100
            BY <1>1, GapFacts
          <5> HIDE DEF T, g, r, b, s
          <5> QED
            BY <5>1
        <4>2. Worth \in Nat
          BY WorthIs
        <4>3. in.deposit \in Nat
          BY RebalancePolicy
        <4> QED
          BY <4>1, <4>2, <4>3
      <3>2. \A w, x, y \in Nat : w * x <= w * (x + y) /\ w * x \in Nat
        OBVIOUS
      <3> QED
        BY <3>1, <3>2 DEF T, g, Goal, WorthWith
    <2> DEFINE before == mandate.want[a] * Worth
    <2>3. ~(100 * book[a] > before) /\ before <= g /\ before \in Nat
      BY <2>1, <2>2
    <2> HIDE DEF T, g, r, b, s, before
    <2>4. 100 * (book[a] + (b - s)) <= g + r
      BY <1>1, <1>3, <1>5, <1>7, <2>3
    <2> QED
      BY <2>4 DEF T, g, r, b, s
  <1>8. CASE b = 0 /\ a \in HardReasons(in, T)
    <2>1. Sells(a, in, T) /\ (a \in Broken(in) \/ Gap(a, T) # 0)
      BY <1>8 DEF Raises
    <2>2. CASE a \in Broken(in)
      <3>1. s = book[a]
        BY <1>1, <1>4, <2>1, <2>2, SaleFacts
      <3> HIDE DEF T, g, r, b, s
      <3>2. 100 * (book[a] + (b - s)) <= g + r
        BY <1>1, <1>3, <1>5, <1>8, <3>1
      <3> QED
        BY <3>2 DEF T, g, r, b, s
    <2>3. CASE a \notin Broken(in)
      <3>1. CandidateAction(a, in, T) \in {"REDUCE", "EXIT"}
        BY <2>1 DEF Sells, Moves, Proposal, Executable
      <3>2. Gap(a, T) < 0
        BY <1>1, <1>3, <2>1, <2>3, <3>1, CandidateFacts
      <3>3. book[a] > 0
        <4> HIDE DEF g, T
        <4> QED
          BY <1>3, <3>2
      <3>4. a \in Hard(in, T)
        BY <1>3, <1>8, <2>3, <3>2, <3>3 DEF Hard
      <3>5. 100 * (book[a] - s) = g + ((-Gap(a, T)) % 100)
        BY <1>1, <1>4, <2>1, <3>4, SaleFacts
      <3>6. -Gap(a, T) = 100 * book[a] - g
        <4> HIDE DEF g, T
        <4> QED
          BY <1>3
      <3>7. 100 * (book[a] - s) = g + r
        BY <1>5, <3>5, <3>6
      <3> HIDE DEF T, g, r, b, s
      <3>8. 100 * (book[a] + (b - s)) <= g + r
        BY <1>1, <1>3, <1>5, <1>8, <3>7
      <3> QED
        BY <3>8 DEF T, g, r, b, s
    <2> QED
      BY <2>2, <2>3
  <1> QED
    BY <1>1, <1>6, <1>7, <1>8

-----------------------------------------------------------------------------
(* What holds of the money in every state.                                 *)

\* Nothing is held below zero, not even once every order is carried out, and
\* an order stands only between a review and its execution, and is funded.
Funds ==
    /\ Money
    /\ orders \in [Assets -> Int] /\ stableSale \in Nat
    /\ answer \in {"NONE", "PLAN", "RAISED"} /\ phase \in {"review", "execute"}
    /\ phase = "review" => orders = [a \in Assets |-> 0] /\ stableSale = 0
    /\ \A a \in Assets : book[a] + orders[a] \in Nat
    /\ EveryBuyIsFunded

\* The same of a state and of the next one, in sums of the orders' two sides.
LEMMA FundedIs ==
    EveryBuyIsFunded <=>
        (phase = "execute" =>
            SumOver(Up(orders), Assets) <= SumOver(Down(orders), Assets) + stableSale
            /\ stableSale <= cash)
  BY SumIs DEF EveryBuyIsFunded, Up, Down

\* Funding, spelled out for the next state.
LEMMA FundedAfter ==
    EveryBuyIsFunded' <=>
        (phase' = "execute" =>
            SumOver(Up(orders'), Assets) <= SumOver(Down(orders'), Assets) + stableSale'
            /\ stableSale' <= cash')
  BY SumIs DEF EveryBuyIsFunded, Up, Down

\* The book a review starts with, and the one the market leaves.
LEMMA FundsInit == InitBook => Funds
  <1> SUFFICES ASSUME InitBook PROVE Funds
    OBVIOUS
  <1>1. Money
    BY RebalancePolicy DEF InitBook, Money
  <1>2. /\ orders = [a \in Assets |-> 0] /\ stableSale = 0
        /\ answer = "NONE" /\ phase = "review"
    BY DEF InitBook
  <1>3. \A a \in Assets : book[a] + orders[a] \in Nat
    BY <1>1, <1>2 DEF Money
  <1>4. EveryBuyIsFunded
    BY <1>2 DEF EveryBuyIsFunded
  <1> QED
    BY <1>1, <1>2, <1>3, <1>4 DEF Funds

\* A review that answers pays for its buys.
LEMMA PlanKeepsFunds ==
    ASSUME Funds, NEW in \in Requests, Plan(in)
    PROVE  Funds'
  <1>1. Money
    BY DEF Funds
  <1> DEFINE sold == Sold(in)
             bought == Bought(in)
             offer == Offer(in)
  <1>2. /\ offer \in Nat /\ offer <= cash + in.deposit
        /\ SumOver(sold, Assets) \in Nat /\ SumOver(bought, Assets) \in Nat
        /\ SumOver(bought, Assets) <= SumOver(sold, Assets) + offer
        /\ \A a \in Assets : /\ sold[a] \in Nat /\ sold[a] <= book[a] /\ bought[a] \in Nat
                             /\ sold[a] = 0 \/ bought[a] = 0
    BY <1>1, Legs
  <1>3. /\ phase' = "execute" /\ answer' = "PLAN" /\ book' = book /\ cash' = cash + in.deposit
        /\ mandate' = mandate /\ excluded' = excluded
        /\ orders' = [a \in Assets |-> bought[a] - sold[a]]
        /\ stableSale' = SmallerOf(offer, LargerOf(0, Sum(bought) - Sum(sold)))
    BY PlanIs
  <1>4. Sum(bought) = SumOver(bought, Assets) /\ Sum(sold) = SumOver(sold, Assets)
    BY SumIs
  <1>5. in.deposit \in Nat /\ cash \in Nat /\ \A a \in Assets : book[a] \in Nat
    BY <1>1, RebalancePolicy DEF Money
  <1> HIDE DEF sold, bought, offer
  <1>6. Money'
    BY <1>1, <1>3, <1>5 DEF Money
  <1>7. PICK o : o = orders'
    OBVIOUS
  <1>8. o \in [Assets -> Int] /\ \A a \in Assets : o[a] = bought[a] - sold[a]
    BY <1>2, <1>3, <1>7
  <1>9. SumOver(Up(o), Assets) = SumOver(bought, Assets) /\ SumOver(Down(o), Assets) = SumOver(sold, Assets)
    <2>1. \A a \in Assets : /\ bought[a] \in Nat /\ sold[a] \in Nat /\ o[a] = bought[a] - sold[a]
                            /\ sold[a] = 0 \/ bought[a] = 0
      BY <1>2, <1>8
    <2> QED
      BY <1>8, <2>1, LegsAddUp
  <1>10. /\ stableSale' \in Nat /\ stableSale' <= cash'
         /\ SumOver(bought, Assets) <= SumOver(sold, Assets) + stableSale'
    BY <1>2, <1>3, <1>4, <1>5 DEF SmallerOf, LargerOf
  <1>11. \A a \in Assets : book'[a] + o[a] \in Nat
    BY <1>2, <1>3, <1>5, <1>8
  <1>12. EveryBuyIsFunded'
    BY <1>7, <1>9, <1>10, FundedAfter
  <1>13. orders' \in [Assets -> Int] /\ \A a \in Assets : book'[a] + orders'[a] \in Nat
    BY <1>7, <1>8, <1>11
  <1> QED
    BY <1>3, <1>6, <1>10, <1>12, <1>13 DEF Funds

\* Carrying out a part of the plan takes nothing below zero.
LEMMA ExecuteKeepsFunds ==
    ASSUME Funds, NEW done \in SUBSET {a \in Assets : orders[a] # 0}, Execute(done)
    PROVE  Funds'
  <1> DEFINE left == Carried(book, orders, done)
  <1>1. /\ phase = "execute" /\ phase' = "review"
        /\ book' = left /\ cash' = Worth - excluded - Sum(book') /\ excluded' = excluded
        /\ orders' = [a \in Assets |-> 0] /\ stableSale' = 0
        /\ mandate' = mandate /\ answer' = answer
    BY DEF Execute, Carried
  <1>2. /\ Money /\ orders \in [Assets -> Int] /\ stableSale \in Nat /\ EveryBuyIsFunded
        /\ \A a \in Assets : book[a] + orders[a] \in Nat
        /\ answer \in {"NONE", "PLAN", "RAISED"}
    BY DEF Funds
  <1>3. left \in [Assets -> Nat] /\ SumOver(left, Assets) <= SumOver(book, Assets) + stableSale
    <2>1. SumOver(Up(orders), Assets) <= SumOver(Down(orders), Assets) + stableSale
      BY <1>1, <1>2, FundedIs
    <2>2. (\E a \in done : orders[a] > 0) => \A a \in Assets : orders[a] < 0 => a \in done
      BY DEF Execute
    <2>3. done \subseteq Assets /\ book \in [Assets -> Nat]
      BY <1>2 DEF Money
    <2>4. stableSale \in Nat /\ orders \in [Assets -> Int] /\ \A a \in Assets : book[a] + orders[a] \in Nat
      BY <1>2
    <2>5. Partly(book, orders, stableSale, done)
      BY <2>1, <2>2, <2>3, <2>4 DEF Partly
    <2> QED
      BY <2>5, PartIsFunded
  <1>4. stableSale <= cash
    BY <1>1, <1>2, FundedIs
  <1>5. Worth = SumOver(book, Assets) + cash + excluded
    BY <1>2, WorthIs
  <1>6. SumOver(left, Assets) \in Nat /\ SumOver(book, Assets) \in Nat
    <2>1. IsFiniteSet(Assets) /\ \A a \in Assets : book[a] \in Nat /\ left[a] \in Nat
      BY <1>2, <1>3, RebalancePolicy DEF Money
    <2> HIDE DEF left
    <2> QED
      BY <2>1, SumOfNaturals
  <1> HIDE DEF left
  <1>7. PICK b : b = book'
    OBVIOUS
  <1>8. Sum(b) = SumOver(b, Assets)
    BY SumIs
  <1>9. cash' \in Nat
    <2>1. cash' = Worth - excluded - SumOver(left, Assets)
      BY <1>1, <1>7, <1>8
    <2>2. cash \in Nat /\ excluded \in Nat
      BY <1>2 DEF Money
    <2> QED
      BY <1>2, <1>3, <1>4, <1>5, <1>6, <2>1, <2>2
  <1>10. Money'
    BY <1>1, <1>2, <1>3, <1>9 DEF Money
  <1>11. \A a \in Assets : book'[a] + orders'[a] \in Nat
    BY <1>1, <1>3
  <1>12. EveryBuyIsFunded'
    BY <1>1 DEF EveryBuyIsFunded
  <1> QED
    BY <1>1, <1>2, <1>10, <1>11, <1>12 DEF Funds

\* What the market leaves is a book of whole dollars without orders.
LEMMA MarketKeepsFunds ==
    ASSUME Funds, NEW p \in Portfolios \cup {Standing}, NEW m \in Mandates,
           NEW day, Market(p, m, day)
    PROVE  Funds'
  <1>1. /\ phase = "review" /\ phase' = "review" /\ answer' = "NONE" /\ mandate' = m
        /\ orders' = orders /\ stableSale' = stableSale /\ book' = p.book /\ cash' = p.cash
        /\ excluded' = p.excluded
    BY DEF Market
  <1>2. orders = [a \in Assets |-> 0] /\ stableSale = 0 /\ Money
    BY <1>1 DEF Funds
  <1>3. p.book \in [Assets -> Nat] /\ p.cash \in Nat /\ p.excluded \in Nat
    <2>1. CASE p \in Portfolios
      BY <2>1, RebalancePolicy
    <2>2. CASE p = Standing
      BY <1>2, <2>2 DEF Money, Standing
    <2> QED
      BY <2>1, <2>2
  <1>4. Money'
    BY <1>1, <1>3 DEF Money
  <1>5. \A a \in Assets : book'[a] + orders'[a] \in Nat
    BY <1>1, <1>2, <1>3
  <1>6. EveryBuyIsFunded'
    BY <1>1 DEF EveryBuyIsFunded
  <1> QED
    BY <1>1, <1>2, <1>4, <1>5, <1>6 DEF Funds

\* Every step keeps the money in order.
LEMMA FundsStep == Funds /\ [NextBook]_rebalanceVars => Funds'
  <1> SUFFICES ASSUME Funds, [NextBook]_rebalanceVars PROVE Funds'
    OBVIOUS
  <1>1. ASSUME NEW in \in Requests, ReviewBook(in) PROVE Funds'
    <2>1. CASE Plan(in)
      BY <2>1, PlanKeepsFunds
    <2>2. CASE Fail(in)
      <3>1. phase' = "review"
        BY <1>1, <2>2 DEF ReviewBook, Fail
      <3>2. EveryBuyIsFunded'
        BY <3>1, FundedAfter
      <3> QED
        BY <2>2, <3>2 DEF Fail, Funds, Money
    <2> QED
      BY <1>1, <2>1, <2>2 DEF ReviewBook
  <1>2. ASSUME NEW done \in SUBSET {a \in Assets : orders[a] # 0}, Execute(done) PROVE Funds'
    BY <1>2, ExecuteKeepsFunds
  <1>3. ASSUME NEW p \in Portfolios \cup {Standing}, NEW m \in Mandates,
               NEW day \in {today, today + 1}, Market(p, m, day)
        PROVE Funds'
    BY <1>3, MarketKeepsFunds
  <1>4. CASE UNCHANGED rebalanceVars
    <2>1. EveryBuyIsFunded'
      <3>1. EveryBuyIsFunded
        BY DEF Funds
      <3>2. phase' = phase /\ orders' = orders /\ stableSale' = stableSale /\ cash' = cash
        BY <1>4 DEF rebalanceVars
      <3> QED
        BY <3>1, <3>2, FundedIs, FundedAfter
    <2> QED
      BY <1>4, <2>1 DEF rebalanceVars, Funds, Money
  <1> QED
    BY <1>1, <1>2, <1>3, <1>4 DEF NextBook

\* The money is in order in every state.
LEMMA FundsInvariant == RebalanceSpec => []Funds
  BY FundsInit, FundsStep, PTL DEF RebalanceSpec

\* Whatever the assets, books, targets, reasons and allowances: no plan spends
\* a dollar twice.  The buys draw on one pool, the largest first, so together
\* they draw no more than the sales and the sleeve put into it.
THEOREM FundedHolds == RebalanceSpec => []EveryBuyIsFunded
  <1>1. Funds => EveryBuyIsFunded
    BY DEF Funds
  <1> QED
    BY <1>1, FundsInvariant, PTL

-----------------------------------------------------------------------------
(* What a plan promises of the targets.                                    *)

\* Executed in full, nothing or in part, the book is worth what the plan was
\* sized by.
LEMMA WorthAfter ==
    ASSUME Money, NEW in \in Requests, Plan(in)
    PROVE  Worth' = WorthWith(in)
  <1>1. book' = book /\ cash' = cash + in.deposit /\ excluded' = excluded
    BY PlanIs
  <1>2. PICK b : b = book'
    OBVIOUS
  <1>3. Worth' = Sum(b) + cash' + excluded'
    BY <1>2 DEF Worth
  <1>4. Sum(b) = SumOver(book, Assets)
    BY <1>1, <1>2, SumIs
  <1>5. Worth = SumOver(book, Assets) + cash + excluded /\ SumOver(book, Assets) \in Int
    <2>1. IsFiniteSet(Assets) /\ \A a \in Assets : book[a] \in Int
      BY RebalancePolicy DEF Money
    <2> QED
      BY <2>1, WorthIs, SumType
  <1>6. cash \in Int /\ excluded \in Int /\ in.deposit \in Int
    BY RebalancePolicy DEF Money
  <1> QED
    BY <1>1, <1>3, <1>4, <1>5, <1>6 DEF WorthWith

\* A buy stays below the target and a reduction above it.
LEMMA PlanKeepsToTargets ==
    ASSUME Funds, NEW in \in Requests, Plan(in)
    PROVE  NeverPastTarget'
  <1> DEFINE T == WorthWith(in)
  <1>1. Money
    BY DEF Funds
  <1>2. /\ book' = book /\ mandate' = mandate
        /\ orders' = [a \in Assets |-> Bought(in)[a] - Sold(in)[a]]
        /\ \A a \in Assets : last'[a].proposal.action = CandidateAction(a, in, T)
    BY PlanIs
  <1>3. Worth' = T
    BY <1>1, WorthAfter
  <1> HIDE DEF T
  <1>4. ASSUME NEW a \in Assets
        PROVE  /\ orders'[a] > 0 => 100 * (book[a] + orders'[a]) <= Goal(a, T)
               /\ orders'[a] < 0 /\ last'[a].proposal.action = "REDUCE"
                     => 100 * (book[a] + orders'[a]) >= Goal(a, T)
    <2> DEFINE b == Bought(in)[a]
               s == Sold(in)[a]
    <2>1. /\ T \in Nat /\ b \in Nat /\ s \in Nat
          /\ s = 0 \/ b = 0
          /\ b > 0 => 100 * (book[a] + b) <= Goal(a, T)
      BY <1>1, Legs DEF T
    <2>2. orders'[a] = b - s
      BY <1>2
    <2>3. s = Sale(a, in, T)
      BY DEF Sold, T
    <2>4. /\ s > 0 /\ a \notin Broken(in) => 100 * (book[a] - s) >= Goal(a, T)
          /\ CandidateAction(a, in, T) = "REDUCE" => a \notin Broken(in)
      BY <1>1, <2>1, <2>3, SaleFacts, CandidateFacts
    <2>5. Goal(a, T) \in Nat /\ book[a] \in Nat
      BY <1>1, <2>1, GapFacts
    <2> HIDE DEF b, s
    <2> QED
      BY <1>2, <2>1, <2>2, <2>4, <2>5
  <1>5. \A a \in Assets : Goal(a, T) = mandate'.want[a] * Worth'
    BY <1>2, <1>3 DEF Goal
  <1> QED
    BY <1>2, <1>4, <1>5 DEF NeverPastTarget

\* Where the overlay binds the sleeve is worth its floor once the plan is
\* carried out.
LEMMA PlanRestoresFloor ==
    ASSUME Funds, NEW in \in Requests, Plan(in)
    PROVE  OverlayRestoresFloor'
  <1> SUFFICES ASSUME Binding PROVE OverlayRestoresFloor'
    <2>1. Binding' = Binding
      BY PlanIs DEF Binding
    <2> QED
      BY <2>1 DEF OverlayRestoresFloor
  <1> DEFINE T == WorthWith(in)
             w == mandate.want
             c == cash + in.deposit + excluded
             floor == LargerOf(StableMandate, mandate.overlay)
             r == [a \in Assets |-> (-(w[a] * T)) % 100]
  <1>1. Money
    BY DEF Funds
  <1>2. /\ ~Raises(in, T) /\ book' = book /\ mandate' = mandate /\ cash' + excluded' = c
        /\ orders' = [a \in Assets |-> Bought(in)[a] - Sold(in)[a]]
    BY PlanIs
  <1>3. Worth' = T
    BY <1>1, WorthAfter
  <1>4. PICK o : o = orders'
    OBVIOUS
  <1>5. /\ \A a \in Assets : o[a] = Bought(in)[a] - Sold(in)[a] /\ Bought(in)[a] \in Nat /\ Sold(in)[a] \in Nat
        /\ o = [a \in Assets |-> o[a]]
        /\ T \in Nat
    BY <1>1, <1>2, <1>4, Legs
  <1>6. o \in [Assets -> Int]
    <2>1. \A a \in Assets : o[a] \in Int
      BY <1>5
    <2> QED
      BY <1>5, <2>1
  <1>7. \A a \in Assets : r[a] \in Nat /\ 100 * (book[a] + o[a]) <= w[a] * T + r[a]
    <2> SUFFICES ASSUME NEW a \in Assets
                 PROVE  r[a] \in Nat /\ 100 * (book[a] + o[a]) <= w[a] * T + r[a]
      OBVIOUS
    <2>1. 100 * (book[a] + (Bought(in)[a] - Sold(in)[a])) <= Goal(a, T) + ((-Goal(a, T)) % 100)
      BY <1>1, <1>2, UnderTarget
    <2>2. Goal(a, T) \in Nat
      BY <1>1, <1>5, GapFacts
    <2>3. (-Goal(a, T)) % 100 \in Nat
      BY <2>2, SameRemainder
    <2>4. Goal(a, T) = w[a] * T /\ r[a] = (-Goal(a, T)) % 100
      BY DEF Goal
    <2> HIDE DEF w, r, T
    <2> QED
      BY <1>5, <2>1, <2>3, <2>4
  <1>8. w \in [Assets -> 0 .. 100] /\ c \in Nat /\ book \in [Assets -> Nat] /\ mandate.overlay \in 0 .. 100
    BY <1>1, RebalancePolicy DEF Money
  <1>9. T = SumOver(book, Assets) + c
    <2>1. Worth = SumOver(book, Assets) + cash + excluded /\ SumOver(book, Assets) \in Int
      <3>1. IsFiniteSet(Assets) /\ \A a \in Assets : book[a] \in Int
        BY <1>8, RebalancePolicy
      <3> QED
        BY <1>1, <3>1, WorthIs, SumType
    <2>2. cash \in Int /\ excluded \in Int /\ in.deposit \in Int
      BY <1>1, RebalancePolicy DEF Money
    <2> QED
      BY <2>1, <2>2 DEF WorthWith
  <1>10. floor \in Nat /\ StableTarget(w) >= floor
    BY <1>1, <1>8, RebalancePolicy DEF LargerOf, Money
  <1>11. floor * Worth' = floor * T /\ cash' + excluded' = c
    BY <1>2, <1>3
  <1>12. Sum(o) = SumOver(o, Assets)
    BY SumIs
  <1>13. Rounding' = SumOver(r, Assets)
    <2>1. PICK q : q = [a \in Assets |-> (-(mandate'.want[a] * Worth')) % 100]
      OBVIOUS
    <2>2. Rounding' = Sum(q)
      BY <2>1 DEF Rounding
    <2>3. q = r
      BY <1>2, <1>3, <2>1
    <2> QED
      BY <2>2, <2>3, SumIs
  <1> HIDE DEF T, w, c, floor, r
  <1>14. 100 * (c - SumOver(o, Assets)) + SumOver(r, Assets) >= floor * T
    <2>1. UpToTargets(w, T, book, o, r)
      BY <1>7 DEF UpToTargets
    <2>2. T \in Nat
      BY <1>5
    <2>3. LeavesFloor(c, o, r, floor, T)
      BY <1>6, <1>8, <1>9, <1>10, <2>1, <2>2, SleeveIsRestored
    <2> QED
      BY <2>3 DEF LeavesFloor
  <1>15. 100 * (cash' + excluded' - Sum(o)) + Rounding' >= floor * Worth'
    <2>1. 100 * (c - Sum(o)) + Rounding' >= floor * Worth'
      BY <1>3, <1>11, <1>12, <1>13, <1>14
    <2>2. cash' + excluded' = c
      BY <1>11
    <2>3. cash' \in Int /\ excluded' \in Int
      <3>1. cash \in Nat /\ excluded \in Nat /\ in.deposit \in Nat
        BY <1>1, RebalancePolicy DEF Money
      <3>2. cash' = cash + in.deposit /\ excluded' = excluded
        BY PlanIs
      <3> QED
        BY <3>1, <3>2
    <2>4. Sum(o) \in Int
      <3>1. IsFiniteSet(Assets) /\ \A a \in Assets : o[a] \in Int
        BY <1>6, RebalancePolicy
      <3> QED
        BY <1>12, <3>1, SumType
    <2> DEFINE least == floor * Worth'
               sum == Sum(o)
               rest == Rounding'
    <2>5. cash' + (excluded' - sum) = c - sum
      BY <2>2, <2>3, <2>4
    <2>6. 100 * (c - sum) + rest >= least
      BY <2>1
    <2> HIDE DEF least, sum, rest
    <2>7. 100 * (cash' + (excluded' - sum)) + rest >= least
      BY <2>5, <2>6
    <2> QED
      BY <2>7 DEF least, sum, rest
  <1>16. LargerOf(StableMandate, mandate'.overlay) = floor
    BY <1>2 DEF floor
  <1> QED
    BY <1>4, <1>15, <1>16 DEF OverlayRestoresFloor

\* Only a review leaves orders standing.
LEMMA OnlyPlansExecute ==
    ASSUME NextBook
    PROVE  phase' = "review" \/ \E in \in Requests : Plan(in)
  <1>1. ASSUME NEW in \in Requests, ReviewBook(in) PROVE phase' = "review" \/ Plan(in)
    BY <1>1 DEF ReviewBook, Fail
  <1>2. ASSUME NEW done, Execute(done) PROVE phase' = "review"
    BY <1>2 DEF Execute
  <1>3. ASSUME NEW p, NEW m, NEW day, Market(p, m, day) PROVE phase' = "review"
    BY <1>3 DEF Market
  <1> QED
    BY <1>1, <1>2, <1>3 DEF NextBook

\* The money, the histories and the plan have the types they should.
LEMMA TypesFollow == Funds /\ GateInv => RebalanceTypeOK
  <1> SUFFICES ASSUME Funds, GateInv PROVE RebalanceTypeOK
    OBVIOUS
  <1>1. ASSUME NEW a \in Assets PROVE Gate(a)!TypeOK
    <2>1. Gate(a)!Executable = Executable /\ Gate(a)!Actions = Actions /\ Gate(a)!Proposals = Proposals
      BY GateIsTheGate
    <2>2. /\ today \in Nat /\ history[a] \in Seq(Entries) /\ last[a] \in Ended
          /\ standing[a] \in Executable \cup {"NONE"} /\ held[a] \in Holds
      BY DEF GateInv
    <2> QED
      BY <2>1, <2>2 DEF Gate!TypeOK, Entries, Ended, Ends, Holds
  <1> QED
    BY <1>1 DEF Funds, Money, RebalanceTypeOK

\* For any assets, policy, books and requests: what is bought stays below its
\* target and what is reduced above it, in any part of the plan; and where the
\* overlay binds, a review that answers sells all that stands above its target,
\* so that the sleeve is back at its floor but for the parts of dollars and for
\* what is held of excluded assets.
THEOREM PlanHolds == RebalanceSpec => []PlanInvariant
  <1> DEFINE Inv == Funds /\ GateInv /\ NeverPastTarget /\ OverlayRestoresFloor
  <1>1. InitBook => Inv
    <2> SUFFICES ASSUME InitBook PROVE Inv
      OBVIOUS
    <2>1. phase = "review"
      BY DEF InitBook
    <2> QED
      BY <2>1, FundsInit, GateInit DEF NeverPastTarget, OverlayRestoresFloor
  <1>2. Inv /\ [NextBook]_rebalanceVars => Inv'
    <2> SUFFICES ASSUME Inv, [NextBook]_rebalanceVars
                 PROVE  (NeverPastTarget /\ OverlayRestoresFloor)' /\ Funds' /\ GateInv'
      OBVIOUS
    <2>1. Funds'
      BY FundsStep
    <2>2. GateInv'
      <3>1. CASE NextBook
        BY <3>1, GateStep
      <3>2. CASE UNCHANGED rebalanceVars
        BY <3>2 DEF rebalanceVars, gateVars, GateInv
      <3> QED
        BY <3>1, <3>2
    <2>3. CASE phase' = "review"
      BY <2>1, <2>2, <2>3 DEF NeverPastTarget, OverlayRestoresFloor
    <2>4. ASSUME NEW in \in Requests, Plan(in)
          PROVE  (NeverPastTarget /\ OverlayRestoresFloor)'
      BY <2>4, PlanKeepsToTargets, PlanRestoresFloor
    <2>5. CASE UNCHANGED rebalanceVars
      <3>1. /\ book' = book /\ cash' = cash /\ excluded' = excluded
            /\ mandate' = mandate /\ orders' = orders
            /\ phase' = phase /\ last' = last
        BY <2>5 DEF rebalanceVars, gateVars
      <3>2. Worth' = Worth
        BY <3>1 DEF Worth
      <3>3. NeverPastTarget'
        BY <3>1, <3>2 DEF NeverPastTarget
      <3>4. Rounding' = Rounding /\ Sum(orders)' = Sum(orders) /\ Binding' = Binding
        BY <3>1, <3>2 DEF Rounding, Binding
      <3>5. OverlayRestoresFloor'
        BY <3>1, <3>2, <3>4 DEF OverlayRestoresFloor
      <3> QED
        BY <2>1, <2>2, <3>3, <3>5
    <2> QED
      BY <2>1, <2>2, <2>3, <2>4, <2>5, OnlyPlansExecute
  <1>3. Inv => PlanInvariant
    BY TypesFollow DEF PlanInvariant
  <1> HIDE DEF Inv
  <1> QED
    BY <1>1, <1>2, <1>3, PTL DEF RebalanceSpec

-----------------------------------------------------------------------------
(* A review with no new cash and no reason of the caller's.                *)

\* A gap of nothing is within the bands.
LEMMA NothingIsWithinBands ==
    ASSUME NEW T \in Nat, NEW weight \in Nat
    PROVE  Band(0, weight, T) \in {"HOLD", "WATCH"}
  <1> DEFINE base == LargerOf(weight, RelativeFloor) * T
             x == HighAbove * T
             y == RelativeHigh * base
             z == WatchBelow * T
             hold == 0 < HoldBelow * T /\ 100 * 0 < RelativeWatch * base
  <1>1. /\ HighAbove \in Nat /\ WatchBelow \in Nat /\ RelativeHigh \in Nat /\ RelativeFloor \in Nat
    BY RebalancePolicy
  <1>2. LargerOf(weight, RelativeFloor) \in Nat
    BY <1>1 DEF LargerOf
  <1>3. \A k \in Nat : k * T \in Nat
    OBVIOUS
  <1>4. base \in Nat /\ x \in Nat /\ z \in Nat
    BY <1>1, <1>2, <1>3
  <1> HIDE DEF base
  <1>5. y \in Nat
    BY <1>1, <1>4
  <1>6. Size(0) = 0
    BY DEF Size
  <1>7. Band(0, weight, T) =
          IF hold THEN "HOLD" ELSE IF ~(0 > x \/ 100 * 0 > y) /\ 0 <= z THEN "WATCH" ELSE "ACT"
    BY <1>6 DEF Band, base
  <1> HIDE DEF x, y, z, hold
  <1> QED
    BY <1>4, <1>5, <1>7

\* Of its own reasons a review finds one only in an asset above its target.
LEMMA OwnReasonsAreOverweight ==
    ASSUME Money, NEW in \in Requests, in.caller = {}, NEW a \in Assets,
           mandate.want[a] <= HardCap[a], a \in HardReasons(in, Worth)
    PROVE  Gap(a, Worth) < 0 /\ book[a] > 0
  <1> DEFINE g == Goal(a, Worth)
             cap == HardCap[a] * Worth
  <1>1. Worth \in Nat
    BY WorthIs
  <1>2. g \in Nat /\ book[a] \in Nat /\ Gap(a, Worth) = g - 100 * book[a] /\ mandate.want[a] \in 0 .. 100
    BY <1>1, GapFacts
  <1>3. HardCap[a] \in Nat
    BY RebalancePolicy
  <1>4. g <= cap /\ cap \in Nat
    <2> DEFINE w == mandate.want[a]
               h == HardCap[a]
               v == Worth
    <2>1. w \in Nat /\ h \in Nat /\ v \in Nat /\ w <= h
      BY <1>1, <1>2, <1>3
    <2> HIDE DEF w, h, v
    <2>2. w * v <= h * v /\ h * v \in Nat
      BY <2>1
    <2> QED
      BY <2>2 DEF Goal, w, h, v
  <1>5. 100 * book[a] > g \/ 100 * book[a] > cap
    BY DEF HardReasons, Goal
  <1> HIDE DEF g, cap
  <1> QED
    BY <1>2, <1>4, <1>5

\* Such a reason always ends in a sale.
LEMMA OwnReasonsSell ==
    ASSUME Money, NEW in \in Requests, in.caller = {}, NEW a \in Assets,
           mandate.want[a] <= HardCap[a], a \in HardReasons(in, Worth)
    PROVE  Sells(a, in, Worth)
  <1>1. Gap(a, Worth) < 0 /\ book[a] > 0
    BY OwnReasonsAreOverweight
  <1>2. Gap(a, Worth) \in Int
    BY WorthIs, GapFacts
  <1>3. a \in Broken(in) \cup Hard(in, Worth)
    BY <1>1, <1>2 DEF Broken, Hard
  <1>4. CandidateAction(a, in, Worth) \in {"EXIT", "REDUCE"}
    BY <1>3, CandidateCases
  <1>5. /\ Proposal(a, in, Worth).bypass
        /\ Proposal(a, in, Worth).action = CandidateAction(a, in, Worth)
    BY <1>3 DEF Proposal
  <1>6. ~IsHeld(history[a], Proposal(a, in, Worth))
    BY <1>5 DEF IsHeld
  <1> QED
    BY <1>4, <1>5, <1>6 DEF Sells, Moves, Executable

\* And a sale is never one of nothing.
LEMMA SalesAreOfSomething ==
    ASSUME Money, NEW in \in Requests, in.caller = {}, NEW a \in Assets,
           mandate.want[a] <= HardCap[a], Sells(a, in, Worth), a \notin Broken(in)
    PROVE  Gap(a, Worth) # 0
  <1> SUFFICES ASSUME Gap(a, Worth) = 0 PROVE FALSE
    OBVIOUS
  <1>1. a \notin Hard(in, Worth)
    <2> SUFFICES ASSUME a \in Hard(in, Worth) PROVE FALSE
      OBVIOUS
    <2>1. a \in HardReasons(in, Worth)
      BY DEF Hard
    <2> QED
      BY <2>1, OwnReasonsAreOverweight
  <1>2. ~Leaves(a, Worth)
    BY DEF Leaves
  <1>3. Band(0, mandate.want[a], Worth) \in {"HOLD", "WATCH"}
    <2>1. Worth \in Nat /\ mandate.want[a] \in Nat
      <3>1. Worth \in Nat
        BY WorthIs
      <3>2. mandate.want[a] \in 0 .. 100
        BY <3>1, GapFacts
      <3> QED
        BY <3>1, <3>2
    <2> QED
      BY <2>1, NothingIsWithinBands
  <1>4. CandidateAction(a, in, Worth) \in {"HOLD", "WAIT"}
    BY <1>1, <1>2, <1>3, CandidateCases
  <1> QED
    BY <1>4 DEF Sells, Moves, Proposal, Executable

\* For any policy, book, requests and any mandate whose targets respect their
\* own hard caps: without new cash and without a reason of the caller's a
\* review answers.  What the overlay and the caps force on the book bypasses
\* the gate and is a sale of something.
THEOREM OwnReasonsHold == RebalanceSpec => []OwnReasonsNeverRaise
  <1>1. Funds => OwnReasonsNeverRaise
    <2> SUFFICES ASSUME Money, \A a \in Assets : mandate.want[a] <= HardCap[a],
                        NEW in \in Requests, in.deposit = 0, in.caller = {}, NEW a \in Assets
                 PROVE  /\ a \in HardReasons(in, Worth) => Sells(a, in, Worth)
                        /\ Sells(a, in, Worth) /\ a \notin Broken(in) => Gap(a, Worth) # 0
      BY DEF Funds, OwnReasonsNeverRaise, Raises
    <2>1. mandate.want[a] <= HardCap[a]
      OBVIOUS
    <2> QED
      BY <2>1, OwnReasonsSell, SalesAreOfSomething
  <1> QED
    BY <1>1, FundsInvariant, PTL

-----------------------------------------------------------------------------
(* Accounting.  The files only grow, and a session holds one append.       *)

OneAtATime == \A s \in Session : snapping[s] = Nothing \/ resolving[s] = Nothing

BooksAreTyped == TypeOK /\ OneAtATime

\* The types and what a session holds are kept by every step.
LEMMA BooksStep ==
    ASSUME BooksAreTyped, [Next]_vars
    PROVE  BooksAreTyped'
  <1>0. TypeOK /\ OneAtATime
    BY DEF BooksAreTyped
  <1>1. CASE UNCHANGED vars
    BY <1>0, <1>1 DEF BooksAreTyped, TypeOK, OneAtATime, vars
  <1>2. ASSUME NEW s \in Session, NEW r \in SnapshotRecords, CheckSnapshot(s, r) PROVE BooksAreTyped'
    BY <1>0, <1>2 DEF BooksAreTyped, TypeOK, OneAtATime, CheckSnapshot, Free
  <1>3. ASSUME NEW s \in Session, AppendSnapshot(s) PROVE BooksAreTyped'
    <2>1. snapping[s] \in SnapshotRecords
      BY <1>0, <1>3 DEF TypeOK, AppendSnapshot
    <2>2. snapshots' \in Seq(SnapshotRecords)
      BY <1>0, <1>3, <2>1, AppendProperties DEF TypeOK, AppendSnapshot
    <2> QED
      BY <1>0, <1>3, <2>2 DEF BooksAreTyped, TypeOK, OneAtATime, AppendSnapshot
  <1>4. ASSUME NEW s \in Session, NEW r \in ResolutionRecords, CheckResolution(s, r) PROVE BooksAreTyped'
    BY <1>0, <1>4 DEF BooksAreTyped, TypeOK, OneAtATime, CheckResolution, Free
  <1>5. ASSUME NEW s \in Session, AppendResolution(s) PROVE BooksAreTyped'
    <2>1. resolving[s] \in ResolutionRecords
      BY <1>0, <1>5 DEF TypeOK, AppendResolution
    <2>2. resolutions' \in Seq(ResolutionRecords)
      BY <1>0, <1>5, <2>1, AppendProperties DEF TypeOK, AppendResolution
    <2> QED
      BY <1>0, <1>5, <2>2 DEF BooksAreTyped, TypeOK, OneAtATime, AppendResolution
  <1> QED
    BY <1>1, <1>2, <1>3, <1>4, <1>5 DEF Next

\* The files of every behaviour are typed, for any inputs and any sessions.
THEOREM BooksHold == Spec => []BooksAreTyped
  <1>1. Init => BooksAreTyped
    BY DEF Init, BooksAreTyped, TypeOK, OneAtATime
  <1>2. BooksAreTyped /\ [Next]_vars => BooksAreTyped'
    BY BooksStep
  <1> QED
    BY <1>1, <1>2, PTL DEF Spec

\* What one step does to the two files.
LEMMA OneFileGrows ==
    ASSUME BooksAreTyped, [Next]_vars
    PROVE  \/ UNCHANGED <<snapshots, resolutions>>
           \/ \E r \in SnapshotRecords : snapshots' = Append(snapshots, r) /\ resolutions' = resolutions
           \/ \E r \in ResolutionRecords : resolutions' = Append(resolutions, r) /\ snapshots' = snapshots
  <1>0. TypeOK
    BY DEF BooksAreTyped
  <1>1. ASSUME NEW s \in Session, AppendSnapshot(s)
        PROVE  \E r \in SnapshotRecords : snapshots' = Append(snapshots, r) /\ resolutions' = resolutions
    BY <1>0, <1>1 DEF TypeOK, AppendSnapshot
  <1>2. ASSUME NEW s \in Session, AppendResolution(s)
        PROVE  \E r \in ResolutionRecords : resolutions' = Append(resolutions, r) /\ snapshots' = snapshots
    BY <1>0, <1>2 DEF TypeOK, AppendResolution
  <1>3. CASE UNCHANGED vars
    BY <1>3 DEF vars
  <1>4. ASSUME NEW s \in Session, NEW r, CheckSnapshot(s, r) \/ CheckResolution(s, r)
        PROVE  UNCHANGED <<snapshots, resolutions>>
    BY <1>4 DEF CheckSnapshot, CheckResolution
  <1> QED
    BY <1>1, <1>2, <1>3, <1>4 DEF Next

-----------------------------------------------------------------------------
(* The overlay.                                                            *)

Hits(i) == {j \in DOMAIN resolutions : resolutions[j].snapshot = snapshots[i].id}

\* Where a resolution names a record its classification is the resolution's.
LEMMA EffectiveIs ==
    ASSUME NEW i \in DOMAIN snapshots
    PROVE  /\ Hits(i) = {} => Effective(i) = snapshots[i]
           /\ Hits(i) # {} => \E j \in Hits(i) :
                 Effective(i) = [snapshots[i] EXCEPT !.status = resolutions[j].status, !.flow = resolutions[j].flow]
  <1> DEFINE c == CHOOSE j \in Hits(i) : TRUE
  <1>1. Hits(i) # {} => c \in Hits(i)
    OBVIOUS
  <1> QED
    BY <1>1 DEF Effective, Hits

\* An explicit classification cannot be touched by what can be read.
THEOREM ExplicitHolds == Spec => ExplicitIsForever
  <1>1. ASSUME BooksAreTyped, [Next]_vars, NEW i \in DOMAIN snapshots,
               ~OverlayRaises, ~OverlayRaises', Effective(i).status \in Explicit
        PROVE  Effective(i)' = Effective(i)
    <2>0. snapshots \in Seq(SnapshotRecords) /\ resolutions \in Seq(ResolutionRecords)
      BY <1>1 DEF BooksAreTyped, TypeOK
    <2>1. CASE UNCHANGED <<snapshots, resolutions>>
      BY <2>1 DEF Effective
    <2>2. ASSUME NEW r \in SnapshotRecords, snapshots' = Append(snapshots, r), resolutions' = resolutions
          PROVE  Effective(i)' = Effective(i)
      <3>1. snapshots'[i] = snapshots[i]
        BY <2>0, <2>2, <1>1, AppendProperties
      <3> QED
        BY <2>2, <3>1 DEF Effective
    <2>3. ASSUME NEW r \in ResolutionRecords, resolutions' = Append(resolutions, r), snapshots' = snapshots
          PROVE  Effective(i)' = Effective(i)
      <3> DEFINE n == Len(resolutions) + 1
      <3>1. /\ DOMAIN resolutions' = DOMAIN resolutions \cup {n} /\ resolutions'[n] = r
            /\ n \notin DOMAIN resolutions
            /\ \A j \in DOMAIN resolutions : resolutions'[j] = resolutions[j]
        BY <2>0, <2>3, AppendProperties, LenProperties
      <3> HIDE DEF n
      <3>2. ASSUME r.snapshot = snapshots[i].id PROVE FALSE
        <4>1. CASE Hits(i) = {}
          <5>1. ~Overridable(snapshots[i].status)
            BY <1>1, <4>1, EffectiveIs DEF Explicit, Overridable
          <5>2. /\ i \in DOMAIN snapshots' /\ snapshots'[i] = snapshots[i]
                /\ n \in DOMAIN resolutions' /\ resolutions'[n] = r
            BY <1>1, <2>3, <3>1
          <5>3. i \in {k \in DOMAIN snapshots' : snapshots'[k].id = resolutions'[n].snapshot}
            BY <3>2, <5>2
          <5>4. OverlayRaises'
            BY <5>1, <5>2, <5>3 DEF OverlayRaises, Targets
          <5> QED
            BY <5>4, <1>1
        <4>2. CASE Hits(i) # {}
          <5>1. PICK j \in DOMAIN resolutions : resolutions[j].snapshot = snapshots[i].id
            BY <4>2 DEF Hits
          <5>2. /\ j \in DOMAIN resolutions' /\ n \in DOMAIN resolutions' /\ j # n
                /\ resolutions'[j].snapshot = resolutions'[n].snapshot
            BY <3>1, <3>2, <5>1
          <5>3. OverlayRaises'
            BY <5>2 DEF OverlayRaises
          <5> QED
            BY <5>3, <1>1
        <4> QED
          BY <4>1, <4>2
      <3>3. {j \in DOMAIN resolutions' : resolutions'[j].snapshot = snapshots[i].id} = Hits(i)
        BY <3>1, <3>2 DEF Hits
      <3> DEFINE c == CHOOSE j \in Hits(i) : TRUE
      <3>4. Hits(i) # {} => resolutions'[c] = resolutions[c]
        <4>1. Hits(i) # {} => c \in Hits(i)
          OBVIOUS
        <4> QED
          BY <4>1, <3>1 DEF Hits
      <3> QED
        BY <3>3, <3>4, <2>3 DEF Effective, Hits
    <2> QED
      BY <1>1, <2>1, <2>2, <2>3, OneFileGrows
  <1>2. BooksAreTyped /\ [Next]_vars =>
          [\A i \in DOMAIN snapshots :
              ~OverlayRaises /\ ~OverlayRaises' /\ Effective(i).status \in Explicit
                 => Effective(i)' = Effective(i)]_vars
    BY <1>1
  <1> QED
    BY <1>2, BooksHold, PTL DEF Spec, ExplicitIsForever

-----------------------------------------------------------------------------
(* The order of the history is that of the timestamps, then of the file.   *)

Lines == DOMAIN snapshots
Before(i) == {j \in Lines : Earlier(j, i)}

\* The first n numbers, counted from one and from zero.
LEMMA FirstNumbers ==
    ASSUME NEW n \in Nat
    PROVE  /\ IsFiniteSet(1 .. n) /\ Cardinality(1 .. n) = n
           /\ IsFiniteSet(0 .. n - 1) /\ Cardinality(0 .. n - 1) = n
  <1>1. /\ IsFiniteSet(1 .. n) /\ Cardinality(1 .. n) = IF 1 > n THEN 0 ELSE n - 1 + 1
    BY FS_Interval
  <1>2. n - 1 \in Int
    OBVIOUS
  <1>3. /\ IsFiniteSet(0 .. n - 1) /\ Cardinality(0 .. n - 1) = IF 0 > n - 1 THEN 0 ELSE n - 1 - 0 + 1
    BY <1>2, FS_Interval
  <1> QED
    BY <1>1, <1>3

\* The lines of the file are numbered, and their timestamps are integers.
LEMMA LinesAre ==
    ASSUME TypeOK
    PROVE  /\ Lines = 1 .. Len(snapshots) /\ Len(snapshots) \in Nat /\ IsFiniteSet(Lines)
           /\ Cardinality(Lines) = Len(snapshots)
           /\ \A i \in Lines : i \in Int /\ snapshots[i] \in SnapshotRecords /\ snapshots[i].time \in Int
  <1>1. snapshots \in Seq(SnapshotRecords)
    BY DEF TypeOK
  <1>2. /\ Lines = 1 .. Len(snapshots) /\ Len(snapshots) \in Nat
        /\ \A i \in Lines : snapshots[i] \in SnapshotRecords
    BY <1>1 DEF Lines
  <1>3. \A r \in SnapshotRecords : r.time \in Int
    BY AccountingAssumption DEF SnapshotRecords, SnapshotOf
  <1>4. IsFiniteSet(Lines) /\ Cardinality(Lines) = Len(snapshots)
    BY <1>2, FirstNumbers
  <1> QED
    BY <1>2, <1>3, <1>4

\* Earlier is a strict total order on the lines of the file.
LEMMA EarlierOrders ==
    ASSUME TypeOK
    PROVE  /\ \A i \in Lines : ~Earlier(i, i)
           /\ \A i \in Lines, j \in Lines : i = j \/ Earlier(i, j) \/ Earlier(j, i)
           /\ \A i \in Lines, j \in Lines, k \in Lines : Earlier(i, j) /\ Earlier(j, k) => Earlier(i, k)
  <1>1. \A i \in Lines : i \in Int /\ snapshots[i].time \in Int
    BY LinesAre
  <1> QED
    BY <1>1 DEF Earlier

\* A position counts the lines before a line, of which there are finitely many.
LEMMA PositionType ==
    ASSUME TypeOK, NEW i \in Lines
    PROVE  Position(i) \in 0 .. Len(snapshots) - 1 /\ IsFiniteSet(Before(i)) /\ Position(i) = Cardinality(Before(i))
  <1>1. Before(i) \in SUBSET (Lines \ {i})
    BY EarlierOrders DEF Before
  <1>2. IsFiniteSet(Lines \ {i}) /\ Cardinality(Lines \ {i}) = Len(snapshots) - 1
    BY LinesAre, FS_RemoveElement
  <1>3. IsFiniteSet(Before(i)) /\ Cardinality(Before(i)) <= Len(snapshots) - 1
    BY <1>1, <1>2, FS_Subset
  <1>4. Cardinality(Before(i)) \in Nat
    BY <1>3, FS_CardinalityType
  <1>5. Position(i) = Cardinality(Before(i))
    BY DEF Position, Before, Lines
  <1> QED
    BY <1>3, <1>4, <1>5, LinesAre

\* The position respects the order, both ways.
LEMMA PositionOrders ==
    ASSUME TypeOK, NEW i \in Lines, NEW j \in Lines
    PROVE  Earlier(i, j) <=> Position(i) < Position(j)
  <1>1. ASSUME NEW x \in Lines, NEW y \in Lines, Earlier(x, y) PROVE Position(x) < Position(y)
    <2>1. Before(x) \in SUBSET Before(y) /\ x \in Before(y) /\ x \notin Before(x)
      BY <1>1, EarlierOrders DEF Before
    <2>2. Cardinality(Before(x)) <= Cardinality(Before(y))
          /\ (Cardinality(Before(y)) = Cardinality(Before(x)) => Before(y) = Before(x))
      BY <2>1, PositionType, FS_Subset
    <2> QED
      BY <2>1, <2>2, PositionType
  <1>2. Position(i) \in Int /\ Position(j) \in Int
    BY PositionType
  <1>3. i = j \/ Earlier(i, j) \/ Earlier(j, i)
    BY EarlierOrders
  <1>4. CASE i = j
    BY <1>2, <1>4, EarlierOrders
  <1>5. CASE Earlier(i, j)
    BY <1>1, <1>5
  <1>6. CASE Earlier(j, i)
    <2>1. Position(j) < Position(i)
      BY <1>1, <1>6
    <2>2. ~Earlier(i, j)
      BY <1>6, EarlierOrders
    <2> QED
      BY <1>2, <2>1, <2>2
  <1> QED
    BY <1>3, <1>4, <1>5, <1>6

\* Every place in the order is taken, by one line.
LEMMA PlacesAreTaken ==
    ASSUME TypeOK, NEW k \in Lines
    PROVE  \E i \in Lines : Position(i) = k - 1 /\ \A j \in Lines : Position(j) = k - 1 => j = i
  <1> DEFINE n == Len(snapshots)
             places == 0 .. n - 1
             position == [i \in Lines |-> Position(i)]
  <1>1. n \in Nat /\ Lines = 1 .. n /\ IsFiniteSet(Lines) /\ Cardinality(Lines) = n
    BY LinesAre
  <1>2. IsFiniteSet(places) /\ Cardinality(places) = n
    BY <1>1, FirstNumbers
  <1>3. \A i \in Lines, j \in Lines : Position(i) = Position(j) => i = j
    BY PositionOrders, PositionType, EarlierOrders
  <1>4. position \in [Lines -> places]
    BY PositionType
  <1>5. position \in Injection(Lines, places)
    BY <1>3, <1>4 DEF Injection, IsInjective
  <1>6. position \in Surjection(Lines, places)
    <2> HIDE DEF position, places, n
    <2> QED
      BY <1>1, <1>2, <1>5, FS_Injection
  <1>7. k - 1 \in places
    BY <1>1
  <1>8. \E i \in Lines : position[i] = k - 1
    BY <1>6, <1>7 DEF Surjection
  <1> QED
    BY <1>3, <1>8

\* The k-th record of the history is the line with k - 1 lines before it.
LEMMA OrderedIs ==
    ASSUME TypeOK, NEW k \in Lines
    PROVE  /\ Ordered[k] \in Lines /\ Position(Ordered[k]) = k - 1
           /\ \A j \in Lines : Position(j) = k - 1 => j = Ordered[k]
           /\ History[k] = Effective(Ordered[k])
  <1>1. \E i \in DOMAIN snapshots : Position(i) = k - 1
    BY PlacesAreTaken DEF Lines
  <1>2. Ordered[k] = CHOOSE i \in DOMAIN snapshots : Position(i) = k - 1
    BY DEF Ordered, Lines
  <1>3. Ordered[k] \in Lines /\ Position(Ordered[k]) = k - 1
    BY <1>1, <1>2 DEF Lines
  <1>4. History[k] = Effective(Ordered[k])
    BY DEF History, Ordered, Lines
  <1> QED
    BY <1>3, <1>4, PlacesAreTaken

JoinedRecords == [id : Ids, time : Times, value : Nat, status : FlowStatuses, flow : Int]

\* A joined record has a value, a classification and a flow.
LEMMA EffectiveType ==
    ASSUME TypeOK, NEW i \in Lines
    PROVE  Effective(i) \in JoinedRecords /\ Effective(i).time = snapshots[i].time
  <1>1. snapshots[i] \in SnapshotRecords
    BY LinesAre
  <1>2. PICK id \in Ids, time \in Times, input \in Inputs : snapshots[i] = SnapshotOf(id, time, input)
    BY <1>1 DEF SnapshotRecords
  <1>3. input.value \in Nat /\ input.flow \in Int /\ input.status \in FlowStatuses
    BY AccountingAssumption DEF WellTyped
  <1>4. snapshots[i] \in JoinedRecords
    BY <1>2, <1>3 DEF SnapshotOf, JoinedRecords
  <1>5. CASE Hits(i) = {}
    BY <1>4, <1>5, EffectiveIs DEF Lines
  <1>6. CASE Hits(i) # {}
    <2>1. PICK j \in Hits(i) :
             Effective(i) = [snapshots[i] EXCEPT !.status = resolutions[j].status, !.flow = resolutions[j].flow]
      BY <1>6, EffectiveIs DEF Lines
    <2>2. resolutions[j] \in ResolutionRecords
      BY DEF TypeOK, Hits
    <2>3. PICK id2 \in Ids, c \in Answers : resolutions[j] = ResolutionOf(id2, c)
      BY <2>2 DEF ResolutionRecords
    <2>4. resolutions[j].status \in FlowStatuses /\ resolutions[j].flow \in Int
      BY <2>3, AccountingAssumption DEF ResolutionOf, WellTyped
    <2> QED
      BY <1>4, <2>1, <2>4 DEF JoinedRecords
  <1> QED
    BY <1>5, <1>6

\* The history is a sequence of joined records, as long as the file.
LEMMA HistoryType ==
    ASSUME TypeOK
    PROVE  History \in Seq(JoinedRecords) /\ Len(History) = Len(snapshots) /\ DOMAIN History = Lines
  <1>1. DOMAIN History = Lines
    BY DEF History, Ordered, Lines
  <1>2. \A k \in Lines : History[k] \in JoinedRecords
    BY OrderedIs, EffectiveType
  <1>3. History = [k \in Lines |-> History[k]]
    BY <1>1 DEF History
  <1>4. Len(snapshots) \in Nat /\ Lines = 1 .. Len(snapshots)
    BY LinesAre
  <1>5. History \in [1 .. Len(snapshots) -> JoinedRecords]
    BY <1>2, <1>3, <1>4
  <1> QED
    BY <1>1, <1>4, <1>5, LenProperties

-----------------------------------------------------------------------------
(* The segments of a history.                                              *)

\* A set of numbers up to a bound has a greatest and a least.
LEMMA GreatestAndLeast ==
    ASSUME NEW n \in Int, NEW m \in Int, NEW S \in SUBSET (m .. n), S # {}
    PROVE  (\E x \in S : \A y \in S : y <= x) /\ (\E x \in S : \A y \in S : x <= y)
  <1> DEFINE low == {y - m : y \in S}
             high == {n - y : y \in S}
  <1>0. PICK s \in S : TRUE
    OBVIOUS
  <1>1. low \in SUBSET Nat /\ low # {}
    <2>1. s - m \in low
      OBVIOUS
    <2>2. \A y \in S : y - m \in Nat
      OBVIOUS
    <2> QED
      BY <2>1, <2>2
  <1>2. high \in SUBSET Nat /\ high # {}
    <2>1. n - s \in high
      OBVIOUS
    <2>2. \A y \in S : n - y \in Nat
      OBVIOUS
    <2> QED
      BY <2>1, <2>2
  <1>3. PICK a \in low : \A b \in low : a <= b
    <2> HIDE DEF low
    <2> QED
      BY <1>1, LeastOfNat
  <1>4. PICK c \in high : \A d \in high : c <= d
    <2> HIDE DEF high
    <2> QED
      BY <1>2, LeastOfNat
  <1>5. PICK x \in S : a = x - m
    BY <1>3
  <1>6. PICK z \in S : c = n - z
    BY <1>4
  <1>7. ASSUME NEW y \in S PROVE x <= y
    <2>1. y - m \in low
      OBVIOUS
    <2>2. a <= y - m /\ x \in Int /\ y \in Int
      BY <1>3, <2>1
    <2> QED
      BY <1>5, <2>2
  <1>8. ASSUME NEW y \in S PROVE y <= z
    <2>1. n - y \in high
      OBVIOUS
    <2>2. c <= n - y /\ z \in Int /\ y \in Int
      BY <1>4, <2>1
    <2> QED
      BY <1>6, <2>2
  <1> QED
    BY <1>7, <1>8

Recording(h) == h \in Seq(JoinedRecords) /\ h # <<>>

\* What a history that is not empty is made of.
LEMMA RecordingIs ==
    ASSUME NEW h, Recording(h)
    PROVE  /\ Len(h) \in Nat /\ 1 <= Len(h) /\ DOMAIN h = 1 .. Len(h)
           /\ \A k \in 1 .. Len(h) : h[k] \in JoinedRecords
  BY LenProperties, EmptySeq DEF Recording

\* The first record starts a segment, so does every reset, and the current one is the last.
LEMMA StartsAre ==
    ASSUME NEW h, Recording(h)
    PROVE  /\ Starts(h) \in SUBSET (1 .. Len(h)) /\ 1 \in Starts(h)
           /\ CurrentStart(h) \in Starts(h) /\ \A j \in Starts(h) : j <= CurrentStart(h)
           /\ \A k \in 2 .. Len(h) : k \in Starts(h) <=> h[k].status = "BASELINE_RESET"
  <1>1. Len(h) \in Nat /\ 1 <= Len(h)
    BY RecordingIs
  <1>2. Starts(h) \in SUBSET (1 .. Len(h)) /\ 1 \in Starts(h)
        /\ \A k \in 2 .. Len(h) : k \in Starts(h) <=> h[k].status = "BASELINE_RESET"
    BY <1>1 DEF Starts
  <1>3. \E x \in Starts(h) : \A y \in Starts(h) : y <= x
    <2>1. Len(h) \in Int /\ 1 \in Int /\ Starts(h) # {}
      BY <1>1, <1>2
    <2> QED
      BY <1>2, <2>1, GreatestAndLeast
  <1> QED
    BY <1>2, <1>3 DEF CurrentStart

\* A segment ends where the next begins.
LEMMA SegmentEndIs ==
    ASSUME NEW h, Recording(h), NEW a \in Starts(h)
    PROVE  /\ SegmentEnd(h, a) \in a .. Len(h)
           /\ \A j \in Starts(h) : j <= a \/ SegmentEnd(h, a) < j
           /\ SegmentEnd(h, a) = Len(h) \/ SegmentEnd(h, a) + 1 \in Starts(h)
  <1> DEFINE later == {k \in Starts(h) : k > a}
  <1>0. /\ Len(h) \in Int /\ Starts(h) \in SUBSET (1 .. Len(h)) /\ a \in 1 .. Len(h)
        /\ CurrentStart(h) \in Starts(h) /\ \A j \in Starts(h) : j <= CurrentStart(h)
    BY StartsAre, RecordingIs
  <1>1. CASE a = CurrentStart(h)
    BY <1>0, <1>1 DEF SegmentEnd
  <1>2. CASE a # CurrentStart(h)
    <2>1. CurrentStart(h) > a
      BY <1>0, <1>2
    <2>2. later # {} /\ later \in SUBSET (1 .. Len(h))
      BY <1>0, <2>1
    <2>3. \E k \in later : \A j \in later : k <= j
      <3>1. Len(h) \in Int /\ 1 \in Int
        BY <1>0
      <3> HIDE DEF later
      <3> QED
        BY <2>2, <3>1, GreatestAndLeast
    <2>4. \E k \in Starts(h) : k > a /\ \A j \in Starts(h) : j > a => k <= j
      BY <2>3
    <2> DEFINE next == CHOOSE k \in Starts(h) : k > a /\ \A j \in Starts(h) : j > a => k <= j
    <2>5. next \in Starts(h) /\ next > a /\ \A j \in Starts(h) : j > a => next <= j
      BY <2>4
    <2>6. SegmentEnd(h, a) = next - 1
      BY <1>2 DEF SegmentEnd
    <2> HIDE DEF next
    <2>7. next \in 1 .. Len(h) /\ \A j \in Starts(h) : j \in 1 .. Len(h)
      BY <1>0, <2>5
    <2> QED
      BY <1>0, <2>5, <2>6, <2>7
  <1> QED
    BY <1>1, <1>2

\* The confirmed part of a segment reaches up to its first unresolved record.
LEMMA ConfirmedEndIs ==
    ASSUME NEW h, Recording(h), NEW a \in Starts(h)
    PROVE  /\ ConfirmedEnd(h, a) \in a - 1 .. SegmentEnd(h, a)
           /\ \A k \in a .. ConfirmedEnd(h, a) : h[k].status # "UNRESOLVED"
           /\ ConfirmedEnd(h, a) = SegmentEnd(h, a) \/ h[ConfirmedEnd(h, a) + 1].status = "UNRESOLVED"
  <1> DEFINE e == SegmentEnd(h, a)
  <1>0. a \in Int /\ e \in Int /\ a <= e
    BY StartsAre, SegmentEndIs
  <1>1. Gaps(h, a) = {k \in a .. e : h[k].status = "UNRESOLVED"}
    BY DEF Gaps
  <1> HIDE DEF e
  <1>2. CASE Gaps(h, a) = {}
    BY <1>0, <1>1, <1>2 DEF ConfirmedEnd, e
  <1>3. CASE Gaps(h, a) # {}
    <2>1. Gaps(h, a) \in SUBSET (a .. e)
      BY <1>1
    <2>2. \E k \in Gaps(h, a) : \A j \in Gaps(h, a) : k <= j
      BY <1>0, <1>3, <2>1, GreatestAndLeast
    <2> DEFINE first == CHOOSE k \in Gaps(h, a) : \A j \in Gaps(h, a) : k <= j
    <2>3. first \in Gaps(h, a) /\ \A j \in Gaps(h, a) : first <= j
      BY <2>2
    <2>4. ConfirmedEnd(h, a) = first - 1
      BY <1>3 DEF ConfirmedEnd
    <2> HIDE DEF first
    <2>5. first \in a .. e /\ h[first].status = "UNRESOLVED"
      BY <1>1, <2>3
    <2>6. first - 1 \in a - 1 .. e /\ (first - 1) + 1 = first
      BY <1>0, <2>5
    <2>7. \A k \in a .. first - 1 : h[k].status # "UNRESOLVED"
      <3> SUFFICES ASSUME NEW k \in a .. first - 1, h[k].status = "UNRESOLVED" PROVE FALSE
        OBVIOUS
      <3>1. k \in a .. e /\ k < first
        BY <1>0, <2>5
      <3>2. k \in Gaps(h, a)
        BY <1>1, <3>1
      <3> QED
        BY <1>0, <2>3, <2>5, <3>1, <3>2
    <2> QED
      BY <2>4, <2>5, <2>6, <2>7 DEF e
  <1> QED
    BY <1>2, <1>3

\* The joined history is not empty when the file is not.
LEMMA HistoryIsRecording ==
    ASSUME TypeOK, snapshots # <<>>
    PROVE  Recording(History)
  <1>1. Len(snapshots) # 0
    BY EmptySeq DEF TypeOK
  <1>2. History \in Seq(JoinedRecords) /\ Len(History) # 0
    BY <1>1, HistoryType
  <1> QED
    BY <1>2, EmptySeq DEF Recording

\* Where no baseline was reset, one unresolved record decides both finalities.
LEMMA FinalityIsOne ==
    ASSUME TypeOK PROVE FinalityAgrees
  <1> SUFFICES ASSUME Computable, Starts(History) = {1}
               PROVE  NavFinality(History) = ReviewFinality(History)
    BY DEF FinalityAgrees
  <1>1. Recording(History)
    BY HistoryIsRecording DEF Computable
  <1>2. CurrentStart(History) = 1
    BY <1>1, StartsAre
  <1>3. SegmentEnd(History, 1) = Len(History)
    BY <1>2 DEF SegmentEnd
  <1>4. Gaps(History, CurrentStart(History)) = {k \in DOMAIN History : History[k].status = "UNRESOLVED"}
    BY <1>1, <1>2, <1>3, RecordingIs DEF Gaps
  <1> QED
    BY <1>4 DEF NavFinality, ReviewFinality

-----------------------------------------------------------------------------
(* The recursions over a segment have a solution, and only one.            *)

\* Induction from a number up to another.
LEMMA StretchInduction ==
    ASSUME NEW a \in Int, NEW b \in Int, NEW Good, a \in Good,
           \A k \in a .. b - 1 : k \in Good => k + 1 \in Good
    PROVE  \A k \in a .. b : k \in Good
  <1> DEFINE S == {n \in Nat : a + n <= b => a + n \in Good}
  <1>1. 0 \in S
    OBVIOUS
  <1>2. ASSUME NEW n \in S PROVE n + 1 \in S
    <2>1. n \in Nat /\ n + 1 \in Nat
      OBVIOUS
    <2>2. ASSUME a + (n + 1) <= b PROVE a + (n + 1) \in Good
      <3>1. a + n \in a .. b - 1 /\ (a + n) + 1 = a + (n + 1)
        BY <2>1, <2>2
      <3>2. a + n \in Good
        BY <2>1, <3>1
      <3> QED
        BY <3>1, <3>2
    <2> QED
      BY <2>1, <2>2
  <1>3. S \in SUBSET Nat
    OBVIOUS
  <1>4. S = Nat
    <2> HIDE DEF S
    <2> QED
      BY <1>1, <1>2, <1>3, NumberInduction
  <1>5. ASSUME NEW k \in a .. b PROVE k \in Good
    <2>1. k - a \in Nat /\ a + (k - a) = k /\ k <= b
      OBVIOUS
    <2> QED
      BY <1>4, <2>1
  <1> QED
    BY <1>5

Restarts(h, a, k) == k = a \/ h[k].status = "BASELINE_RESET"

Navs(h, a, b, f) ==
    f = [k \in a .. b |-> IF Restarts(h, a, k) THEN Baseline(h[k]) ELSE Valued(f[k - 1], h[k])]

\* The NAV of a stretch is what its recursion says.
LEMMA NavsExist ==
    ASSUME NEW h, NEW a \in Int, NEW b \in Int, a <= b
    PROVE  Navs(h, a, b, NavHistory(h, a, b))
  <1> DEFINE Good == {k \in a .. b : \E f : Navs(h, a, k, f)}
  <1>1. a \in Good
    <2>1. Navs(h, a, a, [k \in a .. a |-> Baseline(h[k])])
      BY DEF Navs, Restarts
    <2> QED
      BY <2>1
  <1>2. ASSUME NEW k \in a .. b - 1, k \in Good PROVE k + 1 \in Good
    <2>1. PICK f : Navs(h, a, k, f)
      BY <1>2
    <2> DEFINE g == [l \in a .. k + 1 |-> IF l <= k THEN f[l]
                        ELSE IF Restarts(h, a, l) THEN Baseline(h[l]) ELSE Valued(f[k], h[l])]
    <2>2. ASSUME NEW l \in a .. k + 1
          PROVE  g[l] = IF Restarts(h, a, l) THEN Baseline(h[l]) ELSE Valued(g[l - 1], h[l])
      <3>1. CASE l <= k
        <4>1. l \in a .. k
          BY <3>1
        <4>2. g[l] = f[l] /\ f[l] = IF Restarts(h, a, l) THEN Baseline(h[l]) ELSE Valued(f[l - 1], h[l])
          BY <2>1, <3>1, <4>1 DEF Navs
        <4>3. ~Restarts(h, a, l) => g[l - 1] = f[l - 1]
          <5>1. ASSUME ~Restarts(h, a, l) PROVE l - 1 \in a .. k + 1 /\ l - 1 <= k
            BY <4>1, <5>1 DEF Restarts
          <5> QED
            BY <5>1
        <4> HIDE DEF g
        <4> QED
          BY <4>2, <4>3
      <3>2. CASE ~(l <= k)
        <4>1. l = k + 1 /\ l - 1 = k /\ k \in a .. k + 1 /\ k <= k
          BY <3>2
        <4>2. g[l - 1] = f[k]
          BY <4>1
        <4>3. g[l] = IF Restarts(h, a, l) THEN Baseline(h[l]) ELSE Valued(f[k], h[l])
          BY <3>2
        <4> HIDE DEF g
        <4> QED
          BY <4>2, <4>3
      <3> QED
        BY <3>1, <3>2
    <2>3. Navs(h, a, k + 1, g)
      <3>1. g = [l \in a .. k + 1 |-> g[l]]
        OBVIOUS
      <3> HIDE DEF g
      <3> QED
        BY <2>2, <3>1 DEF Navs
    <2> QED
      BY <2>3
  <1>3. \A k \in a .. b : k \in Good
    <2> HIDE DEF Good
    <2> QED
      BY <1>1, <1>2, StretchInduction
  <1>4. \E f : Navs(h, a, b, f)
    BY <1>3
  <1>5. NavHistory(h, a, b) = CHOOSE f : Navs(h, a, b, f)
    BY DEF NavHistory, Navs, Restarts
  <1> QED
    BY <1>4, <1>5

\* What the recursion gives at a record depends on the records up to it only.
LEMMA NavsAgree ==
    ASSUME NEW h, NEW g, NEW a \in Int, NEW c \in Int, NEW b \in Int, NEW d \in Int, NEW e \in Int,
           c <= a, a <= e, e <= b, e <= d, \A k \in a .. e : h[k] = g[k],
           a # c => g[a].status = "BASELINE_RESET"
    PROVE  \A k \in a .. e : NavHistory(h, a, b)[k] = NavHistory(g, c, d)[k]
  <1> DEFINE x == NavHistory(h, a, b)
             y == NavHistory(g, c, d)
             Good == {k \in a .. e : x[k] = y[k]}
  <1>1. Navs(h, a, b, x) /\ Navs(g, c, d, y)
    BY NavsExist
  <1> HIDE DEF x, y
  <1>2. a \in Good
    <2>1. a \in a .. b /\ a \in c .. d /\ a \in a .. e
      OBVIOUS
    <2>2. x[a] = Baseline(h[a])
      BY <1>1, <2>1 DEF Navs, Restarts
    <2>3. y[a] = Baseline(g[a])
      BY <1>1, <2>1 DEF Navs, Restarts
    <2> QED
      BY <2>1, <2>2, <2>3
  <1>3. ASSUME NEW k \in a .. e - 1, k \in Good PROVE k + 1 \in Good
    <2>1. /\ k + 1 \in a .. b /\ k + 1 \in c .. d /\ k + 1 \in a .. e /\ k + 1 # a /\ k + 1 # c
          /\ (k + 1) - 1 = k
      OBVIOUS
    <2>2. x[k + 1] = IF h[k + 1].status = "BASELINE_RESET" THEN Baseline(h[k + 1]) ELSE Valued(x[k], h[k + 1])
      BY <1>1, <2>1 DEF Navs, Restarts
    <2>3. y[k + 1] = IF g[k + 1].status = "BASELINE_RESET" THEN Baseline(g[k + 1]) ELSE Valued(y[k], g[k + 1])
      BY <1>1, <2>1 DEF Navs, Restarts
    <2>4. x[k] = y[k] /\ h[k + 1] = g[k + 1]
      BY <1>3, <2>1
    <2> QED
      BY <2>1, <2>2, <2>3, <2>4
  <1>4. \A k \in a .. e : k \in Good
    <2> HIDE DEF Good
    <2> QED
      BY <1>2, <1>3, StretchInduction
  <1> QED
    BY <1>4 DEF x, y

\* From the last reset on the segmented and the one-pass NAV are the same.
LEMMA ReturnIsOne ==
    ASSUME TypeOK PROVE ReturnsAgree
  <1> DEFINE h == History
             n == Len(h)
             c == CurrentStart(h)
  <1> SUFFICES ASSUME Computable PROVE Same(NavReturn(h, c), NavReturn(h, 1))
    BY DEF ReturnsAgree
  <1>1. Recording(h)
    BY HistoryIsRecording DEF Computable
  <1> HIDE DEF h
  <1>2. n \in Nat /\ 1 <= n /\ c \in 1 .. n /\ c \in Starts(h)
    BY <1>1, RecordingIs, StartsAre
  <1>3. c # 1 => h[c].status = "BASELINE_RESET"
    BY <1>1, <1>2, StartsAre
  <1> HIDE DEF c, n
  <1>4. c \in Int /\ n \in Int /\ 1 \in Int /\ 1 <= c /\ c <= n /\ n <= n /\ n \in c .. n
    BY <1>2
  <1>5. NavHistory(h, c, n)[n] = NavHistory(h, 1, n)[n]
    BY <1>3, <1>4, NavsAgree
  <1>6. ASSUME NEW a \in Int, a <= n PROVE NavHistory(h, a, n)[a].nav = One
    <2>1. Navs(h, a, n, NavHistory(h, a, n))
      BY <1>4, <1>6, NavsExist
    <2>2. a \in a .. n
      BY <1>4, <1>6
    <2> QED
      BY <2>1, <2>2 DEF Navs, Restarts, Baseline
  <1>7. NavReturn(h, c) = NavReturn(h, 1)
    BY <1>4, <1>5, <1>6 DEF NavReturn, n
  <1> QED
    BY <1>7 DEF Same

\* In every history that can be read: until a baseline is reset two modules
\* agree on what is final, and where nothing is unresolved the two returns are
\* the same, resets included.
THEOREM ViewsAlwaysAgree == Spec => []ViewsAgree
  <1>1. BooksAreTyped => ViewsAgree
    BY FinalityIsOne, ReturnIsOne DEF BooksAreTyped, ViewsAgree
  <1> QED
    BY <1>1, BooksHold, PTL

-----------------------------------------------------------------------------
(* No look-ahead.  The state of a record depends on the history up to it.  *)

SegmentOf(h, k) == CHOOSE s \in Starts(h) : s <= k /\ \A j \in Starts(h) : j <= s \/ k < j

StateAt(h, k) ==
    IF k <= ConfirmedEnd(h, SegmentOf(h, k)) THEN NavHistory(h, SegmentOf(h, k), k)[k].nav ELSE Nothing

\* The segment a record stands in starts at the last start up to it.
LEMMA SegmentOfIs ==
    ASSUME NEW h, Recording(h), NEW k \in 1 .. Len(h)
    PROVE  /\ SegmentOf(h, k) \in Starts(h) /\ SegmentOf(h, k) \in 1 .. k
           /\ \A j \in Starts(h) : j <= SegmentOf(h, k) \/ k < j
  <1> DEFINE S == {s \in Starts(h) : s <= k}
  <1>1. /\ k \in Int /\ 1 <= k /\ Len(h) \in Int /\ 1 \in Starts(h) /\ Starts(h) \in SUBSET (1 .. Len(h))
    BY StartsAre, RecordingIs
  <1>2. S \in SUBSET (1 .. k) /\ S # {}
    BY <1>1
  <1>3. \E s \in S : \A j \in S : j <= s
    <2> HIDE DEF S
    <2>1. 1 \in Int
      OBVIOUS
    <2> QED
      BY <1>1, <1>2, <2>1, GreatestAndLeast
  <1>4. \E s \in Starts(h) : s <= k /\ \A j \in Starts(h) : j <= s \/ k < j
    <2>1. PICK s \in S : \A j \in S : j <= s
      BY <1>3
    <2>2. \A j \in Starts(h) : j \in Int
      BY <1>1
    <2> QED
      BY <1>1, <2>1, <2>2
  <1>5. /\ SegmentOf(h, k) \in Starts(h) /\ SegmentOf(h, k) <= k
        /\ \A j \in Starts(h) : j <= SegmentOf(h, k) \/ k < j
    BY <1>4 DEF SegmentOf
  <1> QED
    BY <1>1, <1>5

\* A record is valued unless one in its segment, up to it, is unresolved.
LEMMA ValuedWhere ==
    ASSUME NEW h, Recording(h), NEW k \in 1 .. Len(h)
    PROVE  k <= ConfirmedEnd(h, SegmentOf(h, k))
             <=> \A l \in SegmentOf(h, k) .. k : h[l].status # "UNRESOLVED"
  <1> DEFINE a == SegmentOf(h, k)
             e == SegmentEnd(h, a)
             c == ConfirmedEnd(h, a)
  <1>1. a \in Starts(h) /\ a \in 1 .. k /\ \A j \in Starts(h) : j <= a \/ k < j
    BY SegmentOfIs
  <1>2. e \in a .. Len(h) /\ (e = Len(h) \/ e + 1 \in Starts(h))
    BY <1>1, SegmentEndIs
  <1>3. /\ c \in a - 1 .. e /\ (\A l \in a .. c : h[l].status # "UNRESOLVED")
        /\ (c = e \/ h[c + 1].status = "UNRESOLVED")
    BY <1>1, ConfirmedEndIs
  <1>4. Len(h) \in Int /\ k \in Int /\ k <= Len(h)
    BY RecordingIs
  <1> HIDE DEF a, c, e
  <1>5. k <= e
    BY <1>1, <1>2, <1>4
  <1>6. ASSUME k <= c PROVE \A l \in a .. k : h[l].status # "UNRESOLVED"
    BY <1>1, <1>2, <1>3, <1>4, <1>6
  <1>7. ASSUME ~(k <= c) PROVE c + 1 \in a .. k /\ h[c + 1].status = "UNRESOLVED"
    BY <1>1, <1>2, <1>3, <1>4, <1>5, <1>7
  <1>8. (k <= c) <=> \A l \in a .. k : h[l].status # "UNRESOLVED"
    BY <1>6, <1>7
  <1> QED
    BY <1>8 DEF a, c

\* Two histories that agree up to a record give it the same state.
LEMMA StateNeedsThePast ==
    ASSUME NEW h, NEW g, Recording(h), Recording(g), NEW k, k \in 1 .. Len(h), k \in 1 .. Len(g),
           \A l \in 1 .. k : h[l] = g[l]
    PROVE  StateAt(h, k) = StateAt(g, k)
  <1>0. k \in Int /\ 1 <= k /\ Len(h) \in Int /\ Len(g) \in Int /\ k <= Len(h) /\ k <= Len(g)
    BY RecordingIs
  <1>1. \A j \in 1 .. k : j \in Starts(h) <=> j \in Starts(g)
    <2>1. ASSUME NEW j \in 1 .. k PROVE j \in Starts(h) <=> j \in Starts(g)
      <3>1. CASE j = 1
        BY <3>1, StartsAre
      <3>2. CASE j # 1
        <4>1. j \in 2 .. Len(h) /\ j \in 2 .. Len(g)
          BY <1>0, <3>2
        <4> QED
          BY <4>1, StartsAre
      <3> QED
        BY <3>1, <3>2
    <2> QED
      BY <2>1
  <1> DEFINE a == SegmentOf(h, k)
             b == SegmentOf(g, k)
  <1>2. a \in Starts(h) /\ a \in 1 .. k /\ \A j \in Starts(h) : j <= a \/ k < j
    BY SegmentOfIs
  <1>3. b \in Starts(g) /\ b \in 1 .. k /\ \A j \in Starts(g) : j <= b \/ k < j
    BY SegmentOfIs
  <1>4. a = b
    <2> HIDE DEF a, b
    <2>1. b \in Starts(h) /\ a \in Starts(g)
      BY <1>1, <1>2, <1>3
    <2>2. a \in Int /\ b \in Int /\ a <= k /\ b <= k
      BY <1>0, <1>2, <1>3
    <2>3. b <= a /\ a <= b
      BY <1>0, <1>2, <1>3, <2>1, <2>2
    <2> QED
      BY <2>2, <2>3
  <1>5. k <= ConfirmedEnd(h, a) <=> k <= ConfirmedEnd(g, b)
    <2>1. k <= ConfirmedEnd(h, a) <=> \A l \in a .. k : h[l].status # "UNRESOLVED"
      BY ValuedWhere
    <2>2. k <= ConfirmedEnd(g, b) <=> \A l \in b .. k : g[l].status # "UNRESOLVED"
      BY ValuedWhere
    <2> HIDE DEF a, b
    <2>3. \A l \in a .. k : h[l] = g[l]
      BY <1>0, <1>2
    <2> QED
      BY <1>4, <2>1, <2>2, <2>3
  <1>6. NavHistory(h, a, k)[k] = NavHistory(g, b, k)[k]
    <2> HIDE DEF a, b
    <2>1. a \in Int /\ a <= a /\ a <= k /\ k <= k /\ k \in Int /\ k \in a .. k
      BY <1>0, <1>2
    <2>2. \A l \in a .. k : h[l] = g[l]
      BY <1>0, <1>2
    <2>3. \A l \in a .. k : NavHistory(h, a, k)[l] = NavHistory(g, a, k)[l]
      BY <2>1, <2>2, NavsAgree
    <2> QED
      BY <1>4, <2>1, <2>3
  <1> QED
    BY <1>5, <1>6 DEF StateAt

\* The state of a line is that of its place in the history.
LEMMA StateOfIs ==
    ASSUME TypeOK, NEW i \in Lines
    PROVE  StateOf(i) = StateAt(History, Position(i) + 1)
  BY DEF StateOf, StateAt, SegmentOf

\* The records of a history up to a line are those of the lines not after it.
LEMMA PlacesUpTo ==
    ASSUME TypeOK, NEW i \in Lines, NEW l \in 1 .. Position(i) + 1
    PROVE  /\ l \in Lines /\ Ordered[l] \in Lines /\ Position(Ordered[l]) = l - 1
           /\ snapshots[Ordered[l]].time <= snapshots[i].time
  <1>1. Position(i) \in 0 .. Len(snapshots) - 1 /\ Lines = 1 .. Len(snapshots) /\ Len(snapshots) \in Nat
    BY PositionType, LinesAre
  <1>2. l \in Lines
    BY <1>1
  <1>3. Ordered[l] \in Lines /\ Position(Ordered[l]) = l - 1
    BY <1>2, OrderedIs
  <1>4. ~(Position(i) < Position(Ordered[l]))
    BY <1>1, <1>3
  <1>5. ~Earlier(i, Ordered[l])
    BY <1>3, <1>4, PositionOrders
  <1>6. snapshots[i].time \in Int /\ snapshots[Ordered[l]].time \in Int
    BY <1>3, LinesAre
  <1> QED
    BY <1>2, <1>3, <1>5, <1>6 DEF Earlier

\* What the order of the history says of every line, in one state.
StandsInOrder ==
    /\ Lines = 1 .. Len(snapshots) /\ Len(snapshots) \in Nat
    /\ Lines # {} => Recording(History) /\ Len(History) = Len(snapshots)
    /\ \A i \in Lines : Position(i) + 1 \in Lines /\ History[Position(i) + 1] = Effective(i)
    /\ \A i \in Lines : StateOf(i) = StateAt(History, Position(i) + 1)

\* All of this follows from the types.
LEMMA OrderStands ==
    ASSUME TypeOK PROVE StandsInOrder
  <1>1. Lines = 1 .. Len(snapshots) /\ Len(snapshots) \in Nat
    BY LinesAre
  <1>2. Lines # {} => Recording(History) /\ Len(History) = Len(snapshots)
    BY HistoryIsRecording, HistoryType DEF Lines, Recording
  <1>3. ASSUME NEW i \in Lines PROVE Position(i) + 1 \in Lines /\ History[Position(i) + 1] = Effective(i)
    <2>1. Position(i) + 1 \in Lines /\ Position(i) = (Position(i) + 1) - 1
      BY <1>1, PositionType
    <2> QED
      BY <2>1, OrderedIs
  <1> QED
    BY <1>1, <1>2, <1>3, StateOfIs DEF StandsInOrder

\* A step that leaves alone what is not later than a line leaves its state alone.
LEMMA StateIsKept ==
    ASSUME TypeOK, StandsInOrder', Lines \subseteq Lines', NEW i \in Lines,
           \A j \in Lines : snapshots[j].time <= snapshots[i].time =>
               Position(j)' = Position(j) /\ Effective(j)' = Effective(j)
    PROVE  StateOf(i)' = StateOf(i)
  <1>0. StandsInOrder
    BY OrderStands
  <1> DEFINE k == Position(i) + 1
  <1>1. k \in Lines /\ k \in 1 .. Len(History) /\ Recording(History)
    BY <1>0 DEF StandsInOrder
  <1>2. snapshots[i].time <= snapshots[i].time
    <2>1. snapshots[i].time \in Int
      BY LinesAre
    <2> QED
      BY <2>1
  <1>3. Position(i)' = Position(i) /\ i \in Lines'
    BY <1>2
  <1>4. k \in 1 .. Len(History') /\ Recording(History')
    BY <1>0, <1>3 DEF StandsInOrder
  <1>5. ASSUME NEW l \in 1 .. k PROVE History'[l] = History[l]
    <2>1. l \in Lines /\ Ordered[l] \in Lines /\ Position(Ordered[l]) = l - 1
          /\ snapshots[Ordered[l]].time <= snapshots[i].time
      BY <1>5, PlacesUpTo
    <2>2. PICK j \in Lines : j = Ordered[l]
      BY <2>1
    <2>3. Position(j)' = Position(j) /\ Effective(j)' = Effective(j) /\ j \in Lines'
      BY <2>1, <2>2
    <2>4. Position(j) = l - 1 /\ l \in Int
      BY <1>0, <2>1, <2>2 DEF StandsInOrder
    <2>5. History[Position(j) + 1] = Effective(j)
      BY <1>0 DEF StandsInOrder
    <2>6. History'[Position(j)' + 1] = Effective(j)'
      BY <2>3 DEF StandsInOrder
    <2>7. Position(j) + 1 = l /\ Position(j)' + 1 = l
      BY <2>3, <2>4
    <2> QED
      BY <2>3, <2>5, <2>6, <2>7
  <1>6. StateAt(History, k) = StateAt(History', k)
    <2> HIDE DEF k
    <2> QED
      BY <1>1, <1>4, <1>5, StateNeedsThePast
  <1>7. StateOf(i) = StateAt(History, k)
    BY <1>0 DEF StandsInOrder
  <1>8. StateOf(i)' = StateAt(History', Position(i)' + 1)
    BY <1>3 DEF StandsInOrder
  <1> QED
    BY <1>3, <1>6, <1>7, <1>8

\* A snapshot with a later timestamp leaves the state of a line alone.
LEMMA LateSnapshot ==
    ASSUME TypeOK, StandsInOrder', NEW r \in SnapshotRecords,
           snapshots' = Append(snapshots, r), resolutions' = resolutions,
           NEW i \in Lines, snapshots[i].time < r.time
    PROVE  StateOf(i)' = StateOf(i)
  <1>0. PICK n : n = Len(snapshots) + 1
    OBVIOUS
  <1>1. /\ Lines' = Lines \cup {n} /\ n \notin Lines /\ snapshots'[n] = r
        /\ \A j \in Lines : snapshots'[j] = snapshots[j]
    <2>1. snapshots \in Seq(SnapshotRecords)
      BY DEF TypeOK
    <2> QED
      BY <2>1, <1>0, AppendProperties, LenProperties DEF Lines
  <1>2. \A j \in Lines : snapshots[j].time \in Int
    BY LinesAre
  <1>3. r.time \in Int
    BY AccountingAssumption DEF SnapshotRecords, SnapshotOf
  <1>4. ASSUME NEW j \in Lines, snapshots[j].time <= snapshots[i].time
        PROVE  Position(j)' = Position(j) /\ Effective(j)' = Effective(j)
    <2>1. snapshots'[j] = snapshots[j]
      BY <1>1
    <2>2. \A x \in Lines : Earlier(x, j)' = Earlier(x, j)
      BY <1>1 DEF Earlier
    <2>3. ~(Earlier(n, j)')
      <3>1. snapshots[j].time < r.time
        BY <1>2, <1>3, <1>4
      <3> QED
        BY <1>1, <1>2, <1>3, <2>1, <3>1 DEF Earlier
    <2>4. {x \in Lines' : Earlier(x, j)'} = {x \in Lines : Earlier(x, j)}
      BY <1>1, <2>2, <2>3
    <2>5. Position(j)' = Position(j)
      BY <2>4 DEF Position, Lines
    <2> QED
      BY <2>1, <2>5 DEF Effective
  <1>5. Lines \subseteq Lines'
    BY <1>1
  <1> QED
    BY <1>4, <1>5, StateIsKept

\* So does a resolution of later snapshots.
LEMMA LateResolution ==
    ASSUME TypeOK, StandsInOrder', NEW r \in ResolutionRecords,
           resolutions' = Append(resolutions, r), snapshots' = snapshots,
           NEW i \in Lines, \A k \in Targets(r) : snapshots[i].time < snapshots[k].time
    PROVE  StateOf(i)' = StateOf(i)
  <1>0. PICK n : n = Len(resolutions) + 1
    OBVIOUS
  <1>1. /\ DOMAIN resolutions' = DOMAIN resolutions \cup {n} /\ resolutions'[n] = r
        /\ \A j \in DOMAIN resolutions : resolutions'[j] = resolutions[j]
    <2>1. resolutions \in Seq(ResolutionRecords)
      BY DEF TypeOK
    <2> QED
      BY <2>1, <1>0, AppendProperties, LenProperties
  <1>2. ASSUME NEW j \in Lines, snapshots[j].time <= snapshots[i].time
        PROVE  Position(j)' = Position(j) /\ Effective(j)' = Effective(j)
    <2>1. Position(j)' = Position(j)
      BY DEF Position, Earlier
    <2>2. r.snapshot # snapshots[j].id
      <3>1. j \notin Targets(r)
        BY <1>2, LinesAre
      <3> QED
        BY <3>1 DEF Targets, Lines
    <2>3. {m \in DOMAIN resolutions' : resolutions'[m].snapshot = snapshots[j].id} = Hits(j)
      BY <1>1, <2>2 DEF Hits
    <2> DEFINE c == CHOOSE m \in Hits(j) : TRUE
    <2>4. Hits(j) # {} => resolutions'[c] = resolutions[c]
      <3>1. Hits(j) # {} => c \in Hits(j)
        OBVIOUS
      <3> QED
        BY <3>1, <1>1 DEF Hits
    <2> QED
      BY <2>1, <2>3, <2>4 DEF Effective, Hits
  <1>3. Lines \subseteq Lines'
    BY DEF Lines
  <1> QED
    BY <1>2, <1>3, StateIsKept

\* A fact that arrives late never restates a NAV from before its own time.
THEOREM LateFactsHold == Spec => LateFactsRestateOnlyLater
  <1>1. ASSUME BooksAreTyped, StandsInOrder', [Next]_vars, NEW s \in Session,
               <<snapshots, resolutions>>' # <<snapshots, resolutions>>,
               snapping'[s] # snapping[s] \/ resolving'[s] # resolving[s],
               NEW i \in DOMAIN snapshots, \A t \in LateTimes(s) : snapshots[i].time < t
        PROVE  StateOf(i)' = StateOf(i)
    <2>0. TypeOK /\ OneAtATime /\ i \in Lines
      BY <1>1 DEF BooksAreTyped, Lines
    <2>1. PICK t \in Session : AppendSnapshot(t) \/ AppendResolution(t)
      BY <1>1 DEF Next, vars, CheckSnapshot, CheckResolution
    <2>2. t = s
      BY <1>1, <2>0, <2>1 DEF TypeOK, AppendSnapshot, AppendResolution
    <2>3. CASE AppendSnapshot(s)
      <3>1. /\ snapping[s] \in SnapshotRecords /\ snapping[s] # Nothing
            /\ snapshots' = Append(snapshots, snapping[s]) /\ resolutions' = resolutions
        BY <2>0, <2>3 DEF TypeOK, AppendSnapshot
      <3>2. snapshots[i].time < snapping[s].time
        BY <1>1, <3>1 DEF LateTimes
      <3> QED
        BY <1>1, <2>0, <3>1, <3>2, LateSnapshot
    <2>4. CASE AppendResolution(s)
      <3>1. /\ resolving[s] \in ResolutionRecords /\ resolving[s] # Nothing
            /\ resolutions' = Append(resolutions, resolving[s]) /\ snapshots' = snapshots
        BY <2>0, <2>4 DEF TypeOK, AppendResolution
      <3>2. snapping[s] = Nothing
        BY <2>0, <3>1 DEF OneAtATime
      <3>3. \A k \in Targets(resolving[s]) : snapshots[i].time < snapshots[k].time
        BY <1>1, <3>2 DEF LateTimes
      <3> QED
        BY <1>1, <2>0, <3>1, <3>3, LateResolution
    <2> QED
      BY <2>1, <2>2, <2>3, <2>4
  <1>2. BooksAreTyped => StandsInOrder
    BY OrderStands DEF BooksAreTyped
  <1>3. BooksAreTyped /\ StandsInOrder' /\ [Next]_vars =>
          [\A s \in Session :
              /\ <<snapshots, resolutions>>' # <<snapshots, resolutions>>
              /\ snapping'[s] # snapping[s] \/ resolving'[s] # resolving[s]
              /\ Computable /\ Computable'
              => \A i \in DOMAIN snapshots :
                    (\A t \in LateTimes(s) : snapshots[i].time < t) => StateOf(i)' = StateOf(i)]_vars
    BY <1>1
  <1> QED
    BY <1>2, <1>3, BooksHold, PTL DEF Spec, LateFactsRestateOnlyLater

-----------------------------------------------------------------------------
(* The NAV is the time-weighted return.  First the arithmetic of positive  *)
(* fractions, in which the ledger is computed.                             *)

PositiveInts == Nat \ {0}
Positive(x) == x = <<x[1], x[2]>> /\ x[1] \in PositiveInts /\ x[2] \in PositiveInts
AtMost(x, y) == x[1] * y[2] <= y[1] * x[2]

\* Products of positive integers, and what cancels.
LEMMA Products ==
    /\ \A i \in PositiveInts, j \in PositiveInts : i * j \in PositiveInts
    /\ \A i \in Int, j \in Int : i * j \in Int /\ i * j = j * i
    /\ \A i \in Int, j \in Int, k \in Int : (i * j) * k = i * (j * k)
  <1>1. ASSUME NEW i \in PositiveInts, NEW j \in PositiveInts PROVE i * j \in PositiveInts
    <2>1. i \in Int /\ j \in Int /\ i > 0 /\ j > 0
      BY DEF PositiveInts
    <2>2. i * j \in Int /\ i * j > 0
      BY <2>1
    <2> QED
      BY <2>2 DEF PositiveInts
  <1>2. \A i \in Int, j \in Int : i * j \in Int /\ i * j = j * i
    OBVIOUS
  <1>3. \A i \in Int, j \in Int, k \in Int : (i * j) * k = i * (j * k)
    OBVIOUS
  <1> QED
    BY <1>1, <1>2, <1>3

\* A positive factor cancels, in an order and in an equation.
LEMMA Cancels ==
    ASSUME NEW i \in Int, NEW j \in Int, NEW c \in PositiveInts
    PROVE  /\ i * c <= j * c <=> i <= j
           /\ i * c = j * c <=> i = j
  <1>1. c \in Int /\ c > 0
    BY DEF PositiveInts
  <1>2. i <= j => i * c <= j * c
    BY <1>1
  <1>3. j < i => j * c < i * c
    BY <1>1
  <1>4. i < j => i * c < j * c
    BY <1>1
  <1>5. i * c \in Int /\ j * c \in Int
    BY <1>1
  <1> QED
    BY <1>2, <1>3, <1>4, <1>5

\* The order of fractions is total, transitive, and the negation of Less.
LEMMA FractionOrder ==
    ASSUME NEW x, NEW y, Positive(x), Positive(y)
    PROVE  /\ Less(x, y) <=> ~AtMost(y, x)
           /\ AtMost(x, y) \/ AtMost(y, x)
           /\ Same(x, y) <=> AtMost(x, y) /\ AtMost(y, x)
           /\ Same(x, y) <=> Same(y, x)
  <1> DEFINE p == x[1] * y[2]
             q == y[1] * x[2]
  <1>1. p \in Int /\ q \in Int
    <2>1. x[1] \in Int /\ x[2] \in Int /\ y[1] \in Int /\ y[2] \in Int
      BY DEF Positive, PositiveInts
    <2> QED
      BY <2>1
  <1>2. /\ Less(x, y) <=> p < q
        /\ AtMost(x, y) <=> p <= q
        /\ AtMost(y, x) <=> q <= p
        /\ Same(x, y) <=> p = q
        /\ Same(y, x) <=> q = p
    BY DEF Less, AtMost, Same
  <1> HIDE DEF p, q
  <1> QED
    BY <1>1, <1>2

\* The order of fractions is transitive, in numerators and denominators.
LEMMA ScalarTransitive ==
    ASSUME NEW a1 \in PositiveInts, NEW a2 \in PositiveInts, NEW b1 \in PositiveInts,
           NEW b2 \in PositiveInts, NEW c1 \in PositiveInts, NEW c2 \in PositiveInts,
           a1 * b2 <= b1 * a2, b1 * c2 <= c1 * b2
    PROVE  a1 * c2 <= c1 * a2
  <1>1. a1 \in Int /\ a2 \in Int /\ b1 \in Int /\ b2 \in Int /\ c1 \in Int /\ c2 \in Int
    BY DEF PositiveInts
  <1>2. (a1 * b2) * c2 <= (b1 * a2) * c2
    <2> DEFINE p == a1 * b2
               q == b1 * a2
    <2>1. p \in Int /\ q \in Int /\ p <= q
      BY <1>1
    <2> HIDE DEF p, q
    <2>2. p * c2 <= q * c2
      BY <2>1, Cancels
    <2> QED
      BY <2>2 DEF p, q
  <1>3. (b1 * c2) * a2 <= (c1 * b2) * a2
    <2> DEFINE p == b1 * c2
               q == c1 * b2
    <2>1. p \in Int /\ q \in Int /\ p <= q
      BY <1>1
    <2> HIDE DEF p, q
    <2>2. p * a2 <= q * a2
      BY <2>1, Cancels
    <2> QED
      BY <2>2 DEF p, q
  <1>4. (a1 * b2) * c2 = (a1 * c2) * b2
    BY <1>1
  <1>5. (b1 * a2) * c2 = (b1 * c2) * a2
    BY <1>1
  <1>6. (c1 * b2) * a2 = (c1 * a2) * b2
    BY <1>1
  <1>7. a1 * c2 \in Int /\ c1 * a2 \in Int
    BY <1>1
  <1> DEFINE p == a1 * c2
             q == c1 * a2
  <1>8. p * b2 <= q * b2
    <2>1. (a1 * b2) * c2 \in Int /\ (b1 * a2) * c2 \in Int /\ (c1 * b2) * a2 \in Int
      BY <1>1
    <2> HIDE DEF p, q
    <2> QED
      BY <1>2, <1>3, <1>4, <1>5, <1>6, <2>1 DEF p, q
  <1> HIDE DEF p, q
  <1>9. p \in Int /\ q \in Int
    BY <1>7 DEF p, q
  <1>10. p <= q
    BY <1>8, <1>9, Cancels
  <1> QED
    BY <1>10 DEF p, q

\* The same of fractions.
LEMMA FractionTransitive ==
    ASSUME NEW x, NEW y, NEW z, Positive(x), Positive(y), Positive(z), AtMost(x, y), AtMost(y, z)
    PROVE  AtMost(x, z)
  <1>1. /\ x[1] \in PositiveInts /\ x[2] \in PositiveInts /\ y[1] \in PositiveInts
        /\ y[2] \in PositiveInts /\ z[1] \in PositiveInts /\ z[2] \in PositiveInts
    BY DEF Positive
  <1>2. x[1] * y[2] <= y[1] * x[2] /\ y[1] * z[2] <= z[1] * y[2]
    BY DEF AtMost
  <1>3. x[1] * z[2] <= z[1] * x[2]
    <2>1. \A a1, a2, b1, b2, c1, c2 \in PositiveInts :
             a1 * b2 <= b1 * a2 /\ b1 * c2 <= c1 * b2 => a1 * c2 <= c1 * a2
      BY ScalarTransitive
    <2> DEFINE a1 == x[1]
               a2 == x[2]
               b1 == y[1]
               b2 == y[2]
               c1 == z[1]
               c2 == z[2]
    <2>2. /\ a1 \in PositiveInts /\ a2 \in PositiveInts /\ b1 \in PositiveInts
          /\ b2 \in PositiveInts /\ c1 \in PositiveInts /\ c2 \in PositiveInts
          /\ a1 * b2 <= b1 * a2 /\ b1 * c2 <= c1 * b2
      BY <1>1, <1>2
    <2> HIDE DEF a1, a2, b1, b2, c1, c2
    <2>3. a1 * c2 <= c1 * a2
      BY <2>1, <2>2, ZenonT(60)
    <2> QED
      BY <2>3 DEF a1, a2, c1, c2
  <1> QED
    BY <1>3 DEF AtMost

\* A quotient and a product of positive fractions is one.
LEMMA QuotientType ==
    ASSUME NEW x, NEW y, Positive(x), Positive(y)
    PROVE  Positive(Over(x, y)) /\ Positive(Times2(x, y))
  <1>1. /\ x[1] \in PositiveInts /\ x[2] \in PositiveInts /\ y[1] \in PositiveInts /\ y[2] \in PositiveInts
    BY DEF Positive
  <1>2. /\ x[1] * y[2] \in PositiveInts /\ x[2] * y[1] \in PositiveInts
        /\ x[1] * y[1] \in PositiveInts /\ x[2] * y[2] \in PositiveInts
    BY <1>1, Products
  <1> QED
    BY <1>2 DEF Positive, Over, Times2

\* Quotients by one fraction and of one fraction, in numerators and denominators.
LEMMA ScalarQuotients ==
    ASSUME NEW a1 \in PositiveInts, NEW a2 \in PositiveInts, NEW b1 \in PositiveInts,
           NEW b2 \in PositiveInts, NEW c1 \in PositiveInts, NEW c2 \in PositiveInts
    PROVE  /\ (a1 * c2) * (b2 * c1) <= (b1 * c2) * (a2 * c1) <=> a1 * b2 <= b1 * a2
           /\ (c1 * b2) * (c2 * a1) <= (c1 * a2) * (c2 * b1) <=> a1 * b2 <= b1 * a2
  <1>1. a1 \in Int /\ a2 \in Int /\ b1 \in Int /\ b2 \in Int /\ c1 \in Int /\ c2 \in Int
    BY DEF PositiveInts
  <1>2. (a1 * c2) * (b2 * c1) = (a1 * b2) * (c1 * c2)
    BY <1>1
  <1>3. (b1 * c2) * (a2 * c1) = (b1 * a2) * (c1 * c2)
    BY <1>1
  <1>4. (c1 * b2) * (c2 * a1) = (a1 * b2) * (c1 * c2)
    BY <1>1
  <1>5. (c1 * a2) * (c2 * b1) = (b1 * a2) * (c1 * c2)
    BY <1>1
  <1>6. c1 * c2 \in PositiveInts
    BY Products
  <1>7. a1 * b2 \in Int /\ b1 * a2 \in Int
    BY <1>1
  <1> DEFINE p == a1 * b2
             q == b1 * a2
             c == c1 * c2
  <1>8. p * c <= q * c <=> p <= q
    <2> HIDE DEF p, q, c
    <2>1. p \in Int /\ q \in Int /\ c \in PositiveInts
      BY <1>6, <1>7 DEF p, q, c
    <2> QED
      BY <2>1, Cancels
  <1> QED
    BY <1>2, <1>3, <1>4, <1>5, <1>8

\* Dividing by the same, and the same by two, keeps and turns the order.
LEMMA Quotients ==
    ASSUME NEW x, NEW y, NEW z, Positive(x), Positive(y), Positive(z)
    PROVE  /\ AtMost(Over(x, z), Over(y, z)) <=> AtMost(x, y)
           /\ AtMost(Over(z, y), Over(z, x)) <=> AtMost(x, y)
  <1>1. PICK x1 \in PositiveInts, x2 \in PositiveInts : x = <<x1, x2>>
    BY DEF Positive
  <1>2. PICK y1 \in PositiveInts, y2 \in PositiveInts : y = <<y1, y2>>
    BY DEF Positive
  <1>3. PICK z1 \in PositiveInts, z2 \in PositiveInts : z = <<z1, z2>>
    BY DEF Positive
  <1>4. /\ Over(x, z) = <<x1 * z2, x2 * z1>> /\ Over(y, z) = <<y1 * z2, y2 * z1>>
        /\ Over(z, x) = <<z1 * x2, z2 * x1>> /\ Over(z, y) = <<z1 * y2, z2 * y1>>
    BY <1>1, <1>2, <1>3 DEF Over
  <1>5. AtMost(Over(x, z), Over(y, z)) <=> (x1 * z2) * (y2 * z1) <= (y1 * z2) * (x2 * z1)
    BY <1>4 DEF AtMost
  <1>6. AtMost(Over(z, y), Over(z, x)) <=> (z1 * y2) * (z2 * x1) <= (z1 * x2) * (z2 * y1)
    BY <1>4 DEF AtMost
  <1>7. AtMost(x, y) <=> x1 * y2 <= y1 * x2
    BY <1>1, <1>2 DEF AtMost
  <1>8. /\ (x1 * z2) * (y2 * z1) <= (y1 * z2) * (x2 * z1) <=> x1 * y2 <= y1 * x2
        /\ (z1 * y2) * (z2 * x1) <= (z1 * x2) * (z2 * y1) <=> x1 * y2 <= y1 * x2
    BY ScalarQuotients
  <1> QED
    BY <1>5, <1>6, <1>7, <1>8

\* Equal fractions may be exchanged for each other.
LEMMA EqualQuotients ==
    ASSUME NEW x, NEW y, NEW v, NEW w, Positive(x), Positive(y), Positive(v), Positive(w),
           Same(x, v), Same(y, w)
    PROVE  Same(Over(x, y), Over(v, w))
  <1>1. AtMost(x, v) /\ AtMost(v, x) /\ AtMost(y, w) /\ AtMost(w, y)
    BY FractionOrder
  <1>2. /\ Positive(Over(x, y)) /\ Positive(Over(v, y)) /\ Positive(Over(v, w))
    BY QuotientType
  <1>3. AtMost(Over(x, y), Over(v, y)) /\ AtMost(Over(v, y), Over(x, y))
    BY <1>1, Quotients
  <1>4. AtMost(Over(v, y), Over(v, w)) /\ AtMost(Over(v, w), Over(v, y))
    BY <1>1, Quotients
  <1>5. AtMost(Over(x, y), Over(v, w))
    BY <1>2, <1>3, <1>4, FractionTransitive
  <1>6. AtMost(Over(v, w), Over(x, y))
    BY <1>2, <1>3, <1>4, FractionTransitive
  <1> QED
    BY <1>2, <1>5, <1>6, FractionOrder

\* The units after a flow, in closed form: the flow buys and sells at the NAV it finds.
LEMMA ScalarUnits ==
    ASSUME NEW u1 \in Int, NEW u2 \in Int, NEW w \in Int, NEW f \in Int, NEW v \in Int, v = w + f
    PROVE  /\ u1 * (1 * (w * u2)) + (f * (1 * u1)) * u2 = v * (u1 * u2)
           /\ u2 * (1 * (w * u2)) = w * (u2 * u2)
  <1>1. u1 * (1 * (w * u2)) = w * (u1 * u2)
    OBVIOUS
  <1>2. (f * (1 * u1)) * u2 = f * (u1 * u2)
    OBVIOUS
  <1>3. u2 * (1 * (w * u2)) = w * (u2 * u2)
    OBVIOUS
  <1> DEFINE p == u1 * u2
  <1>4. w * p + f * p = v * p
    <2>1. p \in Int
      OBVIOUS
    <2> HIDE DEF p
    <2> QED
      BY <2>1
  <1> QED
    BY <1>1, <1>2, <1>3, <1>4

\* The units and the NAV after a snapshot, and that they are positive fractions.
LEMMA UnitsAre ==
    ASSUME NEW s, NEW r, NEW u1 \in PositiveInts, NEW u2 \in PositiveInts, s.units = <<u1, u2>>,
           NEW v \in PositiveInts, NEW w \in PositiveInts, r.value = v, r.flow \in Int, r.value - r.flow = w
    PROVE  /\ Valued(s, r).units = <<v * (u1 * u2), w * (u2 * u2)>>
           /\ Valued(s, r).nav = <<v * (w * (u2 * u2)), 1 * (v * (u1 * u2))>>
           /\ Positive(Valued(s, r).units) /\ Positive(Valued(s, r).nav)
  <1>0. PICK f \in Int : r.flow = f /\ v = w + f
    BY DEF PositiveInts
  <1>1. u1 \in Int /\ u2 \in Int /\ v \in Int /\ w \in Int
    BY DEF PositiveInts
  <1>2. Over(<<w, 1>>, s.units) = <<w * u2, 1 * u1>>
    BY DEF Over
  <1>3. Over(<<f, 1>>, Over(<<w, 1>>, s.units)) = <<f * (1 * u1), 1 * (w * u2)>>
    BY <1>2 DEF Over
  <1>4. Plus(s.units, Over(<<f, 1>>, Over(<<w, 1>>, s.units)))
          = <<u1 * (1 * (w * u2)) + (f * (1 * u1)) * u2, u2 * (1 * (w * u2))>>
    BY <1>3 DEF Plus
  <1>5. /\ u1 * (1 * (w * u2)) + (f * (1 * u1)) * u2 = v * (u1 * u2)
        /\ u2 * (1 * (w * u2)) = w * (u2 * u2)
    BY <1>0, <1>1, ScalarUnits
  <1>6. Valued(s, r).units = Plus(s.units, Over(<<f, 1>>, Over(<<w, 1>>, s.units)))
    BY <1>0 DEF Valued
  <1>7. Valued(s, r).units = <<v * (u1 * u2), w * (u2 * u2)>>
    BY <1>4, <1>5, <1>6
  <1>8. Valued(s, r).nav = Over(<<v, 1>>, Valued(s, r).units)
    BY DEF Valued
  <1>9. Valued(s, r).nav = <<v * (w * (u2 * u2)), 1 * (v * (u1 * u2))>>
    BY <1>7, <1>8 DEF Over
  <1>10. /\ v * (u1 * u2) \in PositiveInts /\ w * (u2 * u2) \in PositiveInts
         /\ v * (w * (u2 * u2)) \in PositiveInts /\ 1 * (v * (u1 * u2)) \in PositiveInts
    <2>1. u1 * u2 \in PositiveInts /\ u2 * u2 \in PositiveInts
      BY Products
    <2>2. v * (u1 * u2) \in PositiveInts /\ w * (u2 * u2) \in PositiveInts
      BY <2>1, Products
    <2>3. 1 \in PositiveInts
      BY DEF PositiveInts
    <2> QED
      BY <2>2, <2>3, Products
  <1> QED
    BY <1>7, <1>9, <1>10 DEF Positive

\* The equation of one step of the NAV, in numerators and denominators.
GrowsBy(u1, u2, t1, t2, p, v, w) == (v * (w * (u2 * u2))) * (t2 * p) = (t1 * w) * (1 * (v * (u1 * u2)))

\* A flow leaves the NAV: the units are worth the portfolio, and the NAV grows
\* by what the market added to the value it had.
LEMMA ScalarGrowth ==
    ASSUME NEW u1 \in PositiveInts, NEW u2 \in PositiveInts, NEW n1 \in PositiveInts, NEW n2 \in PositiveInts,
           NEW t1 \in PositiveInts, NEW t2 \in PositiveInts, NEW p \in PositiveInts,
           NEW v \in PositiveInts, NEW w \in PositiveInts,
           u1 * n1 = p * (u2 * n2), n1 * t2 = t1 * n2
    PROVE  GrowsBy(u1, u2, t1, t2, p, v, w)
  <1>1. /\ u1 \in Int /\ u2 \in Int /\ n1 \in Int /\ n2 \in Int /\ t1 \in Int /\ t2 \in Int
        /\ p \in Int /\ v \in Int /\ w \in Int
    BY DEF PositiveInts
  <1>2. (t1 * u1) * n2 = u1 * (t1 * n2)
    BY <1>1
  <1>3. u1 * (n1 * t2) = (u1 * n1) * t2
    BY <1>1
  <1>4. (p * (u2 * n2)) * t2 = (u2 * (t2 * p)) * n2
    BY <1>1
  <1>5. (t1 * u1) * n2 = (u2 * (t2 * p)) * n2
    BY <1>2, <1>3, <1>4
  <1> DEFINE x == t1 * u1
             y == u2 * (t2 * p)
             z == v * (w * u2)
  <1>6. x \in Int /\ y \in Int
    BY <1>1
  <1>7. x = y
    <2>1. x * n2 = y * n2
      BY <1>5
    <2> HIDE DEF x, y
    <2> QED
      BY <1>6, <2>1, Cancels
  <1>8. (v * (w * (u2 * u2))) * (t2 * p) = y * z
    BY <1>1
  <1>9. (t1 * w) * (1 * (v * (u1 * u2))) = x * z
    BY <1>1
  <1> QED
    BY <1>7, <1>8, <1>9 DEF GrowsBy

\* What one more snapshot does to the NAV, to its growth and to the units' worth.
Priced(r, s, x) ==
    /\ Positive(s.units) /\ Positive(s.nav) /\ Positive(x)
    /\ Same(s.nav, x) /\ Same(Times2(s.units, s.nav), <<r.value, 1>>)

\* If the record before it was priced, a snapshot that does not raise is.
LEMMA PriceStep ==
    ASSUME NEW q, NEW r, NEW s, NEW x, Priced(q, s, x), q.value \in PositiveInts,
           r.value \in PositiveInts, r.flow \in Int, r.value - r.flow \in PositiveInts
    PROVE  Priced(r, Valued(s, r), Times2(x, <<r.value - r.flow, q.value>>))
  <1>1. PICK u1 \in PositiveInts, u2 \in PositiveInts : s.units = <<u1, u2>>
    BY DEF Priced, Positive
  <1>2. PICK n1 \in PositiveInts, n2 \in PositiveInts : s.nav = <<n1, n2>>
    BY DEF Priced, Positive
  <1>3. PICK t1 \in PositiveInts, t2 \in PositiveInts : x = <<t1, t2>>
    BY DEF Priced, Positive
  <1>4. PICK v \in PositiveInts, w \in PositiveInts, p \in PositiveInts :
           v = r.value /\ w = r.value - r.flow /\ p = q.value
    OBVIOUS
  <1> DEFINE y == Times2(x, <<r.value - r.flow, q.value>>)
             next == Valued(s, r)
  <1>5. /\ next.units = <<v * (u1 * u2), w * (u2 * u2)>>
        /\ next.nav = <<v * (w * (u2 * u2)), 1 * (v * (u1 * u2))>>
        /\ Positive(next.units) /\ Positive(next.nav)
    BY <1>1, <1>4, UnitsAre
  <1>6. y = <<t1 * w, t2 * p>>
    BY <1>3, <1>4 DEF Times2
  <1>7. Positive(y)
    <2>1. t1 * w \in PositiveInts /\ t2 * p \in PositiveInts
      BY Products
    <2> QED
      BY <1>6, <2>1 DEF Positive
  <1> HIDE DEF y, next
  <1>8. Same(next.nav, y)
    <2>1. u1 * n1 = p * (u2 * n2)
      <3>1. Times2(s.units, s.nav) = <<u1 * n1, u2 * n2>>
        BY <1>1, <1>2 DEF Times2
      <3>2. Same(Times2(s.units, s.nav), <<p, 1>>)
        BY <1>4 DEF Priced
      <3>3. (u1 * n1) * 1 = p * (u2 * n2)
        BY <3>1, <3>2 DEF Same
      <3>4. u1 * n1 \in Int
        BY Products DEF PositiveInts
      <3> QED
        BY <3>3, <3>4
    <2>2. n1 * t2 = t1 * n2
      BY <1>2, <1>3 DEF Same, Priced
    <2>3. GrowsBy(u1, u2, t1, t2, p, v, w)
      BY <2>1, <2>2, ScalarGrowth
    <2> QED
      BY <1>5, <1>6, <2>3 DEF Same, GrowsBy
  <1>9. Same(Times2(next.units, next.nav), <<r.value, 1>>)
    <2> DEFINE n == v * (u1 * u2)
               d == w * (u2 * u2)
    <2>1. n \in Int /\ d \in Int /\ v \in Int
      BY Products DEF PositiveInts
    <2>2. next.units = <<n, d>> /\ next.nav = <<v * d, 1 * n>>
      BY <1>5
    <2> HIDE DEF n, d
    <2>3. Times2(next.units, next.nav) = <<n * (v * d), d * (1 * n)>>
      BY <2>2 DEF Times2
    <2>4. (n * (v * d)) * 1 = v * (d * (1 * n))
      BY <2>1
    <2> QED
      BY <1>4, <2>3, <2>4 DEF Same
  <1> QED
    BY <1>5, <1>7, <1>8, <1>9 DEF Priced, y, next

\* The stretch of a segment that is valued: no resets after its first record,
\* and nothing that would make the ledger raise.
Sound(h, a, b) ==
    /\ \A k \in a .. b : /\ h[k].value \in PositiveInts /\ h[k].flow \in Int
                           /\ h[k].value - h[k].flow \in PositiveInts
    /\ \A k \in a + 1 .. b : h[k].status # "BASELINE_RESET"

Growths(h, a, b, f) ==
    f = [k \in a .. b |-> IF k = a THEN One
                          ELSE Times2(f[k - 1], <<h[k].value - h[k].flow, h[k - 1].value>>)]

\* The reference NAV of a stretch is what its recursion says.
LEMMA GrowthsExist ==
    ASSUME NEW h, NEW a \in Int, NEW b \in Int, a <= b
    PROVE  Growths(h, a, b, TimeWeighted(h, a, b))
  <1> DEFINE Good == {k \in a .. b : \E f : Growths(h, a, k, f)}
  <1>1. a \in Good
    <2>1. Growths(h, a, a, [k \in a .. a |-> One])
      BY DEF Growths
    <2> QED
      BY <2>1
  <1>2. ASSUME NEW k \in a .. b - 1, k \in Good PROVE k + 1 \in Good
    <2>1. PICK f : Growths(h, a, k, f)
      BY <1>2
    <2> DEFINE g == [l \in a .. k + 1 |-> IF l <= k THEN f[l]
                        ELSE Times2(f[k], <<h[l].value - h[l].flow, h[l - 1].value>>)]
    <2>2. ASSUME NEW l \in a .. k + 1
          PROVE  g[l] = IF l = a THEN One ELSE Times2(g[l - 1], <<h[l].value - h[l].flow, h[l - 1].value>>)
      <3>1. CASE l <= k
        <4>1. l \in a .. k
          BY <3>1
        <4>2. g[l] = f[l] /\ f[l] = IF l = a THEN One ELSE Times2(f[l - 1], <<h[l].value - h[l].flow, h[l - 1].value>>)
          BY <2>1, <3>1, <4>1 DEF Growths
        <4>3. l # a => g[l - 1] = f[l - 1]
          <5>1. ASSUME l # a PROVE l - 1 \in a .. k + 1 /\ l - 1 <= k
            BY <4>1, <5>1
          <5> QED
            BY <5>1
        <4> HIDE DEF g
        <4> QED
          BY <4>2, <4>3
      <3>2. CASE ~(l <= k)
        <4>1. l = k + 1 /\ l - 1 = k /\ k \in a .. k + 1 /\ k <= k /\ l # a
          BY <3>2
        <4>2. g[l - 1] = f[k]
          BY <4>1
        <4>3. g[l] = Times2(f[k], <<h[l].value - h[l].flow, h[l - 1].value>>)
          BY <3>2
        <4> HIDE DEF g
        <4> QED
          BY <4>1, <4>2, <4>3
      <3> QED
        BY <3>1, <3>2
    <2>3. Growths(h, a, k + 1, g)
      <3>1. g = [l \in a .. k + 1 |-> g[l]]
        OBVIOUS
      <3> HIDE DEF g
      <3> QED
        BY <2>2, <3>1 DEF Growths
    <2> QED
      BY <2>3
  <1>3. \A k \in a .. b : k \in Good
    <2> HIDE DEF Good
    <2> QED
      BY <1>1, <1>2, StretchInduction
  <1>4. \E f : Growths(h, a, b, f)
    BY <1>3
  <1>5. TimeWeighted(h, a, b) = CHOOSE f : Growths(h, a, b, f)
    BY DEF TimeWeighted, Growths
  <1> QED
    BY <1>4, <1>5

\* The two recursions over a valued stretch, step by step.
Unrolled(h, a, b, nav, twr) ==
    /\ nav[a] = Baseline(h[a]) /\ twr[a] = One
    /\ \A k \in a .. b - 1 :
          /\ nav[k + 1] = Valued(nav[k], h[k + 1])
          /\ twr[k + 1] = Times2(twr[k], <<h[k + 1].value - h[k + 1].flow, h[k].value>>)

\* Over a sound stretch both recursions go from one record to the next.
LEMMA StretchUnrolls ==
    ASSUME NEW h, NEW a \in Int, NEW b \in Int, a <= b, Sound(h, a, b)
    PROVE  Unrolled(h, a, b, NavHistory(h, a, b), TimeWeighted(h, a, b))
  <1> DEFINE nav == NavHistory(h, a, b)
             twr == TimeWeighted(h, a, b)
  <1>1. Navs(h, a, b, nav) /\ Growths(h, a, b, twr)
    BY NavsExist, GrowthsExist
  <1> HIDE DEF nav, twr
  <1>2. a \in a .. b
    OBVIOUS
  <1>3. nav[a] = Baseline(h[a]) /\ twr[a] = One
    BY <1>1, <1>2 DEF Navs, Growths, Restarts
  <1>4. ASSUME NEW k \in a .. b - 1
        PROVE  /\ nav[k + 1] = Valued(nav[k], h[k + 1])
               /\ twr[k + 1] = Times2(twr[k], <<h[k + 1].value - h[k + 1].flow, h[k].value>>)
    <2>1. k + 1 \in a .. b /\ k + 1 \in a + 1 .. b /\ k + 1 # a /\ (k + 1) - 1 = k
      OBVIOUS
    <2>2. ~Restarts(h, a, k + 1)
      BY <2>1 DEF Restarts, Sound
    <2> QED
      BY <1>1, <2>1, <2>2 DEF Navs, Growths
  <1> QED
    BY <1>3, <1>4 DEF Unrolled, nav, twr

\* So every record of it is priced.
LEMMA PricesAreKept ==
    ASSUME NEW h, NEW a \in Int, NEW b \in Int, a <= b, Sound(h, a, b), NEW nav, NEW twr,
           Unrolled(h, a, b, nav, twr)
    PROVE  \A k \in a .. b : Priced(h[k], nav[k], twr[k])
  <1> DEFINE Good == {k \in a .. b : Priced(h[k], nav[k], twr[k])}
  <1>1. a \in Good
    <2>1. a \in a .. b /\ h[a].value \in PositiveInts
      BY DEF Sound
    <2>2. PICK v \in PositiveInts : h[a].value = v
      BY <2>1
    <2>3. 1 \in PositiveInts /\ v \in Int
      BY DEF PositiveInts
    <2>4. nav[a].units = <<v, 1>> /\ nav[a].nav = <<1, 1>> /\ twr[a] = <<1, 1>>
      BY <2>2 DEF Unrolled, Baseline, One
    <2>5. Positive(<<v, 1>>) /\ Positive(<<1, 1>>)
      BY <2>3 DEF Positive
    <2>6. Same(<<1, 1>>, <<1, 1>>)
      BY DEF Same
    <2>7. Same(Times2(<<v, 1>>, <<1, 1>>), <<v, 1>>)
      BY <2>3 DEF Same, Times2
    <2> QED
      BY <2>1, <2>2, <2>4, <2>5, <2>6, <2>7 DEF Priced
  <1>2. ASSUME NEW k \in a .. b - 1, k \in Good PROVE k + 1 \in Good
    <2>1. k \in a .. b /\ k + 1 \in a .. b
      OBVIOUS
    <2>2. /\ Priced(h[k], nav[k], twr[k]) /\ h[k].value \in PositiveInts /\ h[k + 1].value \in PositiveInts
          /\ h[k + 1].flow \in Int /\ h[k + 1].value - h[k + 1].flow \in PositiveInts
      BY <1>2, <2>1 DEF Sound
    <2>3. Priced(h[k + 1], Valued(nav[k], h[k + 1]), Times2(twr[k], <<h[k + 1].value - h[k + 1].flow, h[k].value>>))
      BY <2>2, PriceStep
    <2> QED
      BY <2>1, <2>3 DEF Unrolled
  <1>3. \A k \in a .. b : k \in Good
    <2> HIDE DEF Good
    <2> QED
      BY <1>1, <1>2, StretchInduction
  <1> QED
    BY <1>3

\* The peak is the highest NAV so far and the drawdown the NAV's part of it.
Peaked(a, nav, k) ==
    /\ \E j \in a .. k : nav[k].peak = nav[j].nav
    /\ \A j \in a .. k : AtMost(nav[j].nav, nav[k].peak)
    /\ nav[k].drawdown = Over(nav[k].nav, nav[k].peak)

\* Peak and drawdowns of one more snapshot.
LEMMA ValuedRest ==
    ASSUME NEW s, NEW r
    PROVE  /\ Valued(s, r).peak = IF Less(s.peak, Valued(s, r).nav) THEN Valued(s, r).nav ELSE s.peak
           /\ Valued(s, r).drawdown = Over(Valued(s, r).nav, Valued(s, r).peak)
           /\ Valued(s, r).worst = IF Less(Valued(s, r).drawdown, s.worst) THEN Valued(s, r).drawdown ELSE s.worst
  BY DEF Valued

\* A positive fraction is at most itself.
LEMMA AtMostItself == ASSUME NEW x, Positive(x) PROVE AtMost(x, x)
  BY FractionOrder

\* The peak is the highest NAV at every record of a stretch.
LEMMA PeaksAreKept ==
    ASSUME NEW h, NEW a \in Int, NEW b \in Int, a <= b, NEW nav, NEW twr,
           Unrolled(h, a, b, nav, twr), \A k \in a .. b : Positive(nav[k].nav)
    PROVE  \A k \in a .. b : Peaked(a, nav, k)
  <1> DEFINE Good == {k \in a .. b : Peaked(a, nav, k)}
  <1>1. a \in Good
    <2>1. a \in a .. b /\ a \in a .. a /\ \A j \in a .. a : j = a
      OBVIOUS
    <2>2. nav[a].nav = One /\ nav[a].peak = One /\ nav[a].drawdown = One
      BY DEF Unrolled, Baseline
    <2>3. Over(One, One) = One
      BY DEF Over, One
    <2>4. AtMost(One, One)
      BY DEF AtMost, One
    <2> QED
      BY <2>1, <2>2, <2>3, <2>4 DEF Peaked
  <1>2. ASSUME NEW k \in a .. b - 1, k \in Good PROVE k + 1 \in Good
    <2>1. /\ k \in a .. b /\ k + 1 \in a .. b /\ k + 1 \in a .. k + 1
          /\ \A j \in a .. k + 1 : j \in a .. b /\ (j \in a .. k \/ j = k + 1)
          /\ \A j \in a .. k : j \in a .. k + 1 /\ j \in a .. b
      OBVIOUS
    <2>2. Peaked(a, nav, k)
      BY <1>2
    <2>3. PICK x : x = nav[k + 1].nav
      OBVIOUS
    <2>4. PICK y : y = nav[k].peak
      OBVIOUS
    <2>5. nav[k + 1] = Valued(nav[k], h[k + 1])
      BY DEF Unrolled
    <2>6. /\ nav[k + 1].peak = IF Less(y, x) THEN x ELSE y
          /\ nav[k + 1].drawdown = Over(x, nav[k + 1].peak)
      BY <2>3, <2>4, <2>5, ValuedRest
    <2>7. PICK m \in a .. k : y = nav[m].nav
      BY <2>2, <2>4 DEF Peaked
    <2>8. Positive(x) /\ Positive(y)
      BY <2>1, <2>3, <2>7
    <2>9. \A j \in a .. k : Positive(nav[j].nav) /\ AtMost(nav[j].nav, y)
      BY <2>1, <2>2, <2>4 DEF Peaked
    <2>10. CASE Less(y, x)
      <3>1. AtMost(y, x) /\ AtMost(x, x)
        BY <2>8, <2>10, FractionOrder
      <3>2. \A j \in a .. k : AtMost(nav[j].nav, x)
        BY <2>8, <2>9, <3>1, FractionTransitive
      <3>3. nav[k + 1].peak = x
        BY <2>6, <2>10
      <3>4. \A j \in a .. k + 1 : AtMost(nav[j].nav, nav[k + 1].peak)
        BY <2>1, <2>3, <3>1, <3>2, <3>3
      <3>5. Peaked(a, nav, k + 1)
        BY <2>1, <2>3, <2>6, <3>3, <3>4 DEF Peaked
      <3> QED
        BY <2>1, <3>5
    <2>11. CASE ~Less(y, x)
      <3>1. AtMost(x, y)
        BY <2>8, <2>11, FractionOrder
      <3>2. nav[k + 1].peak = y
        BY <2>6, <2>11
      <3>3. \A j \in a .. k + 1 : AtMost(nav[j].nav, nav[k + 1].peak)
        BY <2>1, <2>3, <2>9, <3>1, <3>2
      <3>4. Peaked(a, nav, k + 1)
        BY <2>1, <2>3, <2>6, <2>7, <3>2, <3>3 DEF Peaked
      <3> QED
        BY <2>1, <3>4
    <2> QED
      BY <2>10, <2>11
  <1>3. \A k \in a .. b : k \in Good
    <2> HIDE DEF Good
    <2> QED
      BY <1>1, <1>2, StretchInduction
  <1> QED
    BY <1>3

\* The worst drawdown is the deepest so far.
Deepest(a, nav, k) ==
    /\ \E j \in a .. k : nav[k].worst = nav[j].drawdown
    /\ \A j \in a .. k : AtMost(nav[k].worst, nav[j].drawdown)

\* And the worst drawdown the deepest.
LEMMA WorstIsKept ==
    ASSUME NEW h, NEW a \in Int, NEW b \in Int, a <= b, NEW nav, NEW twr,
           Unrolled(h, a, b, nav, twr), \A k \in a .. b : Positive(nav[k].drawdown)
    PROVE  \A k \in a .. b : Deepest(a, nav, k)
  <1> DEFINE Good == {k \in a .. b : Deepest(a, nav, k)}
  <1>1. a \in Good
    <2>1. a \in a .. b /\ a \in a .. a /\ \A j \in a .. a : j = a
      OBVIOUS
    <2>2. nav[a].worst = One /\ nav[a].drawdown = One
      BY DEF Unrolled, Baseline
    <2>3. AtMost(One, One)
      BY DEF AtMost, One
    <2> QED
      BY <2>1, <2>2, <2>3 DEF Deepest
  <1>2. ASSUME NEW k \in a .. b - 1, k \in Good PROVE k + 1 \in Good
    <2>1. /\ k \in a .. b /\ k + 1 \in a .. b /\ k + 1 \in a .. k + 1
          /\ \A j \in a .. k + 1 : j \in a .. b /\ (j \in a .. k \/ j = k + 1)
          /\ \A j \in a .. k : j \in a .. k + 1 /\ j \in a .. b
      OBVIOUS
    <2>2. Deepest(a, nav, k)
      BY <1>2
    <2>3. PICK x : x = nav[k + 1].drawdown
      OBVIOUS
    <2>4. PICK y : y = nav[k].worst
      OBVIOUS
    <2>5. nav[k + 1] = Valued(nav[k], h[k + 1])
      BY DEF Unrolled
    <2>6. nav[k + 1].worst = IF Less(x, y) THEN x ELSE y
      BY <2>3, <2>4, <2>5, ValuedRest
    <2>7. PICK m \in a .. k : y = nav[m].drawdown
      BY <2>2, <2>4 DEF Deepest
    <2>8. Positive(x) /\ Positive(y)
      BY <2>1, <2>3, <2>7
    <2>9. \A j \in a .. k : Positive(nav[j].drawdown) /\ AtMost(y, nav[j].drawdown)
      BY <2>1, <2>2, <2>4 DEF Deepest
    <2>10. CASE Less(x, y)
      <3>1. AtMost(x, y) /\ AtMost(x, x)
        BY <2>8, <2>10, FractionOrder
      <3>2. \A j \in a .. k : AtMost(x, nav[j].drawdown)
        BY <2>8, <2>9, <3>1, FractionTransitive
      <3>3. nav[k + 1].worst = x
        BY <2>6, <2>10
      <3>4. Deepest(a, nav, k + 1)
        BY <2>1, <2>3, <3>1, <3>2, <3>3 DEF Deepest
      <3> QED
        BY <2>1, <3>4
    <2>11. CASE ~Less(x, y)
      <3>1. AtMost(y, x)
        BY <2>8, <2>11, FractionOrder
      <3>2. nav[k + 1].worst = y
        BY <2>6, <2>11
      <3>3. Deepest(a, nav, k + 1)
        BY <2>1, <2>3, <2>7, <2>9, <3>1, <3>2 DEF Deepest
      <3> QED
        BY <2>1, <3>3
    <2> QED
      BY <2>10, <2>11
  <1>3. \A k \in a .. b : k \in Good
    <2> HIDE DEF Good
    <2> QED
      BY <1>1, <1>2, StretchInduction
  <1> QED
    BY <1>3

\* The clauses of FlowsAreNotReturns about record k, whose navs and growths are given.
FlowsBoughtUnits(h, a, nav, twr, k) ==
    /\ Same(nav[k].nav, twr[k])
    /\ Same(Times2(nav[k].units, nav[k].nav), <<h[k].value, 1>>)
    /\ \A j \in a .. k : ~Less(Over(twr[k], twr[j]), nav[k].drawdown)
    /\ \A i \in a .. k, j \in a .. k : i <= j => ~Less(Over(twr[j], twr[i]), nav[k].worst)
    /\ \E j \in a .. k : Same(nav[k].drawdown, Over(twr[k], twr[j]))
    /\ \E i \in a .. k, j \in a .. k : i <= j /\ Same(nav[k].worst, Over(twr[j], twr[i]))

\* Together: over a sound stretch the unit arithmetic gives the time-weighted NAV, and its drawdowns.
LEMMA StretchIsTimeWeighted ==
    ASSUME NEW h, NEW a \in Int, NEW b \in Int, a <= b, Sound(h, a, b), NEW nav, NEW twr,
           Unrolled(h, a, b, nav, twr)
    PROVE  \A k \in a .. b : FlowsBoughtUnits(h, a, nav, twr, k)
  <1>1. \A k \in a .. b : Priced(h[k], nav[k], twr[k])
    BY PricesAreKept
  <1>2. \A k \in a .. b : Positive(nav[k].nav) /\ Positive(twr[k]) /\ Same(nav[k].nav, twr[k])
    BY <1>1 DEF Priced
  <1>3. \A k \in a .. b : Peaked(a, nav, k)
    BY <1>2, PeaksAreKept
  <1>4. \A k \in a .. b : \A j \in a .. k : j \in a .. b
    OBVIOUS
  <1>5. \A k \in a .. b : Positive(nav[k].peak) /\ Positive(nav[k].drawdown)
    <2>1. ASSUME NEW k \in a .. b PROVE Positive(nav[k].peak) /\ Positive(nav[k].drawdown)
      <3>1. PICK j \in a .. k : nav[k].peak = nav[j].nav
        BY <1>3 DEF Peaked
      <3>2. Positive(nav[k].peak)
        BY <1>2, <1>4, <3>1
      <3> QED
        BY <1>2, <1>3, <3>2, QuotientType DEF Peaked
    <2> QED
      BY <2>1
  <1>6. \A k \in a .. b : Deepest(a, nav, k)
    BY <1>5, WorstIsKept
  <1>7. ASSUME NEW k \in a .. b, NEW j \in a .. k
        PROVE  /\ Positive(Over(nav[k].nav, nav[j].nav)) /\ Positive(Over(twr[k], twr[j]))
               /\ Same(Over(nav[k].nav, nav[j].nav), Over(twr[k], twr[j]))
    BY <1>2, <1>4, QuotientType, EqualQuotients
  <1>8. ASSUME NEW k \in a .. b, NEW j \in a .. k
        PROVE  AtMost(nav[k].drawdown, Over(twr[k], twr[j]))
    <2>1. Positive(nav[k].nav) /\ Positive(nav[j].nav) /\ Positive(nav[k].peak)
      BY <1>2, <1>4, <1>5
    <2>2. AtMost(nav[j].nav, nav[k].peak)
      BY <1>3 DEF Peaked
    <2>3. AtMost(Over(nav[k].nav, nav[k].peak), Over(nav[k].nav, nav[j].nav))
      BY <2>1, <2>2, Quotients
    <2>4. AtMost(Over(nav[k].nav, nav[j].nav), Over(twr[k], twr[j]))
      BY <1>7, FractionOrder
    <2>5. nav[k].drawdown = Over(nav[k].nav, nav[k].peak)
      BY <1>3 DEF Peaked
    <2> QED
      BY <1>5, <1>7, <2>3, <2>4, <2>5, FractionTransitive
  <1>9. ASSUME NEW k \in a .. b
        PROVE  \E j \in a .. k : Same(nav[k].drawdown, Over(twr[k], twr[j]))
    <2>1. PICK j \in a .. k : nav[k].peak = nav[j].nav
      BY <1>3 DEF Peaked
    <2>2. nav[k].drawdown = Over(nav[k].nav, nav[j].nav)
      BY <1>3, <2>1 DEF Peaked
    <2> QED
      BY <1>7, <2>1, <2>2
  <1>10. ASSUME NEW k \in a .. b PROVE FlowsBoughtUnits(h, a, nav, twr, k)
    <2>1. \A j \in a .. k : ~Less(Over(twr[k], twr[j]), nav[k].drawdown)
      BY <1>5, <1>7, <1>8, FractionOrder
    <2>2. ASSUME NEW i \in a .. k, NEW j \in a .. k, i <= j
          PROVE  ~Less(Over(twr[j], twr[i]), nav[k].worst)
      <3>1. j \in a .. b /\ i \in a .. j
        BY <2>2
      <3>2. AtMost(nav[j].drawdown, Over(twr[j], twr[i])) /\ Positive(Over(twr[j], twr[i]))
        BY <1>7, <1>8, <3>1
      <3>3. AtMost(nav[k].worst, nav[j].drawdown)
        BY <1>6 DEF Deepest
      <3>4. Positive(nav[k].worst) /\ Positive(nav[j].drawdown)
        BY <1>4, <1>5, <1>6, <3>1 DEF Deepest
      <3>5. AtMost(nav[k].worst, Over(twr[j], twr[i]))
        BY <3>2, <3>3, <3>4, FractionTransitive
      <3> QED
        BY <3>2, <3>4, <3>5, FractionOrder
    <2>3. \E i \in a .. k, j \in a .. k : i <= j /\ Same(nav[k].worst, Over(twr[j], twr[i]))
      <3>1. PICK j \in a .. k : nav[k].worst = nav[j].drawdown
        BY <1>6 DEF Deepest
      <3>2. PICK i \in a .. j : Same(nav[j].drawdown, Over(twr[j], twr[i]))
        BY <1>4, <1>9
      <3>3. i \in a .. k /\ i <= j
        OBVIOUS
      <3> QED
        BY <3>1, <3>2, <3>3
    <2>4. Same(nav[k].nav, twr[k]) /\ Same(Times2(nav[k].units, nav[k].nav), <<h[k].value, 1>>)
      BY <1>1 DEF Priced
    <2>5. \E j \in a .. k : Same(nav[k].drawdown, Over(twr[k], twr[j]))
      BY <1>9
    <2> QED
      BY <2>1, <2>2, <2>3, <2>4, <2>5 DEF FlowsBoughtUnits
  <1> QED
    BY <1>10

\* Where the ledger does not raise, the confirmed part of a segment is sound.
LEMMA ConfirmedIsSound ==
    ASSUME NEW h, Recording(h), ~NavRaises(h), NEW a \in Starts(h), a <= ConfirmedEnd(h, a)
    PROVE  Sound(h, a, ConfirmedEnd(h, a))
  <1> DEFINE b == ConfirmedEnd(h, a)
  <1>1. /\ Len(h) \in Int /\ a \in 1 .. Len(h) /\ SegmentEnd(h, a) \in a .. Len(h)
        /\ b \in a - 1 .. SegmentEnd(h, a)
    BY RecordingIs, StartsAre, SegmentEndIs, ConfirmedEndIs
  <1>2. ~BuildRaises(h, a, b)
    BY DEF NavRaises
  <1> HIDE DEF b
  <1>3. a \in Int /\ b \in Int /\ \A k \in a .. b : k \in 1 .. Len(h) /\ k <= SegmentEnd(h, a)
    BY <1>1
  <1>4. \A k \in a .. b : h[k].value \in Int /\ h[k].flow \in Int
    BY <1>3, RecordingIs DEF JoinedRecords
  <1>5. ASSUME NEW k \in a + 1 .. b PROVE h[k].status # "BASELINE_RESET"
    <2>1. k \in 2 .. Len(h) /\ a < k /\ ~(SegmentEnd(h, a) < k)
      BY <1>1, <1>3
    <2>2. k \notin Starts(h)
      BY <1>3, <2>1, SegmentEndIs
    <2> QED
      BY <2>1, <2>2, StartsAre
  <1>6. ASSUME NEW k \in a .. b
        PROVE  h[k].value > 0 /\ h[k].value - h[k].flow > 0
    <2>1. CASE k = a
      BY <1>2, <1>4, <2>1 DEF BuildRaises
    <2>2. CASE k # a
      <3>1. k \in a + 1 .. b
        BY <1>3, <2>2
      <3> QED
        BY <1>2, <1>4, <1>5, <3>1 DEF BuildRaises
    <2> QED
      BY <2>1, <2>2
  <1>7. \A k \in a .. b : h[k].value \in PositiveInts /\ h[k].value - h[k].flow \in PositiveInts
    BY <1>4, <1>6 DEF PositiveInts
  <1> QED
    BY <1>4, <1>5, <1>7 DEF Sound, b

\* Hence in every segment of every history that can be read.
LEMMA FlowsOnlyBuyUnits ==
    ASSUME TypeOK PROVE FlowsAreNotReturns
  <1> SUFFICES ASSUME Computable, NEW a \in Starts(History),
                      NEW k \in a .. ConfirmedEnd(History, a)
               PROVE  FlowsBoughtUnits(History, a, NavHistory(History, a, ConfirmedEnd(History, a)),
                                       TimeWeighted(History, a, ConfirmedEnd(History, a)), k)
    BY DEF FlowsAreNotReturns, FlowsBoughtUnits
  <1>1. Recording(History) /\ ~NavRaises(History)
    BY HistoryIsRecording DEF Computable
  <1>2. PICK h : h = History
    OBVIOUS
  <1>3. PICK b : b = ConfirmedEnd(h, a)
    OBVIOUS
  <1>4. a \in Starts(h) /\ Recording(h) /\ ~NavRaises(h)
    BY <1>1, <1>2
  <1>5. /\ Len(h) \in Int /\ a \in 1 .. Len(h) /\ SegmentEnd(h, a) \in a .. Len(h)
        /\ b \in a - 1 .. SegmentEnd(h, a)
    BY <1>3, <1>4, RecordingIs, StartsAre, SegmentEndIs, ConfirmedEndIs
  <1>6. a \in Int /\ b \in Int /\ a <= b
    BY <1>2, <1>3, <1>5
  <1>7. Sound(h, a, b)
    BY <1>3, <1>4, <1>6, ConfirmedIsSound
  <1>8. Unrolled(h, a, b, NavHistory(h, a, b), TimeWeighted(h, a, b))
    BY <1>6, <1>7, StretchUnrolls
  <1>9. \A l \in a .. b : FlowsBoughtUnits(h, a, NavHistory(h, a, b), TimeWeighted(h, a, b), l)
    BY <1>6, <1>7, <1>8, StretchIsTimeWeighted
  <1> QED
    BY <1>2, <1>3, <1>9

\* Deposits and withdrawals are never booked as gains or losses, whatever is recorded.
THEOREM AccountingHolds == Spec => []AccountingInvariant
  <1>1. BooksAreTyped => AccountingInvariant
    BY FlowsOnlyBuyUnits DEF BooksAreTyped, AccountingInvariant
  <1> QED
    BY <1>1, BooksHold, PTL
=============================================================================
