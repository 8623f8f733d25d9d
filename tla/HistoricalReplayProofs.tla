----------------------- MODULE HistoricalReplayProofs -----------------------
(***************************************************************************)
(* The recovery machine and the review loop that drives it, for every      *)
(* policy the loader accepts, every set of markets, every sequence of      *)
(* observations and every number of reviews.  First the machine alone;     *)
(* then the loop: what it does to the machine is the machine's own         *)
(* specification, so that the machine's invariants hold inside the loop;   *)
(* and what the gate refuses, the trades of the same review respect.       *)
(* Last the reviews of the live system and the orders that follow them.    *)
(***************************************************************************)
EXTENDS HistoricalReplay, ReviewLifecycle, SetSums, SequenceTheorems, TLAPS

-----------------------------------------------------------------------------
(* The recovery machine alone.                                             *)

\* The constants in the form the solvers use them.
LEMMA PolicyFacts ==
    /\ MaxDepth \in Nat /\ CautionAt \in Nat /\ EmergencyAt \in Nat /\ Budget \in Nat
    /\ CautionAt < EmergencyAt /\ EmergencyAt < Budget
    /\ \A c \in {CautionCap, EmergencyCap, BreachCap, Stage1Cap, Stage2Cap} : c \in 0 .. FullCap
    /\ Stage1Reviews \in Nat /\ Stage2Reviews \in Nat /\ ReleaseReviews \in Nat
    /\ 0 < Stage1Reviews /\ Stage1Reviews <= Stage2Reviews /\ Stage2Reviews <= ReleaseReviews
  BY RecoveryPolicy DEF FullCap

\* The drawdown ladder names one of its four states and gives it its own cap
\* (emergency_drawdown_state).
LEMMA LadderFacts ==
    ASSUME NEW d \in 0 .. MaxDepth
    PROVE  /\ LadderState(d) \in LadderStates
           /\ LadderCap(d) \in 0 .. FullCap
           /\ LadderState(d) = "BREACH" => LadderCap(d) = BreachCap
           /\ LadderState(d) = "EMERGENCY" => LadderCap(d) = EmergencyCap
           /\ LadderState(d) = "CAUTION" => LadderCap(d) = CautionCap
           /\ LadderState(d) = "NORMAL" => LadderCap(d) = FullCap
  <1>1. LadderState(d) \in LadderStates
    BY RecoveryPolicy DEF LadderState, LadderStates
  <1> QED
    BY <1>1, RecoveryPolicy DEF LadderStates, LadderCap, FullCap

\* Whatever the state, the effective cap is a percentage.
LEMMA EffectiveCapType ==
    ASSUME NEW d \in 0 .. MaxDepth, NEW s \in LadderStates \cup RecoveryStates
    PROVE  EffectiveCap(s, d) \in 0 .. FullCap
  BY LadderFacts, RecoveryPolicy DEF EffectiveCap, Larger, FullCap, LadderStates, RecoveryStates

\* The neutral state of a first review is well typed.
LEMMA TypeInit == Init => TypeOK
  <1> SUFFICES ASSUME Init PROVE TypeOK
    OBVIOUS
  <1>1. stressed \in BOOLEAN
    BY DEF Init
  <1> QED
    BY <1>1, PolicyFacts DEF Init, TypeOK, LadderStates, FullCap, QuietBound

\* One review keeps the persisted state well typed.
LEMMA TypeStep ==
    ASSUME TypeOK, NEW o \in Observations, Observe(o), Remember(o), Advance(o)
    PROVE  TypeOK'
  <1> USE PolicyFacts
  <1>1. o.depth \in 0 .. MaxDepth
    BY DEF Observations
  <1>2. PICK s \in LadderStates \cup RecoveryStates : MoveTo(s, o)
    BY <1>1, LadderFacts DEF TypeOK, Advance, LadderRelaxed, ResetToLadder, EnterRecovery1,
       EnterRecovery2, ReleaseBook, Hold, LadderStates, RecoveryStates
  <1>3. state' \in LadderStates \cup RecoveryStates /\ riskyCap' \in 0 .. FullCap
    BY <1>1, <1>2, EffectiveCapType DEF MoveTo
  <1>4. reviewsInState' \in 0 .. ReleaseReviews
    BY <1>2 DEF TypeOK, MoveTo, Tick
  <1>5. /\ marketNormalStreak' \in 0 .. ReleaseReviews
        /\ reviewsSinceNewLow' \in 0 .. ReleaseReviews
    BY DEF TypeOK, Observe, Tick, SinceNewLow
  <1>6. lastLow' \in 0 .. MaxDepth /\ depth' \in 0 .. MaxDepth
    BY <1>1 DEF TypeOK, Observe, Larger
  <1>7. quiet' \in 0 .. QuietBound /\ stressed' \in BOOLEAN
    BY DEF TypeOK, Remember, QuietBound, Stress, NewLow, Severe, Observations
  <1> QED
    BY <1>3, <1>4, <1>5, <1>6, <1>7 DEF TypeOK

\* The persisted state is well typed after any sequence of reviews.
THEOREM TypeCorrect == Spec => []TypeOK
  <1>1. TypeOK /\ [Next]_vars => TypeOK'
    <2> SUFFICES ASSUME TypeOK, [Next]_vars PROVE TypeOK'
      OBVIOUS
    <2>1. CASE Next
      BY <2>1, TypeStep DEF Next
    <2>2. CASE UNCHANGED vars
      BY <2>2 DEF vars, TypeOK
    <2> QED
      BY <2>1, <2>2
  <1> QED
    BY TypeInit, <1>1, PTL DEF Spec

-----------------------------------------------------------------------------
(* The inductive invariant.  CapIsEffective ties the cap of the last block *)
(* to the label and the drawdown it was computed from; the other parts are *)
(* the safety properties themselves.                                       *)

CapIsEffective == riskyCap = EffectiveCap(state, depth)

IInv ==
    /\ TypeOK
    /\ CapIsEffective
    /\ StagesWaitForTrough
    /\ BrakeCoversLadder
    /\ StagesNeedNormalMarket
    /\ StressReturnsToLadder

\* The neutral state satisfies the inductive invariant.
LEMMA InvInit == Init => IInv
  <1> SUFFICES ASSUME Init PROVE IInv
    OBVIOUS
  <1>1. LadderState(0) = "NORMAL"
    BY RecoveryPolicy DEF LadderState
  <1>2. EffectiveCap("NORMAL", 0) = FullCap
    BY <1>1 DEF EffectiveCap, Deep, LadderCap
  <1> QED
    BY <1>1, <1>2, TypeInit DEF Init, IInv, CapIsEffective, StagesWaitForTrough, BrakeCoversLadder,
       StagesNeedNormalMarket, StressReturnsToLadder, RecoveryStates

\* Every transition of advance_emergency_recovery preserves it.
LEMMA InvStep ==
    ASSUME IInv, NEW o \in Observations, Observe(o), Remember(o), Advance(o)
    PROVE  IInv'
  <1> USE PolicyFacts
  <1>0. TypeOK /\ TypeOK' /\ o.depth \in 0 .. MaxDepth /\ depth' = o.depth
    BY TypeStep DEF IInv, Observations, Observe
  <1>1. PICK s \in LadderStates \cup RecoveryStates : MoveTo(s, o)
    BY <1>0, LadderFacts DEF TypeOK, Advance, LadderRelaxed, ResetToLadder, EnterRecovery1,
       EnterRecovery2, ReleaseBook, Hold, LadderStates, RecoveryStates
  <1>2. CapIsEffective'
    BY <1>0, <1>1 DEF MoveTo, CapIsEffective
  <1>3. StagesWaitForTrough'
    BY <1>0 DEF IInv, StagesWaitForTrough, Advance, LadderRelaxed, ResetToLadder,
       EnterRecovery1, EnterRecovery2, ReleaseBook, Hold, MoveTo, Observe, Promotes,
       ConditionsOk, Resets, SinceNewLow, Tick, TypeOK, LadderState
  <1>4. BrakeCoversLadder'
    <2>1. CASE LadderRelaxed(o) \/ ResetToLadder(o)
      BY <1>0, <2>1, LadderFacts DEF LadderRelaxed, ResetToLadder, MoveTo, BrakeCoversLadder,
         Severity, LadderStates
    <2>2. CASE EnterRecovery1(o) \/ EnterRecovery2(o) \/ ReleaseBook(o)
      BY <2>2 DEF EnterRecovery1, EnterRecovery2, ReleaseBook, MoveTo, BrakeCoversLadder
    <2>3. CASE Hold(o)
      BY <1>0, <2>3, LadderFacts DEF Hold, MoveTo, Resets, BrakeCoversLadder, Severity, LadderStates
    <2> QED
      BY <2>1, <2>2, <2>3 DEF Advance
  <1>5. StagesNeedNormalMarket'
    <2>1. CASE LadderRelaxed(o) \/ ResetToLadder(o) \/ ReleaseBook(o)
      BY <1>0, <2>1, LadderFacts DEF LadderRelaxed, ResetToLadder, ReleaseBook, MoveTo,
         StagesNeedNormalMarket, LadderStates, RecoveryStates
    <2>2. CASE EnterRecovery1(o) \/ EnterRecovery2(o)
      BY <1>0, <2>2 DEF EnterRecovery1, EnterRecovery2, MoveTo, Promotes, ConditionsOk, Observe,
         Tick, TypeOK, StagesNeedNormalMarket, RecoveryStates
    <2>3. CASE Hold(o)
      BY <1>0, <2>3 DEF Hold, MoveTo, Resets, Observe, Tick, TypeOK, IInv,
         StagesNeedNormalMarket, RecoveryStates
    <2> QED
      BY <2>1, <2>2, <2>3 DEF Advance
  <1>6. StressReturnsToLadder'
    <2> SUFFICES ASSUME Stress(o) PROVE riskyCap' <= LadderCap(o.depth)
      BY <1>0 DEF StressReturnsToLadder, Remember
    <2>1. CASE LadderRelaxed(o) \/ ResetToLadder(o)
      BY <1>0, <2>1, LadderFacts DEF LadderRelaxed, ResetToLadder, MoveTo, EffectiveCap, Deep,
         LadderStates, FullCap
    <2>2. CASE EnterRecovery1(o) \/ EnterRecovery2(o) \/ ReleaseBook(o)
      BY <2>2 DEF EnterRecovery1, EnterRecovery2, ReleaseBook, Promotes, ConditionsOk, Resets, Stress
    <2>3. CASE Hold(o)
      BY <1>0, <2>3, LadderFacts DEF Hold, MoveTo, Resets, Stress, EffectiveCap, TypeOK, FullCap,
         LadderStates, RecoveryStates
    <2> QED
      BY <2>1, <2>2, <2>3 DEF Advance
  <1> QED
    BY <1>0, <1>2, <1>3, <1>4, <1>5, <1>6 DEF IInv

\* So it holds after any sequence of reviews.
LEMMA Inductive == Spec => []IInv
  <1>1. IInv /\ [Next]_vars => IInv'
    <2> SUFFICES ASSUME IInv, [Next]_vars PROVE IInv'
      OBVIOUS
    <2>1. CASE Next
      BY <2>1, InvStep DEF Next
    <2>2. CASE UNCHANGED vars
      BY <2>2 DEF vars, IInv, TypeOK, CapIsEffective, StagesWaitForTrough, BrakeCoversLadder,
         StagesNeedNormalMarket, StressReturnsToLadder
    <2> QED
      BY <2>1, <2>2
  <1> QED
    BY InvInit, <1>1, PTL DEF Spec

\* However resets, relaxations and promotions interleave, a book is in a
\* recovery stage only once the trough clock has reached that stage.
THEOREM StagesAlwaysWait == Spec => []StagesWaitForTrough
  <1>1. IInv => StagesWaitForTrough
    BY DEF IInv
  <1> QED
    BY <1>1, Inductive, PTL

\* The label of a braked book is never laxer than the ladder of the drawdown
\* it has just reported.
THEOREM BrakeAlwaysCovers == Spec => []BrakeCoversLadder
  <1>1. IInv => BrakeCoversLadder
    BY DEF IInv
  <1> QED
    BY <1>1, Inductive, PTL

\* No recovery stage outlives a market reading that is not NORMAL.
THEOREM StagesAlwaysInNormalMarket == Spec => []StagesNeedNormalMarket
  <1>1. IInv => StagesNeedNormalMarket
    BY DEF IInv
  <1> QED
    BY <1>1, Inductive, PTL

\* Every review under stress ends at or below the cap of the drawdown ladder.
THEOREM StressAlwaysReturns == Spec => []StressReturnsToLadder
  <1>1. IInv => StressReturnsToLadder
    BY DEF IInv
  <1> QED
    BY <1>1, Inductive, PTL

\* The recovery machine as a whole: stages wait for their clocks and for a
\* normal market, the label covers the ladder, and stress ends under its cap.
THEOREM RecoveryHolds == Spec => []RecoveryInvariant
  <1>1. IInv => RecoveryInvariant
    BY DEF IInv, RecoveryInvariant
  <1> QED
    BY <1>1, Inductive, PTL

-----------------------------------------------------------------------------
(* A quiet market releases the book: with every quiet review the trough    *)
(* clock has run further, and a book that is still deep has climbed the    *)
(* stages the clock allows.                                                *)

QuietClimb ==
    /\ depth <= lastLow
    /\ quiet <= ReleaseReviews => quiet <= reviewsSinceNewLow
    /\ quiet > ReleaseReviews => reviewsSinceNewLow = ReleaseReviews
    /\ Deep(depth) =>
          /\ quiet >= Stage1Reviews => state \notin {"EMERGENCY", "BREACH"}
          /\ quiet > Stage2Reviews => state # "RECOVERY_1"
          /\ quiet = QuietBound => state = "NORMAL"

\* A drawdown no deeper than another is no worse on the ladder.
LEMMA LadderIsMonotone ==
    ASSUME NEW d \in 0 .. MaxDepth, NEW e \in 0 .. MaxDepth, d <= e
    PROVE  /\ Severity(LadderState(d)) <= Severity(LadderState(e))
           /\ Deep(d) => Deep(e)
  BY PolicyFacts DEF LadderState, Severity, Deep

\* In a quiet market nothing knocks the book back onto the ladder.
LEMMA QuietNeverResets ==
    ASSUME IInv, QuietClimb, NEW o \in Observations, Quiet(o)
    PROVE  ~NewLow(o) /\ ~Resets(o)
  <1>1. o.depth \in 0 .. MaxDepth /\ o.depth <= depth /\ depth \in 0 .. MaxDepth
        /\ lastLow \in 0 .. MaxDepth /\ depth <= lastLow
    BY DEF Observations, Quiet, IInv, TypeOK, QuietClimb
  <1>2. ~NewLow(o)
    BY <1>1, PolicyFacts DEF NewLow
  <1>3. state \in {"CAUTION", "EMERGENCY", "BREACH"} =>
            ~(Severity(LadderState(o.depth)) > Severity(state))
    <2> SUFFICES ASSUME state \in {"CAUTION", "EMERGENCY", "BREACH"}
                 PROVE  ~(Severity(LadderState(o.depth)) > Severity(state))
      OBVIOUS
    <2>1. Severity(LadderState(o.depth)) <= Severity(LadderState(depth))
      BY <1>1, LadderIsMonotone
    <2>2. Severity(LadderState(depth)) <= Severity(state)
      BY DEF IInv, BrakeCoversLadder
    <2>3. /\ LadderState(o.depth) \in LadderStates /\ LadderState(depth) \in LadderStates
          /\ state \in LadderStates
      BY <1>1, LadderFacts DEF LadderStates
    <2>4. /\ Severity(LadderState(o.depth)) \in Int /\ Severity(LadderState(depth)) \in Int
          /\ Severity(state) \in Int
      BY <2>3 DEF Severity, LadderStates
    <2> HIDE DEF Severity
    <2> QED
      BY <2>1, <2>2, <2>4
  <1> QED
    BY <1>2, <1>3 DEF Resets, Quiet

\* A deep book in its n-th quiet review stands where its clock lets it climb.
LEMMA QuietClimbs ==
    ASSUME IInv, QuietClimb, NEW o \in Observations, Observe(o), Remember(o), Advance(o),
           Quiet(o), Deep(o.depth)
    PROVE  /\ quiet' >= Stage1Reviews => state' \notin {"EMERGENCY", "BREACH"}
           /\ quiet' > Stage2Reviews => state' # "RECOVERY_1"
           /\ quiet' = QuietBound => state' = "NORMAL"
  <1> USE PolicyFacts
  <1>1. /\ quiet \in 0 .. QuietBound /\ reviewsSinceNewLow \in 0 .. ReleaseReviews
        /\ state \in LadderStates \cup RecoveryStates
    BY DEF IInv, TypeOK
  <1>2. ~Resets(o) /\ SinceNewLow(o) = Tick(reviewsSinceNewLow) /\ ~Relaxes(o)
    BY QuietNeverResets DEF SinceNewLow, Relaxes
  <1>3. Deep(depth)
    BY LadderIsMonotone DEF Observations, Quiet, IInv, TypeOK
  <1>4. quiet' = IF quiet < QuietBound THEN quiet + 1 ELSE quiet
    BY DEF Remember
  <1>5. state # "CAUTION"
    BY <1>3, PolicyFacts DEF IInv, BrakeCoversLadder, Deep, Severity
  <1>6. ConditionsOk(o) <=> SinceNewLow(o) >= Stage1Reviews
    BY DEF ConditionsOk, Quiet
  <1>7. /\ quiet <= ReleaseReviews => quiet <= reviewsSinceNewLow
        /\ quiet > ReleaseReviews => reviewsSinceNewLow = ReleaseReviews
        /\ quiet >= Stage1Reviews => state \notin {"EMERGENCY", "BREACH"}
        /\ quiet > Stage2Reviews => state # "RECOVERY_1"
        /\ quiet = QuietBound => state = "NORMAL"
    BY <1>3 DEF QuietClimb
  <1>8. SinceNewLow(o) \in 0 .. ReleaseReviews
        /\ (quiet' <= ReleaseReviews => quiet' <= SinceNewLow(o))
        /\ (quiet' > ReleaseReviews => SinceNewLow(o) = ReleaseReviews)
    BY <1>1, <1>2, <1>4, <1>7 DEF Tick, QuietBound
  <1>9. /\ state \in {"EMERGENCY", "BREACH"} /\ SinceNewLow(o) >= Stage1Reviews => state' = "RECOVERY_1"
        /\ state = "RECOVERY_1" /\ SinceNewLow(o) >= Stage2Reviews => state' = "RECOVERY_2"
        /\ state = "RECOVERY_2" /\ SinceNewLow(o) >= ReleaseReviews => state' = "NORMAL"
        /\ state' # state =>
              \/ state \in {"EMERGENCY", "BREACH"} /\ state' = "RECOVERY_1"
              \/ state = "RECOVERY_1" /\ state' = "RECOVERY_2"
              \/ state = "RECOVERY_2" /\ state' = "NORMAL"
    BY <1>2, <1>6, <1>8 DEF Advance, LadderRelaxed, ResetToLadder, EnterRecovery1, EnterRecovery2,
       ReleaseBook, Hold, MayPromote, MoveTo
  <1> QED
    BY <1>1, <1>4, <1>5, <1>7, <1>8, <1>9 DEF LadderStates, RecoveryStates, QuietBound

\* A step of the replay keeps the climb of a quiet market.
LEMMA QuietStep ==
    ASSUME IInv, QuietClimb, NEW o \in Observations, Observe(o), Remember(o), Advance(o)
    PROVE  QuietClimb'
  <1> USE PolicyFacts
  <1>1. depth' <= lastLow'
    BY DEF Observe, Larger, Observations, IInv, TypeOK
  <1>2. quiet' \in 0 .. QuietBound /\ reviewsSinceNewLow' \in 0 .. ReleaseReviews
    BY TypeStep DEF IInv, TypeOK
  <1>3. CASE ~Quiet(o)
    BY <1>1, <1>2, <1>3 DEF QuietClimb, Remember, QuietBound
  <1>4. CASE Quiet(o)
    <2>1. reviewsSinceNewLow' = Tick(reviewsSinceNewLow) /\ depth' = o.depth
      BY <1>4, QuietNeverResets DEF Observe, SinceNewLow
    <2>2. /\ quiet' <= ReleaseReviews => quiet' <= reviewsSinceNewLow'
          /\ quiet' > ReleaseReviews => reviewsSinceNewLow' = ReleaseReviews
      BY <1>4, <2>1 DEF Remember, QuietClimb, Tick, IInv, TypeOK, QuietBound
    <2>3. Deep(o.depth) =>
            /\ quiet' >= Stage1Reviews => state' \notin {"EMERGENCY", "BREACH"}
            /\ quiet' > Stage2Reviews => state' # "RECOVERY_1"
            /\ quiet' = QuietBound => state' = "NORMAL"
      BY <1>4, QuietClimbs
    <2> QED
      BY <1>1, <2>1, <2>2, <2>3 DEF QuietClimb
  <1> QED
    BY <1>3, <1>4

\* However deep the book, ReleaseReviews + 2 quiet reviews in a row bring its
\* cap back: no combination of stages, clocks and labels can pin it.
THEOREM QuietMarketAlwaysReleases == Spec => []QuietMarketReleases
  <1>1. Init => QuietClimb
    <2> SUFFICES ASSUME Init PROVE QuietClimb
      OBVIOUS
    <2>1. LadderState(0) = "NORMAL"
      BY RecoveryPolicy DEF LadderState
    <2> QED
      BY <2>1, PolicyFacts DEF Init, QuietClimb, Deep
  <1>2. IInv /\ QuietClimb /\ [Next]_vars => QuietClimb'
    <2> SUFFICES ASSUME IInv, QuietClimb, [Next]_vars PROVE QuietClimb'
      OBVIOUS
    <2>1. CASE Next
      BY <2>1, QuietStep DEF Next
    <2>2. CASE UNCHANGED vars
      BY <2>2 DEF vars, QuietClimb
    <2> QED
      BY <2>1, <2>2
  <1>3. IInv /\ QuietClimb => QuietMarketReleases
    BY DEF IInv, QuietClimb, QuietMarketReleases, CapIsEffective, EffectiveCap
  <1> QED
    BY <1>1, <1>2, <1>3, Inductive, PTL DEF Spec

-----------------------------------------------------------------------------
(* The loop implements the recovery machine.                               *)

\* The second opinion is one of the three regimes the machine knows.
LEMMA MarketRegimeType == \A r \in Readings : MarketOnlyRegime(r) \in Regimes
  BY DEF MarketOnlyRegime, WeightedRegime, VotedRegime, Regimes

\* The observation a review shows the machine is one the machine admits.
LEMMA ObservationType ==
    ASSUME NEW m \in Markets, NEW d \in 0 .. MaxDepth
    PROVE  [depth |-> d, market |-> MarketOnlyRegime(m.reading), severe |-> m.event = "SEVERE",
            liveness |-> m.liveness, volatility |-> m.volatility] \in Observations
  <1>1. m \in Situations
    BY ReplayPolicy
  <1> QED
    BY <1>1, MarketRegimeType DEF Situations, Observations

\* A pass of the loop steps the machine once, or in legacy mode not at all.
LEMMA LoopStepsMachine == ReplayTypeOK /\ ReplayNext => [Next]_vars
  <1> SUFFICES ASSUME ReplayTypeOK, ReplayNext PROVE [Next]_vars
    OBVIOUS
  <1>1. ASSUME NEW m \in Markets, Decide(m) PROVE [Next]_vars
    <2>1. PICK d \in Mark :
            AdvanceRecovery([depth |-> d, market |-> MarketOnlyRegime(m.reading),
                             severe |-> m.event = "SEVERE", liveness |-> m.liveness,
                             volatility |-> m.volatility])
      BY <1>1 DEF Decide
    <2>2. d \in 0 .. MaxDepth
      BY DEF ReplayTypeOK, Mark
    <2> QED
      BY <2>1, <2>2, ObservationType DEF AdvanceRecovery, Next
  <1>2. ASSUME NEW bars \in BOOLEAN, Trade(bars) PROVE [Next]_vars
    BY <1>2 DEF Trade
  <1> QED
    BY <1>1, <1>2 DEF ReplayNext

\* A replay starts with a machine that has observed nothing.
LEMMA ReplayStartsMachine == ReplayInit => Init
  BY DEF ReplayInit

-----------------------------------------------------------------------------
(* The label.                                                              *)

\* The labels are the three levels, in order.
LEMMA LevelFacts ==
    /\ \A l \in Labels : Level(l) \in 0 .. 2
    /\ \A n \in 0 .. 2 : LabelAt(n) \in Labels /\ Level(LabelAt(n)) = n
  <1>1. \A l \in Labels : Level(l) \in 0 .. 2
    BY DEF Labels, Level
  <1>2. LabelAt(0) = "NORMAL" /\ LabelAt(1) = "DEFENSIVE" /\ LabelAt(2) = "CAPITAL_PRESERVATION"
    BY DEF LabelAt
  <1>3. Level("NORMAL") = 0 /\ Level("DEFENSIVE") = 1 /\ Level("CAPITAL_PRESERVATION") = 2
    BY DEF Level
  <1>4. \A n \in 0 .. 2 : n = 0 \/ n = 1 \/ n = 2
    OBVIOUS
  <1> QED
    BY <1>1, <1>2, <1>3, <1>4 DEF Labels

\* The classifiers of the ordinary domains return labels (engine/regime.py).
LEMMA OrdinaryType ==
    ASSUME NEW r \in Readings, NEW d \in Nat, NEW w \in BOOLEAN
    PROVE  OrdinaryRegime(r, d, w) \in Labels /\ DrawdownFloor(d) \in Labels
  <1>1. WeightedRegime(r) \in Labels
    BY DEF WeightedRegime, Labels
  <1>2. \A v : VotedRegime(v) \in Labels
    BY DEF VotedRegime, Labels
  <1>3. DrawdownFloor(d) \in Labels
    BY DEF DrawdownFloor, Labels
  <1> QED
    BY <1>1, <1>2, <1>3 DEF OrdinaryRegime, Labels

\* Bounding the move from the previous label keeps a label, and one that is
\* not below the floor.
LEMMA TransitionKeepsFloor ==
    ASSUME NEW computed \in Labels, NEW floor \in Labels, NEW previous \in Labels \cup {"NONE"},
           Level(computed) >= Level(floor)
    PROVE  /\ CapTransition(computed, floor, previous) \in Labels
           /\ Level(CapTransition(computed, floor, previous)) >= Level(floor)
  <1>1. CASE previous = "NONE"
    BY <1>1 DEF CapTransition
  <1>2. CASE previous # "NONE"
    <2> DEFINE bounded == AtMost(AtLeast(Level(computed), Level(previous) - MaxNotches),
                                 Level(previous) + MaxNotches)
    <2>1. /\ Level(computed) \in 0 .. 2 /\ Level(floor) \in 0 .. 2 /\ Level(previous) \in 0 .. 2
          /\ MaxNotches \in {1, 2}
      BY <1>2, LevelFacts, RegimePolicy
    <2>2. bounded \in 0 .. 2
      BY <2>1 DEF AtMost, AtLeast
    <2>3. AtLeast(bounded, Level(floor)) \in 0 .. 2 /\ AtLeast(bounded, Level(floor)) >= Level(floor)
      BY <2>1, <2>2 DEF AtLeast
    <2>4. CapTransition(computed, floor, previous) = LabelAt(AtLeast(bounded, Level(floor)))
      BY <1>2 DEF CapTransition
    <2> HIDE DEF bounded
    <2> QED
      BY <2>3, <2>4, LevelFacts
  <1> QED
    BY <1>1, <1>2

\* The label of a review, and that under the drawdown's authority it is never
\* below the drawdown's floor.
LEMMA LabelFacts ==
    ASSUME NEW r \in Readings, NEW e \in Events, NEW d \in Nat,
           NEW previous \in Labels \cup {"NONE"}, NEW w \in BOOLEAN
    PROVE  /\ DetermineRegime(r, e, d, previous, w) \in Labels
           /\ w => Level(DetermineRegime(r, e, d, previous, w)) >= Level(DrawdownFloor(d))
  <1>1. CASE e \in {"SEVERE", "ELEVATED"}
    <2>1. DetermineRegime(r, e, d, previous, w) = "CAPITAL_PRESERVATION"
      BY <1>1 DEF DetermineRegime
    <2>2. Level("CAPITAL_PRESERVATION") = 2 /\ Level(DrawdownFloor(d)) \in 0 .. 2
      BY LevelFacts, OrdinaryType DEF Level
    <2> QED
      BY <2>1, <2>2 DEF Labels
  <1>2. CASE e \notin {"SEVERE", "ELEVATED"}
    <2> DEFINE floor == IF w THEN DrawdownFloor(d) ELSE "NORMAL"
               ordinary == OrdinaryRegime(r, d, w)
               computed == LabelAt(AtLeast(Level(ordinary), Level(floor)))
    <2>1. floor \in Labels /\ ordinary \in Labels
      BY OrdinaryType DEF Labels
    <2>2. /\ AtLeast(Level(ordinary), Level(floor)) \in 0 .. 2
          /\ AtLeast(Level(ordinary), Level(floor)) >= Level(floor)
      BY <2>1, LevelFacts DEF AtLeast
    <2>3. computed \in Labels /\ Level(computed) >= Level(floor)
      BY <2>2, LevelFacts
    <2>4. DetermineRegime(r, e, d, previous, w) = CapTransition(computed, floor, previous)
      BY <1>2 DEF DetermineRegime
    <2>5. w => floor = DrawdownFloor(d)
      OBVIOUS
    <2> HIDE DEF floor, ordinary, computed
    <2> QED
      BY <2>1, <2>3, <2>4, <2>5, TransitionKeepsFloor
  <1> QED
    BY <1>1, <1>2

-----------------------------------------------------------------------------
(* The invariant: the types, the mandatory floor, and that the refusals on *)
(* the table are those of the drawdown on the table.                       *)

RefusalsAreCurrent == phase = "trade" /\ drawdown > Budget => "DRAWDOWN_BREACH" \in refusals

LInv == ReplayInvariant /\ RefusalsAreCurrent

\* The constants in the form the solvers use them.
LEMMA LoopFacts ==
    /\ MaxDepth \in Nat /\ Budget \in Nat /\ RecoveryReviews \in Nat \ {0}
    /\ MinStable \in 0 .. 100 /\ \A r \in RiskyLevels : r \in 0 .. 100
    /\ 0 \in RiskyLevels
    /\ \A l \in Labels : StableTarget[l] \in 0 .. 100
    /\ \A m \in Markets : m \in Situations
  BY ReplayPolicy, RecoveryPolicy

\* The first review finds the invariant true.
LEMMA LoopInit == ReplayInit => LInv
  <1> SUFFICES ASSUME ReplayInit PROVE LInv
    OBVIOUS
  <1>1. TypeOK
    BY TypeInit, ReplayStartsMachine
  <1>2. ReplayTypeOK
    <2>1. hard \in BOOLEAN
      BY DEF ReplayInit
    <2> QED
      BY <1>1, <2>1, LoopFacts DEF ReplayInit, ReplayTypeOK
  <1> QED
    BY <1>2 DEF LInv, ReplayInvariant, MandatoryFloor, RefusalsAreCurrent, ReplayInit

\* A floor the overlay raises is at least the policy's minimum.
LEMMA RequiredCoversMinimum ==
    ASSUME NEW overlay \in Int, NEW l \in Labels
    PROVE  RequiredStable(overlay, l) \in Int /\ RequiredStable(overlay, l) >= MinStable
  BY LoopFacts DEF RequiredStable, AtLeast

\* The overlay is a number whatever the mode.
LEMMA OverlayType ==
    ASSUME NEW d \in Nat, NEW n \in Nat, NEW c \in 0 .. 100
    PROVE  OverlayFloor(d, n, c) \in Int
  <1>1. Budget \in Nat /\ Budget > 0 /\ RecoveryFloor \in 0 .. 100
    BY RecoveryPolicy, ReplayPolicy
  <1>2. Consumed(d) \in Int
    BY <1>1 DEF Consumed
  <1>3. LegacyCap(d, n) \in Int
    BY <1>1, <1>2, LoopFacts DEF LegacyCap, AtLeast
  <1> QED
    BY <1>3 DEF OverlayFloor

\* A review's decision, after any market and any mark, keeps the invariant.
LEMMA DecideKeeps ==
    ASSUME LInv, NEW m \in Markets, Decide(m)
    PROVE  LInv'
  <1> DEFINE market == MarketOnlyRegime(m.reading)
             o(d) == [depth |-> d, market |-> market, severe |-> m.event = "SEVERE",
                      liveness |-> m.liveness, volatility |-> m.volatility]
  <1>1. ReplayTypeOK /\ phase = "decide" /\ m \in Situations
    BY LoopFacts DEF LInv, ReplayInvariant, Decide
  <1>2. PICK d \in Mark :
          /\ drawdown' = d
          /\ streak' = NormalCount(market)
          /\ label' = DetermineRegime(m.reading, m.event, d, label, mode # "volatility_budget")
          /\ LET overlay == OverlayFloor(d, streak', riskyCap')
             IN \E t \in RiskyLevels :
                   /\ t <= 100 - RequiredStable(overlay, label')
                   /\ target' = t
                   /\ hard' = HardReductions(overlay, label')
                   /\ refusals' = GateRefusals(d, t, risky, m.liveness)
    BY DEF Decide
  <1>3. d \in 0 .. MaxDepth /\ d \in Nat
    BY <1>1, LoopFacts DEF Mark, ReplayTypeOK
  <1>4. TypeOK'
    <2>1. ReplayNext
      BY DEF ReplayNext
    <2>2. CASE Next
      BY <1>1, <2>2, TypeStep DEF Next, ReplayTypeOK
    <2>3. CASE UNCHANGED vars
      BY <1>1, <2>3 DEF ReplayTypeOK, TypeOK, vars
    <2> QED
      BY <1>1, <2>1, <2>2, <2>3, LoopStepsMachine
  <1>5. /\ m.reading \in Readings /\ m.event \in Events
        /\ label \in Labels \cup {"NONE"} /\ (mode # "volatility_budget") \in BOOLEAN
    BY <1>1 DEF Situations, ReplayTypeOK
  <1>6. /\ label' \in Labels
        /\ mode # "volatility_budget" => Level(label') >= Level(DrawdownFloor(d))
    BY <1>2, <1>3, <1>5, LabelFacts
  <1>7. streak' \in 0 .. RecoveryReviews
    BY <1>1, <1>2, LoopFacts DEF NormalCount, ReplayTypeOK
  <1>8. OverlayFloor(d, streak', riskyCap') \in Int
    <2>1. streak' \in Nat
      BY <1>7, LoopFacts
    <2>2. riskyCap' \in 0 .. 100
      BY <1>4 DEF TypeOK, FullCap
    <2> QED
      BY <1>3, <2>1, <2>2, OverlayType
  <1>9. target' \in RiskyLevels /\ target' <= 100 - MinStable /\ hard' \in BOOLEAN
    <2>1. PICK t \in RiskyLevels :
            /\ t <= 100 - RequiredStable(OverlayFloor(d, streak', riskyCap'), label')
            /\ target' = t
            /\ hard' = HardReductions(OverlayFloor(d, streak', riskyCap'), label')
      BY <1>2
    <2>2. hard' \in BOOLEAN
      BY <2>1 DEF HardReductions
    <2>3. /\ RequiredStable(OverlayFloor(d, streak', riskyCap'), label') \in Int
          /\ RequiredStable(OverlayFloor(d, streak', riskyCap'), label') >= MinStable
      BY <1>6, <1>8, RequiredCoversMinimum
    <2>4. t \in Int /\ MinStable \in Int
      BY LoopFacts
    <2> QED
      BY <2>1, <2>2, <2>3, <2>4
  <1>10. refusals' \subseteq Refusals /\ (d > Budget => "DRAWDOWN_BREACH" \in refusals')
    BY <1>2 DEF GateRefusals, Refusals
  <1>11. mode' = mode /\ risky' = risky /\ phase' = "trade"
    BY DEF Decide
  <1>12. ReplayTypeOK'
    BY <1>1, <1>2, <1>3, <1>4, <1>6, <1>7, <1>9, <1>10, <1>11 DEF ReplayTypeOK
  <1>13. MandatoryFloor'
    BY <1>2, <1>6, <1>11 DEF MandatoryFloor
  <1> QED
    BY <1>2, <1>10, <1>12, <1>13 DEF LInv, ReplayInvariant, RefusalsAreCurrent

\* So do the trades of the review.
LEMMA TradeKeeps ==
    ASSUME LInv, NEW bars \in BOOLEAN, Trade(bars)
    PROVE  LInv'
  <1>1. ReplayTypeOK /\ MandatoryFloor
    BY DEF LInv, ReplayInvariant
  <1>2. risky' \in RiskyLevels
    BY <1>1 DEF Trade, Reduced, Increased, ReplayTypeOK
  <1>3. TypeOK'
    BY <1>1 DEF ReplayTypeOK, TypeOK, Trade, vars
  <1>4. ReplayTypeOK'
    <2>1. /\ mode' \in Modes /\ phase' = "decide"
          /\ label' \in Labels \cup {"NONE"} /\ streak' \in 0 .. RecoveryReviews
          /\ drawdown' \in 0 .. MaxDepth
      BY <1>1 DEF ReplayTypeOK, Trade
    <2>2. target' = 0 /\ refusals' = {} /\ 0 \in RiskyLevels /\ 0 <= 100 - MinStable
      BY LoopFacts DEF Trade
    <2>3. hard' \in BOOLEAN /\ ~hard'
      BY DEF Trade
    <2> QED
      BY <1>2, <1>3, <2>1, <2>2, <2>3 DEF ReplayTypeOK
  <1>5. MandatoryFloor'
    BY <1>1 DEF MandatoryFloor, Trade
  <1> QED
    BY <1>4, <1>5 DEF LInv, ReplayInvariant, RefusalsAreCurrent, Trade

\* The invariant holds in every state of every replay.
LEMMA LoopInvariant == ReplaySpec => []LInv
  <1>1. LInv /\ [ReplayNext]_replayVars => LInv'
    <2> SUFFICES ASSUME LInv, [ReplayNext]_replayVars PROVE LInv'
      OBVIOUS
    <2>1. CASE ReplayNext
      BY <2>1, DecideKeeps, TradeKeeps DEF ReplayNext
    <2>2. CASE UNCHANGED replayVars
      BY <2>2 DEF replayVars, loopVars, vars, LInv, ReplayInvariant, ReplayTypeOK, TypeOK,
         MandatoryFloor, RefusalsAreCurrent
    <2> QED
      BY <2>1, <2>2
  <1> QED
    BY LoopInit, <1>1, PTL DEF ReplaySpec

-----------------------------------------------------------------------------

\* Every variable of the loop keeps its type, no target is above the policy's
\* floor, and in legacy mode no label is below the floor of the drawdown,
\* whatever bounds the move from the label before it (regime.py, CapTransition).
THEOREM ReplayHolds == ReplaySpec => []ReplayInvariant
  <1>1. LInv => ReplayInvariant
    BY DEF LInv
  <1> QED
    BY <1>1, LoopInvariant, PTL

\* For every policy and every sequence of markets the loop drives the recovery
\* machine by the machine's own specification.
THEOREM LoopDrivesMachine == ReplaySpec => DrivesRecovery
  <1>1. LInv /\ [ReplayNext]_replayVars => [Next]_vars
    <2> SUFFICES ASSUME LInv, [ReplayNext]_replayVars PROVE [Next]_vars
      OBVIOUS
    <2>1. CASE ReplayNext
      BY <2>1, LoopStepsMachine DEF LInv, ReplayInvariant
    <2>2. CASE UNCHANGED replayVars
      BY <2>2 DEF replayVars
    <2> QED
      BY <2>1, <2>2
  <1>2. ReplayInit => Init
    BY ReplayStartsMachine
  <1> QED
    BY <1>1, <1>2, LoopInvariant, PTL DEF ReplaySpec, DrivesRecovery, Spec

\* So inside the loop too, stages are earned, end with a market that is not
\* normal, and stress ends under the cap of the ladder.
THEOREM RecoveryHoldsInLoop == ReplaySpec => []RecoveryInvariant
  BY LoopDrivesMachine, RecoveryHolds, PTL DEF DrivesRecovery

\* And inside the loop a quiet market releases the book in a bounded number
\* of reviews.
THEOREM QuietMarketReleasesInLoop == ReplaySpec => []QuietMarketReleases
  BY LoopDrivesMachine, QuietMarketAlwaysReleases, PTL DEF DrivesRecovery

\* A book beyond its drawdown budget never ends a review with more risk than
\* it began it: the gate's refusal reaches the execution rule in every mode.
THEOREM BreachHolds == ReplaySpec => BreachNeverAddsRisk
  <1> DEFINE Kept == phase = "trade" /\ drawdown > Budget => risky' <= risky
  <1>1. LInv /\ [ReplayNext]_replayVars => [Kept]_replayVars
    <2> SUFFICES ASSUME LInv, ReplayNext, phase = "trade", drawdown > Budget
                 PROVE  risky' <= risky
      OBVIOUS
    <2>1. PICK bars \in BOOLEAN : Trade(bars)
      BY DEF ReplayNext, Decide
    <2>2. /\ refusals # {} /\ risky \in Int /\ target \in Int
          /\ \A r \in RiskyLevels : r \in Int
      BY LoopFacts DEF LInv, ReplayInvariant, ReplayTypeOK, RefusalsAreCurrent
    <2>3. CASE target < risky
      BY <2>1, <2>2, <2>3 DEF Trade, Reduced
    <2>4. CASE target >= risky
      BY <2>1, <2>2, <2>4 DEF Trade, Increased
    <2> QED
      BY <2>2, <2>3, <2>4
  <1> QED
    BY <1>1, LoopInvariant, PTL DEF ReplaySpec, BreachNeverAddsRisk

-----------------------------------------------------------------------------
(* The lifecycle of the reviews: what finalize_review says of resting      *)
(* orders, for every set of zones and plans and however many reviews.      *)

\* What the constants and the plans of a lifecycle are.
LEMMA LifecycleConstants ==
    /\ IsFiniteSet(Zones) /\ None \notin Nat /\ None \notin Instructions
    /\ MaxReviews \in Nat /\ MaxTrades \in Nat /\ MaxTransfers \in Nat
    /\ NoTrades \in Units
  BY BoundsAssumption DEF NoTrades, Units

\* A plan is executable unless the asset has none or waits, and only an
\* executable one has amounts.
LEMMA PlanFacts ==
    ASSUME NEW plan \in AllPlans
    PROVE  /\ plan.amount \in [Zones -> Nat] /\ SideOf(plan) \in Sides
           /\ Executable(plan) <=> plan \in Plans
           /\ Executable(plan) => plan.action \in ExecutableActions
           /\ Absent \in AllPlans /\ ~Executable(Absent)
  BY PlansAssumption DEF AllPlans, Absent, Waiting, NoAmount, SideOf, Sides, Executable, ExecutableActions

\* What the type invariant says, piece by piece.
LEMMA LifecycleLengths ==
    ASSUME LifecycleTypeOK
    PROVE  /\ Len(held) \in Nat /\ Len(decisions) \in Nat
           /\ Len(flow) = Len(held) /\ Len(fills) = Len(held)
           /\ Len(decisions) = IF stage = "snapped" THEN Len(held) - 1 ELSE Len(held)
           /\ DOMAIN decisions = 1 .. Len(decisions) /\ DOMAIN fills = 1 .. Len(fills)
           /\ decisions = <<>> <=> Len(decisions) = 0
           /\ held = <<>> <=> Len(held) = 0
           /\ stage # "open" => Len(held) > 0
           /\ stage = "decided" => decisions # <<>>
           /\ fills = <<>> <=> Len(fills) = 0
  <1>1. /\ Len(held) \in Nat /\ Len(decisions) \in Nat
        /\ DOMAIN decisions = 1 .. Len(decisions) /\ DOMAIN fills = 1 .. Len(fills)
    BY LenProperties DEF LifecycleTypeOK
  <1>2. decisions = <<>> <=> Len(decisions) = 0
    BY EmptySeq DEF LifecycleTypeOK
  <1>3. fills = <<>> <=> Len(fills) = 0
    BY EmptySeq DEF LifecycleTypeOK
  <1>4. held = <<>> <=> Len(held) = 0
    BY EmptySeq DEF LifecycleTypeOK
  <1>5. /\ Len(flow) = Len(held) /\ Len(fills) = Len(held)
        /\ Len(decisions) = IF stage = "snapped" THEN Len(held) - 1 ELSE Len(held)
        /\ stage # "open" => held # <<>>
    BY DEF LifecycleTypeOK
  <1> QED
    BY <1>1, <1>2, <1>3, <1>4, <1>5

\* The members of the sequences.
LEMMA LifecycleMembers ==
    ASSUME LifecycleTypeOK
    PROVE  /\ \A i \in 1 .. Len(held) : held[i] \in Int /\ flow[i] \in BOOLEAN /\ fills[i] \in Units
           /\ \A i \in 1 .. Len(decisions) :
                /\ decisions[i] \in [plan : AllPlans, status : Statuses]
                /\ decisions[i].plan \in AllPlans /\ decisions[i].status \in Statuses
  <1>1. \A i \in 1 .. Len(held) : held[i] \in Int
    BY ElementOfSeq DEF LifecycleTypeOK
  <1>2. \A i \in 1 .. Len(held) : flow[i] \in BOOLEAN
    BY ElementOfSeq DEF LifecycleTypeOK
  <1>3. \A i \in 1 .. Len(held) : fills[i] \in Units
    BY ElementOfSeq DEF LifecycleTypeOK
  <1>4. \A i \in 1 .. Len(decisions) : decisions[i] \in [plan : AllPlans, status : Statuses]
    BY ElementOfSeq DEF LifecycleTypeOK
  <1> QED
    BY <1>1, <1>2, <1>3, <1>4

\* An instruction is one of the four (prior_plan_disposition).
LEMMA InstructionType ==
    ASSUME NEW rests, NEW book, NEW old, NEW status, NEW new
    PROVE  Instruction(rests, book, old, status, new) \in Instructions
  BY DEF Instruction, Instructions

\* A set of positions that is not empty has a greatest one.
LEMMA GreatestIsMax ==
    ASSUME NEW n \in Nat, NEW found \in SUBSET (1 .. n), found # {}
    PROVE  Max(found) \in found /\ \A i \in found : i <= Max(found)
  <1> DEFINE Top == {n - i : i \in found}
  <1>1. Top \subseteq Nat
    OBVIOUS
  <1>2. Top # {}
    OBVIOUS
  <1>3. PICK t \in Top : \A u \in Top : t <= u
    BY <1>1, <1>2, LeastOfNat
  <1>4. PICK m \in found : t = n - m
    BY <1>3
  <1>5. \A i \in found : n - m <= n - i
    BY <1>3, <1>4
  <1>6. ASSUME NEW i \in found PROVE m >= i
    <2>1. i \in Int /\ m \in Int /\ n \in Int
      OBVIOUS
    <2>2. n - m <= n - i
      BY <1>5
    <2> HIDE DEF Top
    <2> QED
      BY <2>1, <2>2
  <1> HIDE DEF Top
  <1> QED
    BY <1>6 DEF Max

\* The prior plan is the newest executable one (latest_plan_by_symbol).
LEMMA PriorFacts ==
    ASSUME LifecycleTypeOK
    PROVE  /\ PriorOf(decisions) = None \/ PriorOf(decisions) \in 1 .. Len(decisions)
           /\ decisions # <<>> /\ Executable(decisions[Len(decisions)].plan) => PriorOf(decisions) = Len(decisions)
           /\ decisions = <<>> => PriorOf(decisions) = None
  <1> DEFINE found == {i \in DOMAIN decisions : Executable(decisions[i].plan)}
             n == Len(decisions)
  <1>1. n \in Nat /\ found \subseteq 1 .. n /\ (decisions = <<>> <=> n = 0)
    BY LifecycleLengths
  <1>2. PriorOf(decisions) = IF found = {} THEN None ELSE Max(found)
    BY DEF PriorOf
  <1>3. decisions # <<>> /\ Executable(decisions[n].plan) => n \in found
    BY LifecycleLengths
  <1> HIDE DEF found, n
  <1>4. found # {} => Max(found) \in found /\ \A i \in found : i <= Max(found)
    BY <1>1, GreatestIsMax
  <1>5. found # {} => Max(found) \in 1 .. n
    BY <1>1, <1>4
  <1>6. n \in found => Max(found) = n
    BY <1>1, <1>4, <1>5
  <1>7. PriorOf(decisions) = None \/ PriorOf(decisions) \in 1 .. n
    BY <1>2, <1>5
  <1>8. decisions # <<>> /\ Executable(decisions[n].plan) => PriorOf(decisions) = n
    BY <1>2, <1>3, <1>6
  <1>9. decisions = <<>> => PriorOf(decisions) = None
    BY <1>1, <1>2
  <1> QED
    BY <1>7, <1>8, <1>9 DEF n

\* The advice of a review is an instruction about an earlier plan, or none.
LEMMA DispositionType ==
    ASSUME LifecycleTypeOK, NEW evidence, NEW book \in BOOLEAN, NEW new
    PROVE  Disposition(evidence, book, new) \in [instruction : Instructions \cup {None}, book : BOOLEAN, old : AllPlans]
  <1> DEFINE prior == PriorOf(decisions)
  <1>1. CASE prior = None
    <2>1. Absent \in AllPlans
      BY DEF AllPlans
    <2> QED
      BY <1>1, <2>1 DEF Disposition, NoAdvice
  <1>2. CASE prior # None
    <2>1. decisions[prior].plan \in AllPlans
      BY <1>2, PriorFacts, LifecycleMembers
    <2> HIDE DEF prior
    <2> QED
      BY <1>2, <2>1, InstructionType DEF Disposition, prior
  <1> QED
    BY <1>1, <1>2

\* The first state is well typed.
LEMMA LifecycleTypesInit == LifecycleInit => LifecycleTypeOK
  <1> SUFFICES ASSUME LifecycleInit PROVE LifecycleTypeOK
    OBVIOUS
  <1>1. held = <<>> /\ flow = <<>> /\ fills = <<>> /\ decisions = <<>>
    BY DEF LifecycleInit
  <1>2. /\ held \in Seq(Int) /\ flow \in Seq(BOOLEAN) /\ fills \in Seq(Units)
        /\ decisions \in Seq([plan : AllPlans, status : Statuses])
    BY <1>1, EmptySeq
  <1>3. Len(held) = 0 /\ Len(flow) = 0 /\ Len(fills) = 0 /\ Len(decisions) = 0
    BY <1>1, EmptySeq
  <1>4. advice \in [instruction : Instructions \cup {None}, book : BOOLEAN, old : AllPlans]
    BY PlanFacts DEF LifecycleInit, NoAdvice, AllPlans
  <1>5. orders \in Units
    BY LifecycleConstants DEF LifecycleInit
  <1> QED
    BY <1>2, <1>3, <1>4, <1>5 DEF LifecycleInit, LifecycleTypeOK

\* append_snapshot extends the snapshots and opens an epoch without trades.
LEMMA SnapshotTypes ==
    ASSUME LifecycleTypeOK, NEW deposited \in -MaxTransfers .. MaxTransfers, Snapshot(deposited)
    PROVE  LifecycleTypeOK'
  <1>1. deposited \in Int /\ transfers' \in Nat /\ quantity' \in Int
    BY LifecycleConstants DEF LifecycleTypeOK, Snapshot
  <1>2. held' \in Seq(Int) /\ Len(held') = Len(held) + 1
    BY <1>1, AppendProperties DEF LifecycleTypeOK, Snapshot
  <1>3. flow' \in Seq(BOOLEAN) /\ Len(flow') = Len(flow) + 1
    <2>1. (deposited # 0) \in BOOLEAN
      OBVIOUS
    <2> QED
      BY <2>1, AppendProperties DEF LifecycleTypeOK, Snapshot
  <1>4. fills' \in Seq(Units) /\ Len(fills') = Len(fills) + 1
    BY LifecycleConstants, AppendProperties DEF LifecycleTypeOK, Snapshot
  <1>5. Len(decisions) = Len(held') - 1
    BY <1>2, LifecycleLengths DEF Snapshot
  <1> QED
    BY <1>1, <1>2, <1>3, <1>4, <1>5 DEF LifecycleTypeOK, Snapshot

\* finalize_review appends one pending decision.
LEMMA FinalizeTypes ==
    ASSUME LifecycleTypeOK, NEW new \in AllPlans, NEW evidence, NEW book \in BOOLEAN,
           Finalize(new, evidence, book)
    PROVE  LifecycleTypeOK'
  <1>1. [plan |-> new, status |-> "PENDING"] \in [plan : AllPlans, status : Statuses]
    BY DEF Statuses
  <1>2. /\ decisions' \in Seq([plan : AllPlans, status : Statuses])
        /\ Len(decisions') = Len(decisions) + 1
    BY <1>1, AppendProperties DEF LifecycleTypeOK, Finalize
  <1>3. DOMAIN decisions' = 1 .. Len(decisions) + 1
    BY <1>2, LenProperties
  <1>4. proposed' \subseteq DOMAIN decisions'
    BY <1>3, LifecycleLengths DEF Finalize, Superseded
  <1>5. advice' \in [instruction : Instructions \cup {None}, book : BOOLEAN, old : AllPlans]
    BY DispositionType DEF Finalize
  <1>6. causes' \subseteq Causes
    BY DEF Finalize, Because, Causes, LifecycleTypeOK
  <1>7. Len(decisions') = Len(held)
    BY <1>2, LifecycleLengths DEF Finalize
  <1> QED
    BY <1>2, <1>4, <1>5, <1>6, <1>7 DEF LifecycleTypeOK, Finalize, exchange

\* The decisions keep their plans when some of them get another status.
LEMMA StatusesChange ==
    ASSUME NEW before \in Seq([plan : AllPlans, status : Statuses]),
           NEW after, NEW news, after = [i \in DOMAIN before |-> news[i]],
           \A i \in DOMAIN before :
              /\ news[i] \in [plan : AllPlans, status : Statuses]
              /\ news[i].plan = before[i].plan
    PROVE  /\ after \in Seq([plan : AllPlans, status : Statuses])
           /\ Len(after) = Len(before) /\ DOMAIN after = DOMAIN before
           /\ \A i \in 1 .. Len(before) : after[i].plan = before[i].plan
  <1> DEFINE Records == [plan : AllPlans, status : Statuses]
  <1>1. Len(before) \in Nat /\ DOMAIN before = 1 .. Len(before)
    BY LenProperties
  <1>2. after \in [1 .. Len(before) -> Records]
    BY <1>1
  <1>3. after \in Seq(Records)
    BY <1>1, <1>2 DEF Seq
  <1>4. DOMAIN after = 1 .. Len(before) /\ DOMAIN after = 1 .. Len(after) /\ Len(after) \in Nat
    BY <1>2, <1>3, LenProperties
  <1>5. Len(after) = Len(before)
    BY <1>1, <1>4
  <1> QED
    BY <1>1, <1>3, <1>4, <1>5

\* Status events change statuses, and of the proposed decisions only
\* (append_status_event of the closed ones).
LEMMA CloseFacts ==
    ASSUME LifecycleTypeOK, NEW closed \in SUBSET proposed, CloseSuperseded(closed)
    PROVE  /\ decisions' \in Seq([plan : AllPlans, status : Statuses])
           /\ Len(decisions') = Len(decisions) /\ DOMAIN decisions' = DOMAIN decisions
           /\ \A i \in 1 .. Len(decisions) :
                /\ decisions'[i].plan = decisions[i].plan
                /\ decisions'[i].status = IF i \in closed THEN "NOT_EXECUTED" ELSE decisions[i].status
  <1> DEFINE news == [i \in DOMAIN decisions |->
                        IF i \in closed THEN [decisions[i] EXCEPT !.status = ClosedAs] ELSE decisions[i]]
  <1>1. DOMAIN decisions = 1 .. Len(decisions)
    BY LifecycleLengths
  <1>2. ASSUME NEW i \in DOMAIN decisions
        PROVE  /\ news[i] \in [plan : AllPlans, status : Statuses]
               /\ news[i].plan = decisions[i].plan
               /\ news[i].status = IF i \in closed THEN "NOT_EXECUTED" ELSE decisions[i].status
    <2>1. decisions[i] \in [plan : AllPlans, status : Statuses]
      BY <1>1, LifecycleMembers
    <2> QED
      BY <2>1 DEF ClosedAs, Statuses
  <1>3. decisions' = news
    BY DEF CloseSuperseded
  <1>4. decisions' = [i \in DOMAIN decisions |-> news[i]]
    BY <1>3
  <1> HIDE DEF news
  <1>5. decisions \in Seq([plan : AllPlans, status : Statuses])
    BY DEF LifecycleTypeOK
  <1>6. \A i \in DOMAIN decisions :
          news[i] \in [plan : AllPlans, status : Statuses] /\ news[i].plan = decisions[i].plan
    BY <1>2
  <1>7. /\ decisions' \in Seq([plan : AllPlans, status : Statuses])
        /\ Len(decisions') = Len(decisions) /\ DOMAIN decisions' = DOMAIN decisions
    BY <1>4, <1>5, <1>6, StatusesChange
  <1> QED
    BY <1>1, <1>2, <1>3, <1>7

\* Likewise for the event of the user.
LEMMA ReportFacts ==
    ASSUME LifecycleTypeOK, NEW i \in DOMAIN decisions, NEW status \in Statuses, Report(i, status)
    PROVE  /\ decisions' \in Seq([plan : AllPlans, status : Statuses])
           /\ Len(decisions') = Len(decisions) /\ DOMAIN decisions' = DOMAIN decisions
           /\ \A j \in 1 .. Len(decisions) :
                /\ decisions'[j].plan = decisions[j].plan
                /\ decisions'[j].status = IF j = i THEN status ELSE decisions[j].status
  <1> DEFINE news == [decisions EXCEPT ![i].status = status]
  <1>1. DOMAIN decisions = 1 .. Len(decisions)
    BY LifecycleLengths
  <1>2. ASSUME NEW j \in DOMAIN decisions
        PROVE  /\ news[j] \in [plan : AllPlans, status : Statuses]
               /\ news[j].plan = decisions[j].plan
               /\ news[j].status = IF j = i THEN status ELSE decisions[j].status
    <2>1. decisions[j] \in [plan : AllPlans, status : Statuses]
      BY <1>1, LifecycleMembers
    <2> QED
      BY <2>1
  <1>3. decisions' = news
    BY DEF Report
  <1>4. decisions' = [j \in DOMAIN decisions |-> news[j]]
    BY <1>3
  <1> HIDE DEF news
  <1>5. decisions \in Seq([plan : AllPlans, status : Statuses])
    BY DEF LifecycleTypeOK
  <1>6. \A j \in DOMAIN decisions :
          news[j] \in [plan : AllPlans, status : Statuses] /\ news[j].plan = decisions[j].plan
    BY <1>2
  <1>7. /\ decisions' \in Seq([plan : AllPlans, status : Statuses])
        /\ Len(decisions') = Len(decisions) /\ DOMAIN decisions' = DOMAIN decisions
    BY <1>4, <1>5, <1>6, StatusesChange
  <1> QED
    BY <1>1, <1>2, <1>3, <1>7

\* Neither changes anything else.
LEMMA StatusTypes ==
    ASSUME LifecycleTypeOK,
           \/ \E closed \in SUBSET proposed : CloseSuperseded(closed)
           \/ \E i \in DOMAIN decisions, status \in Statuses \ {"PENDING"} : Report(i, status)
    PROVE  LifecycleTypeOK'
  <1>1. /\ decisions' \in Seq([plan : AllPlans, status : Statuses])
        /\ Len(decisions') = Len(decisions) /\ DOMAIN decisions' = DOMAIN decisions
    BY CloseFacts, ReportFacts
  <1>2. proposed' \subseteq proposed
    BY DEF CloseSuperseded, Report
  <1>3. UNCHANGED <<stage, held, flow, fills, quantity, orders, transfers, advice, causes>>
    BY DEF CloseSuperseded, Report, exchange
  <1> QED
    BY <1>1, <1>2, <1>3 DEF LifecycleTypeOK

\* What is left of the orders, and what is placed, are units again.
LEMMA PlacingTypes ==
    ASSUME NEW resting \in Units, NEW plan \in AllPlans
    PROVE  With(resting, plan) \in Units /\ Without(resting, plan) \in Units /\ WithoutStale(resting, plan) \in Units
  <1>1. plan.amount \in [Zones -> Nat]
    BY PlanFacts
  <1> QED
    BY <1>1 DEF With, Without, WithoutStale, Units

\* What the instruction of the report leaves on the book.
KeptOrders ==
    CASE advice.instruction \in {"CANCEL_RESTING", "REPLACE_WITH_NEW_PLAN"} -> Without(orders, advice.old)
      [] advice.instruction = "KEEP_EQUIVALENT_ORDERS" /\ advice.book -> WithoutStale(orders, Last(decisions).plan)
      [] OTHER -> orders

\* The newest decision is one of the decisions once the review is persisted.
LEMMA NewestFacts ==
    ASSUME LifecycleTypeOK, decisions # <<>>
    PROVE  /\ Last(decisions) = decisions[Len(decisions)] /\ Len(decisions) \in 1 .. Len(decisions)
           /\ Last(decisions).plan \in AllPlans
  <1>1. Len(decisions) \in 1 .. Len(decisions)
    BY LifecycleLengths
  <1> QED
    BY <1>1, LifecycleMembers DEF Last

\* Following the instruction places the orders of the new plan on what is kept.
LEMMA FollowFacts ==
    ASSUME LifecycleTypeOK, Follow
    PROVE  /\ decisions # <<>> /\ stage = "decided" /\ stage' = "open"
           /\ Last(decisions).plan \in AllPlans
           /\ orders' = With(KeptOrders, Last(decisions).plan)
           /\ KeptOrders \in Units /\ orders' \in Units
           /\ advice' = NoAdvice
           /\ UNCHANGED <<held, flow, decisions, fills, quantity, transfers, proposed>>
  <1>1. decisions # <<>> /\ stage = "decided" /\ stage' = "open"
    BY LifecycleLengths DEF Follow
  <1>2. Last(decisions).plan \in AllPlans
    BY <1>1, NewestFacts
  <1>3. orders \in Units /\ advice.old \in AllPlans
    BY DEF LifecycleTypeOK
  <1>4. KeptOrders \in Units
    BY <1>2, <1>3, PlacingTypes DEF KeptOrders
  <1>5. orders' = With(KeptOrders, Last(decisions).plan)
    BY DEF Follow, KeptOrders
  <1> QED
    BY <1>1, <1>2, <1>4, <1>5, PlacingTypes DEF Follow

\* Acting on the report, or not, keeps the types.
LEMMA ActTypes ==
    ASSUME LifecycleTypeOK, Follow \/ Ignore
    PROVE  LifecycleTypeOK'
  <1>1. NoAdvice \in [instruction : Instructions \cup {None}, book : BOOLEAN, old : AllPlans]
    BY PlanFacts DEF NoAdvice, AllPlans
  <1>2. CASE Follow
    <2>1. causes' \subseteq Causes
      BY <1>2 DEF Follow, Because, Causes, LifecycleTypeOK
    <2>2. /\ orders' \in Units /\ advice' = NoAdvice /\ stage = "decided" /\ stage' = "open"
          /\ UNCHANGED <<held, flow, decisions, fills, quantity, transfers, proposed>>
      BY <1>2, FollowFacts
    <2> QED
      BY <1>1, <2>1, <2>2 DEF LifecycleTypeOK
  <1>3. CASE Ignore
    <2>1. causes' \subseteq Causes
      BY <1>3 DEF Ignore, Because, Causes, LifecycleTypeOK
    <2> QED
      BY <1>1, <1>3, <2>1 DEF LifecycleTypeOK, Ignore, exchange
  <1> QED
    BY <1>2, <1>3

\* One unit more or less on one side and zone.
LEMMA OneUnit ==
    ASSUME NEW f \in Units, NEW x \in Sides \X Zones, NEW d \in Int, f[x] + d \in Nat
    PROVE  [f EXCEPT ![x] = @ + d] \in Units
  BY DEF Units

\* A trade touches the newest epoch and the quantity.
LEMMA TradeFacts ==
    ASSUME LifecycleTypeOK, NEW x \in Sides \X Zones, UnitTraded(x)
    PROVE  /\ Len(fills) \in 1 .. Len(fills) /\ fills[Len(fills)] \in Units
           /\ fills' \in Seq(Units) /\ Len(fills') = Len(fills)
           /\ fills'[Len(fills)] = [fills[Len(fills)] EXCEPT ![x] = @ + 1]
           /\ \A e \in 1 .. Len(fills) : e # Len(fills) => fills'[e] = fills[e]
           /\ quantity' = quantity + (IF x[1] = "BUY" THEN 1 ELSE -1)
           /\ UNCHANGED <<stage, held, flow, decisions, transfers, advice, proposed>>
  <1> DEFINE n == Len(fills)
             e == [fills[n] EXCEPT ![x] = @ + 1]
  <1>1. n \in 1 .. n /\ fills[n] \in Units /\ fills \in Seq(Units)
    <2>1. fills # <<>> /\ fills \in Seq(Units)
      BY DEF UnitTraded, LifecycleTypeOK
    <2>2. n \in 1 .. n
      BY <2>1, LifecycleLengths
    <2> QED
      BY <2>1, <2>2, ElementOfSeq
  <1>2. e \in Units
    BY <1>1, OneUnit DEF Units
  <1>3. fills' = [fills EXCEPT ![n] = e]
    BY DEF UnitTraded
  <1> HIDE DEF e
  <1>4. /\ fills' \in Seq(Units) /\ Len(fills') = n
        /\ \A k \in 1 .. n : fills'[k] = IF k = n THEN e ELSE fills[k]
    BY <1>1, <1>2, <1>3, ExceptSeq
  <1>5. fills'[n] = e
    BY <1>1, <1>4
  <1> QED
    BY <1>1, <1>4, <1>5 DEF UnitTraded, e

\* A trade, of an order or by hand, keeps the types.
LEMMA TradeTypes ==
    ASSUME LifecycleTypeOK, NEW x \in Sides \X Zones, Fill(x) \/ TradeByHand(x)
    PROVE  LifecycleTypeOK'
  <1>1. UnitTraded(x)
    BY DEF Fill, TradeByHand
  <1>2. orders' \in Units
    <2>1. orders \in Units
      BY DEF LifecycleTypeOK
    <2>2. ASSUME Fill(x) PROVE orders' \in Units
      <3>1. orders[x] \in Nat /\ orders[x] > 0 /\ orders' = [orders EXCEPT ![x] = @ - 1]
        BY <2>1, <2>2 DEF Fill, Units
      <3>2. orders[x] - 1 \in Nat
        BY <3>1
      <3> QED
        BY <2>1, <3>1, <3>2 DEF Units
    <2> QED
      BY <2>1, <2>2 DEF TradeByHand
  <1>3. causes' \subseteq Causes
    BY DEF Fill, TradeByHand, Because, Causes, LifecycleTypeOK
  <1>4. quantity' \in Int
    <2>1. quantity \in Int
      BY DEF LifecycleTypeOK
    <2> QED
      BY <1>1, <2>1 DEF UnitTraded
  <1>5. /\ fills' \in Seq(Units) /\ Len(fills') = Len(fills)
        /\ UNCHANGED <<stage, held, flow, decisions, transfers, advice, proposed>>
    BY <1>1, TradeFacts
  <1> QED
    BY <1>2, <1>3, <1>4, <1>5 DEF LifecycleTypeOK

\* Every step of the lifecycle keeps the types.
LEMMA LifecycleTypesStep == LifecycleTypeOK /\ [LifecycleNext]_lifecycleVars => LifecycleTypeOK'
  <1> SUFFICES ASSUME LifecycleTypeOK, [LifecycleNext]_lifecycleVars PROVE LifecycleTypeOK'
    OBVIOUS
  <1>1. CASE \E deposited \in -MaxTransfers .. MaxTransfers : Snapshot(deposited)
    BY <1>1, SnapshotTypes
  <1>2. CASE \E new \in AllPlans, evidence \in Evidence, book \in BOOLEAN : Finalize(new, evidence, book)
    BY <1>2, FinalizeTypes
  <1>3. CASE \/ \E closed \in SUBSET proposed : CloseSuperseded(closed)
             \/ \E i \in DOMAIN decisions, status \in Statuses \ {"PENDING"} : Report(i, status)
    BY <1>3, StatusTypes
  <1>4. CASE Follow \/ Ignore
    BY <1>4, ActTypes
  <1>5. CASE \E x \in Sides \X Zones : Fill(x) \/ TradeByHand(x)
    BY <1>5, TradeTypes
  <1>6. CASE UNCHANGED lifecycleVars
    BY <1>6 DEF lifecycleVars, LifecycleTypeOK
  <1> QED
    BY <1>1, <1>2, <1>3, <1>4, <1>5, <1>6 DEF LifecycleNext

\* The records of the reviews keep their types, and snapshots, epochs and
\* decisions stay in step.
THEOREM LifecycleTypes == LifecycleSpec => []LifecycleTypeOK
  BY LifecycleTypesInit, LifecycleTypesStep, PTL DEF LifecycleSpec

-----------------------------------------------------------------------------
(* The books balance: a snapshot differs from the one before by what was   *)
(* traded between them, and by what was transferred.                       *)

\* Units traded on a side, and what the trades of an epoch add to the quantity.
InZones(f, side) == [z \in Zones |-> f[side, z]]
BookOf(f, side) == SumOver(InZones(f, side), Zones)
NetOf(f) == BookOf(f, "BUY") - BookOf(f, "SELL")

BooksBalance ==
    /\ \A k \in 1 .. Len(held) - 1 : ~flow[k + 1] => held[k + 1] - held[k] = NetOf(fills[k])
    /\ Len(held) > 0 => quantity - held[Len(held)] = NetOf(fills[Len(held)])

\* Units by zone are natural numbers, and so is their sum.
LEMMA BookType ==
    ASSUME NEW f \in Units, NEW side \in Sides
    PROVE  /\ \A z \in Zones : InZones(f, side)[z] \in Nat /\ InZones(f, side)[z] = f[<<side, z>>]
           /\ BookOf(f, side) \in Nat
  <1>1. \A z \in Zones : InZones(f, side)[z] \in Nat /\ InZones(f, side)[z] = f[<<side, z>>]
    BY DEF InZones, Units
  <1> QED
    BY <1>1, LifecycleConstants, SumOfNaturals DEF BookOf

\* One more unit on a side is one more in its book.
LEMMA BookGrows ==
    ASSUME NEW f \in Units, NEW s \in Sides, NEW y \in Zones, NEW side \in Sides,
           NEW g, g = [f EXCEPT ![<<s, y>>] = @ + 1]
    PROVE  BookOf(g, side) = BookOf(f, side) + (IF s = side THEN 1 ELSE 0)
  <1> DEFINE a == InZones(f, side)
             b == InZones(g, side)
  <1>1. IsFiniteSet(Zones)
    BY LifecycleConstants
  <1>2. \A z \in Zones : a[z] \in Nat /\ b[z] = a[z] + (IF s = side /\ z = y THEN 1 ELSE 0)
    <2>1. \A z \in Zones : a[z] = f[<<side, z>>] /\ b[z] = g[<<side, z>>] /\ f[<<side, z>>] \in Nat
      BY DEF InZones, Units
    <2>2. \A z \in Zones : g[<<side, z>>] = f[<<side, z>>] + (IF s = side /\ z = y THEN 1 ELSE 0)
      BY DEF Units
    <2> HIDE DEF a, b
    <2> QED
      BY <2>1, <2>2
  <1> HIDE DEF a, b
  <1>3. \A z \in Zones : a[z] \in Int /\ b[z] \in Int
    BY <1>2
  <1>4. CASE s # side
    <2>1. \A z \in Zones : a[z] \in Int /\ a[z] = b[z]
      BY <1>2, <1>4
    <2>2. SumOver(a, Zones) = SumOver(b, Zones)
      BY <1>1, <2>1, SumSame
    <2>3. SumOver(a, Zones) \in Int
      BY <1>1, <1>3, SumType
    <2> QED
      BY <1>4, <2>2, <2>3 DEF BookOf, a, b
  <1>5. CASE s = side
    <2> DEFINE others == Zones \ {y}
    <2>1. IsFiniteSet(others) /\ others \subseteq Zones
      BY <1>1, FS_Subset
    <2>2. \A z \in others : a[z] \in Int /\ a[z] = b[z]
      BY <1>2
    <2>3. SumOver(a, others) = SumOver(b, others) /\ SumOver(a, others) \in Int
      BY <2>1, <2>2, SumSame, SumType
    <2>4. SumOver(a, Zones) = a[y] + SumOver(a, others)
      BY <1>1, <1>3, SumRemove
    <2>5. SumOver(b, Zones) = b[y] + SumOver(b, others)
      BY <1>1, <1>3, SumRemove
    <2>6. a[y] \in Int /\ b[y] = a[y] + 1
      BY <1>2, <1>5
    <2> HIDE DEF others
    <2>7. SumOver(b, Zones) = SumOver(a, Zones) + 1
      BY <2>3, <2>4, <2>5, <2>6
    <2> QED
      BY <1>5, <2>7 DEF BookOf, a, b
  <1> QED
    BY <1>4, <1>5

\* The net of an epoch: none at first, and one unit at a time.
LEMMA NetFacts ==
    ASSUME NEW f \in Units
    PROVE  /\ NetOf(f) \in Int
           /\ \A x \in Sides \X Zones :
                NetOf([f EXCEPT ![x] = @ + 1]) = NetOf(f) + (IF x[1] = "BUY" THEN 1 ELSE -1)
  <1>1. BookOf(f, "BUY") \in Nat /\ BookOf(f, "SELL") \in Nat
    BY BookType DEF Sides
  <1>2. ASSUME NEW s \in Sides, NEW y \in Zones
        PROVE  NetOf([f EXCEPT ![<<s, y>>] = @ + 1]) = NetOf(f) + (IF s = "BUY" THEN 1 ELSE -1)
    <2> DEFINE g == [f EXCEPT ![<<s, y>>] = @ + 1]
    <2> HIDE DEF g
    <2>1. BookOf(g, "BUY") = BookOf(f, "BUY") + (IF s = "BUY" THEN 1 ELSE 0)
      BY BookGrows DEF Sides, g
    <2>2. BookOf(g, "SELL") = BookOf(f, "SELL") + (IF s = "SELL" THEN 1 ELSE 0)
      BY BookGrows DEF Sides, g
    <2>3. s = "BUY" \/ s = "SELL"
      BY DEF Sides
    <2>4. NetOf(g) = NetOf(f) + (IF s = "BUY" THEN 1 ELSE -1)
      BY <1>1, <2>1, <2>2, <2>3 DEF NetOf
    <2> QED
      BY <2>4 DEF g
  <1>3. ASSUME NEW x \in Sides \X Zones
        PROVE  NetOf([f EXCEPT ![x] = @ + 1]) = NetOf(f) + (IF x[1] = "BUY" THEN 1 ELSE -1)
    <2>1. PICK s \in Sides, y \in Zones : x = <<s, y>>
      OBVIOUS
    <2>2. x[1] = s
      BY <2>1
    <2> QED
      BY <1>2, <2>1, <2>2
  <1> QED
    BY <1>1, <1>3 DEF NetOf

\* An epoch without trades adds nothing.
LEMMA NetOfNothing == NetOf(NoTrades) = 0
  <1>1. ASSUME NEW side \in Sides PROVE BookOf(NoTrades, side) = 0
    <2>1. \A z \in Zones : InZones(NoTrades, side)[z] = 0
      BY DEF InZones, NoTrades
    <2> QED
      BY <2>1, LifecycleConstants, SumOfZeros DEF BookOf
  <1> QED
    BY <1>1 DEF NetOf, Sides

\* append_snapshot records the quantity as it is, and whether a transfer moved it.
LEMMA SnapshotBalances ==
    ASSUME LifecycleTypeOK, BooksBalance, NEW deposited \in -MaxTransfers .. MaxTransfers, Snapshot(deposited)
    PROVE  BooksBalance'
  <1> DEFINE n == Len(held)
  <1>1. deposited \in Int /\ quantity \in Int /\ quantity' = quantity + deposited
    BY LifecycleConstants DEF Snapshot, LifecycleTypeOK
  <1>2. n \in Nat /\ Len(flow) = n /\ Len(fills) = n
    BY LifecycleLengths
  <1>3. /\ Len(held') = n + 1 /\ held'[n + 1] = quantity'
        /\ \A k \in 1 .. n : held'[k] = held[k]
    BY <1>1, AppendProperties DEF Snapshot, LifecycleTypeOK
  <1>4. (deposited # 0) \in BOOLEAN
    OBVIOUS
  <1>5. flow'[n + 1] = (deposited # 0) /\ \A k \in 1 .. n : flow'[k] = flow[k]
    BY <1>2, <1>4, AppendProperties DEF Snapshot, LifecycleTypeOK
  <1>6. fills'[n + 1] = NoTrades /\ \A k \in 1 .. n : fills'[k] = fills[k]
    BY <1>2, LifecycleConstants, AppendProperties DEF Snapshot, LifecycleTypeOK
  <1> HIDE DEF n
  <1>7. ASSUME NEW k \in 1 .. n, ~flow'[k + 1]
        PROVE  held'[k + 1] - held'[k] = NetOf(fills'[k])
    <2>1. CASE k = n
      <3>1. deposited = 0
        BY <1>5, <1>7, <2>1
      <3>2. quantity' = quantity
        BY <1>1, <3>1
      <3>3. quantity - held[n] = NetOf(fills[n])
        BY <1>2, <2>1 DEF BooksBalance, n
      <3> QED
        BY <1>2, <1>3, <1>6, <2>1, <3>2, <3>3
    <2>2. CASE k # n
      <3>1. k \in 1 .. n - 1 /\ k + 1 \in 1 .. n
        BY <1>2, <2>2
      <3>2. ~flow[k + 1]
        BY <1>5, <1>7, <3>1
      <3>3. held[k + 1] - held[k] = NetOf(fills[k])
        BY <3>1, <3>2 DEF BooksBalance, n
      <3> QED
        BY <1>3, <1>6, <3>1, <3>3
    <2> QED
      BY <2>1, <2>2
  <1>8. quantity' - held'[n + 1] = NetOf(fills'[n + 1])
    BY <1>1, <1>3, <1>6, NetOfNothing
  <1>9. Len(held') = n + 1 /\ Len(held') - 1 = n
    BY <1>2, <1>3
  <1> QED
    BY <1>7, <1>8, <1>9 DEF BooksBalance

\* A trade moves the quantity by its unit.
LEMMA TradeBalances ==
    ASSUME LifecycleTypeOK, BooksBalance, NEW x \in Sides \X Zones, UnitTraded(x)
    PROVE  BooksBalance'
  <1> DEFINE n == Len(fills)
             d == IF x[1] = "BUY" THEN 1 ELSE -1
  <1>1. /\ n \in 1 .. n /\ fills[n] \in Units
        /\ fills'[n] = [fills[n] EXCEPT ![x] = @ + 1]
        /\ \A e \in 1 .. n : e # n => fills'[e] = fills[e]
        /\ quantity' = quantity + d /\ held' = held /\ flow' = flow
    BY TradeFacts
  <1>2. n = Len(held) /\ n \in Nat
    BY LifecycleLengths
  <1>3. NetOf(fills'[n]) = NetOf(fills[n]) + d /\ NetOf(fills[n]) \in Int
    BY <1>1, NetFacts
  <1>4. quantity \in Int /\ d \in Int /\ held[n] \in Int
    <2>1. held[n] \in Int
      BY <1>1, <1>2, LifecycleMembers
    <2> QED
      BY <2>1 DEF LifecycleTypeOK
  <1>5. quantity - held[n] = NetOf(fills[n])
    BY <1>1, <1>2 DEF BooksBalance
  <1> HIDE DEF d, n
  <1>6. quantity' - held'[n] = NetOf(fills'[n])
    BY <1>1, <1>3, <1>4, <1>5
  <1>7. ASSUME NEW k \in 1 .. n - 1, ~flow'[k + 1] PROVE held'[k + 1] - held'[k] = NetOf(fills'[k])
    <2>1. k \in 1 .. n /\ k # n
      BY <1>2
    <2> QED
      BY <1>1, <1>2, <1>7, <2>1 DEF BooksBalance
  <1> QED
    BY <1>1, <1>2, <1>6, <1>7 DEF BooksBalance

\* Every step of the lifecycle keeps the books.
LEMMA BooksStep ==
    ASSUME LifecycleTypeOK, BooksBalance, LifecycleNext
    PROVE  BooksBalance'
  <1>1. CASE \E deposited \in -MaxTransfers .. MaxTransfers : Snapshot(deposited)
    BY <1>1, SnapshotBalances
  <1>2. CASE \E x \in Sides \X Zones : Fill(x) \/ TradeByHand(x)
    <2>1. \E x \in Sides \X Zones : UnitTraded(x)
      BY <1>2 DEF Fill, TradeByHand
    <2> QED
      BY <2>1, TradeBalances
  <1>3. CASE UNCHANGED <<held, flow, fills, quantity>>
    BY <1>3 DEF BooksBalance
  <1>4. CASE \/ \E new \in AllPlans, evidence \in Evidence, book \in BOOLEAN : Finalize(new, evidence, book)
             \/ \E closed \in SUBSET proposed : CloseSuperseded(closed)
             \/ \E i \in DOMAIN decisions, status \in Statuses \ {"PENDING"} : Report(i, status)
             \/ Follow \/ Ignore
    <2>1. UNCHANGED <<held, flow, fills, quantity>>
      BY <1>4 DEF Finalize, CloseSuperseded, Report, Follow, Ignore, exchange
    <2> QED
      BY <1>3, <2>1
  <1> QED
    BY <1>1, <1>2, <1>4 DEF LifecycleNext

-----------------------------------------------------------------------------
(* The orders follow the plans: as long as nothing has led them astray,    *)
(* what rests of a plan and what was executed of it add up to it.          *)

PlannedBy(plan, x) == Executable(plan) /\ x[1] = SideOf(plan) /\ plan.amount[x[2]] > 0
NothingRests == \A x \in Sides \X Zones : orders[x] = 0

\* Executed since review n, in its epoch and, once the next snapshot is taken, after it.
Executed(n, x) == IF n < Len(fills) THEN fills[n][x] + fills[n + 1][x] ELSE fills[n][x]

OrderFollows(plan, n, x) ==
    IF PlannedBy(plan, x) THEN orders[x] + Executed(n, x) = plan.amount[x[2]]
    ELSE orders[x] = 0 /\ (Executable(plan) => Executed(n, x) = 0)

OrdersFollow ==
    causes = {} /\ stage # "decided" =>
        IF decisions = <<>> THEN NothingRests
        ELSE \A x \in Sides \X Zones : OrderFollows(Last(decisions).plan, Len(decisions), x)

\* Terms that are at most as large, with a sum that is at least as large, are equal.
LEMMA SumTight ==
    ASSUME NEW S, IsFiniteSet(S), NEW f, NEW g,
           \A a \in S : f[a] \in Int /\ g[a] \in Int /\ f[a] <= g[a],
           SumOver(g, S) <= SumOver(f, S)
    PROVE  \A a \in S : f[a] = g[a]
  <1> SUFFICES ASSUME NEW a \in S PROVE f[a] = g[a]
    OBVIOUS
  <1> DEFINE rest == S \ {a}
  <1>1. IsFiniteSet(rest) /\ \A b \in rest : f[b] \in Int /\ g[b] \in Int /\ f[b] <= g[b]
    BY FS_Subset
  <1>2. SumOver(f, rest) <= SumOver(g, rest) /\ SumOver(f, rest) \in Int /\ SumOver(g, rest) \in Int
    BY <1>1, SumMonotone, SumType
  <1>3. SumOver(f, S) = f[a] + SumOver(f, rest)
    BY SumRemove
  <1>4. SumOver(g, S) = g[a] + SumOver(g, rest)
    BY SumRemove
  <1> HIDE DEF rest
  <1>5. f[a] \in Int /\ g[a] \in Int /\ f[a] <= g[a]
    OBVIOUS
  <1> QED
    BY <1>2, <1>3, <1>4, <1>5

\* What the window of the newest plan holds: the epoch of its review.
LEMMA MatchedInEpoch ==
    ASSUME LifecycleTypeOK, NEW n \in 1 .. Len(fills), NEW plan \in AllPlans, NEW z \in Zones
    PROVE  Matched(plan, n, n + 1)[z] = fills[n][<<SideOf(plan), z>>]
  <1> DEFINE trades == [e \in Window(n, n + 1) |-> fills[e][SideOf(plan), z]]
  <1>1. n \in Nat
    BY LifecycleLengths
  <1>2. (n + 1) - 1 = n /\ n .. n = {n}
    BY <1>1
  <1>3. Window(n, n + 1) = {n}
    BY <1>2 DEF Window
  <1>4. fills[n] \in Units /\ SideOf(plan) \in Sides
    BY LifecycleLengths, LifecycleMembers, PlanFacts
  <1>5. fills[n][<<SideOf(plan), z>>] \in Int
    BY <1>4 DEF Units
  <1>6. DOMAIN trades = {n} /\ trades[n] = fills[n][<<SideOf(plan), z>>]
    BY <1>3
  <1>7. Matched(plan, n, n + 1)[z] = Total(trades)
    BY DEF Matched
  <1> HIDE DEF trades
  <1>8. SumOver(trades, {n}) = trades[n]
    BY <1>5, <1>6, SumOfOne
  <1> QED
    BY <1>6, <1>7, <1>8 DEF Total

\* What is known of the newest plan when the next review reads it.
LEMMA PlanAtReview ==
    ASSUME LifecycleTypeOK, OrdersFollow, causes = {}, stage = "snapped", decisions # <<>>,
           NEW n, n = Len(decisions), NEW old, old = decisions[n].plan
    PROVE  /\ n \in 1 .. n /\ Len(held) = n + 1 /\ Len(fills) = n + 1 /\ old \in AllPlans
           /\ fills[n] \in Units /\ fills[n + 1] \in Units
           /\ Executable(old) => \A z \in Zones : fills[n][<<SideOf(old), z>>] <= old.amount[z]
           /\ \A x \in Sides \X Zones : ~PlannedBy(old, x) => orders[x] = 0
           /\ Executable(old) /\ (\A z \in Zones : old.amount[z] <= fills[n][<<SideOf(old), z>>]) => NothingRests
  <1>1. n \in 1 .. n /\ Len(held) = n + 1 /\ Len(fills) = n + 1
    <2>1. n \in Nat /\ n # 0 /\ n = Len(held) - 1 /\ Len(held) \in Nat /\ Len(fills) = Len(held)
      BY LifecycleLengths
    <2> QED
      BY <2>1
  <1>2. old \in AllPlans /\ Last(decisions).plan = old
    BY NewestFacts
  <1>3. fills[n] \in Units /\ fills[n + 1] \in Units
    BY <1>1, LifecycleMembers
  <1>4. \A x \in Sides \X Zones : OrderFollows(old, n, x)
    BY <1>2 DEF OrdersFollow
  <1>5. \A x \in Sides \X Zones : Executed(n, x) = fills[n][x] + fills[n + 1][x]
    BY <1>1 DEF Executed
  <1>6. \A x \in Sides \X Zones : fills[n][x] \in Nat /\ fills[n + 1][x] \in Nat /\ orders[x] \in Nat
    BY <1>3 DEF LifecycleTypeOK, Units
  <1>7. old.amount \in [Zones -> Nat] /\ SideOf(old) \in Sides
    BY <1>2, PlanFacts
  <1>8. \A x \in Sides \X Zones : ~PlannedBy(old, x) => orders[x] = 0
    BY <1>4 DEF OrderFollows
  <1>9. ASSUME Executable(old), NEW z \in Zones
        PROVE  /\ fills[n][<<SideOf(old), z>>] <= old.amount[z]
               /\ old.amount[z] <= fills[n][<<SideOf(old), z>>] => orders[<<SideOf(old), z>>] = 0
    <2> DEFINE x == <<SideOf(old), z>>
    <2>1. x \in Sides \X Zones /\ x[1] = SideOf(old) /\ x[2] = z
      BY <1>7
    <2> HIDE DEF x
    <2>2. fills[n][x] \in Nat /\ fills[n + 1][x] \in Nat /\ orders[x] \in Nat /\ old.amount[z] \in Nat
      BY <1>6, <1>7, <2>1
    <2>3. CASE old.amount[z] > 0
      <3>1. orders[x] + Executed(n, x) = old.amount[z]
        BY <1>4, <1>9, <2>1, <2>3 DEF OrderFollows, PlannedBy
      <3>2. orders[x] + (fills[n][x] + fills[n + 1][x]) = old.amount[z]
        BY <1>5, <2>1, <3>1
      <3>3. fills[n][x] <= old.amount[z] /\ (old.amount[z] <= fills[n][x] => orders[x] = 0)
        BY <2>2, <3>2
      <3> QED
        BY <3>3 DEF x
    <2>4. CASE ~(old.amount[z] > 0)
      <3>1. orders[x] = 0 /\ Executed(n, x) = 0
        BY <1>4, <1>9, <2>1, <2>4 DEF OrderFollows, PlannedBy
      <3>2. fills[n][x] + fills[n + 1][x] = 0
        BY <1>5, <2>1, <3>1
      <3>3. fills[n][x] <= old.amount[z]
        BY <2>2, <3>2
      <3> QED
        BY <3>1, <3>3 DEF x
    <2> QED
      BY <2>3, <2>4
  <1>10. ASSUME Executable(old), \A z \in Zones : old.amount[z] <= fills[n][<<SideOf(old), z>>]
         PROVE  NothingRests
    <2>1. ASSUME NEW s \in Sides, NEW y \in Zones PROVE orders[<<s, y>>] = 0
      <3>1. CASE s = SideOf(old)
        BY <1>9, <1>10, <3>1
      <3>2. CASE s # SideOf(old)
        <4>1. ~PlannedBy(old, <<s, y>>)
          BY <3>2 DEF PlannedBy
        <4> QED
          BY <1>8, <4>1
      <3> QED
        BY <3>1, <3>2
    <2> QED
      BY <2>1 DEF NothingRests
  <1> QED
    BY <1>1, <1>2, <1>3, <1>8, <1>9, <1>10

\* Read from trades or from the quantity, a plan of which nothing rests has no
\* order on the book: what was executed is all of it, zone by zone.
LEMMA NothingRestsOfPlan ==
    ASSUME LifecycleTypeOK, BooksBalance, OrdersFollow, causes = {}, stage = "snapped", decisions # <<>>,
           NEW n, n = Len(decisions), NEW old, old = decisions[n].plan, Executable(old),
           NEW evidence, NEW status, ~Rests(evidence, old, status, n, n + 1)
    PROVE  NothingRests
  <1> DEFINE side == SideOf(old)
             done == InZones(fills[n], side)
  <1>1. /\ n \in 1 .. n /\ Len(held) = n + 1 /\ Len(fills) = n + 1 /\ old \in AllPlans
        /\ fills[n] \in Units
        /\ \A z \in Zones : fills[n][<<SideOf(old), z>>] <= old.amount[z]
        /\ (\A z \in Zones : old.amount[z] <= fills[n][<<SideOf(old), z>>]) => NothingRests
    BY PlanAtReview
  <1>2. old.amount \in [Zones -> Nat] /\ side \in Sides
    BY <1>1, PlanFacts
  <1>3. \A z \in Zones : done[z] \in Nat /\ done[z] = fills[n][<<side, z>>]
    BY <1>1, <1>2, BookType
  <1>4. CASE evidence = "records"
    <2>1. \A z \in Zones : ~(Matched(old, n, n + 1)[z] < old.amount[z])
      BY <1>4 DEF Rests
    <2>2. n \in 1 .. Len(fills)
      BY <1>1
    <2>3. ASSUME NEW z \in Zones PROVE old.amount[z] <= done[z]
      <3>1. Matched(old, n, n + 1)[z] = done[z]
        BY <1>1, <1>3, <2>2, MatchedInEpoch
      <3>2. done[z] \in Nat /\ old.amount[z] \in Nat
        BY <1>2, <1>3
      <3> HIDE DEF done
      <3> QED
        BY <2>1, <3>1, <3>2
    <2> QED
      BY <1>1, <1>3, <2>3 DEF side
  <1>5. CASE evidence # "records"
    <2>1. Attribution(evidence, old, status, n, n + 1) = "EXCHANGE_QUANTITY_DELTA"
      BY <1>5 DEF Rests
    <2>2. ~(Delta(old, n, n + 1) < Total(old.amount))
      BY <1>5, <2>1 DEF Rests
    <2>3. ~FlowBetween(n, n + 1)
      BY <1>5, <2>1 DEF Attribution
    <2>4. ~flow[n + 1]
      <3>1. n + 1 \in n + 1 .. n + 1
        BY <1>1
      <3> QED
        BY <2>3, <3>1 DEF FlowBetween
    <2>5. held[n + 1] - held[n] = NetOf(fills[n])
      BY <1>1, <2>4 DEF BooksBalance
    <2>6. held[n + 1] \in Int /\ held[n] \in Int
      BY <1>1, LifecycleMembers
    <2>7. BookOf(fills[n], "BUY") \in Nat /\ BookOf(fills[n], "SELL") \in Nat
      BY <1>1, BookType DEF Sides
    <2>8. Total(old.amount) = SumOver(old.amount, Zones) /\ SumOver(old.amount, Zones) \in Int
      <3>1. DOMAIN old.amount = Zones /\ \A z \in Zones : old.amount[z] \in Int
        BY <1>2
      <3> QED
        BY <3>1, LifecycleConstants, SumType DEF Total
    <2>9. Delta(old, n, n + 1) <= BookOf(fills[n], side)
      <3>1. CASE old.action = "INCREASE"
        <4>1. Delta(old, n, n + 1) = NetOf(fills[n]) /\ side = "BUY"
          BY <2>5, <3>1 DEF Delta, SideOf
        <4> HIDE DEF side
        <4> QED
          BY <2>7, <4>1 DEF NetOf
      <3>2. CASE old.action # "INCREASE"
        <4>1. Delta(old, n, n + 1) = held[n] - held[n + 1] /\ side = "SELL"
          BY <3>2 DEF Delta, SideOf
        <4> HIDE DEF side
        <4> QED
          BY <2>5, <2>6, <2>7, <4>1 DEF NetOf
      <3> QED
        BY <3>1, <3>2
    <2>10. Delta(old, n, n + 1) \in Int
      BY <2>6 DEF Delta
    <2>11. SumOver(old.amount, Zones) <= SumOver(done, Zones)
      <3>1. BookOf(fills[n], side) \in Nat /\ BookOf(fills[n], side) = SumOver(done, Zones)
        BY <1>1, <1>2, BookType DEF BookOf
      <3> HIDE DEF done, side
      <3> QED
        BY <2>2, <2>8, <2>9, <2>10, <3>1
    <2>12. ASSUME NEW z \in Zones
           PROVE  done[z] \in Int /\ old.amount[z] \in Int /\ done[z] <= old.amount[z]
      <3>1. done[z] \in Nat /\ old.amount[z] \in Nat
        BY <1>2, <1>3
      <3>2. done[z] <= old.amount[z]
        BY <1>1, <1>3
      <3> HIDE DEF done
      <3> QED
        BY <3>1, <3>2
    <2> HIDE DEF done
    <2>13. \A z \in Zones : done[z] = old.amount[z]
      BY <2>11, <2>12, LifecycleConstants, SumTight
    <2>14. \A z \in Zones : old.amount[z] <= done[z]
      BY <2>12, <2>13
    <2> QED
      BY <1>1, <1>3, <2>14 DEF side
  <1> QED
    BY <1>4, <1>5

\* What the report says fits the orders: they are of the plan it is about;
\* there are none if it says so, or has no plan to speak of; and orders it
\* wants kept are of the new plan too, unless the book was read and the rest
\* of them is named as stale.
AdviceFits ==
    causes = {} /\ stage = "decided" =>
        /\ Executable(Last(decisions).plan) => \A x \in Sides \X Zones : fills[Len(fills)][x] = 0
        /\ \A x \in Sides \X Zones : orders[x] > 0 => PlannedBy(advice.old, x)
        /\ advice.instruction \in {"NOTHING_RESTING", None} => NothingRests
        /\ advice.instruction = "KEEP_EQUIVALENT_ORDERS" =>
              /\ Executable(Last(decisions).plan)
              /\ advice.book \/ \A x \in Sides \X Zones :
                    PlannedBy(advice.old, x) => PlannedBy(Last(decisions).plan, x)

\* When the report says that nothing rests, and when it keeps orders.
LEMMA InstructionFacts ==
    ASSUME NEW rests \in BOOLEAN, NEW book \in BOOLEAN, NEW old \in AllPlans, NEW status, NEW new \in AllPlans
    PROVE  /\ Instruction(rests, book, old, status, new) = "NOTHING_RESTING" => ~rests
           /\ Instruction(rests, book, old, status, new) = "KEEP_EQUIVALENT_ORDERS" =>
                /\ Executable(new)
                /\ book \/ \A x \in Sides \X Zones : PlannedBy(old, x) => PlannedBy(new, x)
  <1> DEFINE given == Instruction(rests, book, old, status, new)
  <1>1. CASE ~rests
    <2>1. given = "NOTHING_RESTING"
      BY <1>1 DEF Instruction
    <2> QED
      BY <1>1, <2>1
  <1>2. CASE rests /\ book /\ Executable(new) /\ Covered(new)
    <2>1. given = "KEEP_EQUIVALENT_ORDERS"
      BY <1>2 DEF Instruction
    <2> QED
      BY <1>2, <2>1
  <1>3. CASE rests /\ ~(book /\ Executable(new) /\ Covered(new))
    <2>1. given = IF status = "NOT_EXECUTED" \/ ~Executable(new) THEN "CANCEL_RESTING"
                  ELSE IF new.action # old.action \/ ~ZonesMatch(old, new) THEN "REPLACE_WITH_NEW_PLAN"
                  ELSE "KEEP_EQUIVALENT_ORDERS"
      BY <1>3 DEF Instruction
    <2>2. given # "NOTHING_RESTING"
      BY <2>1
    <2>3. given = "KEEP_EQUIVALENT_ORDERS" => Executable(new) /\ new.action = old.action /\ ZonesMatch(old, new)
      BY <2>1
    <2>4. ASSUME Executable(new), new.action = old.action, ZonesMatch(old, new),
                 NEW x \in Sides \X Zones, PlannedBy(old, x)
          PROVE  PlannedBy(new, x)
      <3>1. x[2] \in Zones /\ SideOf(new) = SideOf(old)
        BY <2>4 DEF SideOf
      <3> QED
        BY <2>4, <3>1 DEF PlannedBy, ZonesMatch
    <2> QED
      BY <2>2, <2>3, <2>4
  <1> QED
    BY <1>1, <1>2, <1>3

\* The disposition of a review with a prior plan is the instruction about it.
LEMMA DispositionFacts ==
    ASSUME LifecycleTypeOK, NEW evidence, NEW book \in BOOLEAN, NEW new,
           NEW prior, prior = PriorOf(decisions), NEW said, said = Disposition(evidence, book, new)
    PROVE  /\ prior = None => said = NoAdvice
           /\ prior # None =>
                /\ prior \in 1 .. Len(decisions) /\ said.old = decisions[prior].plan /\ said.book = book
                /\ said.instruction = Instruction(Rests(evidence, said.old, decisions[prior].status, prior, Len(held)),
                                                  book, said.old, decisions[prior].status, new)
  <1>1. CASE prior = None
    BY <1>1 DEF Disposition
  <1>2. CASE prior # None
    <2>1. prior \in 1 .. Len(decisions)
      BY <1>2, PriorFacts
    <2>2. said = [instruction |-> Instruction(Rests(evidence, decisions[prior].plan, decisions[prior].status, prior, Len(held)),
                                              book, decisions[prior].plan, decisions[prior].status, new),
                  book |-> book, old |-> decisions[prior].plan]
      BY <1>2 DEF Disposition
    <2> QED
      BY <1>2, <2>1, <2>2
  <1> QED
    BY <1>1, <1>2

\* Whether something rests is a truth value.
LEMMA RestsType ==
    ASSUME NEW evidence, NEW plan, NEW status, NEW prior, NEW current
    PROVE  Rests(evidence, plan, status, prior, current) \in BOOLEAN
  BY DEF Rests

\* A review that says NOTHING_RESTING, or finds no earlier plan, is right: what
\* it was read from, trades or quantities, leaves no order on the book.
LEMMA SaidNothingRests ==
    ASSUME LifecycleTypeOK, BooksBalance, OrdersFollow, causes = {}, stage = "snapped",
           NEW evidence, NEW book \in BOOLEAN, NEW new \in AllPlans,
           NEW said, said = Disposition(evidence, book, new),
           said.instruction \in {"NOTHING_RESTING", None}
    PROVE  NothingRests
  <1>1. CASE decisions = <<>>
    BY <1>1 DEF OrdersFollow
  <1>2. CASE decisions # <<>>
    <2> DEFINE n == Len(decisions)
               old == decisions[n].plan
    <2>1. /\ n \in 1 .. n /\ Len(held) = n + 1 /\ old \in AllPlans
          /\ \A x \in Sides \X Zones : ~PlannedBy(old, x) => orders[x] = 0
      BY <1>2, PlanAtReview
    <2>2. CASE ~Executable(old)
      BY <2>1, <2>2 DEF PlannedBy, NothingRests
    <2>3. CASE Executable(old)
      <3>1. PriorOf(decisions) = n
        BY <1>2, <2>3, PriorFacts
      <3>2. n # None
        BY <2>1, LifecycleConstants
      <3>3. /\ said.old = old
            /\ said.instruction = Instruction(Rests(evidence, said.old, decisions[n].status, n, Len(held)),
                                              book, said.old, decisions[n].status, new)
        BY <3>1, <3>2, DispositionFacts
      <3> DEFINE rests == Rests(evidence, old, decisions[n].status, n, n + 1)
      <3>4. said.instruction = Instruction(rests, book, old, decisions[n].status, new) /\ rests \in BOOLEAN
        BY <2>1, <3>3, RestsType
      <3>5. said.instruction \in Instructions /\ said.instruction # None
        BY <3>4, InstructionType, LifecycleConstants
      <3> HIDE DEF rests, old
      <3>6. ~rests
        BY <2>1, <3>4, <3>5, InstructionFacts
      <3> QED
        BY <1>2, <2>3, <3>6, NothingRestsOfPlan DEF rests, old
    <2> QED
      BY <2>2, <2>3
  <1> QED
    BY <1>1, <1>2

\* Every order on the book is of the plan the report is about, and what it
\* wants kept fits the new one.
LEMMA SaidFits ==
    ASSUME LifecycleTypeOK, OrdersFollow, causes = {}, stage = "snapped",
           NEW evidence, NEW book \in BOOLEAN, NEW new \in AllPlans,
           NEW said, said = Disposition(evidence, book, new)
    PROVE  /\ \A x \in Sides \X Zones : orders[x] > 0 => PlannedBy(said.old, x)
           /\ said.instruction = "KEEP_EQUIVALENT_ORDERS" =>
                 /\ Executable(new)
                 /\ said.book \/ \A x \in Sides \X Zones : PlannedBy(said.old, x) => PlannedBy(new, x)
  <1> DEFINE prior == PriorOf(decisions)
  <1>1. ASSUME NEW x \in Sides \X Zones, orders[x] > 0
        PROVE  PlannedBy(said.old, x)
    <2> DEFINE n == Len(decisions)
               old == decisions[n].plan
    <2>1. decisions # <<>>
      BY <1>1 DEF OrdersFollow, NothingRests
    <2>2. n \in 1 .. n /\ (~PlannedBy(old, x) => orders[x] = 0)
      BY <2>1, PlanAtReview
    <2>3. PlannedBy(old, x)
      BY <1>1, <2>2
    <2>4. prior = n /\ n # None
      BY <2>1, <2>2, <2>3, PriorFacts, LifecycleConstants DEF PlannedBy
    <2>5. said.old = old
      BY <2>4, DispositionFacts
    <2> QED
      BY <2>3, <2>5
  <1>2. ASSUME said.instruction = "KEEP_EQUIVALENT_ORDERS"
        PROVE  /\ Executable(new)
               /\ said.book \/ \A x \in Sides \X Zones : PlannedBy(said.old, x) => PlannedBy(new, x)
    <2>1. prior # None
      <3>1. "KEEP_EQUIVALENT_ORDERS" \in Instructions
        BY DEF Instructions
      <3>2. said.instruction # None
        BY <1>2, <3>1, LifecycleConstants
      <3>3. NoAdvice.instruction = None
        BY DEF NoAdvice
      <3> QED
        BY <3>2, <3>3, DispositionFacts
    <2> DEFINE rests == Rests(evidence, said.old, decisions[prior].status, prior, Len(held))
    <2>2. /\ prior \in 1 .. Len(decisions) /\ said.old = decisions[prior].plan /\ said.book = book
          /\ said.instruction = Instruction(rests, book, said.old, decisions[prior].status, new)
      BY <2>1, DispositionFacts
    <2>3. said.old \in AllPlans
      BY <2>2, LifecycleMembers
    <2>4. rests \in BOOLEAN
      BY RestsType
    <2> HIDE DEF rests, prior
    <2> QED
      BY <1>2, <2>2, <2>3, <2>4, InstructionFacts
  <1> QED
    BY <1>1, <1>2

\* What happens to the causes: a step only adds to them.
LEMMA CausesGrow ==
    ASSUME LifecycleNext
    PROVE  causes \subseteq causes'
  BY DEF LifecycleNext, Snapshot, Finalize, CloseSuperseded, Report, Follow, Ignore, Fill, TradeByHand, Because

\* The snapshot opens a second epoch for the newest plan, without trades yet.
LEMMA SnapshotFollows ==
    ASSUME LifecycleTypeOK, OrdersFollow, NEW deposited, deposited \in -MaxTransfers .. MaxTransfers, Snapshot(deposited)
    PROVE  OrdersFollow'
  <1> SUFFICES ASSUME causes' = {}, decisions # <<>>, NEW x \in Sides \X Zones
               PROVE  OrderFollows(Last(decisions).plan, Len(decisions), x)'
    <2>1. causes' = causes /\ decisions' = decisions /\ orders' = orders /\ stage = "open"
      BY DEF Snapshot
    <2>2. decisions = <<>> /\ causes = {} => NothingRests'
      BY <2>1 DEF OrdersFollow, NothingRests
    <2> QED
      BY <2>1, <2>2 DEF OrdersFollow
  <1> DEFINE n == Len(decisions)
  <1>1. causes = {} /\ stage = "open" /\ decisions' = decisions /\ orders' = orders
    BY DEF Snapshot
  <1>2. OrderFollows(Last(decisions).plan, n, x)
    BY <1>1 DEF OrdersFollow
  <1>3. n \in 1 .. n /\ Len(fills) = n /\ n \in Nat
    <2>1. n \in Nat /\ n # 0 /\ Len(fills) = n
      BY <1>1, LifecycleLengths
    <2> QED
      BY <2>1
  <1>4. fills \in Seq(Units) /\ fills' = Append(fills, NoTrades)
    BY DEF LifecycleTypeOK, Snapshot
  <1>5. Len(fills') = n + 1 /\ fills'[n + 1] = NoTrades /\ fills'[n] = fills[n]
    BY <1>3, <1>4, LifecycleConstants, AppendProperties
  <1>6. fills[n][x] \in Nat /\ NoTrades[x] = 0
    <2>1. fills[n] \in Units
      BY <1>3, <1>4, ElementOfSeq
    <2> QED
      BY <2>1 DEF Units, NoTrades
  <1>7. Executed(n, x) = fills[n][x]
    BY <1>3 DEF Executed
  <1>8. Executed(n, x)' = fills[n][x]
    BY <1>1, <1>3, <1>5, <1>6 DEF Executed
  <1> QED
    BY <1>1, <1>2, <1>7, <1>8 DEF OrderFollows

\* finalize_review hands the orders over to the advice.
LEMMA FinalizeFits ==
    ASSUME LifecycleTypeOK, BooksBalance, OrdersFollow,
           NEW new \in AllPlans, NEW evidence, NEW book \in BOOLEAN, Finalize(new, evidence, book)
    PROVE  AdviceFits'
  <1> SUFFICES ASSUME causes' = {} PROVE AdviceFits'
    BY DEF AdviceFits
  <1>1. /\ stage = "snapped" /\ advice' = Disposition(evidence, book, new)
        /\ fills' = fills /\ orders' = orders
    BY DEF Finalize, exchange
  <1>2. causes = {} /\ ~(Executable(new) /\ Traded(Last(fills)))
    BY DEF Finalize, Because
  <1>3. Last(decisions').plan = new
    <2>1. [plan |-> new, status |-> "PENDING"] \in [plan : AllPlans, status : Statuses]
      BY DEF Statuses
    <2>2. decisions' = Append(decisions, [plan |-> new, status |-> "PENDING"])
      BY DEF Finalize
    <2>3. decisions'[Len(decisions')] = [plan |-> new, status |-> "PENDING"]
      BY <2>1, <2>2, AppendProperties DEF LifecycleTypeOK
    <2> QED
      BY <2>3 DEF Last
  <1>4. Executable(new) => \A x \in Sides \X Zones : fills[Len(fills)][x] = 0
    <2>1. fills[Len(fills)] \in Units
      <3>1. Len(fills) \in 1 .. Len(fills)
        <4>1. Len(fills) \in Nat /\ Len(fills) > 0
          BY <1>1, LifecycleLengths
        <4> QED
          BY <4>1
      <3> QED
        BY <3>1, ElementOfSeq DEF LifecycleTypeOK
    <2>2. Executable(new) => \A x \in Sides \X Zones : ~(fills[Len(fills)][x] > 0)
      BY <1>2 DEF Traded, Last
    <2>3. \A x \in Sides \X Zones : fills[Len(fills)][x] \in Nat
      BY <2>1 DEF Units
    <2> QED
      BY <2>2, <2>3
  <1>5. /\ \A x \in Sides \X Zones : orders[x] > 0 => PlannedBy(advice'.old, x)
        /\ advice'.instruction = "KEEP_EQUIVALENT_ORDERS" =>
              /\ Executable(new)
              /\ advice'.book \/ \A x \in Sides \X Zones : PlannedBy(advice'.old, x) => PlannedBy(new, x)
    BY <1>1, <1>2, SaidFits
  <1>6. advice'.instruction \in {"NOTHING_RESTING", None} => NothingRests
    BY <1>1, <1>2, SaidNothingRests
  <1>7. NothingRests => NothingRests'
    BY <1>1 DEF NothingRests
  <1> QED
    BY <1>1, <1>3, <1>4, <1>5, <1>6, <1>7 DEF AdviceFits

\* Status events change no plan, and so neither formula.
LEMMA StatusFollows ==
    ASSUME LifecycleTypeOK, OrdersFollow, AdviceFits,
           \/ \E closed \in SUBSET proposed : CloseSuperseded(closed)
           \/ \E i \in DOMAIN decisions, status \in Statuses \ {"PENDING"} : Report(i, status)
    PROVE  OrdersFollow' /\ AdviceFits'
  <1>1. UNCHANGED <<stage, fills, orders, advice, causes>>
    BY DEF CloseSuperseded, Report, exchange
  <1>2. /\ decisions' \in Seq([plan : AllPlans, status : Statuses]) /\ Len(decisions') = Len(decisions)
        /\ \A i \in 1 .. Len(decisions) : decisions'[i].plan = decisions[i].plan
    BY CloseFacts, ReportFacts
  <1>3. decisions' = <<>> <=> decisions = <<>>
    BY <1>2, EmptySeq DEF LifecycleTypeOK
  <1>4. decisions # <<>> => Last(decisions').plan = Last(decisions).plan
    <2>1. decisions # <<>> => Len(decisions) \in 1 .. Len(decisions)
      BY NewestFacts
    <2> QED
      BY <1>2, <2>1 DEF Last
  <1>5. stage = "decided" => decisions # <<>>
    BY LifecycleLengths
  <1>6. \A n, x : Executed(n, x)' = Executed(n, x)
    BY <1>1 DEF Executed
  <1>7. \A plan, n, x : OrderFollows(plan, n, x)' <=> OrderFollows(plan, n, x)
    BY <1>1, <1>6 DEF OrderFollows
  <1>8. NothingRests' <=> NothingRests
    BY <1>1 DEF NothingRests
  <1>9. OrdersFollow'
    BY <1>1, <1>2, <1>3, <1>4, <1>7, <1>8 DEF OrdersFollow
  <1>10. AdviceFits'
    BY <1>1, <1>4, <1>5, <1>8 DEF AdviceFits
  <1> QED
    BY <1>9, <1>10

\* What is kept of the orders is of the new plan.
LEMMA KeptFits ==
    ASSUME LifecycleTypeOK, AdviceFits, causes = {}, stage = "decided",
           NEW x \in Sides \X Zones, ~PlannedBy(Last(decisions).plan, x)
    PROVE  KeptOrders[x] = 0
  <1> DEFINE new == Last(decisions).plan
             old == advice.old
  <1>1. orders \in Units /\ orders[x] \in Nat
    BY DEF LifecycleTypeOK, Units
  <1>2. advice.instruction \in Instructions \cup {None}
    BY DEF LifecycleTypeOK
  <1>3. orders[x] > 0 => PlannedBy(old, x)
    BY DEF AdviceFits
  <1>4. CASE advice.instruction \in {"NOTHING_RESTING", None}
    <2>1. NothingRests
      BY <1>4 DEF AdviceFits
    <2>2. advice.instruction \notin {"CANCEL_RESTING", "REPLACE_WITH_NEW_PLAN", "KEEP_EQUIVALENT_ORDERS"}
      BY <1>4, LifecycleConstants DEF Instructions
    <2>3. KeptOrders = orders
      BY <2>2 DEF KeptOrders
    <2> QED
      BY <2>1, <2>3 DEF NothingRests
  <1>5. CASE advice.instruction \in {"CANCEL_RESTING", "REPLACE_WITH_NEW_PLAN"}
    <2>1. KeptOrders = Without(orders, old)
      BY <1>5 DEF KeptOrders
    <2>2. Without(orders, old)[x] = IF x[1] = SideOf(old) /\ old.amount[x[2]] > 0 THEN 0 ELSE orders[x]
      BY DEF Without
    <2>3. orders[x] > 0 => x[1] = SideOf(old) /\ old.amount[x[2]] > 0
      BY <1>3 DEF PlannedBy
    <2> QED
      BY <1>1, <2>1, <2>2, <2>3
  <1>6. CASE advice.instruction = "KEEP_EQUIVALENT_ORDERS" /\ advice.book
    <2>1. Executable(new)
      BY <1>6 DEF AdviceFits
    <2>2. advice.instruction \notin {"CANCEL_RESTING", "REPLACE_WITH_NEW_PLAN"}
      BY <1>6
    <2>3. KeptOrders = WithoutStale(orders, new)
      BY <1>6, <2>2 DEF KeptOrders
    <2>4. ~(x[1] = SideOf(new) /\ new.amount[x[2]] > 0)
      BY <2>1 DEF PlannedBy
    <2> QED
      BY <2>3, <2>4 DEF WithoutStale
  <1>7. CASE advice.instruction = "KEEP_EQUIVALENT_ORDERS" /\ ~advice.book
    <2>1. PlannedBy(old, x) => PlannedBy(new, x)
      BY <1>7 DEF AdviceFits
    <2>2. advice.instruction \notin {"CANCEL_RESTING", "REPLACE_WITH_NEW_PLAN"}
      BY <1>7
    <2>3. KeptOrders = orders
      BY <1>7, <2>2 DEF KeptOrders
    <2> QED
      BY <1>1, <1>3, <2>1, <2>3
  <1> QED
    BY <1>2, <1>4, <1>5, <1>6, <1>7 DEF Instructions

\* Whoever follows the report has the orders of the new plan on the book, whole.
LEMMA FollowFollows ==
    ASSUME LifecycleTypeOK, AdviceFits, Follow
    PROVE  OrdersFollow'
  <1> SUFFICES ASSUME causes' = {} PROVE OrdersFollow'
    BY DEF OrdersFollow
  <1> DEFINE new == Last(decisions).plan
             n == Len(decisions)
  <1>1. /\ decisions # <<>> /\ stage = "decided" /\ new \in AllPlans /\ KeptOrders \in Units
        /\ orders' = With(KeptOrders, new) /\ fills' = fills /\ decisions' = decisions
    BY FollowFacts
  <1>2. causes = {} /\ ~\E x \in Sides \X Zones :
            /\ Executable(new) /\ x[1] = SideOf(new) /\ new.amount[x[2]] > 0
            /\ KeptOrders[x] > new.amount[x[2]]
    BY DEF Follow, Because, KeptOrders
  <1>3. n = Len(fills)
    BY <1>1, LifecycleLengths
  <1>4. Executable(new) => \A x \in Sides \X Zones : fills[n][x] = 0
    BY <1>1, <1>2, <1>3 DEF AdviceFits
  <1>5. n \in Nat
    BY LifecycleLengths
  <1>6. \A x : Executed(n, x)' = fills[n][x]
    BY <1>1, <1>3, <1>5 DEF Executed
  <1>7. new.amount \in [Zones -> Nat]
    BY <1>1, PlanFacts
  <1>8. ASSUME NEW x \in Sides \X Zones
        PROVE  OrderFollows(new, n, x)'
    <2>1. KeptOrders[x] \in Nat /\ new.amount[x[2]] \in Nat
      BY <1>1, <1>7 DEF Units
    <2>2. orders'[x] = IF Executable(new) /\ x[1] = SideOf(new) /\ new.amount[x[2]] > KeptOrders[x]
                       THEN new.amount[x[2]] ELSE KeptOrders[x]
      BY <1>1 DEF With
    <2>3. CASE PlannedBy(new, x)
      <3>1. ~(KeptOrders[x] > new.amount[x[2]]) /\ Executable(new) /\ x[1] = SideOf(new)
        BY <1>2, <2>3 DEF PlannedBy
      <3>2. orders'[x] = new.amount[x[2]]
        BY <2>1, <2>2, <3>1
      <3>3. Executed(n, x)' = 0
        BY <1>4, <1>6, <3>1
      <3>4. orders'[x] + Executed(n, x)' = new.amount[x[2]]
        BY <2>1, <3>2, <3>3
      <3> QED
        BY <1>1, <2>3, <3>4 DEF OrderFollows, PlannedBy
    <2>4. CASE ~PlannedBy(new, x)
      <3>1. KeptOrders[x] = 0
        BY <1>1, <1>2, <2>4, KeptFits
      <3>2. orders'[x] = 0
        <4>1. ~(Executable(new) /\ x[1] = SideOf(new) /\ new.amount[x[2]] > 0)
          BY <2>4 DEF PlannedBy
        <4> QED
          BY <2>2, <3>1, <4>1
      <3>3. Executable(new) => Executed(n, x)' = 0
        BY <1>4, <1>6
      <3> QED
        BY <1>1, <2>4, <3>2, <3>3 DEF OrderFollows, PlannedBy
    <2> QED
      BY <2>3, <2>4
  <1>9. decisions' # <<>>
    BY <1>1
  <1> QED
    BY <1>8, <1>9 DEF OrdersFollow

\* An execution moves one unit from the book to the trades of its epoch.
LEMMA FillFollows ==
    ASSUME LifecycleTypeOK, OrdersFollow, AdviceFits, NEW x \in Sides \X Zones, Fill(x), causes' = {}
    PROVE  OrdersFollow' /\ AdviceFits'
  <1> DEFINE m == Len(fills)
             n == Len(decisions)
             plan == Last(decisions).plan
  <1>1. UnitTraded(x) /\ orders[x] > 0 /\ orders' = [orders EXCEPT ![x] = @ - 1]
    BY DEF Fill
  <1>2. causes = {} /\ ~(stage = "decided" /\ Executable(plan))
    BY DEF Fill, Because
  <1>3. /\ m \in 1 .. m /\ fills[m] \in Units
        /\ Len(fills') = m /\ fills'[m] = [fills[m] EXCEPT ![x] = @ + 1]
        /\ \A e \in 1 .. m : e # m => fills'[e] = fills[e]
        /\ UNCHANGED <<stage, decisions, advice>>
    BY <1>1, TradeFacts
  <1>4. \A y \in Sides \X Zones : orders[y] \in Nat /\ fills[m][y] \in Nat
    BY <1>3 DEF LifecycleTypeOK, Units
  <1>5. \A y \in Sides \X Zones : orders'[y] = IF y = x THEN orders[y] - 1 ELSE orders[y]
    BY <1>1 DEF LifecycleTypeOK, Units
  <1>6. \A y \in Sides \X Zones : fills'[m][y] = IF y = x THEN fills[m][y] + 1 ELSE fills[m][y]
    BY <1>3 DEF Units
  <1>7. ASSUME stage # "decided" PROVE OrdersFollow'
    <2>1. decisions # <<>>
      BY <1>1, <1>2, <1>7 DEF OrdersFollow, NothingRests
    <2>2. n \in Nat /\ n # 0 /\ (n = m \/ n = m - 1) /\ m \in Nat
      BY <2>1, LifecycleLengths
    <2>3. \A y \in Sides \X Zones : OrderFollows(plan, n, y)
      BY <1>2, <1>7, <2>1 DEF OrdersFollow
    <2>4. fills[n] \in Units
      <3>1. n \in 1 .. Len(held)
        <4>1. m = Len(held)
          BY LifecycleLengths
        <4> HIDE DEF m, n
        <4> QED
          BY <2>2, <4>1
      <3> QED
        BY <3>1, LifecycleMembers
    <2>5. ASSUME NEW y \in Sides \X Zones
          PROVE  Executed(n, y)' = IF y = x THEN Executed(n, y) + 1 ELSE Executed(n, y)
      <3>1. fills[n][y] \in Nat /\ fills[m][y] \in Nat
        BY <1>4, <2>4 DEF Units
      <3>2. CASE n = m
        <4>1. ~(n < m) /\ fills[n] = fills[m] /\ fills'[n] = fills'[m]
          BY <2>2, <3>2
        <4>2. Executed(n, y) = fills[m][y]
          BY <4>1 DEF Executed
        <4>3. Executed(n, y)' = fills'[m][y]
          BY <1>3, <4>1 DEF Executed
        <4> HIDE DEF m, n
        <4> QED
          BY <1>6, <4>2, <4>3
      <3>3. CASE n = m - 1
        <4>1. n < m /\ n + 1 = m /\ n \in 1 .. m /\ n # m
          BY <2>2, <3>3
        <4>2. Executed(n, y) = fills[n][y] + fills[m][y]
          BY <4>1 DEF Executed
        <4>3. Executed(n, y)' = fills[n][y] + fills'[m][y]
          BY <1>3, <4>1 DEF Executed
        <4> HIDE DEF m, n
        <4> QED
          BY <1>6, <3>1, <4>2, <4>3
      <3> QED
        BY <2>2, <3>2, <3>3
    <2>6. ASSUME NEW y \in Sides \X Zones
          PROVE  Executed(n, y) \in Nat
      <3>1. fills[n][y] \in Nat /\ fills[m][y] \in Nat
        BY <1>4, <2>4 DEF Units
      <3>2. n < m => n + 1 = m
        BY <2>2
      <3> QED
        BY <3>1, <3>2 DEF Executed
    <2>7. PlannedBy(plan, x)
      BY <1>1, <2>3 DEF OrderFollows
    <2>8. ASSUME NEW y \in Sides \X Zones
          PROVE  OrderFollows(plan, n, y)'
      <3>1. Last(decisions').plan = plan /\ Len(decisions') = n
        BY <1>3
      <3>2. CASE y = x
        <4>1. orders[x] + Executed(n, x) = plan.amount[x[2]]
          BY <2>3, <2>7 DEF OrderFollows
        <4>2. orders'[x] = orders[x] - 1 /\ Executed(n, x)' = Executed(n, x) + 1
          BY <1>5, <2>5
        <4>3. orders[x] \in Nat /\ Executed(n, x) \in Nat
          BY <1>4, <2>6
        <4> HIDE DEF n, plan
        <4>4. orders'[x] + Executed(n, x)' = plan.amount[x[2]]
          BY <4>1, <4>2, <4>3
        <4> QED
          BY <2>7, <3>1, <3>2, <4>4 DEF OrderFollows, PlannedBy, n, plan
      <3>3. CASE y # x
        <4>1. orders'[y] = orders[y] /\ Executed(n, y)' = Executed(n, y)
          BY <1>5, <2>5, <3>3
        <4> QED
          BY <2>3, <3>1, <4>1 DEF OrderFollows, PlannedBy
      <3> QED
        BY <3>2, <3>3
    <2>9. decisions' # <<>>
      BY <1>3, <2>1
    <2> QED
      BY <2>8, <2>9 DEF OrdersFollow
  <1>8. stage = "decided" => OrdersFollow'
    BY <1>3 DEF OrdersFollow
  <1>9. AdviceFits'
    <2>1. \A y \in Sides \X Zones : orders'[y] > 0 => orders[y] > 0
      BY <1>4, <1>5
    <2>2. ~NothingRests
      BY <1>1 DEF NothingRests
    <2> HIDE DEF m, n
    <2>3. Last(decisions').plan = plan
      BY <1>3
    <2> QED
      BY <1>2, <1>3, <2>1, <2>2, <2>3 DEF AdviceFits
  <1> QED
    BY <1>7, <1>8, <1>9

\* Every step keeps the two: from the decision to the user's action the advice
\* fits the orders, the rest of the time the orders follow the plan.
LEMMA FollowStep ==
    ASSUME LifecycleTypeOK, BooksBalance, OrdersFollow, AdviceFits, LifecycleNext
    PROVE  OrdersFollow' /\ AdviceFits'
  <1>1. CASE \E deposited \in -MaxTransfers .. MaxTransfers : Snapshot(deposited)
    <2>1. OrdersFollow'
      BY <1>1, SnapshotFollows
    <2>2. stage' = "snapped"
      BY <1>1 DEF Snapshot
    <2> QED
      BY <2>1, <2>2 DEF AdviceFits
  <1>2. CASE \E new \in AllPlans, evidence \in Evidence, book \in BOOLEAN : Finalize(new, evidence, book)
    <2>1. AdviceFits'
      BY <1>2, FinalizeFits
    <2>2. stage' = "decided"
      BY <1>2 DEF Finalize
    <2> QED
      BY <2>1, <2>2 DEF OrdersFollow
  <1>3. CASE \/ \E closed \in SUBSET proposed : CloseSuperseded(closed)
             \/ \E i \in DOMAIN decisions, status \in Statuses \ {"PENDING"} : Report(i, status)
    BY <1>3, StatusFollows
  <1>4. CASE Follow
    <2>1. OrdersFollow'
      BY <1>4, FollowFollows
    <2>2. stage' = "open"
      BY <1>4 DEF Follow
    <2> QED
      BY <2>1, <2>2 DEF AdviceFits
  <1>5. CASE Ignore \/ \E x \in Sides \X Zones : TradeByHand(x)
    <2>1. causes' # {}
      BY <1>5 DEF Ignore, TradeByHand, Because
    <2> QED
      BY <2>1 DEF OrdersFollow, AdviceFits
  <1>6. CASE \E x \in Sides \X Zones : Fill(x)
    <2>1. causes' # {} => OrdersFollow' /\ AdviceFits'
      BY DEF OrdersFollow, AdviceFits
    <2> QED
      BY <1>6, <2>1, FillFollows
  <1> QED
    BY <1>1, <1>2, <1>3, <1>4, <1>5, <1>6 DEF LifecycleNext

\* What the newest review has not proposed to close, and would have to, is not open.
PendingAreProposed ==
    decisions # <<>> /\ stage # "snapped" /\ Last(decisions).plan # Absent =>
        \A i \in 1 .. Len(decisions) - 1 :
            decisions[i].plan # Absent /\ decisions[i].status = "PENDING" => i \in proposed

\* superseded_status_events names every open plan of the asset; events only close.
LEMMA PendingStep ==
    ASSUME LifecycleTypeOK, PendingAreProposed, LifecycleNext
    PROVE  PendingAreProposed'
  <1> DEFINE n == Len(decisions)
  <1>1. n \in Nat /\ DOMAIN decisions = 1 .. n /\ (decisions # <<>> => n \in 1 .. n)
    BY LifecycleLengths, NewestFacts
  <1>2. CASE \E deposited \in -MaxTransfers .. MaxTransfers : Snapshot(deposited)
    BY <1>2 DEF Snapshot, PendingAreProposed
  <1>3. CASE \E new \in AllPlans, evidence \in Evidence, book \in BOOLEAN : Finalize(new, evidence, book)
    <2>1. PICK new \in AllPlans, evidence \in Evidence, book \in BOOLEAN : Finalize(new, evidence, book)
      BY <1>3
    <2>2. [plan |-> new, status |-> "PENDING"] \in [plan : AllPlans, status : Statuses]
      BY DEF Statuses
    <2>3. decisions' = Append(decisions, [plan |-> new, status |-> "PENDING"])
      BY <2>1 DEF Finalize
    <2>4. /\ Len(decisions') = n + 1 /\ decisions'[n + 1] = [plan |-> new, status |-> "PENDING"]
          /\ \A i \in 1 .. n : decisions'[i] = decisions[i]
      BY <2>2, <2>3, AppendProperties DEF LifecycleTypeOK
    <2>5. Last(decisions').plan = new
      BY <2>4 DEF Last
    <2>6. new # Absent => \A i \in 1 .. n :
            decisions[i].plan # Absent /\ decisions[i].status = "PENDING" => i \in proposed'
      BY <1>1, <2>1 DEF Finalize, Superseded
    <2>7. Len(decisions') - 1 = n
      BY <1>1, <2>4
    <2> QED
      BY <2>4, <2>5, <2>6, <2>7 DEF PendingAreProposed
  <1>4. ASSUME Len(decisions') = n,
               \A i \in 1 .. n : /\ decisions'[i].plan = decisions[i].plan
                                 /\ decisions'[i].status = "PENDING" =>
                                      decisions[i].status = "PENDING" /\ (i \in proposed => i \in proposed'),
               decisions' # <<>> => decisions # <<>>, stage' # "snapped" => stage # "snapped"
        PROVE  PendingAreProposed'
    <2>1. decisions # <<>> => Last(decisions').plan = Last(decisions).plan
      BY <1>1, <1>4 DEF Last
    <2>2. \A i \in 1 .. n - 1 : i \in 1 .. n
      BY <1>1
    <2> HIDE DEF n
    <2>3. ASSUME decisions' # <<>>, stage' # "snapped", Last(decisions').plan # Absent, NEW i \in 1 .. n - 1,
                 decisions'[i].plan # Absent, decisions'[i].status = "PENDING"
          PROVE  i \in proposed'
      <3>1. decisions # <<>> /\ stage # "snapped" /\ Last(decisions).plan # Absent
        BY <1>4, <2>1, <2>3
      <3>2. i \in 1 .. n /\ decisions[i].plan # Absent /\ decisions[i].status = "PENDING"
        BY <1>4, <2>2, <2>3
      <3>3. i \in proposed
        BY <3>1, <3>2 DEF PendingAreProposed, n
      <3> QED
        BY <1>4, <2>3, <3>2, <3>3
    <2> QED
      BY <1>4, <2>3 DEF PendingAreProposed
  <1>5. CASE \E closed \in SUBSET proposed : CloseSuperseded(closed)
    <2>1. PICK closed \in SUBSET proposed : CloseSuperseded(closed)
      BY <1>5
    <2>2. /\ Len(decisions') = n
          /\ \A i \in 1 .. n : /\ decisions'[i].plan = decisions[i].plan
                               /\ decisions'[i].status = IF i \in closed THEN "NOT_EXECUTED" ELSE decisions[i].status
      BY <2>1, CloseFacts
    <2>3. proposed' = proposed \ closed /\ stage' = stage /\ stage # "snapped" /\ decisions # <<>>
      BY <2>1, LifecycleLengths DEF CloseSuperseded
    <2>4. \A i \in 1 .. n : decisions'[i].status = "PENDING" =>
            decisions[i].status = "PENDING" /\ (i \in proposed => i \in proposed')
      BY <2>2, <2>3
    <2> QED
      BY <1>1, <1>4, <2>2, <2>3, <2>4
  <1>6. CASE \E i \in DOMAIN decisions, status \in Statuses \ {"PENDING"} : Report(i, status)
    <2>1. PICK j \in DOMAIN decisions, status \in Statuses \ {"PENDING"} : Report(j, status)
      BY <1>6
    <2>2. /\ Len(decisions') = n
          /\ \A i \in 1 .. n : /\ decisions'[i].plan = decisions[i].plan
                               /\ decisions'[i].status = IF i = j THEN status ELSE decisions[i].status
      BY <2>1, ReportFacts
    <2>3. proposed' = proposed /\ stage' = stage /\ decisions # <<>>
      <3>1. decisions # <<>>
        BY <1>1, <2>1, LifecycleLengths
      <3> QED
        BY <2>1, <3>1 DEF Report
    <2>4. \A i \in 1 .. n : decisions'[i].status = "PENDING" =>
            decisions[i].status = "PENDING" /\ (i \in proposed => i \in proposed')
      BY <2>1, <2>2, <2>3
    <2> QED
      BY <1>1, <1>4, <2>2, <2>3, <2>4
  <1>7. CASE Follow \/ Ignore \/ \E x \in Sides \X Zones : Fill(x) \/ TradeByHand(x)
    <2>1. decisions' = decisions /\ proposed' = proposed /\ (stage' # "snapped" => stage # "snapped")
      BY <1>7 DEF Follow, Ignore, Fill, TradeByHand, UnitTraded, exchange
    <2> QED
      BY <2>1 DEF PendingAreProposed
  <1> QED
    BY <1>2, <1>3, <1>5, <1>6, <1>7 DEF LifecycleNext

LifecycleHolds == LifecycleTypeOK /\ BooksBalance /\ OrdersFollow /\ AdviceFits /\ PendingAreProposed

\* Before the first snapshot there is nothing to follow.
LEMMA LifecycleHoldsInit == LifecycleInit => LifecycleHolds
  <1> SUFFICES ASSUME LifecycleInit PROVE LifecycleHolds
    OBVIOUS
  <1>1. LifecycleTypeOK
    BY LifecycleTypesInit
  <1>2. Len(held) = 0 /\ decisions = <<>> /\ stage = "open" /\ orders = NoTrades
    BY <1>1, LifecycleLengths DEF LifecycleInit
  <1>3. BooksBalance
    BY <1>2 DEF BooksBalance
  <1>4. NothingRests
    BY <1>2 DEF NothingRests, NoTrades
  <1> QED
    BY <1>1, <1>2, <1>3, <1>4 DEF LifecycleHolds, OrdersFollow, AdviceFits, PendingAreProposed

\* The parts of the invariant are kept together.
LEMMA LifecycleHoldsStep == LifecycleHolds /\ [LifecycleNext]_lifecycleVars => LifecycleHolds'
  <1> SUFFICES ASSUME LifecycleHolds, [LifecycleNext]_lifecycleVars PROVE LifecycleHolds'
    OBVIOUS
  <1>1. LifecycleTypeOK'
    BY LifecycleTypesStep DEF LifecycleHolds
  <1>2. CASE LifecycleNext
    BY <1>1, <1>2, BooksStep, FollowStep, PendingStep DEF LifecycleHolds
  <1>3. CASE UNCHANGED lifecycleVars
    <2>1. BooksBalance'
      BY <1>3 DEF LifecycleHolds, lifecycleVars, BooksBalance
    <2>2. OrdersFollow'
      BY <1>3 DEF LifecycleHolds, lifecycleVars, OrdersFollow, NothingRests, OrderFollows, Executed
    <2>3. AdviceFits'
      BY <1>3 DEF LifecycleHolds, lifecycleVars, AdviceFits, NothingRests
    <2>4. PendingAreProposed'
      BY <1>3 DEF LifecycleHolds, lifecycleVars, PendingAreProposed
    <2> QED
      BY <1>1, <2>1, <2>2, <2>3, <2>4 DEF LifecycleHolds
  <1> QED
    BY <1>2, <1>3

\* The invariant of the lifecycle, from which its properties follow.
LEMMA LifecycleAlwaysHolds == LifecycleSpec => []LifecycleHolds
  BY LifecycleHoldsInit, LifecycleHoldsStep, PTL DEF LifecycleSpec

\* Until the first of the causes (a trade outside a plan, a report not followed,
\* a kept order larger than its plan) every order on the book is, once the user
\* has acted, one the newest decision plans, whatever evidence was read.
THEOREM OrdersDoNotGoAstray == LifecycleSpec => []LifecycleInvariant
  <1>1. LifecycleHolds => LifecycleInvariant
    <2> SUFFICES ASSUME LifecycleHolds, stage = "open", causes = {}, NEW x \in Sides \X Zones, orders[x] > 0
                 PROVE  PlannedBy(Last(decisions).plan, x)
      BY DEF LifecycleInvariant, LifecycleHolds, NoOrderGoesAstray, PlannedBy
    <2>1. decisions # <<>>
      BY DEF LifecycleHolds, OrdersFollow, NothingRests
    <2> QED
      BY <2>1 DEF LifecycleHolds, OrdersFollow, OrderFollows
  <1> QED
    BY <1>1, LifecycleAlwaysHolds, PTL

\* Until the first of the causes a report that says NOTHING_RESTING is right,
\* whether it was read from the trade records or from the quantities of two
\* snapshots.
THEOREM NothingRestingHolds == LifecycleSpec => NothingRestingIsTrue
  <1>1. LifecycleHolds /\ [LifecycleNext]_lifecycleVars =>
          [stage = "snapped" /\ stage' = "decided" /\ causes = {} /\ advice'.instruction = "NOTHING_RESTING"
             => \A z \in Zones : advice'.old.amount[z] > 0 => orders[SideOf(advice'.old), z] = 0]_lifecycleVars
    <2> SUFFICES ASSUME LifecycleHolds, LifecycleNext, stage = "snapped", stage' = "decided", causes = {},
                        advice'.instruction = "NOTHING_RESTING", NEW z \in Zones
                 PROVE  orders[SideOf(advice'.old), z] = 0
      OBVIOUS
    <2>1. PICK new \in AllPlans, evidence \in Evidence, book \in BOOLEAN : Finalize(new, evidence, book)
      BY DEF LifecycleNext, Snapshot, CloseSuperseded, Report, Follow, Ignore, Fill, TradeByHand, UnitTraded
    <2>2. advice' = Disposition(evidence, book, new)
      BY <2>1 DEF Finalize
    <2>3. NothingRests
      BY <2>2, SaidNothingRests DEF LifecycleHolds
    <2>4. SideOf(advice'.old) \in Sides
      BY DEF SideOf, Sides
    <2> QED
      BY <2>3, <2>4 DEF NothingRests
  <1> QED
    BY <1>1, LifecycleAlwaysHolds, PTL DEF LifecycleSpec, NothingRestingIsTrue

\* Once the status events of the newest review are appended, no older plan of
\* the asset is open, whatever earlier hosts lost.
THEOREM ClosuresAreProposedAgain == LifecycleSpec => []LostClosuresAreProposedAgain
  <1>1. LifecycleHolds => LostClosuresAreProposedAgain
    BY DEF LifecycleHolds, PendingAreProposed, LostClosuresAreProposedAgain
  <1> QED
    BY <1>1, LifecycleAlwaysHolds, PTL
=============================================================================
