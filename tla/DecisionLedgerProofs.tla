------------------------ MODULE DecisionLedgerProofs ------------------------
(***************************************************************************)
(* The decision history, for any sessions, ids, times and contents, and    *)
(* any number of lines: events are grounded, a history that reads without  *)
(* an error is complete, an outcome is final unless two sessions had both  *)
(* checked its decision, and the two files implement DecisionOutcome.      *)
(*                                                                         *)
(* Everything the readers compute is a choice of a line of a file: the     *)
(* first with an id, or the latest.  The lemmas say what one append does   *)
(* to such a choice; the invariant keeps that the choice exists.           *)
(***************************************************************************)
EXTENDS DecisionLedger, SequenceTheorems, TLAPS

-----------------------------------------------------------------------------
(* What an append does to a file.                                          *)

Files(S) == [lines : Seq(S \cup {Corrupt}), torn : BOOLEAN]

\* The lines of a file that carry an id.
At(file, id) == {i \in Intact(file) : file.lines[i].id = id}

IsFirst(file, id, i) == i \in At(file, id) /\ \A j \in At(file, id) : i <= j

IsLatest(file, id, i) ==
    /\ i \in At(file, id)
    /\ \A j \in At(file, id) :
          \/ file.lines[j].time < file.lines[i].time
          \/ file.lines[j].time = file.lines[i].time /\ j <= i

\* A whole line is written after the others, or joins the torn one.
LEMMA AppendFacts ==
    ASSUME NEW S, NEW f \in Files(S), NEW r \in S, Corrupt \notin S,
           NEW g, g = AppendRecord(f, r)
    PROVE  /\ g \in Files(S) /\ ~g.torn
           /\ Len(f.lines) \in Nat /\ DOMAIN f.lines = 1 .. Len(f.lines)
           /\ DOMAIN g.lines = 1 .. Len(f.lines) + 1
           /\ \A i \in 1 .. Len(f.lines) : g.lines[i] = f.lines[i]
           /\ g.lines[Len(f.lines) + 1] = IF f.torn THEN Corrupt ELSE r
           /\ Intact(g) = IF f.torn THEN Intact(f) ELSE Intact(f) \cup {Len(f.lines) + 1}
  <1> DEFINE x == IF f.torn THEN Corrupt ELSE r
             n == Len(f.lines)
  <1>1. f.lines \in Seq(S \cup {Corrupt}) /\ f.torn \in BOOLEAN /\ x \in S \cup {Corrupt}
    BY DEF Files
  <1>2. g = [lines |-> Append(f.lines, x), torn |-> FALSE]
    BY DEF AppendRecord, x
  <1> HIDE DEF x
  <1>3. /\ Append(f.lines, x) \in Seq(S \cup {Corrupt})
        /\ Len(Append(f.lines, x)) = n + 1 /\ n \in Nat
        /\ DOMAIN f.lines = 1 .. n /\ DOMAIN Append(f.lines, x) = 1 .. n + 1
        /\ \A i \in 1 .. n : Append(f.lines, x)[i] = f.lines[i]
        /\ Append(f.lines, x)[n + 1] = x
    BY <1>1, AppendProperties, LenProperties
  <1>4. g \in Files(S) /\ ~g.torn
    BY <1>2, <1>3 DEF Files
  <1>5. Intact(g) = Intact(f) \cup (IF x = Corrupt THEN {} ELSE {n + 1})
    <2>1. g.lines = Append(f.lines, x)
      BY <1>2
    <2>2. DOMAIN g.lines = 1 .. n + 1 /\ 1 .. n + 1 = (1 .. n) \cup {n + 1}
      BY <1>3, <2>1
    <2> QED
      BY <1>3, <2>1, <2>2 DEF Intact
  <1>6. x = Corrupt <=> f.torn
    BY <1>1 DEF x
  <1>7. Intact(g) = IF f.torn THEN Intact(f) ELSE Intact(f) \cup {n + 1}
    BY <1>5, <1>6
  <1>8. /\ DOMAIN g.lines = 1 .. n + 1 /\ \A i \in 1 .. n : g.lines[i] = f.lines[i]
        /\ g.lines[n + 1] = x
    BY <1>2, <1>3
  <1> QED
    BY <1>3, <1>4, <1>7, <1>8 DEF x

\* The lines with an id are those there were, and the new one if it has it.
LEMMA AtAfter ==
    ASSUME NEW S, NEW f \in Files(S), NEW r \in S, Corrupt \notin S, NEW id,
           NEW g, g = AppendRecord(f, r)
    PROVE  /\ At(f, id) \subseteq 1 .. Len(f.lines)
           /\ \A i \in At(f, id) : g.lines[i] = f.lines[i] /\ f.lines[i] \in S
           /\ At(g, id) = At(f, id) \cup
                  (IF ~f.torn /\ r.id = id THEN {Len(f.lines) + 1} ELSE {})
           /\ ~f.torn => g.lines[Len(f.lines) + 1] = r
  <1> DEFINE n == Len(f.lines)
  <1>0. f.lines \in Seq(S \cup {Corrupt})
    BY DEF Files
  <1>1. /\ n \in Nat /\ DOMAIN f.lines = 1 .. n
        /\ \A i \in 1 .. n : g.lines[i] = f.lines[i]
        /\ g.lines[n + 1] = IF f.torn THEN Corrupt ELSE r
        /\ Intact(g) = IF f.torn THEN Intact(f) ELSE Intact(f) \cup {n + 1}
    BY AppendFacts
  <1>2. Intact(f) \subseteq 1 .. n
    BY <1>1 DEF Intact
  <1>3. \A i \in Intact(f) : g.lines[i] = f.lines[i] /\ f.lines[i] \in S
    BY <1>0, <1>1, <1>2 DEF Intact
  <1>4. At(g, id) = At(f, id) \cup (IF ~f.torn /\ r.id = id THEN {n + 1} ELSE {})
    BY <1>1, <1>3 DEF At
  <1> QED
    BY <1>1, <1>2, <1>3, <1>4 DEF At

-----------------------------------------------------------------------------
(* What the readers choose.                                                *)

\* An id is in a file when a line carries it.
LEMMA HasIdIsAt == ASSUME NEW f, NEW id PROVE HasId(f, id) <=> At(f, id) # {}
  BY DEF HasId, At, Records

\* A first line with an id is the one the readers find.
LEMMA FirstIsChosen ==
    ASSUME NEW f \in Files(DecisionRecords), NEW id, NEW i, IsFirst(f, id, i)
    PROVE  /\ FirstWithId(f, id) = f.lines[i] /\ FirstWithId(f, id) \in DecisionRecords
           /\ FirstWithId(f, id).id = id
  <1>1. DOMAIN f.lines \subseteq Int /\ \A j \in Intact(f) : f.lines[j] \in DecisionRecords
    <2>1. f.lines \in Seq(DecisionRecords \cup {Corrupt})
      BY DEF Files
    <2>2. DOMAIN f.lines = 1 .. Len(f.lines) /\ Len(f.lines) \in Nat
      BY <2>1, LenProperties
    <2> QED
      BY <2>1, <2>2 DEF Intact
  <1>2. At(f, id) \subseteq Int
    BY <1>1 DEF At, Intact
  <1>3. \A k \in At(f, id) : (\A j \in At(f, id) : k <= j) => k = i
    BY <1>2 DEF IsFirst
  <1>4. (CHOOSE k \in At(f, id) : \A j \in At(f, id) : k <= j) = i
    BY <1>3 DEF IsFirst
  <1>5. FirstWithId(f, id) = f.lines[i]
    BY <1>4 DEF FirstWithId, At
  <1> QED
    BY <1>1, <1>5 DEF IsFirst, At

\* So is a latest one.
LEMMA LatestIsChosen ==
    ASSUME NEW f \in Files(EventRecords), NEW id, NEW i, IsLatest(f, id, i)
    PROVE  LatestEvent(f, id) = f.lines[i] /\ LatestEvent(f, id) \in Records(f)
  <1>1. DOMAIN f.lines \subseteq Int /\ \A j \in Intact(f) : f.lines[j] \in EventRecords
    <2>1. f.lines \in Seq(EventRecords \cup {Corrupt})
      BY DEF Files
    <2>2. DOMAIN f.lines = 1 .. Len(f.lines) /\ Len(f.lines) \in Nat
      BY <2>1, LenProperties
    <2> QED
      BY <2>1, <2>2 DEF Intact
  <1>2. \A j \in At(f, id) : j \in Int /\ f.lines[j].time \in Int
    BY <1>1, LedgerAssumption DEF At, Intact, EventRecords
  <1>3. \A k \in At(f, id) : IsLatest(f, id, k) => k = i
    BY <1>2 DEF IsLatest
  <1> DEFINE best(k) == \A j \in At(f, id) :
                 \/ f.lines[j].time < f.lines[k].time
                 \/ f.lines[j].time = f.lines[k].time /\ j <= k
  <1>4. i \in At(f, id) /\ best(i) /\ \A k \in At(f, id) : best(k) => k = i
    BY <1>3 DEF IsLatest
  <1>5. (CHOOSE k \in At(f, id) : best(k)) = i
    <2> HIDE DEF best
    <2> QED
      BY <1>4
  <1>6. LatestEvent(f, id) = f.lines[i]
    BY <1>5 DEF LatestEvent, At
  <1> QED
    BY <1>4, <1>6 DEF At, Records

\* Lines are only ever added behind those there were.
Grows(f, g) ==
    \A id :
        /\ At(f, id) \subseteq At(g, id)
        /\ \A i \in At(f, id) : g.lines[i] = f.lines[i]
        /\ \A i \in At(f, id), j \in At(g, id) \ At(f, id) : i <= j

\* An append, whole or torn, adds at most one line.
LEMMA AppendGrows ==
    ASSUME NEW S, NEW f \in Files(S), NEW r \in S, Corrupt \notin S
    PROVE  Grows(f, AppendRecord(f, r)) /\ Grows(f, AppendTorn(f)) /\ Grows(f, f)
  <1>1. Grows(f, AppendRecord(f, r))
    <2> DEFINE g == AppendRecord(f, r)
    <2> SUFFICES ASSUME NEW id
                 PROVE  /\ At(f, id) \subseteq At(g, id)
                        /\ \A i \in At(f, id) : g.lines[i] = f.lines[i]
                        /\ \A i \in At(f, id), j \in At(g, id) \ At(f, id) : i <= j
      BY DEF Grows
    <2>1. /\ At(f, id) \subseteq 1 .. Len(f.lines) /\ Len(f.lines) \in Nat
          /\ \A i \in At(f, id) : g.lines[i] = f.lines[i]
          /\ At(g, id) = At(f, id) \cup (IF ~f.torn /\ r.id = id THEN {Len(f.lines) + 1} ELSE {})
      BY AtAfter, AppendFacts
    <2> HIDE DEF g
    <2> QED
      BY <2>1
  <1>2. \A id : At(AppendTorn(f), id) = At(f, id) /\ AppendTorn(f).lines = f.lines
    <2>1. AppendTorn(f).lines = f.lines
      BY DEF AppendTorn, Files
    <2> QED
      BY <2>1 DEF At, Intact
  <1> QED
    BY <1>1, <1>2 DEF Grows

\* The first line with an id stays the first.
LEMMA FirstStays ==
    ASSUME NEW f \in Files(DecisionRecords), NEW g \in Files(DecisionRecords), Grows(f, g),
           NEW id, NEW i, IsFirst(f, id, i)
    PROVE  IsFirst(g, id, i) /\ FirstWithId(g, id) = FirstWithId(f, id)
  <1>1. IsFirst(g, id, i) /\ g.lines[i] = f.lines[i]
    BY DEF IsFirst, Grows
  <1> QED
    BY <1>1, FirstIsChosen

\* The first decision recorded under an id is the first line with it.
LEMMA FirstIsNew ==
    ASSUME NEW f \in Files(DecisionRecords), NEW r \in DecisionRecords,
           Corrupt \notin DecisionRecords, At(f, r.id) = {}, ~f.torn
    PROVE  LET g == AppendRecord(f, r)
           IN  IsFirst(g, r.id, Len(f.lines) + 1) /\ FirstWithId(g, r.id) = r
  <1> DEFINE g == AppendRecord(f, r)
  <1>1. /\ At(g, r.id) = {Len(f.lines) + 1} /\ g.lines[Len(f.lines) + 1] = r
        /\ Len(f.lines) \in Nat /\ g \in Files(DecisionRecords)
    BY AtAfter, AppendFacts
  <1> HIDE DEF g
  <1>2. IsFirst(g, r.id, Len(f.lines) + 1)
    BY <1>1 DEF IsFirst
  <1> QED
    BY <1>1, <1>2, FirstIsChosen DEF g

\* After an event is appended, it is the latest of its decision, or what was
\* the latest still is.
LEMMA LatestAfter ==
    ASSUME NEW f \in Files(EventRecords), NEW r \in EventRecords, Corrupt \notin EventRecords,
           NEW id, At(f, id) # {} => \E i : IsLatest(f, id, i)
    PROVE  LET g == AppendRecord(f, r)
           IN  /\ At(g, id) # {} => \E i : IsLatest(g, id, i)
               /\ \/ At(g, id) = At(f, id) /\ (At(f, id) # {} => LatestEvent(g, id) = LatestEvent(f, id))
                  \/ /\ ~f.torn /\ r.id = id
                     /\ \/ LatestEvent(g, id) = r
                        \/ At(f, id) # {} /\ LatestEvent(g, id) = LatestEvent(f, id)
  <1> DEFINE g == AppendRecord(f, r)
             n == Len(f.lines)
  <1>1. /\ At(f, id) \subseteq 1 .. n /\ n \in Nat /\ g \in Files(EventRecords)
        /\ \A i \in At(f, id) : g.lines[i] = f.lines[i] /\ f.lines[i] \in EventRecords
        /\ At(g, id) = At(f, id) \cup (IF ~f.torn /\ r.id = id THEN {n + 1} ELSE {})
        /\ ~f.torn => g.lines[n + 1] = r
    BY AtAfter, AppendFacts
  <1> HIDE DEF g
  <1>2. /\ \A i \in At(f, id) : f.lines[i].time \in Int /\ g.lines[i].time \in Int
        /\ r.time \in Int
    BY <1>1, LedgerAssumption DEF EventRecords
  <1>3. CASE f.torn \/ r.id # id
    <2>1. At(g, id) = At(f, id)
      BY <1>1, <1>3
    <2>2. \A i : IsLatest(f, id, i) => IsLatest(g, id, i) /\ g.lines[i] = f.lines[i]
      BY <1>1, <2>1 DEF IsLatest
    <2>3. At(f, id) # {} => (\E i : IsLatest(g, id, i)) /\ LatestEvent(g, id) = LatestEvent(f, id)
      BY <1>1, <2>2, LatestIsChosen
    <2> QED
      BY <2>1, <2>3 DEF g
  <1>4. CASE ~f.torn /\ r.id = id
    <2>1. At(g, id) = At(f, id) \cup {n + 1} /\ g.lines[n + 1] = r
      BY <1>1, <1>4
    <2>2. CASE At(f, id) = {}
      <3>1. At(g, id) = {n + 1}
        BY <2>1, <2>2
      <3>2. IsLatest(g, id, n + 1)
        BY <1>1, <3>1 DEF IsLatest
      <3> QED
        BY <1>1, <1>4, <2>1, <3>2, LatestIsChosen DEF g
    <2>3. CASE At(f, id) # {}
      <3>1. PICK i : IsLatest(f, id, i)
        BY <2>3
      <3>2. i \in At(f, id) /\ i \in Int /\ i <= n /\ g.lines[i] = f.lines[i]
        BY <1>1, <3>1 DEF IsLatest
      <3>3. CASE r.time >= f.lines[i].time
        <4>1. ASSUME NEW j \in At(g, id)
              PROVE  \/ g.lines[j].time < g.lines[n + 1].time
                     \/ g.lines[j].time = g.lines[n + 1].time /\ j <= n + 1
          <5>1. CASE j = n + 1
            BY <1>1, <5>1
          <5>2. CASE j \in At(f, id)
            <6>1. j \in 1 .. n /\ g.lines[j] = f.lines[j] /\ f.lines[j].time \in Int
              BY <1>1, <1>2, <5>2
            <6>2. f.lines[j].time <= f.lines[i].time /\ f.lines[i].time \in Int
              BY <1>2, <3>1, <3>2, <5>2, <6>1 DEF IsLatest
            <6>3. f.lines[j].time <= r.time
              BY <1>2, <3>3, <6>1, <6>2
            <6>4. g.lines[n + 1].time = r.time
              BY <2>1
            <6> QED
              BY <1>1, <1>2, <6>1, <6>3, <6>4
          <5> QED
            BY <2>1, <5>1, <5>2
        <4>2. IsLatest(g, id, n + 1)
          BY <2>1, <4>1 DEF IsLatest
        <4> QED
          BY <1>1, <1>4, <2>1, <4>2, LatestIsChosen DEF g
      <3>4. CASE r.time < f.lines[i].time
        <4>1. IsLatest(g, id, i)
          BY <1>1, <1>2, <2>1, <3>1, <3>2, <3>4 DEF IsLatest
        <4>2. LatestEvent(g, id) = LatestEvent(f, id)
          BY <1>1, <3>1, <3>2, <4>1, LatestIsChosen
        <4> QED
          BY <1>4, <2>3, <4>1, <4>2 DEF g
      <3> QED
        BY <1>2, <3>2, <3>3, <3>4
    <2> QED
      BY <2>2, <2>3
  <1> QED
    BY <1>3, <1>4

-----------------------------------------------------------------------------
\* What an append does to the records, and to who may read them: a file that
\* is readable was readable before, and lost nothing to a torn line.
LEMMA RecordsAfter ==
    ASSUME NEW S, NEW f \in Files(S), NEW r \in S, Corrupt \notin S,
           NEW g, g = AppendRecord(f, r)
    PROVE  /\ Records(g) = Records(f) \cup (IF f.torn THEN {} ELSE {r})
           /\ Readable(g) => Readable(f) /\ ~f.torn
  <1> DEFINE n == Len(f.lines)
  <1>1. /\ n \in Nat /\ DOMAIN f.lines = 1 .. n /\ DOMAIN g.lines = 1 .. n + 1
        /\ \A i \in 1 .. n : g.lines[i] = f.lines[i]
        /\ g.lines[n + 1] = IF f.torn THEN Corrupt ELSE r
        /\ Intact(g) = IF f.torn THEN Intact(f) ELSE Intact(f) \cup {n + 1}
    BY AppendFacts
  <1>2. Intact(f) \subseteq 1 .. n
    BY <1>1 DEF Intact
  <1>3. Records(g) = Records(f) \cup (IF f.torn THEN {} ELSE {r})
    BY <1>1, <1>2 DEF Records
  <1>4. ASSUME Readable(g) PROVE Readable(f) /\ ~f.torn
    <2>1. \A i \in 1 .. n + 1 : g.lines[i] # Corrupt
      BY <1>1, <1>4 DEF Readable
    <2>2. ~f.torn /\ \A i \in 1 .. n : f.lines[i] # Corrupt
      BY <1>1, <2>1
    <2> QED
      BY <1>1, <2>2 DEF Readable
  <1> QED
    BY <1>3, <1>4

\* A torn write leaves the lines alone and the file unreadable.
LEMMA TornFacts ==
    ASSUME NEW S, NEW f \in Files(S)
    PROVE  /\ AppendTorn(f) \in Files(S) /\ ~Readable(AppendTorn(f))
           /\ Records(AppendTorn(f)) = Records(f)
           /\ \A id : At(AppendTorn(f), id) = At(f, id)
           /\ AppendTorn(f).lines = f.lines
  <1>1. AppendTorn(f).lines = f.lines /\ AppendTorn(f) \in Files(S)
    BY DEF AppendTorn, Files
  <1>2. AppendTorn(f).torn
    BY DEF AppendTorn, Files
  <1> QED
    BY <1>1, <1>2 DEF At, Intact, Records, Readable

-----------------------------------------------------------------------------
(* The invariant, and what a step does to each file and to each session.   *)

FirstExists == \A id \in Ids : At(decisions, id) # {} => \E i : IsFirst(decisions, id, i)

LatestExists == \A id \in Ids : At(events, id) # {} => \E i : IsLatest(events, id, i)

EventsAreTerminal == \A e \in Records(events) : e.status \in Terminal

\* A session past its first read still holds the decision the file holds; past
\* its check, the event it is about to append is one the decision allows.
HeldIsTrue(s) ==
    /\ pc[s] \in {"check_event", "append_event"}
         => /\ HasId(decisions, record[s].id)
            /\ found[s] = FirstWithId(decisions, record[s].id)
    /\ pc[s] = "append_event"
         => /\ found[s].status = "PENDING" /\ record[s].time >= found[s].time
            /\ record[s].status \in Terminal

Inductive ==
    /\ TypeOK
    /\ FirstExists
    /\ LatestExists
    /\ EventsAreTerminal
    /\ EventsAreGrounded
    /\ \A s \in Session : HeldIsTrue(s)
    /\ ReadableIsComplete

\* Both files hold records of their kind and perhaps a torn line.
LEMMA FilesAreTyped ==
    ASSUME TypeOK
    PROVE  /\ decisions \in Files(DecisionRecords) /\ events \in Files(EventRecords)
           /\ Corrupt \notin DecisionRecords /\ Corrupt \notin EventRecords
  BY CorruptAssumption DEF TypeOK, Files

\* Of the steps only four touch a file, and they only append to it.
LEMMA FilesAfter ==
    ASSUME TypeOK, [Next]_vars
    PROVE  \/ decisions' = decisions /\ events' = events /\ acked' = acked
           \/ decisions' = AppendTorn(decisions) /\ events' = events /\ acked' = acked
           \/ decisions' = decisions /\ events' = AppendTorn(events) /\ acked' = acked
           \/ \E r \in DecisionRecords :
                 /\ decisions' = AppendRecord(decisions, r)
                 /\ events' = events /\ acked' = acked \cup {r}
           \/ \E s \in Session :
                 /\ pc[s] = "append_event" /\ record[s] \in EventRecords
                 /\ events' = AppendRecord(events, record[s])
                 /\ decisions' = decisions /\ acked' = acked \cup {record[s]}
  <1>1. ASSUME NEW s \in Session, AppendDecision(s)
        PROVE  \E r \in DecisionRecords :
                 /\ decisions' = AppendRecord(decisions, r)
                 /\ events' = events /\ acked' = acked \cup {r}
    BY <1>1 DEF AppendDecision, TypeOK
  <1>2. ASSUME NEW s \in Session, AppendEvent(s)
        PROVE  /\ pc[s] = "append_event" /\ record[s] \in EventRecords
               /\ events' = AppendRecord(events, record[s])
               /\ decisions' = decisions /\ acked' = acked \cup {record[s]}
    BY <1>2 DEF AppendEvent, TypeOK
  <1> QED
    BY <1>1, <1>2 DEF Next, vars, BeginDecision, BeginEvent, CheckEvent, TearDecision, TearEvent, Crash

\* A session's place moves by its own steps only.
LEMMA SessionAfter ==
    ASSUME TypeOK, [Next]_vars, NEW t \in Session
    PROVE  \/ pc'[t] = pc[t] /\ record'[t] = record[t] /\ found'[t] = found[t]
           \/ pc'[t] = "idle"
           \/ pc'[t] = "append_decision" /\ record'[t] \in DecisionRecords
           \/ \E e \in EventRecords : BeginEvent(t, e)
           \/ CheckEvent(t) /\ pc'[t] = "append_event"
  <1> DEFINE Goal ==
           \/ pc'[t] = pc[t] /\ record'[t] = record[t] /\ found'[t] = found[t]
           \/ pc'[t] = "idle"
           \/ pc'[t] = "append_decision" /\ record'[t] \in DecisionRecords
           \/ \E e \in EventRecords : BeginEvent(t, e)
           \/ CheckEvent(t) /\ pc'[t] = "append_event"
  <1>0. /\ pc \in [Session -> {"idle", "append_decision", "check_event", "append_event"}]
        /\ DOMAIN record = Session /\ DOMAIN found = Session
    BY DEF TypeOK
  <1>1. ASSUME NEW s \in Session, Idle(s) PROVE Goal
    BY <1>0, <1>1 DEF Idle
  <1>2. ASSUME NEW s \in Session, NEW r \in DecisionRecords, BeginDecision(s, r) PROVE Goal
    BY <1>0, <1>2 DEF BeginDecision
  <1>3. ASSUME NEW s \in Session, NEW e \in EventRecords, BeginEvent(s, e) PROVE Goal
    <2>1. CASE s = t
      BY <1>3, <2>1
    <2>2. CASE s # t
      BY <1>0, <1>3, <2>2 DEF BeginEvent
    <2> QED
      BY <2>1, <2>2
  <1>4. ASSUME NEW s \in Session, CheckEvent(s) PROVE Goal
    <2>1. CASE Idle(s)
      BY <1>1, <2>1
    <2>2. CASE pc' = [pc EXCEPT ![s] = "append_event"] /\ UNCHANGED <<record, found>>
      BY <1>0, <1>4, <2>2
    <2> QED
      BY <1>4, <2>1, <2>2 DEF CheckEvent
  <1>5. CASE UNCHANGED vars
    BY <1>5 DEF vars
  <1>6. ASSUME NEW s \in Session, \/ AppendDecision(s) \/ TearDecision(s) \/ AppendEvent(s)
                                 \/ TearEvent(s) \/ Crash(s)
        PROVE  Goal
    <2>1. Idle(s)
      BY <1>6 DEF AppendDecision, TearDecision, AppendEvent, TearEvent, Crash
    <2> QED
      BY <1>1, <2>1
  <1>7. CASE Next
    <2>1. PICK s \in Session :
             \/ \E r \in DecisionRecords : BeginDecision(s, r)
             \/ \E e \in EventRecords : BeginEvent(s, e)
             \/ CheckEvent(s)
             \/ AppendDecision(s) \/ TearDecision(s) \/ AppendEvent(s) \/ TearEvent(s) \/ Crash(s)
      BY <1>7 DEF Next
    <2>2. CASE \E r \in DecisionRecords : BeginDecision(s, r)
      BY <1>2, <2>2
    <2>3. CASE \E e \in EventRecords : BeginEvent(s, e)
      BY <1>3, <2>3
    <2> QED
      BY <1>4, <1>6, <2>1, <2>2, <2>3
  <1> QED
    BY <1>5, <1>7

-----------------------------------------------------------------------------
(* The invariant is kept.                                                  *)

SessionsTyped ==
    /\ pc \in [Session -> {"idle", "append_decision", "check_event", "append_event"}]
    /\ record \in [Session -> DecisionRecords \cup EventRecords \cup {NoRecord}]
    /\ found \in [Session -> DecisionRecords \cup {NoRecord}]
    /\ \A s \in Session :
         /\ pc[s] = "append_decision" => record[s] \in DecisionRecords
         /\ pc[s] \in {"check_event", "append_event"}
                => record[s] \in EventRecords /\ found[s] \in DecisionRecords

\* The files keep records of their kind, and so does every session.
LEMMA TypeStep == ASSUME Inductive, [Next]_vars PROVE TypeOK'
  <1>0. /\ TypeOK /\ SessionsTyped
        /\ decisions \in Files(DecisionRecords) /\ events \in Files(EventRecords)
        /\ Corrupt \notin DecisionRecords /\ Corrupt \notin EventRecords
    BY FilesAreTyped DEF Inductive, TypeOK, SessionsTyped
  <1>1. /\ decisions' \in Files(DecisionRecords) /\ events' \in Files(EventRecords)
        /\ acked' \subseteq DecisionRecords \cup EventRecords
    <2>1. acked \subseteq DecisionRecords \cup EventRecords
      BY <1>0 DEF TypeOK
    <2>2. \A r \in DecisionRecords : AppendRecord(decisions, r) \in Files(DecisionRecords)
      BY <1>0, AppendFacts
    <2>3. \A r \in EventRecords : AppendRecord(events, r) \in Files(EventRecords)
      BY <1>0, AppendFacts
    <2>4. AppendTorn(decisions) \in Files(DecisionRecords) /\ AppendTorn(events) \in Files(EventRecords)
      BY <1>0, TornFacts
    <2> QED
      BY <1>0, <2>1, <2>2, <2>3, <2>4, FilesAfter
  <1>2. SessionsTyped'
    <2>1. ASSUME NEW s \in Session, Idle(s) PROVE SessionsTyped'
      BY <1>0, <2>1 DEF SessionsTyped, Idle
    <2>2. ASSUME NEW s \in Session, NEW r \in DecisionRecords, BeginDecision(s, r)
          PROVE  SessionsTyped'
      BY <1>0, <2>2 DEF SessionsTyped, BeginDecision
    <2>3. ASSUME NEW s \in Session, NEW e \in EventRecords, BeginEvent(s, e)
          PROVE  SessionsTyped'
      <3>1. FirstWithId(decisions, e.id) \in DecisionRecords
        <4>1. HasId(decisions, e.id) /\ e.id \in Ids
          BY <2>3 DEF BeginEvent, EventRecords
        <4>2. PICK i : IsFirst(decisions, e.id, i)
          BY <4>1, HasIdIsAt DEF Inductive, FirstExists
        <4> QED
          BY <1>0, <4>2, FirstIsChosen
      <3> QED
        BY <1>0, <2>3, <3>1 DEF SessionsTyped, BeginEvent
    <2>4. ASSUME NEW s \in Session, CheckEvent(s) PROVE SessionsTyped'
      <3>1. CASE Idle(s)
        BY <2>1, <3>1
      <3>2. CASE pc' = [pc EXCEPT ![s] = "append_event"] /\ UNCHANGED <<record, found>>
        <4>1. pc[s] = "check_event"
          BY <2>4 DEF CheckEvent
        <4> QED
          BY <1>0, <3>2, <4>1 DEF SessionsTyped
      <3> QED
        BY <2>4, <3>1, <3>2 DEF CheckEvent
    <2>5. ASSUME NEW s \in Session, \/ AppendDecision(s) \/ TearDecision(s) \/ AppendEvent(s)
                                    \/ TearEvent(s) \/ Crash(s)
          PROVE  SessionsTyped'
      <3>1. Idle(s)
        BY <2>5 DEF AppendDecision, TearDecision, AppendEvent, TearEvent, Crash
      <3> QED
        BY <2>1, <3>1
    <2>6. CASE UNCHANGED vars
      BY <1>0, <2>6 DEF vars, SessionsTyped
    <2>7. CASE Next
      <3>1. PICK s \in Session :
               \/ \E r \in DecisionRecords : BeginDecision(s, r)
               \/ \E e \in EventRecords : BeginEvent(s, e)
               \/ CheckEvent(s)
               \/ AppendDecision(s) \/ TearDecision(s) \/ AppendEvent(s) \/ TearEvent(s) \/ Crash(s)
        BY <2>7 DEF Next
      <3>2. CASE \E r \in DecisionRecords : BeginDecision(s, r)
        BY <2>2, <3>2
      <3>3. CASE \E e \in EventRecords : BeginEvent(s, e)
        BY <2>3, <3>3
      <3> QED
        BY <2>4, <2>5, <3>1, <3>2, <3>3
    <2> QED
      BY <2>6, <2>7
  <1>3. contested' \subseteq Ids
    <2>1. contested \subseteq Ids
      BY <1>0 DEF TypeOK
    <2>2. ASSUME NEW s \in Session, CheckEvent(s) PROVE contested' \subseteq Ids
      <3>1. pc[s] = "check_event"
        BY <2>2 DEF CheckEvent
      <3>2. record[s].id \in Ids
        BY <1>0, <3>1 DEF SessionsTyped, EventRecords
      <3> QED
        BY <2>1, <2>2, <3>2 DEF CheckEvent
    <2> QED
      BY <2>1, <2>2 DEF Next, vars, BeginDecision, BeginEvent, AppendDecision, AppendEvent,
         TearDecision, TearEvent, Crash
  <1> QED
    BY <1>1, <1>2, <1>3 DEF TypeOK, SessionsTyped, Files

\* Decisions are only added behind those there were, so the first with an id
\* exists as soon as one does, and stays the first.
LEMMA FirstStep ==
    ASSUME Inductive, [Next]_vars
    PROVE  /\ FirstExists' /\ Grows(decisions, decisions')
           /\ \A id \in Ids : HasId(decisions, id)
                => HasId(decisions', id) /\ FirstWithId(decisions', id) = FirstWithId(decisions, id)
  <1>0. /\ TypeOK /\ FirstExists
        /\ decisions \in Files(DecisionRecords) /\ Corrupt \notin DecisionRecords
    BY FilesAreTyped DEF Inductive
  <1>1. \/ decisions' = decisions \/ decisions' = AppendTorn(decisions)
        \/ \E r \in DecisionRecords : decisions' = AppendRecord(decisions, r)
    BY <1>0, FilesAfter
  <1>2. decisions' \in Files(DecisionRecords)
    <2>1. TypeOK'
      BY TypeStep
    <2> QED
      BY <2>1 DEF TypeOK, Files
  <1>3. Grows(decisions, decisions')
    <2>1. CASE decisions' = decisions \/ decisions' = AppendTorn(decisions)
      <3>1. \A id : At(decisions', id) = At(decisions, id)
        BY <1>0, <2>1, TornFacts
      <3>2. decisions'.lines = decisions.lines
        BY <1>0, <2>1, TornFacts
      <3> QED
        BY <3>1, <3>2 DEF Grows
    <2>2. ASSUME NEW r \in DecisionRecords, decisions' = AppendRecord(decisions, r)
          PROVE  Grows(decisions, decisions')
      <3>1. Grows(decisions, AppendRecord(decisions, r))
        BY <1>0, AppendGrows
      <3> QED
        BY <2>2, <3>1
    <2> QED
      BY <1>1, <2>1, <2>2
  <1>4. \A id \in Ids : \A i : IsFirst(decisions, id, i)
           => IsFirst(decisions', id, i) /\ FirstWithId(decisions', id) = FirstWithId(decisions, id)
    BY <1>0, <1>2, <1>3, FirstStays
  <1>5. ASSUME NEW id \in Ids, At(decisions', id) # {}
        PROVE  \E i : IsFirst(decisions', id, i)
    <2>1. CASE At(decisions, id) # {}
      BY <1>0, <1>4, <2>1 DEF FirstExists
    <2>2. CASE At(decisions, id) = {}
      <3>1. \A i \in At(decisions', id), j \in At(decisions', id) : i = j
        <4>1. CASE decisions' = decisions \/ decisions' = AppendTorn(decisions)
          BY <1>0, <1>5, <2>2, <4>1, TornFacts
        <4>2. ASSUME NEW r \in DecisionRecords, decisions' = AppendRecord(decisions, r)
              PROVE  At(decisions', id) \subseteq {Len(decisions.lines) + 1}
          BY <1>0, <2>2, <4>2, AtAfter
        <4> QED
          BY <1>1, <4>1, <4>2
      <3>2. PICK i : i \in At(decisions', id)
        BY <1>5
      <3>3. i \in Int
        <4>1. decisions'.lines \in Seq(DecisionRecords \cup {Corrupt})
          BY <1>2 DEF Files
        <4>2. DOMAIN decisions'.lines \subseteq Int
          BY <4>1, LenProperties
        <4> QED
          BY <3>2, <4>2 DEF At, Intact
      <3>4. At(decisions', id) = {i}
        BY <3>1, <3>2
      <3> QED
        BY <3>3, <3>4 DEF IsFirst
    <2> QED
      BY <2>1, <2>2
  <1>6. ASSUME NEW id \in Ids, HasId(decisions, id)
        PROVE  /\ HasId(decisions', id)
               /\ FirstWithId(decisions', id) = FirstWithId(decisions, id)
    <2>1. PICK i : IsFirst(decisions, id, i)
      BY <1>0, <1>6, HasIdIsAt DEF FirstExists
    <2>2. At(decisions', id) # {}
      BY <1>4, <2>1 DEF IsFirst
    <2> QED
      BY <1>4, <2>1, <2>2, HasIdIsAt
  <1>7. FirstExists'
    BY <1>5 DEF FirstExists
  <1> QED
    BY <1>3, <1>6, <1>7

\* Every file of events has a latest event for each id it names, and only
\* events whose session passed its check, so only terminal ones.
LEMMA LatestStep == ASSUME Inductive, [Next]_vars PROVE LatestExists' /\ EventsAreTerminal'
  <1>0. /\ TypeOK /\ LatestExists /\ EventsAreTerminal
        /\ events \in Files(EventRecords) /\ Corrupt \notin EventRecords
    BY FilesAreTyped DEF Inductive
  <1>1. CASE events' = events \/ events' = AppendTorn(events)
    <2>1. \A id : At(events', id) = At(events, id)
      BY <1>0, <1>1, TornFacts
    <2>2. events'.lines = events.lines /\ Records(events') = Records(events)
      BY <1>0, <1>1, TornFacts
    <2>3. \A id, i : IsLatest(events, id, i) => IsLatest(events', id, i)
      BY <2>1, <2>2 DEF IsLatest
    <2>4. LatestExists'
      BY <1>0, <2>1, <2>3 DEF LatestExists
    <2> QED
      BY <1>0, <2>2, <2>4 DEF EventsAreTerminal
  <1>2. ASSUME NEW s \in Session, pc[s] = "append_event", record[s] \in EventRecords,
               events' = AppendRecord(events, record[s])
        PROVE  LatestExists' /\ EventsAreTerminal'
    <2>1. \A id \in Ids : At(events', id) # {} => \E i : IsLatest(events', id, i)
      BY <1>0, <1>2, LatestAfter DEF LatestExists
    <2>2. Records(events') \subseteq Records(events) \cup {record[s]}
      BY <1>0, <1>2, RecordsAfter
    <2>3. record[s].status \in Terminal
      BY <1>2 DEF Inductive, HeldIsTrue
    <2> QED
      BY <1>0, <2>1, <2>2, <2>3 DEF LatestExists, EventsAreTerminal
  <1> QED
    BY <1>0, <1>1, <1>2, FilesAfter

\* What a session took from its reads stays true until it appends: decisions
\* never change, and a check that passed saw no event at all.
LEMMA HeldStep == ASSUME Inductive, [Next]_vars, NEW t \in Session PROVE HeldIsTrue(t)'
  <1>0. TypeOK /\ HeldIsTrue(t) /\ EventsAreTerminal /\ LatestExists
    BY DEF Inductive
  <1>1. \A id \in Ids : HasId(decisions, id)
           => HasId(decisions', id) /\ FirstWithId(decisions', id) = FirstWithId(decisions, id)
    BY FirstStep
  <1>2. CASE pc'[t] = pc[t] /\ record'[t] = record[t] /\ found'[t] = found[t]
    <2>1. CASE pc[t] \in {"check_event", "append_event"}
      <3>1. record[t].id \in Ids
        BY <1>0, <2>1 DEF TypeOK, EventRecords
      <3> QED
        BY <1>0, <1>1, <1>2, <2>1, <3>1 DEF HeldIsTrue
    <2>2. CASE pc[t] \notin {"check_event", "append_event"}
      BY <1>2, <2>2 DEF HeldIsTrue
    <2> QED
      BY <2>1, <2>2
  <1>3. CASE pc'[t] \in {"idle", "append_decision"}
    BY <1>3 DEF HeldIsTrue
  <1>4. ASSUME NEW e \in EventRecords, BeginEvent(t, e) PROVE HeldIsTrue(t)'
    <2>1. /\ pc'[t] = "check_event" /\ record'[t] = e
          /\ found'[t] = FirstWithId(decisions, e.id) /\ decisions' = decisions
          /\ HasId(decisions, e.id)
      BY <1>0, <1>4 DEF BeginEvent, TypeOK
    <2> QED
      BY <2>1 DEF HeldIsTrue
  <1>5. CASE CheckEvent(t) /\ pc'[t] = "append_event"
    <2>1. /\ pc[t] = "check_event" /\ record'[t] = record[t] /\ found'[t] = found[t]
          /\ decisions' = decisions
          /\ Allowed(record[t], Current(found[t], events))
      BY <1>0, <1>5 DEF CheckEvent, Idle, TypeOK
    <2>2. /\ record[t] \in EventRecords /\ found[t] \in DecisionRecords
          /\ HasId(decisions, record[t].id) /\ found[t] = FirstWithId(decisions, record[t].id)
      BY <1>0, <2>1 DEF TypeOK, HeldIsTrue
    <2>3. ~HasId(events, found[t].id)
      <3>1. ASSUME HasId(events, found[t].id) PROVE FALSE
        <4>1. found[t].id \in Ids
          BY <2>2 DEF DecisionRecords
        <4>2. PICK i : IsLatest(events, found[t].id, i)
          BY <1>0, <3>1, <4>1, HasIdIsAt DEF LatestExists
        <4>3. events \in Files(EventRecords)
          BY <1>0, FilesAreTyped
        <4>4. LatestEvent(events, found[t].id).status \in Terminal
          BY <1>0, <4>2, <4>3, LatestIsChosen DEF EventsAreTerminal
        <4>5. Current(found[t], events) = LatestEvent(events, found[t].id)
          BY <3>1 DEF Current
        <4> QED
          BY <2>1, <4>4, <4>5 DEF Allowed, Terminal
      <3> QED
        BY <3>1
    <2>4. Current(found[t], events).status = found[t].status
          /\ Current(found[t], events).time = found[t].time
      BY <2>3 DEF Current
    <2>5. found[t].status = "PENDING" /\ record[t].time >= found[t].time /\ record[t].status \in Terminal
      BY <2>1, <2>4 DEF Allowed
    <2> QED
      BY <1>5, <2>1, <2>2, <2>5 DEF HeldIsTrue
  <1> QED
    BY <1>0, <1>2, <1>3, <1>4, <1>5, SessionAfter

\* An event is appended for the decision its session holds.
LEMMA GroundedStep == ASSUME Inductive, [Next]_vars PROVE EventsAreGrounded'
  <1>0. /\ TypeOK /\ EventsAreGrounded
        /\ events \in Files(EventRecords) /\ Corrupt \notin EventRecords
    BY FilesAreTyped DEF Inductive
  <1>1. \A id \in Ids : HasId(decisions, id)
           => HasId(decisions', id) /\ FirstWithId(decisions', id) = FirstWithId(decisions, id)
    BY FirstStep
  <1>2. Records(events) \subseteq EventRecords
    BY <1>0 DEF Records, Intact, Files
  <1>3. \A e \in EventRecords : e.id \in Ids
    BY DEF EventRecords
  <1> DEFINE Grounded(e) ==
        /\ HasId(decisions, e.id)
        /\ FirstWithId(decisions, e.id).status = "PENDING"
        /\ e.time >= FirstWithId(decisions, e.id).time
  <1>4. \A e \in EventRecords : Grounded(e) => Grounded(e)'
    BY <1>1, <1>3
  <1>5. \A e \in Records(events) : Grounded(e)
    BY <1>0 DEF EventsAreGrounded
  <1>6. ASSUME NEW s \in Session, pc[s] = "append_event", record[s] \in EventRecords
        PROVE  Grounded(record[s])
    BY <1>6 DEF Inductive, HeldIsTrue
  <1> HIDE DEF Grounded
  <1>7. CASE Records(events') = Records(events)
    <2>1. \A e \in Records(events') : Grounded(e)'
      BY <1>2, <1>4, <1>5, <1>7
    <2> QED
      BY <2>1 DEF EventsAreGrounded, Grounded
  <1>8. ASSUME NEW s \in Session, pc[s] = "append_event", record[s] \in EventRecords,
               events' = AppendRecord(events, record[s])
        PROVE  EventsAreGrounded'
    <2>1. Records(events') \subseteq Records(events) \cup {record[s]}
      BY <1>0, <1>8, RecordsAfter
    <2>2. \A e \in Records(events) \cup {record[s]} : e \in EventRecords /\ Grounded(e)
      BY <1>2, <1>5, <1>6, <1>8
    <2>3. \A e \in Records(events') : Grounded(e)'
      BY <1>4, <2>1, <2>2
    <2> QED
      BY <2>3 DEF EventsAreGrounded, Grounded
  <1>9. CASE events' = events \/ events' = AppendTorn(events)
    BY <1>0, <1>7, <1>9, TornFacts
  <1> QED
    BY <1>0, <1>8, <1>9, FilesAfter

\* Only a whole line on a whole file is ever acknowledged and readable.
LEMMA CompleteStep == ASSUME Inductive, [Next]_vars PROVE ReadableIsComplete'
  <1>0. /\ TypeOK /\ ReadableIsComplete
        /\ decisions \in Files(DecisionRecords) /\ events \in Files(EventRecords)
        /\ Corrupt \notin DecisionRecords /\ Corrupt \notin EventRecords
    BY FilesAreTyped DEF Inductive
  <1>1. CASE decisions' = decisions /\ events' = events /\ acked' = acked
    BY <1>0, <1>1 DEF ReadableIsComplete
  <1>2. CASE decisions' = AppendTorn(decisions) \/ events' = AppendTorn(events)
    BY <1>0, <1>2, TornFacts DEF ReadableIsComplete
  <1>3. ASSUME NEW r \in DecisionRecords, decisions' = AppendRecord(decisions, r),
               events' = events, acked' = acked \cup {r}
        PROVE  ReadableIsComplete'
    <2>1. /\ Readable(decisions') => Readable(decisions) /\ ~decisions.torn
          /\ Records(decisions') = Records(decisions) \cup (IF decisions.torn THEN {} ELSE {r})
      BY <1>0, <1>3, RecordsAfter
    <2> QED
      BY <1>0, <1>3, <2>1 DEF ReadableIsComplete
  <1>4. ASSUME NEW r \in EventRecords, events' = AppendRecord(events, r),
               decisions' = decisions, acked' = acked \cup {r}
        PROVE  ReadableIsComplete'
    <2>1. /\ Readable(events') => Readable(events) /\ ~events.torn
          /\ Records(events') = Records(events) \cup (IF events.torn THEN {} ELSE {r})
      BY <1>0, <1>4, RecordsAfter
    <2> QED
      BY <1>0, <1>4, <2>1 DEF ReadableIsComplete
  <1> QED
    BY <1>0, <1>1, <1>2, <1>3, <1>4, FilesAfter

\* Nothing has been written.
LEMMA InitHolds == Init => Inductive
  <1> SUFFICES ASSUME Init PROVE Inductive
    OBVIOUS
  <1>1. EmptyFile.lines = <<>> /\ ~EmptyFile.torn /\ EmptyFile \in [lines : Seq({}), torn : BOOLEAN]
    BY EmptySeq DEF EmptyFile
  <1>2. DOMAIN EmptyFile.lines = {}
    BY <1>1
  <1>3. \A id : At(EmptyFile, id) = {}
    BY <1>2 DEF At, Intact
  <1>4. Records(EmptyFile) = {}
    BY <1>2 DEF Records, Intact
  <1>5. EmptyFile \in Files(DecisionRecords) /\ EmptyFile \in Files(EventRecords)
    <2>1. <<>> \in Seq(DecisionRecords \cup {Corrupt}) /\ <<>> \in Seq(EventRecords \cup {Corrupt})
      BY EmptySeq
    <2> QED
      BY <2>1 DEF Files, EmptyFile
  <1>6. TypeOK
    BY <1>5 DEF Init, TypeOK, Files
  <1> QED
    BY <1>3, <1>4, <1>6 DEF Init, Inductive, FirstExists, LatestExists, EventsAreTerminal,
       EventsAreGrounded, HeldIsTrue, ReadableIsComplete

\* The inductive invariant of append_decision and append_status_event holds.
THEOREM InductiveHolds == Spec => []Inductive
  <1>1. Inductive /\ [Next]_vars => Inductive'
    <2> SUFFICES ASSUME Inductive, [Next]_vars PROVE Inductive'
      OBVIOUS
    <2>1. /\ TypeOK' /\ FirstExists' /\ LatestExists' /\ EventsAreTerminal'
          /\ EventsAreGrounded' /\ ReadableIsComplete'
      BY TypeStep, FirstStep, LatestStep, GroundedStep, CompleteStep
    <2>2. \A t \in Session : HeldIsTrue(t)'
      BY HeldStep
    <2> QED
      BY <2>1, <2>2 DEF Inductive
  <1> QED
    BY <1>1, InitHolds, PTL DEF Spec

\* For any sessions, ids, times and contents: records and sessions are typed,
\* and every event belongs to a decision recorded PENDING before it.
THEOREM LedgerHolds == Spec => []LedgerInvariant
  <1>1. Inductive => LedgerInvariant
    BY DEF Inductive, LedgerInvariant
  <1> QED
    BY <1>1, InductiveHolds, PTL

\* A history that reads without an error never hides an acknowledged record.
THEOREM ReadableHolds == Spec => []ReadableIsComplete
  <1>1. Inductive => ReadableIsComplete
    BY DEF Inductive
  <1> QED
    BY <1>1, InductiveHolds, PTL

-----------------------------------------------------------------------------
(* The two files implement DecisionOutcome.                                *)

outcomes == [d \in Ids |-> Outcome(d)]
rights == [s \in Session |-> Right(s)]

OutcomeOf(f, g, d) ==
    IF HasId(f, d) THEN Current(FirstWithId(f, d), g).status ELSE "ABSENT"

\* What a reader computes of a decision: its latest event, or how it was
\* recorded, or nothing.
LEMMA OutcomeIs ==
    ASSUME NEW f \in Files(DecisionRecords), NEW g, NEW d,
           At(f, d) # {} => \E i : IsFirst(f, d, i)
    PROVE  /\ ~HasId(f, d) => OutcomeOf(f, g, d) = "ABSENT"
           /\ HasId(f, d) /\ At(g, d) # {} => OutcomeOf(f, g, d) = LatestEvent(g, d).status
           /\ HasId(f, d) /\ At(g, d) = {} => OutcomeOf(f, g, d) = FirstWithId(f, d).status
  <1>1. HasId(f, d) => FirstWithId(f, d).id = d
    BY HasIdIsAt, FirstIsChosen
  <1> QED
    BY <1>1, HasIdIsAt DEF OutcomeOf, Current

\* The same before and after a step.
LEMMA Outcomes ==
    ASSUME Inductive, [Next]_vars, NEW d \in Ids
    PROVE  /\ ~HasId(decisions, d) => Outcome(d) = "ABSENT"
           /\ HasId(decisions, d) /\ At(events, d) # {} => Outcome(d) = LatestEvent(events, d).status
           /\ HasId(decisions, d) /\ At(events, d) = {} => Outcome(d) = FirstWithId(decisions, d).status
           /\ ~HasId(decisions', d) => Outcome(d)' = "ABSENT"
           /\ HasId(decisions', d) /\ At(events', d) # {} => Outcome(d)' = LatestEvent(events', d).status
           /\ HasId(decisions', d) /\ At(events', d) = {} => Outcome(d)' = FirstWithId(decisions', d).status
  <1>1. decisions \in Files(DecisionRecords) /\ FirstExists
    BY FilesAreTyped DEF Inductive
  <1>2. TypeOK' /\ FirstExists'
    BY TypeStep, FirstStep
  <1>3. decisions' \in Files(DecisionRecords)
    BY <1>2 DEF TypeOK, Files
  <1>4. At(decisions, d) # {} => \E i : IsFirst(decisions, d, i)
    BY <1>1 DEF FirstExists
  <1>5. At(decisions', d) # {} => \E i : IsFirst(decisions', d, i)
    BY <1>2 DEF FirstExists
  <1>6. Outcome(d) = OutcomeOf(decisions, events, d) /\ Outcome(d)' = OutcomeOf(decisions', events', d)
    BY DEF Outcome, OutcomeOf
  <1>7. /\ ~HasId(decisions, d) => OutcomeOf(decisions, events, d) = "ABSENT"
        /\ HasId(decisions, d) /\ At(events, d) # {}
             => OutcomeOf(decisions, events, d) = LatestEvent(events, d).status
        /\ HasId(decisions, d) /\ At(events, d) = {}
             => OutcomeOf(decisions, events, d) = FirstWithId(decisions, d).status
    BY <1>1, <1>4, OutcomeIs
  <1>8. /\ ~HasId(decisions', d) => OutcomeOf(decisions', events', d) = "ABSENT"
        /\ HasId(decisions', d) /\ At(events', d) # {}
             => OutcomeOf(decisions', events', d) = LatestEvent(events', d).status
        /\ HasId(decisions', d) /\ At(events', d) = {}
             => OutcomeOf(decisions', events', d) = FirstWithId(decisions', d).status
    BY <1>3, <1>5, OutcomeIs
  <1> QED
    BY <1>6, <1>7, <1>8

\* A decision nobody newly records or resolves keeps its outcome.
LEMMA OutcomeKept ==
    ASSUME Inductive, [Next]_vars, NEW d \in Ids,
           HasId(decisions', d) => HasId(decisions, d),
           At(events', d) = At(events, d),
           At(events, d) # {} => LatestEvent(events', d) = LatestEvent(events, d)
    PROVE  Outcome(d)' = Outcome(d)
  <1>1. HasId(decisions, d) => HasId(decisions', d) /\ FirstWithId(decisions', d) = FirstWithId(decisions, d)
    BY FirstStep
  <1> QED
    BY <1>1, Outcomes

\* A step that leaves the lines of both files alone changes no outcome.
LEMMA OutcomesKept ==
    ASSUME Inductive, [Next]_vars,
           decisions' = decisions \/ decisions' = AppendTorn(decisions),
           events' = events \/ events' = AppendTorn(events)
    PROVE  outcomes' = outcomes
  <1>0. decisions \in Files(DecisionRecords) /\ events \in Files(EventRecords)
    BY FilesAreTyped DEF Inductive
  <1>1. \A d : At(decisions', d) = At(decisions, d) /\ At(events', d) = At(events, d)
    BY <1>0, TornFacts
  <1>2. events'.lines = events.lines
    BY <1>0, TornFacts
  <1>3. \A d \in Ids : LatestEvent(events', d) = LatestEvent(events, d)
    <2>1. Intact(events') = Intact(events)
      BY <1>2 DEF Intact
    <2> QED
      BY <1>2, <2>1 DEF LatestEvent
  <1>4. ASSUME NEW d \in Ids PROVE Outcome(d)' = Outcome(d)
    BY <1>1, <1>3, HasIdIsAt, OutcomeKept
  <1> QED
    BY <1>4 DEF outcomes

\* What a step does to the outcome of a recorded decision: nothing, or a
\* session appended an event for it.
LEMMA OutcomeMoves ==
    ASSUME Inductive, [Next]_vars, NEW d \in Ids, HasId(decisions, d)
    PROVE  \/ Outcome(d)' = Outcome(d)
           \/ \E s \in Session : AppendEvent(s) /\ record[s].id = d
  <1>0. /\ TypeOK /\ decisions \in Files(DecisionRecords) /\ events \in Files(EventRecords)
        /\ Corrupt \notin EventRecords
    BY FilesAreTyped DEF Inductive
  <1>1. ASSUME At(events', d) = At(events, d), events'.lines = events.lines \/ events' = events
        PROVE  Outcome(d)' = Outcome(d)
    <2>1. LatestEvent(events', d) = LatestEvent(events, d)
      BY <1>1 DEF LatestEvent, At
    <2> QED
      BY <1>1, <2>1, OutcomeKept
  <1>2. CASE events' = events \/ events' = AppendTorn(events)
    BY <1>0, <1>1, <1>2, TornFacts
  <1>3. ASSUME NEW s \in Session, AppendEvent(s), record[s].id # d
        PROVE  Outcome(d)' = Outcome(d)
    <2>1. PICK r \in EventRecords : r = record[s]
      BY <1>0, <1>3 DEF AppendEvent, TypeOK
    <2>2. events' = AppendRecord(events, r) /\ decisions' = decisions
      BY <1>3, <2>1 DEF AppendEvent
    <2>3. /\ At(events', d) = At(events, d)
          /\ At(events, d) # {} => LatestEvent(events', d) = LatestEvent(events, d)
      BY <1>0, <1>3, <2>1, <2>2, LatestAfter DEF Inductive, LatestExists
    <2> QED
      BY <2>2, <2>3, OutcomeKept
  <1>4. events' = events \/ events' = AppendTorn(events) \/ \E s \in Session : AppendEvent(s)
    BY DEF Next, vars, BeginDecision, BeginEvent, CheckEvent, AppendDecision, TearDecision,
       TearEvent, Crash
  <1> QED
    BY <1>2, <1>3, <1>4

\* A session that passes its check resolves a decision that is PENDING.
LEMMA CheckedIsPending ==
    ASSUME Inductive, [Next]_vars, NEW s \in Session, CheckEvent(s), pc'[s] = "append_event"
    PROVE  /\ pc[s] = "check_event" /\ record' = record /\ record[s].id \in Ids
           /\ pc' = [pc EXCEPT ![s] = "append_event"]
           /\ decisions' = decisions /\ events' = events
           /\ contested' = contested \cup
                {d \in {record[s].id} : \E t \in Session \ {s} : Right(t) = d}
           /\ Outcome(record[s].id) = "PENDING"
  <1>0. TypeOK /\ DOMAIN pc = Session
    BY DEF Inductive, TypeOK
  <1>1. pc[s] = "check_event" /\ record[s] \in EventRecords /\ decisions' = decisions /\ events' = events
    BY <1>0 DEF CheckEvent, TypeOK
  <1>2. record[s].id \in Ids
    BY <1>1 DEF EventRecords
  <1>3. ~Idle(s)
    BY <1>0 DEF Idle
  <1>4. /\ Allowed(record[s], Current(found[s], events))
        /\ pc' = [pc EXCEPT ![s] = "append_event"] /\ record' = record
        /\ contested' = contested \cup
                {d \in {record[s].id} : \E t \in Session \ {s} : Right(t) = d}
    BY <1>3 DEF CheckEvent
  <1>5. HasId(decisions, record[s].id) /\ found[s] = FirstWithId(decisions, record[s].id)
    BY <1>1 DEF Inductive, HeldIsTrue
  <1>6. Outcome(record[s].id) = Current(found[s], events).status
    BY <1>5 DEF Outcome
  <1> QED
    BY <1>1, <1>2, <1>4, <1>6 DEF Allowed

\* Two sessions past their checks of one decision have contested it; a
\* session past its check of any other decision finds it still PENDING.
RightsAreFresh ==
    /\ \A s \in Session, t \in Session :
          s # t /\ pc[s] = "append_event" /\ pc[t] = "append_event" /\ record[s].id = record[t].id
             => record[s].id \in contested
    /\ \A s \in Session :
          pc[s] = "append_event"
             => Outcome(record[s].id) = "PENDING" \/ record[s].id \in contested

\* A session that is past its check after a step was so before, with the same
\* event, or has just passed it.
LEMMA HolderBefore ==
    ASSUME TypeOK, [Next]_vars, NEW t \in Session, pc'[t] = "append_event"
    PROVE  \/ pc[t] = "append_event" /\ record'[t] = record[t]
           \/ CheckEvent(t)
  <1>1. ASSUME NEW e \in EventRecords, BeginEvent(t, e) PROVE FALSE
    BY <1>1 DEF BeginEvent, TypeOK
  <1> QED
    BY <1>1, SessionAfter

\* Contested decisions stay contested.
LEMMA ContestedGrows == ASSUME [Next]_vars PROVE contested \subseteq contested'
  BY DEF Next, vars, BeginDecision, BeginEvent, CheckEvent, AppendDecision, AppendEvent,
     TearDecision, TearEvent, Crash

\* A session keeps its right to an unresolved decision, or was contested.
LEMMA FreshStep == ASSUME Inductive, RightsAreFresh, [Next]_vars PROVE RightsAreFresh'
  <1>0. TypeOK /\ DOMAIN pc = Session
    BY DEF Inductive, TypeOK
  <1>1. ASSUME NEW s \in Session, NEW t \in Session, s # t, pc'[s] = "append_event",
               pc'[t] = "append_event", record'[s].id = record'[t].id, CheckEvent(s)
        PROVE  record'[s].id \in contested'
    <2>1. /\ record' = record /\ pc' = [pc EXCEPT ![s] = "append_event"]
          /\ contested' = contested \cup
                {d \in {record[s].id} : \E u \in Session \ {s} : Right(u) = d}
      BY <1>1, CheckedIsPending
    <2>2. pc[t] = "append_event"
      BY <1>0, <1>1, <2>1
    <2>3. Right(t) = record[t].id
      BY <2>2 DEF Right
    <2> QED
      BY <1>1, <2>1, <2>3
  <1>2. ASSUME NEW s \in Session, NEW t \in Session, s # t, pc'[s] = "append_event",
               pc'[t] = "append_event", record'[s].id = record'[t].id
        PROVE  record'[s].id \in contested'
    <2>1. CASE CheckEvent(s)
      BY <1>1, <1>2, <2>1
    <2>2. CASE CheckEvent(t)
      BY <1>1, <1>2, <2>2
    <2>3. CASE ~CheckEvent(s) /\ ~CheckEvent(t)
      <3>1. /\ pc[s] = "append_event" /\ record'[s] = record[s]
            /\ pc[t] = "append_event" /\ record'[t] = record[t]
        BY <1>0, <1>2, <2>3, HolderBefore
      <3> QED
        BY <1>2, <3>1, ContestedGrows DEF RightsAreFresh
    <2> QED
      BY <2>1, <2>2, <2>3
  <1>3. ASSUME NEW t \in Session, pc'[t] = "append_event"
        PROVE  (Outcome(record[t].id) = "PENDING" \/ record[t].id \in contested)'
    <2>1. CASE CheckEvent(t)
      <3>1. /\ record' = record /\ decisions' = decisions /\ events' = events
            /\ Outcome(record[t].id) = "PENDING"
        BY <1>3, <2>1, CheckedIsPending
      <3> QED
        BY <3>1 DEF Outcome
    <2>2. CASE pc[t] = "append_event" /\ record'[t] = record[t]
      <3>1. PICK d \in Ids : d = record[t].id
        BY <1>0, <2>2 DEF TypeOK, EventRecords
      <3>2. HasId(decisions, d)
        BY <2>2, <3>1 DEF Inductive, HeldIsTrue
      <3>3. CASE Outcome(d)' = Outcome(d)
        <4>1. Outcome(d) = "PENDING" \/ d \in contested
          BY <2>2, <3>1 DEF RightsAreFresh
        <4>2. record'[t].id = d
          BY <2>2, <3>1
        <4> QED
          BY <3>3, <4>1, <4>2, ContestedGrows
      <3>4. ASSUME NEW s \in Session, AppendEvent(s), record[s].id = d
            PROVE  d \in contested'
        <4>1. pc[s] = "append_event" /\ pc' = [pc EXCEPT ![s] = "idle"]
          BY <3>4 DEF AppendEvent, Idle
        <4>2. s # t
          BY <1>0, <1>3, <4>1
        <4> QED
          BY <2>2, <3>1, <3>4, <4>1, <4>2, ContestedGrows DEF RightsAreFresh
      <3> QED
        BY <2>2, <3>1, <3>2, <3>3, <3>4, OutcomeMoves
    <2> QED
      BY <1>0, <1>3, <2>1, <2>2, HolderBefore
  <1> QED
    BY <1>2, <1>3 DEF RightsAreFresh

\* The rights of append_status_event are fresh or contested, at every moment.
THEOREM FreshHolds == Spec => []RightsAreFresh
  <1>1. Init => RightsAreFresh
    BY DEF Init, RightsAreFresh
  <1> QED
    BY <1>1, FreshStep, InductiveHolds, PTL DEF Spec

\* For any sessions and any files: once append_status_event has resolved a
\* decision, its outcome never changes, unless two sessions had both checked
\* that decision before either appended its event.
THEOREM OutcomesAreFinal ==
    Spec => [][\A d \in Ids : Outcome(d) \in Terminal
                 => Outcome(d)' = Outcome(d) \/ d \in contested]_vars
  <1>1. ASSUME Inductive, RightsAreFresh, [Next]_vars, NEW d \in Ids,
               Outcome(d) \in Terminal, d \notin contested
        PROVE  Outcome(d)' = Outcome(d)
    <2>1. HasId(decisions, d)
      BY <1>1 DEF Outcome, Terminal
    <2>2. ASSUME NEW s \in Session, AppendEvent(s), record[s].id = d PROVE FALSE
      BY <1>1, <2>2 DEF AppendEvent, RightsAreFresh, Terminal
    <2> QED
      BY <1>1, <2>1, <2>2, OutcomeMoves
  <1>2. Inductive /\ RightsAreFresh /\ [Next]_vars
          => [\A d \in Ids : Outcome(d) \in Terminal
                 => Outcome(d)' = Outcome(d) \/ d \in contested]_vars
    BY <1>1
  <1> QED
    BY <1>2, InductiveHolds, FreshHolds, PTL DEF Spec

\* A session that is done has no right left.
LEMMA RightsAfter ==
    ASSUME TypeOK, NEW s \in Session, Idle(s)
    PROVE  rights' = [rights EXCEPT ![s] = "NOTHING"]
  <1>1. /\ DOMAIN pc = Session /\ DOMAIN record = Session
        /\ pc' = [pc EXCEPT ![s] = "idle"] /\ record' = [record EXCEPT ![s] = NoRecord]
    BY DEF TypeOK, Idle
  <1>2. pc'[s] = "idle" /\ \A t \in Session \ {s} : pc'[t] = pc[t] /\ record'[t] = record[t]
    BY <1>1
  <1> QED
    BY <1>2 DEF rights, Right

\* The right of a session is the id whose event it is about to append.
LEMMA RightIs ==
    ASSUME TypeOK, NEW s \in Session
    PROVE  /\ pc[s] = "append_event" => rights[s] = record[s].id /\ rights[s] \in Ids /\ rights[s] # "NOTHING"
           /\ pc[s] # "append_event" => rights[s] = "NOTHING"
  <1>1. pc[s] = "append_event" => record[s].id \in Ids
    BY DEF TypeOK, EventRecords
  <1> QED
    BY <1>1, LedgerAssumption DEF rights, Right

\* Every step of the ledger is a step of its promise or changes nothing of it.
LEMMA PromiseStep ==
    ASSUME Inductive, RightsAreFresh, [Next]_vars
    PROVE  [Promise!Next]_<<outcomes, rights, contested>>
  <1> DEFINE Goal == [Promise!Next]_<<outcomes, rights, contested>>
  <1>0. TypeOK /\ DOMAIN pc = Session /\ DOMAIN record = Session
    BY DEF Inductive, TypeOK
  <1>1. ASSUME NEW s \in Session, Idle(s), outcomes' = outcomes, contested' = contested
        PROVE  Goal
    <2>1. rights' = [rights EXCEPT ![s] = "NOTHING"]
      BY <1>0, <1>1, RightsAfter
    <2>2. CASE pc[s] = "append_event"
      <3>1. Promise!Drop(s)
        BY <1>0, <1>1, <2>1, <2>2, RightIs DEF Promise!Drop, outcomes, rights, Right
      <3> QED
        BY <3>1 DEF Promise!Next
    <2>3. CASE pc[s] # "append_event"
      <3>1. rights[s] = "NOTHING"
        BY <1>0, <2>3, RightIs
      <3>2. rights' = rights
        BY <2>1, <3>1 DEF rights, Right
      <3> QED
        BY <1>1, <3>2
    <2> QED
      BY <2>2, <2>3
  <1>2. ASSUME NEW s \in Session, pc[s] = "idle", decisions' = decisions, events' = events,
               pc' = [pc EXCEPT ![s] = "append_decision"] \/ pc' = [pc EXCEPT ![s] = "check_event"],
               NEW r, record' = [record EXCEPT ![s] = r], contested' = contested
        PROVE  Goal
    <2>1. /\ pc'[s] # "append_event" /\ pc[s] # "append_event"
          /\ \A t \in Session \ {s} : pc'[t] = pc[t] /\ record'[t] = record[t]
      BY <1>0, <1>2
    <2>2. rights' = rights
      BY <2>1 DEF rights, Right
    <2> QED
      BY <1>2, <2>2, OutcomesKept
  <1>3. ASSUME NEW s \in Session, CheckEvent(s) PROVE Goal
    <2>1. outcomes' = outcomes
      BY <1>3, OutcomesKept DEF CheckEvent
    <2>2. CASE Idle(s) /\ UNCHANGED contested
      BY <1>1, <2>1, <2>2
    <2>3. CASE pc'[s] = "append_event"
      <3>1. /\ pc[s] = "check_event" /\ record' = record /\ record[s].id \in Ids
            /\ pc' = [pc EXCEPT ![s] = "append_event"]
            /\ contested' = contested \cup
                 {d \in {record[s].id} : \E t \in Session \ {s} : Right(t) = d}
            /\ Outcome(record[s].id) = "PENDING"
        BY <1>3, <2>3, CheckedIsPending
      <3>2. record[s].id \in Ids /\ rights[s] = "NOTHING"
        BY <1>0, <3>1, RightIs
      <3>3. outcomes[record[s].id] = "PENDING"
        BY <3>1 DEF outcomes
      <3>4. rights' = [rights EXCEPT ![s] = record[s].id]
        <4>1. \A t \in Session \ {s} : pc'[t] = pc[t] /\ record'[t] = record[t]
          BY <1>0, <3>1
        <4> QED
          BY <2>3, <3>1, <4>1 DEF rights, Right
      <3>5. PICK d \in Ids : d = record[s].id
        BY <3>2
      <3>6. Promise!Grant(s, d)
        <4>1. contested' = contested \cup {c \in {d} : \E t \in Session \ {s} : rights[t] = c}
          BY <3>1, <3>5 DEF rights
        <4> QED
          BY <2>1, <3>2, <3>3, <3>4, <3>5, <4>1 DEF Promise!Grant, outcomes, rights, Right
      <3>7. Promise!Next
        BY <3>6 DEF Promise!Next
      <3> QED
        BY <3>7
    <2>4. ASSUME pc' = [pc EXCEPT ![s] = "append_event"] PROVE pc'[s] = "append_event"
      BY <1>0, <2>4
    <2> QED
      BY <1>3, <2>2, <2>3, <2>4 DEF CheckEvent
  <1>4. ASSUME NEW s \in Session, AppendDecision(s) PROVE Goal
    <2>0. PICK r \in DecisionRecords : r = record[s]
      BY <1>0, <1>4 DEF AppendDecision, TypeOK
    <2>1. /\ pc[s] = "append_decision"
          /\ decisions' = AppendRecord(decisions, r) /\ events' = events /\ Idle(s)
          /\ contested' = contested
      BY <1>4, <2>0 DEF AppendDecision
    <2>2. /\ decisions \in Files(DecisionRecords) /\ Corrupt \notin DecisionRecords
          /\ r.id \in Ids /\ r.status \in Statuses
      BY <1>0, <2>1, FilesAreTyped DEF DecisionRecords
    <2>3. rights' = rights
      <3>1. rights' = [rights EXCEPT ![s] = "NOTHING"] /\ rights[s] = "NOTHING"
        BY <1>0, <2>1, RightsAfter, RightIs
      <3> QED
        BY <3>1 DEF rights, Right
    <2>4. \A d \in Ids : At(decisions', d) = At(decisions, d) \cup
              (IF ~decisions.torn /\ r.id = d THEN {Len(decisions.lines) + 1} ELSE {})
      BY <2>1, <2>2, AtAfter
    <2>5. ASSUME NEW d \in Ids, ~(~decisions.torn /\ r.id = d) \/ HasId(decisions, d)
          PROVE  Outcome(d)' = Outcome(d)
      BY <2>1, <2>4, <2>5, HasIdIsAt, OutcomeKept
    <2>6. CASE decisions.torn \/ HasId(decisions, r.id)
      <3>1. outcomes' = outcomes
        BY <2>5, <2>6 DEF outcomes
      <3> QED
        BY <2>1, <2>3, <3>1
    <2>7. CASE ~decisions.torn /\ ~HasId(decisions, r.id)
      <3>1. Outcome(r.id) = "ABSENT"
        BY <2>2, <2>7, Outcomes
      <3>2. Outcome(r.id)' = r.status
        <4>1. /\ FirstWithId(decisions', r.id) = r
              /\ IsFirst(decisions', r.id, Len(decisions.lines) + 1)
          BY <2>1, <2>2, <2>7, HasIdIsAt, FirstIsNew
        <4>2. HasId(decisions', r.id)
          BY <4>1, HasIdIsAt DEF IsFirst
        <4>3. At(events', r.id) = {}
          <5>1. \A e \in Records(events) : HasId(decisions, e.id)
            BY DEF Inductive, EventsAreGrounded
          <5>2. ~HasId(events, r.id)
            BY <2>7, <5>1 DEF HasId
          <5> QED
            BY <2>1, <5>2, HasIdIsAt
        <4>4. Outcome(r.id)' = FirstWithId(decisions', r.id).status
          BY <2>2, <4>2, <4>3, Outcomes
        <4> QED
          BY <4>1, <4>4
      <3>3. outcomes' = [outcomes EXCEPT ![r.id] = r.status] /\ outcomes[r.id] = "ABSENT"
        BY <2>2, <2>5, <3>1, <3>2 DEF outcomes
      <3>4. Promise!Register(r.id, r.status)
        BY <2>1, <2>3, <3>3 DEF Promise!Register, outcomes, rights, Right
      <3>5. r.status \in Promise!Statuses
        BY <2>2 DEF Statuses, Terminal, Promise!Statuses, Promise!Terminal
      <3> QED
        BY <2>2, <3>4, <3>5 DEF Promise!Next
    <2> QED
      BY <2>6, <2>7
  <1>5. ASSUME NEW s \in Session, AppendEvent(s) PROVE Goal
    <2>0. PICK r \in EventRecords : r = record[s]
      BY <1>0, <1>5 DEF AppendEvent, TypeOK
    <2>1. /\ pc[s] = "append_event" /\ r.id \in Ids
          /\ events' = AppendRecord(events, r) /\ decisions' = decisions /\ Idle(s)
          /\ contested' = contested
      BY <1>5, <2>0 DEF AppendEvent, EventRecords
    <2>2. /\ events \in Files(EventRecords) /\ Corrupt \notin EventRecords
          /\ r.status \in Terminal /\ HasId(decisions, r.id)
      BY <1>0, <2>0, <2>1, FilesAreTyped DEF Inductive, HeldIsTrue
    <2>3. /\ rights' = [rights EXCEPT ![s] = "NOTHING"]
          /\ rights[s] = r.id /\ rights[s] # "NOTHING"
      BY <1>0, <2>0, <2>1, RightsAfter, RightIs
    <2>4. ASSUME NEW d \in Ids
          PROVE  \/ At(events', d) = At(events, d)
                    /\ (At(events, d) # {} => LatestEvent(events', d) = LatestEvent(events, d))
                 \/ /\ ~events.torn /\ r.id = d
                    /\ \/ LatestEvent(events', d) = r
                       \/ At(events, d) # {} /\ LatestEvent(events', d) = LatestEvent(events, d)
      BY <2>1, <2>2, LatestAfter DEF Inductive, LatestExists
    <2>5. ASSUME NEW d \in Ids, d # r.id PROVE Outcome(d)' = Outcome(d)
      BY <2>1, <2>4, <2>5, OutcomeKept
    <2>6. Outcome(r.id)' = Outcome(r.id) \/ Outcome(r.id)' = r.status
      <3>1. CASE At(events', r.id) = At(events, r.id)
                 /\ (At(events, r.id) # {} => LatestEvent(events', r.id) = LatestEvent(events, r.id))
        BY <2>1, <3>1, OutcomeKept
      <3>2. CASE ~events.torn /\ (\/ LatestEvent(events', r.id) = r
                                  \/ At(events, r.id) # {}
                                     /\ LatestEvent(events', r.id) = LatestEvent(events, r.id))
        <4>1. At(events', r.id) # {}
          BY <2>1, <2>2, <3>2, AtAfter
        <4>2. Outcome(r.id)' = LatestEvent(events', r.id).status
          BY <2>1, <2>2, <4>1, Outcomes
        <4> QED
          BY <2>1, <2>2, <3>2, <4>2, Outcomes
      <3> QED
        BY <2>1, <2>4, <3>1, <3>2
    <2>7. CASE Outcome(r.id)' = Outcome(r.id)
      <3>1. outcomes' = outcomes
        BY <2>5, <2>7 DEF outcomes
      <3> QED
        BY <1>1, <2>1, <3>1
    <2>8. CASE Outcome(r.id)' = r.status
      <3>1. outcomes' = [outcomes EXCEPT ![rights[s]] = r.status]
        BY <2>1, <2>3, <2>5, <2>8 DEF outcomes
      <3>0. Outcome(r.id) = "PENDING" \/ r.id \in contested
        BY <2>0, <2>1 DEF RightsAreFresh
      <3>2. Promise!Resolve(s, r.status)
        BY <2>1, <2>3, <3>0, <3>1 DEF Promise!Resolve, outcomes, rights, Right
      <3>3. r.status \in Promise!Terminal
        BY <2>2 DEF Terminal, Promise!Terminal
      <3>4. Promise!Next
        BY <3>2, <3>3 DEF Promise!Next
      <3> QED
        BY <3>4
    <2> QED
      BY <2>6, <2>7, <2>8
  <1>6. CASE UNCHANGED vars
    <2>1. outcomes' = outcomes
      BY <1>6, OutcomesKept DEF vars
    <2>2. rights' = rights
      BY <1>6 DEF vars, rights, Right
    <2> QED
      BY <1>6, <2>1, <2>2 DEF vars
  <1>7. CASE Next
    <2>1. PICK s \in Session :
             \/ \E r \in DecisionRecords : BeginDecision(s, r)
             \/ \E e \in EventRecords : BeginEvent(s, e)
             \/ CheckEvent(s) \/ AppendDecision(s) \/ AppendEvent(s)
             \/ TearDecision(s) \/ TearEvent(s) \/ Crash(s)
      BY <1>7 DEF Next
    <2>2. ASSUME NEW r \in DecisionRecords, BeginDecision(s, r) PROVE Goal
      BY <1>2, <2>2 DEF BeginDecision
    <2>3. ASSUME NEW e \in EventRecords, BeginEvent(s, e) PROVE Goal
      BY <1>2, <2>3 DEF BeginEvent
    <2>4. CASE TearDecision(s) \/ TearEvent(s) \/ Crash(s)
      <3>1. Idle(s)
        BY <2>4 DEF TearDecision, TearEvent, Crash
      <3>2. outcomes' = outcomes /\ contested' = contested
        BY <2>4, OutcomesKept DEF TearDecision, TearEvent, Crash
      <3> QED
        BY <1>1, <3>1, <3>2
    <2>5. CASE (\E r \in DecisionRecords : BeginDecision(s, r)) \/ (\E e \in EventRecords : BeginEvent(s, e))
      BY <2>2, <2>3, <2>5
    <2> QED
      BY <1>3, <1>4, <1>5, <2>1, <2>4, <2>5
  <1> QED
    BY <1>6, <1>7

\* For any sessions and ids: however sessions interleave, die and tear their
\* writes, the two files implement the history DecisionOutcome promises, in
\* which only a contested decision's outcome is ever replaced.
THEOREM PromiseHolds == Spec => ImplementsPromise
  <1>1. Init => Promise!Init
    <2> SUFFICES ASSUME Init PROVE Promise!Init
      OBVIOUS
    <2>1. \A d : ~HasId(EmptyFile, d)
      <3>1. Records(EmptyFile) = {}
        BY DEF EmptyFile, Records, Intact
      <3> QED
        BY <3>1 DEF HasId
    <2>2. \A d \in Ids : Outcome(d) = "ABSENT"
      BY <2>1 DEF Init, Outcome
    <2>3. \A s \in Session : pc[s] # "append_event"
      BY DEF Init
    <2> QED
      BY <2>2, <2>3 DEF Promise!Init, Init, Right
  <1>2. Inductive /\ RightsAreFresh /\ [Next]_vars
          => [Promise!Next]_<<[d \in Ids |-> Outcome(d)], [s \in Session |-> Right(s)], contested>>
    BY PromiseStep DEF outcomes, rights
  <1> QED
    BY <1>1, <1>2, InductiveHolds, FreshHolds, PTL DEF Spec, ImplementsPromise, Promise!Spec

=============================================================================
