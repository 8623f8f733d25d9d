------------------------ MODULE RuntimeStoresProofs ------------------------
(***************************************************************************)
(* The append-only stores, for any number of sessions, values, batches and *)
(* confirmations, and for kills, torn writes and refusals at any step: a   *)
(* file that can be read misses nothing that was acknowledged; without a   *)
(* race no acknowledged record is lost, every key is stored once and the   *)
(* revisions of a point fork only at a late result; with races a key is    *)
(* stored at most once for every session.                                  *)
(***************************************************************************)
EXTENDS RuntimeStores, FiniteSetTheorems, SequenceTheorems, WellFoundedInduction, TLAPS

Keys == UNION {Elements(page) : page \in Pages}
StoredValues(file) == {o.value : o \in Elements(file)}

CollectJobs == [kind : {"collect"}, pc : {"mark", "check", "write", "event", "log", "done"},
                value : Values, at : 1..MaxFetches, supersedes : Values \cup {None}]
ImportJobs == [kind : {"import"}, pc : {"append", "done"}, page : Pages,
               todo : Seq(Keys), existing : SUBSET Keys]
ResolveJobs == [kind : {"resolve"}, pc : {"check", "write", "done"}, record : Resolutions]
Jobs == {Idle} \cup CollectJobs \cup ImportJobs \cup ResolveJobs

\* The files hold lines of their kind, and each session does one job.
Typed ==
    /\ observations \in Seq(Observations) /\ events \in Seq(Answers)
    /\ fills \in Seq(Keys) /\ resolutions \in Seq(Resolutions)
    /\ answers \subseteq Answers /\ IsFiniteSet(answers)
    /\ raced \subseteq {"collect", "import", "resolve"}
    /\ torn \subseteq Files /\ spoiled \subseteq Files
    /\ job \in [Session -> Jobs]

\* How far a job has come is in the files it was to write, or the file is
\* among the lost ones.
ProgressOf(j, obs, log, trades, confirmed, lost) ==
    /\ j \in CollectJobs =>
        /\ j.pc \in {"event", "log", "done"} /\ "observations" \notin lost =>
                j.value \in StoredValues(obs)
        /\ j.pc = "done" /\ "events" \notin lost =>
                [value |-> j.value, at |-> j.at] \in Elements(log)
    /\ j \in ImportJobs =>
        /\ "fills" \notin lost =>
            /\ Elements(j.page) \subseteq Elements(trades) \cup Elements(j.todo)
            /\ j.existing \subseteq Elements(trades)
        /\ j.pc = "done" => j.todo = <<>>
    /\ j \in ResolveJobs =>
        (j.pc = "done" /\ "resolutions" \notin lost => j.record \in Elements(confirmed))

Progress(s) == ProgressOf(job[s], observations, events, fills, resolutions, spoiled)

AckedInv == Typed /\ EventsHaveObservations /\ \A s \in Session : Progress(s)

-----------------------------------------------------------------------------
(* Files and jobs.                                                         *)

\* Appending keeps the lines where they were and adds one at the end.
LEMMA AppendFacts ==
    ASSUME NEW S, NEW file \in Seq(S), NEW x \in S
    PROVE  /\ Append(file, x) \in Seq(S)
           /\ Len(file) \in Nat
           /\ DOMAIN file = 1 .. Len(file)
           /\ DOMAIN Append(file, x) = DOMAIN file \cup {Len(file) + 1}
           /\ \A i \in DOMAIN file : Append(file, x)[i] = file[i]
           /\ Append(file, x)[Len(file) + 1] = x
           /\ Len(file) + 1 \notin DOMAIN file
  OBVIOUS

\* A line appended to a file is one more element of it.
LEMMA ElementsAfter ==
    ASSUME NEW S, NEW file \in Seq(S), NEW x \in S
    PROVE  Elements(Append(file, x)) = Elements(file) \cup {x}
  BY AppendFacts DEF Elements

\* A line appended after a fragment is lost, and the file is marked for it;
\* otherwise it is there.
LEMMA AppendedFacts ==
    ASSUME NEW S, NEW lines \in Seq(S), NEW x \in S, NEW file \in Files,
           torn \subseteq Files, spoiled \subseteq Files, LineEnds(file)
    PROVE  /\ Appended(file, lines, x) \in Seq(S)
           /\ Elements(lines) \subseteq Elements(Appended(file, lines, x))
           /\ Elements(Appended(file, lines, x)) \subseteq Elements(lines) \cup {x}
           /\ file \notin spoiled' =>
                Elements(Appended(file, lines, x)) = Elements(lines) \cup {x}
           /\ torn' \subseteq Files /\ spoiled' \subseteq Files /\ spoiled \subseteq spoiled'
  <1>1. /\ torn' \subseteq Files /\ spoiled' \subseteq Files /\ spoiled \subseteq spoiled'
        /\ file \notin spoiled' => file \notin torn
    BY DEF LineEnds
  <1>2. CASE file \in torn
    BY <1>1, <1>2 DEF Appended
  <1>3. CASE file \notin torn
    BY <1>1, <1>3, AppendFacts, ElementsAfter DEF Appended
  <1> QED
    BY <1>2, <1>3

\* A batch is its first key and the rest.
LEMMA HeadAndTail ==
    ASSUME NEW S, NEW file \in Seq(S), file # <<>>
    PROVE  /\ Head(file) \in S /\ Tail(file) \in Seq(S)
           /\ Elements(file) = {Head(file)} \cup Elements(Tail(file))
  <1>1. /\ Head(file) \in S /\ Tail(file) \in Seq(S)
        /\ Len(file) \in Nat /\ Len(file) # 0
        /\ DOMAIN file = 1 .. Len(file)
        /\ Head(file) = file[1]
        /\ DOMAIN Tail(file) = 1 .. Len(file) - 1
        /\ \A i \in 1 .. Len(file) - 1 : Tail(file)[i] = file[i + 1]
    OBVIOUS
  <1>2. ASSUME NEW i \in DOMAIN file
        PROVE  file[i] \in {Head(file)} \cup Elements(Tail(file))
    <2>1. CASE i = 1
      BY <1>1, <2>1
    <2>2. CASE i # 1
      <3>1. i - 1 \in DOMAIN Tail(file) /\ file[i] = Tail(file)[i - 1]
        BY <1>1, <2>2
      <3> QED
        BY <3>1 DEF Elements
    <2> QED
      BY <2>1, <2>2
  <1>3. ASSUME NEW i \in DOMAIN Tail(file)
        PROVE  Tail(file)[i] \in Elements(file)
    <2>1. i + 1 \in DOMAIN file /\ Tail(file)[i] = file[i + 1]
      BY <1>1
    <2> QED
      BY <2>1 DEF Elements
  <1>4. Head(file) \in Elements(file)
    BY <1>1 DEF Elements
  <1> QED
    BY <1>1, <1>2, <1>3, <1>4 DEF Elements

\* The pages hand over keys.
LEMMA PageType == \A page \in Pages : page \in Seq(Keys) /\ Elements(page) \subseteq Keys
  BY StoresAssumption, SeqMonotonic DEF Keys

\* A set of natural numbers that is not empty has a least element.
LEMMA LeastNatural ==
    ASSUME NEW T \in SUBSET Nat, T # {}
    PROVE  \E m \in T : \A n \in T : m <= n
  <1>1. IsWellFoundedOn(OpToRel(<, Nat), Nat)
    BY NatLessThanWellFounded
  <1>2. PICK x \in T : \A y \in T : ~(<<y, x>> \in OpToRel(<, Nat))
    BY <1>1, WFMin
  <1>3. \A y \in T : ~(y < x)
    BY <1>2 DEF OpToRel
  <1> QED
    BY <1>3

\* latest_same_point_observation finds one of the lines: among those of the
\* newest fetch there is a first.
LEMMA LatestIsALine ==
    ASSUME NEW file \in Seq(Observations), file # <<>>
    PROVE  /\ LatestSamePoint(file) \in Observations
           /\ \E m \in DOMAIN file :
                /\ LatestSamePoint(file) = file[m]
                /\ \A j \in DOMAIN file : file[j].at <= file[m].at
  <1> DEFINE Ages == {MaxFetches - file[i].at : i \in DOMAIN file}
             Newest(i) == \A j \in DOMAIN file : file[j].at <= file[i].at
             First(i) == \A j \in DOMAIN file :
                            (file[j].at < file[i].at) \/ (file[j].at = file[i].at /\ i <= j)
  <1>1. /\ DOMAIN file = 1 .. Len(file) /\ Len(file) \in Nat /\ 1 \in DOMAIN file
        /\ \A i \in DOMAIN file : file[i] \in Observations
    OBVIOUS
  <1>2. \A i \in DOMAIN file : file[i].at \in 1 .. MaxFetches
    BY <1>1 DEF Observations
  <1>3. Ages \in SUBSET Nat /\ Ages # {}
    BY <1>1, <1>2, StoresAssumption
  <1>4. PICK n \in DOMAIN file : \A a \in Ages : MaxFetches - file[n].at <= a
    BY <1>3, LeastNatural
  <1>5. Newest(n)
    <2> SUFFICES ASSUME NEW j \in DOMAIN file PROVE file[j].at <= file[n].at
      OBVIOUS
    <2>1. MaxFetches - file[n].at <= MaxFetches - file[j].at
      BY <1>4
    <2> QED
      BY <1>2, <2>1, StoresAssumption
  <1> DEFINE Ns == {i \in DOMAIN file : Newest(i)}
  <1>6. Ns \in SUBSET Nat /\ Ns # {}
    <2>1. \A i \in DOMAIN file : i \in Nat
      BY <1>1
    <2>2. n \in Ns
      BY <1>5
    <2> HIDE DEF Newest
    <2> QED
      BY <2>1, <2>2
  <1>7. PICK m \in Ns : \A i \in Ns : m <= i
    BY <1>6, LeastNatural
  <1>8. First(m)
    <2> SUFFICES ASSUME NEW j \in DOMAIN file, ~(file[j].at < file[m].at)
                 PROVE  file[j].at = file[m].at /\ m <= j
      OBVIOUS
    <2>1. file[j].at = file[m].at
      BY <1>2, <1>7
    <2>2. j \in Ns
      BY <1>7, <2>1
    <2> QED
      BY <1>7, <2>1, <2>2
  <1> DEFINE latest == CHOOSE i \in DOMAIN file : First(i)
  <1>9. latest \in DOMAIN file /\ First(latest)
    BY <1>7, <1>8
  <1>10. LatestSamePoint(file) = file[latest]
    BY DEF LatestSamePoint
  <1> HIDE DEF latest
  <1>11. \A j \in DOMAIN file : file[j].at <= file[latest].at
    BY <1>2, <1>9
  <1> QED
    BY <1>1, <1>9, <1>10, <1>11

\* What a job is, by its kind.
LEMMA JobKinds ==
    ASSUME NEW j \in Jobs
    PROVE  /\ j.kind \in {"idle", "collect", "import", "resolve"}
           /\ j.kind = "collect" <=> j \in CollectJobs
           /\ j.kind = "import" <=> j \in ImportJobs
           /\ j.kind = "resolve" <=> j \in ResolveJobs
  BY DEF Jobs, Idle, CollectJobs, ImportJobs, ResolveJobs

\* The kinds exclude one another.
LEMMA KindsExclude ==
    /\ CollectJobs \cap ImportJobs = {} /\ CollectJobs \cap ResolveJobs = {}
    /\ ImportJobs \cap ResolveJobs = {}
    /\ Idle \notin CollectJobs /\ Idle \notin ImportJobs /\ Idle \notin ResolveJobs
  BY DEF Idle, CollectJobs, ImportJobs, ResolveJobs

\* What other sessions append takes no job back.
LEMMA ProgressStays ==
    ASSUME NEW j, NEW obs, NEW log, NEW trades, NEW confirmed, NEW lost,
           NEW obs2, NEW log2, NEW trades2, NEW confirmed2, NEW lost2,
           ProgressOf(j, obs, log, trades, confirmed, lost), lost \subseteq lost2,
           Elements(obs) \subseteq Elements(obs2), Elements(log) \subseteq Elements(log2),
           Elements(trades) \subseteq Elements(trades2),
           Elements(confirmed) \subseteq Elements(confirmed2)
    PROVE  ProgressOf(j, obs2, log2, trades2, confirmed2, lost2)
  BY DEF ProgressOf, StoredValues

\* A session that does nothing has nothing to show.
LEMMA IdleProgress ==
    ASSUME NEW obs, NEW log, NEW trades, NEW confirmed, NEW lost
    PROVE  ProgressOf(Idle, obs, log, trades, confirmed, lost)
  BY KindsExclude DEF ProgressOf

\* One session moves, the others stay where they are.
LEMMA Moved ==
    ASSUME Typed, NEW s \in Session, NEW j \in Jobs, job' = [job EXCEPT ![s] = j]
    PROVE  /\ job' \in [Session -> Jobs] /\ job'[s] = j
           /\ \A t \in Session : t # s => job'[t] = job[t]
  BY DEF Typed

\* A move of one session that only appends keeps the invariant, if the session
\* itself has made the progress it claims.
LEMMA AckedMove ==
    ASSUME AckedInv, NEW s \in Session, NEW j \in Jobs, job' = [job EXCEPT ![s] = j],
           observations' \in Seq(Observations), events' \in Seq(Answers),
           fills' \in Seq(Keys), resolutions' \in Seq(Resolutions),
           answers' \subseteq Answers, IsFiniteSet(answers'),
           raced' \subseteq {"collect", "import", "resolve"},
           Elements(observations) \subseteq Elements(observations'),
           Elements(events) \subseteq Elements(events'),
           Elements(fills) \subseteq Elements(fills'),
           Elements(resolutions) \subseteq Elements(resolutions'),
           torn' \subseteq Files, spoiled' \subseteq Files, spoiled \subseteq spoiled',
           \/ "observations" \in spoiled'
           \/ \A e \in Elements(events') : e.value \in StoredValues(observations'),
           ProgressOf(j, observations', events', fills', resolutions', spoiled')
    PROVE  AckedInv'
  <1>1. /\ job' \in [Session -> Jobs] /\ job'[s] = j
        /\ \A t \in Session : t # s => job'[t] = job[t]
    BY Moved DEF AckedInv
  <1>2. Typed'
    BY <1>1 DEF Typed
  <1>3. EventsHaveObservations'
    BY DEF EventsHaveObservations, StoredValues
  <1>4. ASSUME NEW t \in Session PROVE Progress(t)'
    <2>1. CASE t = s
      BY <1>1, <2>1 DEF Progress
    <2>2. CASE t # s
      <3>1. ProgressOf(job[t], observations, events, fills, resolutions, spoiled)
        BY DEF AckedInv, Progress
      <3>2. ProgressOf(job[t], observations', events', fills', resolutions', spoiled')
        BY <3>1, ProgressStays
      <3> QED
        BY <1>1, <2>2, <3>2 DEF Progress
    <2> QED
      BY <2>1, <2>2
  <1> QED
    BY <1>2, <1>3, <1>4 DEF AckedInv

\* A job begins: it knows what its file held then, and no more.
LEMMA AckedStart ==
    ASSUME AckedInv, NEW s \in Session,
           \/ \E v \in Values : Collect(s, v)
           \/ \E a \in answers : Resubmit(s, a)
           \/ \E page \in Pages : Import(s, page)
           \/ \E r \in Resolutions : Resolve(s, r)
    PROVE  AckedInv'
  <1>1. ASSUME NEW a \in Answers, Persist(s, a),
               answers' \subseteq Answers, IsFiniteSet(answers')
        PROVE  AckedInv'
    <2> DEFINE j == [kind |-> "collect", pc |-> "mark", value |-> a.value,
                     at |-> a.at, supersedes |-> None]
    <2>1. j \in CollectJobs
      BY DEF Answers, CollectJobs
    <2>2. ProgressOf(j, observations, events, fills, resolutions, spoiled)
      BY <2>1, KindsExclude DEF ProgressOf
    <2>3. /\ job' = [job EXCEPT ![s] = j]
          /\ raced' \subseteq raced \cup {"collect"}
          /\ UNCHANGED <<observations, events, fills, resolutions, tails>>
      BY <1>1 DEF Persist, Start
    <2>4. j \in Jobs
      BY <2>1 DEF Jobs
    <2> HIDE DEF j
    <2> QED
      BY <1>1, <2>2, <2>3, <2>4, AckedMove
         DEF AckedInv, Typed, EventsHaveObservations, StoredValues, tails
  <1>2. ASSUME NEW v \in Values, Collect(s, v)
        PROVE  AckedInv'
    <2> DEFINE a == [value |-> v, at |-> Cardinality(answers) + 1]
    <2>1. Cardinality(answers) \in Nat
      BY FS_CardinalityType DEF AckedInv, Typed
    <2>2. a.at <= MaxFetches /\ answers' = answers \cup {a} /\ Persist(s, a)
      BY <1>2 DEF Collect
    <2>3. a \in Answers
      BY <2>1, <2>2, StoresAssumption DEF Answers
    <2>4. IsFiniteSet(answers')
      BY <2>2, FS_AddElement DEF AckedInv, Typed
    <2> QED
      BY <1>1, <2>2, <2>3, <2>4 DEF AckedInv, Typed
  <1>3. ASSUME NEW a \in answers, Resubmit(s, a)
        PROVE  AckedInv'
    BY <1>1, <1>3 DEF Resubmit, AckedInv, Typed
  <1>4. ASSUME NEW page \in Pages, Import(s, page)
        PROVE  AckedInv'
    <2> DEFINE j == [kind |-> "import", pc |-> "append", page |-> page,
                     todo |-> page, existing |-> Elements(fills)]
    <2>1. page \in Seq(Keys) /\ Elements(fills) \subseteq Keys
      BY PageType DEF AckedInv, Typed, Elements
    <2>2. j \in ImportJobs
      BY <2>1 DEF ImportJobs
    <2>3. ProgressOf(j, observations, events, fills, resolutions, spoiled)
      BY <2>2, KindsExclude DEF ProgressOf
    <2>4. /\ job' = [job EXCEPT ![s] = j]
          /\ raced' \subseteq raced \cup {"import"}
          /\ UNCHANGED <<observations, events, fills, resolutions, answers, tails>>
      BY <1>4 DEF Import, Start
    <2>5. j \in Jobs
      BY <2>2 DEF Jobs
    <2> HIDE DEF j
    <2> QED
      BY <2>3, <2>4, <2>5, AckedMove DEF AckedInv, Typed, EventsHaveObservations, StoredValues, tails
  <1>5. ASSUME NEW r \in Resolutions, Resolve(s, r)
        PROVE  AckedInv'
    <2> DEFINE j == [kind |-> "resolve", pc |-> "check", record |-> r]
    <2>1. j \in ResolveJobs
      BY DEF ResolveJobs
    <2>2. ProgressOf(j, observations, events, fills, resolutions, spoiled)
      BY <2>1, KindsExclude DEF ProgressOf
    <2>3. /\ job' = [job EXCEPT ![s] = j]
          /\ raced' \subseteq raced \cup {"resolve"}
          /\ UNCHANGED <<observations, events, fills, resolutions, answers, tails>>
      BY <1>5 DEF Resolve, Start
    <2>4. j \in Jobs
      BY <2>1 DEF Jobs
    <2> HIDE DEF j
    <2> QED
      BY <2>2, <2>3, <2>4, AckedMove DEF AckedInv, Typed, EventsHaveObservations, StoredValues, tails
  <1> QED
    BY <1>2, <1>3, <1>4, <1>5

\* A session that ends, or is killed, leaves the lines as they are; killed
\* inside a write it leaves a fragment.
LEMMA AckedAbort ==
    ASSUME AckedInv, NEW s \in Session, Abort(s), torn' \subseteq Files,
           UNCHANGED <<observations, events, fills, resolutions, answers, raced, spoiled>>
    PROVE  AckedInv'
  <1>1. Idle \in Jobs /\ job' = [job EXCEPT ![s] = Idle]
    BY DEF Jobs, Abort
  <1>2. ProgressOf(Idle, observations', events', fills', resolutions', spoiled')
    BY IdleProgress
  <1> QED
    BY <1>1, <1>2, AckedMove DEF AckedInv, Typed, EventsHaveObservations, StoredValues

\* A session that only moves on, having nothing new to show.
LEMMA AckedOn ==
    ASSUME AckedInv, NEW s \in Session, NEW j \in Jobs, job' = [job EXCEPT ![s] = j],
           UNCHANGED <<observations, events, fills, resolutions, answers, raced, tails>>,
           ProgressOf(j, observations, events, fills, resolutions, spoiled)
    PROVE  AckedInv'
  BY AckedMove DEF AckedInv, Typed, EventsHaveObservations, StoredValues, tails

\* What a collecting session writes is what it then claims.
LEMMA AckedCollect ==
    ASSUME AckedInv, NEW s \in Session,
           \/ Mark(s) \/ CheckObservation(s) \/ WriteObservation(s)
           \/ CheckEvent(s) \/ WriteEvent(s)
    PROVE  AckedInv'
  <1> DEFINE On(pc) == [job[s] EXCEPT !.pc = pc]
             event == [value |-> job[s].value, at |-> job[s].at]
  <1>1. /\ job[s] \in CollectJobs /\ event \in Answers
        /\ ProgressOf(job[s], observations, events, fills, resolutions, spoiled)
    <2>1. job[s] \in Jobs /\ job[s].kind = "collect"
      BY DEF AckedInv, Typed, Mark, CheckObservation, WriteObservation, CheckEvent, WriteEvent, At
    <2>2. job[s] \in CollectJobs
      BY <2>1, JobKinds
    <2> QED
      BY <2>2 DEF CollectJobs, Answers, AckedInv, Progress
  <1>2. /\ observations \in Seq(Observations) /\ events \in Seq(Answers)
        /\ EventsHaveObservations
        /\ torn \subseteq Files /\ spoiled \subseteq Files
        /\ "observations" \in Files /\ "events" \in Files
    BY DEF AckedInv, Typed, Files
  <1>3. \A pc \in {"mark", "check", "write", "event", "log", "done"} :
            /\ On(pc) \in CollectJobs /\ On(pc) \in Jobs
            /\ On(pc).value = job[s].value /\ On(pc).at = job[s].at /\ On(pc).pc = pc
    BY <1>1 DEF CollectJobs, Jobs
  <1>4. CASE Mark(s)
    <2> DEFINE j == [job[s] EXCEPT !.supersedes = Supersedes(observations, job[s].value),
                                   !.pc = "check"]
    <2>1. Supersedes(observations, job[s].value) \in Values \cup {None}
      <3>1. CASE observations = <<>> \/ LatestSamePoint(observations).value = job[s].value
        BY <3>1 DEF Supersedes
      <3>2. CASE ~(observations = <<>> \/ LatestSamePoint(observations).value = job[s].value)
        <4>1. LatestSamePoint(observations) \in Observations
          BY <1>2, <3>2, LatestIsALine
        <4> QED
          BY <3>2, <4>1 DEF Supersedes, Observations
      <3> QED
        BY <3>1, <3>2
    <2>2. j \in CollectJobs /\ j.pc = "check"
      BY <1>1, <2>1 DEF CollectJobs
    <2>3. ProgressOf(j, observations, events, fills, resolutions, spoiled)
      BY <2>2, KindsExclude DEF ProgressOf
    <2>4. /\ UNCHANGED <<observations, events, fills, resolutions, answers, raced, tails>>
          /\ job' = [job EXCEPT ![s] = j] \/ Abort(s)
      BY <1>4 DEF Mark
    <2>5. j \in Jobs
      BY <2>2 DEF Jobs
    <2> HIDE DEF j
    <2>6. CASE job' = [job EXCEPT ![s] = j]
      BY <2>3, <2>4, <2>5, <2>6, AckedOn
    <2>7. CASE Abort(s)
      BY <1>2, <2>4, <2>7, AckedAbort DEF tails
    <2> QED
      BY <2>4, <2>6, <2>7
  <1>5. CASE CheckObservation(s)
    <2> DEFINE verdict == Verdict(observations, job[s].value, job[s].supersedes)
    <2>1. UNCHANGED <<observations, events, fills, resolutions, answers, raced, tails>>
      BY <1>5 DEF CheckObservation
    <2>2. CASE verdict = "known" /\ Goto(s, "event")
      <3>1. job[s].value \in StoredValues(observations)
        BY <2>2 DEF Verdict, StoredValues
      <3>2. ProgressOf(On("event"), observations, events, fills, resolutions, spoiled)
        BY <1>3, <3>1, KindsExclude DEF ProgressOf
      <3>3. job' = [job EXCEPT ![s] = On("event")]
        BY <2>2 DEF Goto
      <3> QED
        BY <1>3, <2>1, <3>2, <3>3, AckedOn
    <2>3. CASE Abort(s)
      BY <1>2, <2>1, <2>3, AckedAbort DEF tails
    <2>4. CASE verdict = "new" /\ Goto(s, "write")
      <3>1. ProgressOf(On("write"), observations, events, fills, resolutions, spoiled)
        BY <1>3, KindsExclude DEF ProgressOf
      <3>2. job' = [job EXCEPT ![s] = On("write")]
        BY <2>4 DEF Goto
      <3> QED
        BY <1>3, <2>1, <3>1, <3>2, AckedOn
    <2> QED
      BY <1>5, <2>2, <2>3, <2>4 DEF CheckObservation
  <1>6. CASE WriteObservation(s)
    <2> DEFINE line == [value |-> job[s].value, at |-> job[s].at,
                        supersedes |-> job[s].supersedes]
    <2>1. line \in Observations /\ line.value = job[s].value
      BY <1>1 DEF CollectJobs, Observations
    <2>2. /\ observations' = Appended("observations", observations, line)
          /\ LineEnds("observations")
          /\ job' = [job EXCEPT ![s] = On("event")]
          /\ UNCHANGED <<events, fills, resolutions, answers, raced>>
      BY <1>6 DEF WriteObservation, Goto
    <2> HIDE DEF line
    <2>3. /\ observations' \in Seq(Observations)
          /\ Elements(observations) \subseteq Elements(observations')
          /\ "observations" \notin spoiled' =>
                Elements(observations') = Elements(observations) \cup {line}
          /\ torn' \subseteq Files /\ spoiled' \subseteq Files /\ spoiled \subseteq spoiled'
      BY <1>2, <2>1, <2>2, AppendedFacts
    <2>4. /\ StoredValues(observations) \subseteq StoredValues(observations')
          /\ "observations" \notin spoiled' => job[s].value \in StoredValues(observations')
      BY <2>1, <2>3 DEF StoredValues
    <2>5. \/ "observations" \in spoiled'
          \/ \A e \in Elements(events') : e.value \in StoredValues(observations')
      BY <1>2, <2>2, <2>3, <2>4 DEF EventsHaveObservations, StoredValues
    <2>6. ProgressOf(On("event"), observations', events', fills', resolutions', spoiled')
      BY <1>3, <2>4, KindsExclude DEF ProgressOf
    <2> HIDE DEF On
    <2> QED
      BY <1>3, <2>2, <2>3, <2>5, <2>6, AckedMove DEF AckedInv, Typed
  <1>7. CASE CheckEvent(s)
    <2>1. UNCHANGED <<observations, events, fills, resolutions, answers, raced, tails>>
      BY <1>7 DEF CheckEvent
    <2>2. "observations" \notin spoiled => job[s].value \in StoredValues(observations)
      BY <1>1, <1>7 DEF CheckEvent, At, ProgressOf
    <2>3. CASE event \in Elements(events) /\ Goto(s, "done")
      <3>1. ProgressOf(On("done"), observations, events, fills, resolutions, spoiled)
        BY <1>3, <2>2, <2>3, KindsExclude DEF ProgressOf
      <3>2. job' = [job EXCEPT ![s] = On("done")]
        BY <2>3 DEF Goto
      <3> QED
        BY <1>3, <2>1, <3>1, <3>2, AckedOn
    <2>4. CASE Goto(s, "log")
      <3>1. ProgressOf(On("log"), observations, events, fills, resolutions, spoiled)
        BY <1>3, <2>2, KindsExclude DEF ProgressOf
      <3>2. job' = [job EXCEPT ![s] = On("log")]
        BY <2>4 DEF Goto
      <3> QED
        BY <1>3, <2>1, <3>1, <3>2, AckedOn
    <2>5. CASE Abort(s)
      BY <1>2, <2>1, <2>5, AckedAbort DEF tails
    <2> QED
      BY <1>7, <2>3, <2>4, <2>5 DEF CheckEvent
  <1>8. CASE WriteEvent(s)
    <2>1. /\ events' = Appended("events", events, event)
          /\ LineEnds("events")
          /\ job' = [job EXCEPT ![s] = On("done")]
          /\ UNCHANGED <<observations, fills, resolutions, answers, raced>>
      BY <1>8 DEF WriteEvent, Goto
    <2>2. "observations" \notin spoiled => job[s].value \in StoredValues(observations)
      BY <1>1, <1>8 DEF WriteEvent, At, ProgressOf
    <2>3. event.value = job[s].value
      OBVIOUS
    <2>4. [value |-> job[s].value, at |-> job[s].at] = event
      OBVIOUS
    <2> HIDE DEF event
    <2>5. /\ events' \in Seq(Answers)
          /\ Elements(events) \subseteq Elements(events')
          /\ Elements(events') \subseteq Elements(events) \cup {event}
          /\ "events" \notin spoiled' => Elements(events') = Elements(events) \cup {event}
          /\ torn' \subseteq Files /\ spoiled' \subseteq Files /\ spoiled \subseteq spoiled'
      BY <1>1, <1>2, <2>1, AppendedFacts
    <2>6. \/ "observations" \in spoiled'
          \/ \A e \in Elements(events') : e.value \in StoredValues(observations')
      BY <1>2, <2>1, <2>2, <2>3, <2>5 DEF EventsHaveObservations, StoredValues
    <2>7. ProgressOf(On("done"), observations', events', fills', resolutions', spoiled')
      <3>1. "observations" \notin spoiled' => On("done").value \in StoredValues(observations')
        BY <1>3, <2>1, <2>2, <2>5
      <3>2. "events" \notin spoiled' =>
                [value |-> On("done").value, at |-> On("done").at] \in Elements(events')
        BY <1>3, <2>4, <2>5
      <3> QED
        BY <1>3, <3>1, <3>2, KindsExclude DEF ProgressOf
    <2> HIDE DEF On
    <2> QED
      BY <1>3, <2>1, <2>5, <2>6, <2>7, AckedMove DEF AckedInv, Typed
  <1> QED
    BY <1>4, <1>5, <1>6, <1>7, <1>8

\* Each fill of the page is in the file before the import forgets it.
LEMMA AckedImport ==
    ASSUME AckedInv, NEW s \in Session, AppendFill(s) \/ EndImport(s)
    PROVE  AckedInv'
  <1>1. /\ job[s] \in ImportJobs
        /\ ProgressOf(job[s], observations, events, fills, resolutions, spoiled)
    <2>1. job[s] \in Jobs /\ job[s].kind = "import"
      BY DEF AckedInv, Typed, AppendFill, EndImport, At
    <2>2. job[s] \in ImportJobs
      BY <2>1, JobKinds
    <2> QED
      BY <2>2 DEF AckedInv, Progress
  <1>2. /\ job[s].page \in Pages /\ job[s].todo \in Seq(Keys) /\ job[s].existing \subseteq Keys
        /\ fills \in Seq(Keys)
        /\ "fills" \notin spoiled =>
              /\ Elements(job[s].page) \subseteq Elements(fills) \cup Elements(job[s].todo)
              /\ job[s].existing \subseteq Elements(fills)
        /\ torn \subseteq Files /\ spoiled \subseteq Files /\ "fills" \in Files
    BY <1>1 DEF ImportJobs, ProgressOf, AckedInv, Typed, Files
  <1>3. CASE AppendFill(s)
    <2> DEFINE key == Head(job[s].todo)
               j == [job[s] EXCEPT !.todo = Tail(@), !.existing = Known(@, key)]
    <2>1. /\ job[s].todo # <<>>
          /\ \/ key \in job[s].existing /\ UNCHANGED <<fills, torn, spoiled>>
             \/ fills' = Appended("fills", fills, key) /\ LineEnds("fills")
          /\ job' = [job EXCEPT ![s] = j]
          /\ UNCHANGED <<observations, events, resolutions, answers, raced>>
      BY <1>3 DEF AppendFill, tails
    <2>2. /\ key \in Keys /\ Tail(job[s].todo) \in Seq(Keys)
          /\ Elements(job[s].todo) = {key} \cup Elements(Tail(job[s].todo))
      BY <1>2, <2>1, HeadAndTail
    <2> HIDE DEF key, j
    <2>3. /\ fills' \in Seq(Keys) /\ Elements(fills) \subseteq Elements(fills')
          /\ "fills" \notin spoiled' => Elements(fills') = Elements(fills) \cup {key}
          /\ torn' \subseteq Files /\ spoiled' \subseteq Files /\ spoiled \subseteq spoiled'
      <3>1. CASE key \in job[s].existing /\ UNCHANGED <<fills, torn, spoiled>>
        BY <1>2, <3>1
      <3>2. CASE fills' = Appended("fills", fills, key) /\ LineEnds("fills")
        BY <1>2, <2>2, <3>2, AppendedFacts
      <3> QED
        BY <2>1, <3>1, <3>2
    <2> USE DEF j
    <2>4. /\ j \in ImportJobs /\ j.page = job[s].page /\ j.todo = Tail(job[s].todo)
          /\ j.existing = job[s].existing \cup {key} /\ j.pc = job[s].pc
      BY <1>1, <1>2, <2>2 DEF ImportJobs, Known
    <2>5. j.pc # "done"
      BY <1>3, <2>4 DEF AppendFill, At
    <2>6. j \in Jobs
      BY <2>4 DEF Jobs
    <2> HIDE DEF j
    <2>7. ProgressOf(j, observations', events', fills', resolutions', spoiled')
      BY <1>2, <2>2, <2>3, <2>4, <2>5, KindsExclude DEF ProgressOf
    <2> QED
      BY <2>1, <2>3, <2>6, <2>7, AckedMove
         DEF AckedInv, Typed, EventsHaveObservations, StoredValues
  <1>4. CASE EndImport(s)
    <2> DEFINE j == [job[s] EXCEPT !.pc = "done"]
    <2>1. /\ job[s].todo = <<>> /\ job' = [job EXCEPT ![s] = j]
          /\ UNCHANGED <<observations, events, fills, resolutions, answers, raced, tails>>
      BY <1>4 DEF EndImport, Goto
    <2>2. /\ j \in ImportJobs /\ j.page = job[s].page /\ j.todo = <<>>
          /\ j.existing = job[s].existing
      BY <1>1, <2>1 DEF ImportJobs
    <2>3. j \in Jobs
      BY <2>2 DEF Jobs
    <2> HIDE DEF j
    <2>4. ProgressOf(j, observations, events, fills, resolutions, spoiled)
      BY <1>2, <2>1, <2>2, KindsExclude DEF ProgressOf
    <2> QED
      BY <2>1, <2>3, <2>4, AckedOn
  <1> QED
    BY <1>3, <1>4

\* A confirmation is acknowledged when its record is in the file.
LEMMA AckedResolve ==
    ASSUME AckedInv, NEW s \in Session, CheckResolution(s) \/ WriteResolution(s)
    PROVE  AckedInv'
  <1> DEFINE On(pc) == [job[s] EXCEPT !.pc = pc]
  <1>1. job[s] \in ResolveJobs
    <2>1. job[s] \in Jobs /\ job[s].kind = "resolve"
      BY DEF AckedInv, Typed, CheckResolution, WriteResolution, At
    <2> QED
      BY <2>1, JobKinds
  <1>2. /\ job[s].record \in Resolutions /\ resolutions \in Seq(Resolutions)
        /\ torn \subseteq Files /\ spoiled \subseteq Files /\ "resolutions" \in Files
    BY <1>1 DEF ResolveJobs, AckedInv, Typed, Files
  <1>3. \A pc \in {"check", "write", "done"} :
            /\ On(pc) \in ResolveJobs /\ On(pc) \in Jobs
            /\ On(pc).record = job[s].record /\ On(pc).pc = pc
    BY <1>1 DEF ResolveJobs, Jobs
  <1>4. CASE CheckResolution(s)
    <2>1. UNCHANGED <<observations, events, fills, resolutions, answers, raced, tails>>
      BY <1>4 DEF CheckResolution
    <2>2. CASE job[s].record \in Elements(resolutions) /\ Goto(s, "done")
      <3>1. ProgressOf(On("done"), observations, events, fills, resolutions, spoiled)
        BY <1>3, <2>2, KindsExclude DEF ProgressOf
      <3> QED
        BY <1>3, <2>1, <2>2, <3>1, AckedOn DEF Goto
    <2>3. CASE Abort(s)
      BY <1>2, <2>1, <2>3, AckedAbort DEF tails
    <2>4. CASE Goto(s, "write")
      <3>1. ProgressOf(On("write"), observations, events, fills, resolutions, spoiled)
        BY <1>3, KindsExclude DEF ProgressOf
      <3> QED
        BY <1>3, <2>1, <2>4, <3>1, AckedOn DEF Goto
    <2> QED
      BY <1>4, <2>2, <2>3, <2>4 DEF CheckResolution
  <1>5. CASE WriteResolution(s)
    <2>1. /\ resolutions' = Appended("resolutions", resolutions, job[s].record)
          /\ LineEnds("resolutions")
          /\ job' = [job EXCEPT ![s] = On("done")]
          /\ UNCHANGED <<observations, events, fills, answers, raced>>
      BY <1>5 DEF WriteResolution, Goto
    <2>2. /\ resolutions' \in Seq(Resolutions)
          /\ Elements(resolutions) \subseteq Elements(resolutions')
          /\ "resolutions" \notin spoiled' =>
                Elements(resolutions') = Elements(resolutions) \cup {job[s].record}
          /\ torn' \subseteq Files /\ spoiled' \subseteq Files /\ spoiled \subseteq spoiled'
      BY <1>2, <2>1, AppendedFacts
    <2>3. ProgressOf(On("done"), observations', events', fills', resolutions', spoiled')
      BY <1>3, <2>2, KindsExclude DEF ProgressOf
    <2> HIDE DEF On
    <2> QED
      BY <1>3, <2>1, <2>2, <2>3, AckedMove
         DEF AckedInv, Typed, EventsHaveObservations, StoredValues
  <1> QED
    BY <1>4, <1>5

\* The files start empty, and every session idle.
LEMMA AckedInit == Init => AckedInv
  <1> SUFFICES ASSUME Init PROVE AckedInv
    OBVIOUS
  <1>1. Typed
    BY FS_EmptySet DEF Init, Typed, Jobs
  <1>2. EventsHaveObservations
    BY DEF Init, EventsHaveObservations, Elements
  <1>3. \A s \in Session : Progress(s)
    BY IdleProgress DEF Init, Progress
  <1> QED
    BY <1>1, <1>2, <1>3 DEF AckedInv

\* Every step keeps what was acknowledged.
LEMMA AckedStep == AckedInv /\ [Next]_vars => AckedInv'
  <1> SUFFICES ASSUME AckedInv, [Next]_vars PROVE AckedInv'
    OBVIOUS
  <1>1. CASE UNCHANGED vars
    BY <1>1 DEF vars, AckedInv, Typed, EventsHaveObservations, Progress
  <1>2. CASE Next
    <2>1. PICK s \in Session :
            \/ \E v \in Values : Collect(s, v)
            \/ \E a \in answers : Resubmit(s, a)
            \/ \E page \in Pages : Import(s, page)
            \/ \E r \in Resolutions : Resolve(s, r)
            \/ Mark(s) \/ CheckObservation(s) \/ WriteObservation(s)
            \/ CheckEvent(s) \/ WriteEvent(s)
            \/ AppendFill(s) \/ EndImport(s)
            \/ CheckResolution(s) \/ WriteResolution(s)
            \/ Crash(s) \/ TornWrite(s)
      BY <1>2 DEF Next
    <2>2. torn \subseteq Files
      BY DEF AckedInv, Typed
    <2>3. Crash(s) => AckedInv'
      BY <2>2, AckedAbort DEF Crash, tails
    <2>4. TornWrite(s) => AckedInv'
      BY <2>2, AckedAbort DEF TornWrite
    <2> QED
      BY <2>1, <2>3, <2>4, AckedStart, AckedCollect, AckedImport, AckedResolve
  <1> QED
    BY <1>1, <1>2

\* What was acknowledged stays in the files.
LEMMA AckedHolds == Spec => []AckedInv
  BY AckedInit, AckedStep, PTL DEF Spec

-----------------------------------------------------------------------------
(* Stores that no two sessions used at once.                               *)

\* Whoever shares a store is on record.
RacesAreKnown ==
    \A s, t \in Session :
        (s # t /\ InProgress(job[s]) /\ InProgress(job[t]) /\ job[s].kind = job[t].kind)
            => job[s].kind \in raced

\* A lone import knows every key of the file.
SerialImports ==
    "import" \notin raced =>
        /\ \A m, n \in DOMAIN fills : fills[m] = fills[n] => m = n
        /\ \A s \in Session :
            At(s, "import", "append") => Elements(fills) \subseteq job[s].existing

\* A lone collector's verdicts still hold when it writes.
SerialCollects ==
    "collect" \notin raced =>
        /\ \A m, n \in DOMAIN observations :
                observations[m].value = observations[n].value => m = n
        /\ \A m, n \in DOMAIN events : events[m] = events[n] => m = n
        /\ RevisionsNameTheNewest
        /\ \A s \in Session :
            /\ At(s, "collect", "check") =>
                    job[s].supersedes = Supersedes(observations, job[s].value)
            /\ At(s, "collect", "write") =>
                /\ job[s].value \notin StoredValues(observations)
                /\ job[s].supersedes = IF observations = <<>> THEN None
                                        ELSE LatestSamePoint(observations).value
            /\ At(s, "collect", "log") =>
                    [value |-> job[s].value, at |-> job[s].at] \notin Elements(events)

\* A lone confirmation is still the only one of its snapshot.
SerialResolves ==
    "resolve" \notin raced =>
        /\ \A m, n \in DOMAIN resolutions :
                resolutions[m].snapshot = resolutions[n].snapshot => m = n
        /\ \A s \in Session :
            At(s, "resolve", "write") => ~Taken(resolutions, job[s].record)

\* The sessions that have read a file and have yet to append to it.
Kind == [observations |-> "collect", events |-> "collect",
         fills |-> "import", resolutions |-> "resolve"]
Pc == [observations |-> "write", events |-> "log", fills |-> "append", resolutions |-> "write"]
Past(s, file) == At(s, Kind[file], Pc[file])

\* Nobody is about to append to a fragment, and no line has joined one, but in
\* a race.
LoneFragments ==
    /\ \A file \in torn, s \in Session : Past(s, file) => Kind[file] \in raced
    /\ \A file \in spoiled : Kind[file] \in raced

SerialInv ==
    RacesAreKnown /\ LoneFragments /\ SerialImports /\ SerialCollects /\ SerialResolves

\* The other sessions stay where they are.
OthersStay(s) == \A t \in Session : t # s => job'[t] = job[t]

\* A job that starts touches its own session alone; it is marked as racing
\* where another of its kind is in progress.
LEMMA StartMoves ==
    ASSUME Typed, NEW s \in Session, NEW kind, NEW j, Start(s, kind, j)
    PROVE  /\ job'[s] = j /\ OthersStay(s) /\ raced \subseteq raced'
           /\ ~InProgress(job[s])
           /\ kind \notin raced' =>
                \A t \in Session \ {s} : ~(InProgress(job[t]) /\ job[t].kind = kind)
  BY DEF Typed, Start, OthersStay

\* A step of a collection touches the series and its own session.
LEMMA CollectMoves ==
    ASSUME Typed, NEW s \in Session,
           \/ Mark(s) \/ CheckObservation(s) \/ WriteObservation(s)
           \/ CheckEvent(s) \/ WriteEvent(s)
    PROVE  /\ job[s] \in CollectJobs /\ InProgress(job[s])
           /\ OthersStay(s) /\ raced' = raced /\ UNCHANGED <<fills, resolutions, answers>>
           /\ \/ job'[s] = Idle
              \/ /\ job'[s].kind = "collect"
                 /\ job'[s].value = job[s].value /\ job'[s].at = job[s].at
  <1>1. /\ job[s] \in Jobs /\ job[s].kind = "collect"
        /\ job[s].pc \in {"mark", "check", "write", "event", "log"}
        /\ job \in [Session -> Jobs]
    BY DEF Typed, Mark, CheckObservation, WriteObservation, CheckEvent, WriteEvent, At
  <1>2. job[s] \in CollectJobs /\ InProgress(job[s])
    BY <1>1, JobKinds DEF InProgress
  <1>3. OthersStay(s) /\ raced' = raced /\ UNCHANGED <<fills, resolutions, answers>>
    BY <1>1 DEF OthersStay, Mark, CheckObservation, WriteObservation, CheckEvent, WriteEvent,
       Goto, Abort
  <1>4. ASSUME NEW pc, Goto(s, pc)
        PROVE  /\ job'[s].kind = "collect"
               /\ job'[s].value = job[s].value /\ job'[s].at = job[s].at
    BY <1>1, <1>2, <1>4 DEF Goto, CollectJobs
  <1>5. Abort(s) => job'[s] = Idle
    BY <1>1 DEF Abort
  <1>6. Mark(s) /\ ~Abort(s) =>
            /\ job'[s].kind = "collect"
            /\ job'[s].value = job[s].value /\ job'[s].at = job[s].at
    BY <1>1, <1>2 DEF Mark, CollectJobs
  <1>7. \/ Mark(s) \/ Abort(s) \/ Goto(s, "event") \/ Goto(s, "write")
        \/ Goto(s, "done") \/ Goto(s, "log")
    BY DEF CheckObservation, WriteObservation, CheckEvent, WriteEvent
  <1> QED
    BY <1>2, <1>3, <1>4, <1>5, <1>6, <1>7

\* A step of an import touches the fills and its own session.
LEMMA ImportMoves ==
    ASSUME Typed, NEW s \in Session, AppendFill(s) \/ EndImport(s)
    PROVE  /\ job[s] \in ImportJobs /\ InProgress(job[s])
           /\ OthersStay(s) /\ raced' = raced
           /\ UNCHANGED <<observations, events, resolutions, answers>>
           /\ job'[s].kind = "import"
  <1>1. /\ job[s] \in Jobs /\ job[s].kind = "import" /\ job[s].pc = "append"
        /\ job \in [Session -> Jobs]
    BY DEF Typed, AppendFill, EndImport, At
  <1>2. job[s] \in ImportJobs /\ InProgress(job[s])
    BY <1>1, JobKinds DEF InProgress
  <1>3. /\ OthersStay(s) /\ raced' = raced
        /\ UNCHANGED <<observations, events, resolutions, answers>>
    BY <1>1 DEF OthersStay, AppendFill, EndImport, Goto
  <1>4. job'[s].kind = "import"
    BY <1>1, <1>2 DEF AppendFill, EndImport, Goto, ImportJobs
  <1> QED
    BY <1>2, <1>3, <1>4

\* A step of a resolution touches the resolutions and its own session.
LEMMA ResolveMoves ==
    ASSUME Typed, NEW s \in Session, CheckResolution(s) \/ WriteResolution(s)
    PROVE  /\ job[s] \in ResolveJobs /\ InProgress(job[s])
           /\ OthersStay(s) /\ raced' = raced /\ UNCHANGED <<observations, events, fills, answers>>
           /\ \/ job'[s] = Idle
              \/ job'[s].kind = "resolve" /\ job'[s].record = job[s].record
  <1>1. /\ job[s] \in Jobs /\ job[s].kind = "resolve" /\ job[s].pc \in {"check", "write"}
        /\ job \in [Session -> Jobs]
    BY DEF Typed, CheckResolution, WriteResolution, At
  <1>2. job[s] \in ResolveJobs /\ InProgress(job[s])
    BY <1>1, JobKinds DEF InProgress
  <1>3. OthersStay(s) /\ raced' = raced /\ UNCHANGED <<observations, events, fills, answers>>
    BY <1>1 DEF OthersStay, CheckResolution, WriteResolution, Goto, Abort
  <1>4. ASSUME NEW pc, Goto(s, pc)
        PROVE  job'[s].kind = "resolve" /\ job'[s].record = job[s].record
    BY <1>1, <1>2, <1>4 DEF Goto, ResolveJobs
  <1>5. Abort(s) => job'[s] = Idle
    BY <1>1 DEF Abort
  <1> QED
    BY <1>2, <1>3, <1>4, <1>5 DEF CheckResolution, WriteResolution

\* A crash loses a job and no line that was written.
LEMMA CrashMoves ==
    ASSUME Typed, NEW s \in Session, Crash(s) \/ TornWrite(s)
    PROVE  /\ job'[s] = Idle /\ OthersStay(s) /\ raced' = raced
           /\ UNCHANGED <<observations, events, fills, resolutions, answers>>
  BY DEF Typed, Crash, TornWrite, Abort, OthersStay

\* A race needs two starts, and the second is put on record.
LEMMA RacesStart ==
    ASSUME Typed, RacesAreKnown, NEW s \in Session, NEW kind, NEW j,
           j.kind = kind, Start(s, kind, j)
    PROVE  RacesAreKnown'
  <1>1. /\ job'[s] = j /\ OthersStay(s) /\ raced \subseteq raced'
        /\ kind \notin raced' =>
             \A t \in Session \ {s} : ~(InProgress(job[t]) /\ job[t].kind = kind)
    BY StartMoves
  <1> QED
    BY <1>1 DEF RacesAreKnown, OthersStay

\* A session that goes on, or stops, races with nobody new.
LEMMA RacesGo ==
    ASSUME RacesAreKnown, NEW s \in Session, OthersStay(s), raced' = raced,
           job'[s] = Idle \/ (InProgress(job[s]) /\ job'[s].kind = job[s].kind)
    PROVE  RacesAreKnown'
  <1>1. ~InProgress(Idle)
    BY DEF InProgress, Idle
  <1> QED
    BY <1>1 DEF RacesAreKnown, OthersStay

\* The file of a kind of job, and the stage at which it is appended to.
LEMMA KindsAndStages ==
    /\ Kind["observations"] = "collect" /\ Pc["observations"] = "write"
    /\ Kind["events"] = "collect" /\ Pc["events"] = "log"
    /\ Kind["fills"] = "import" /\ Pc["fills"] = "append"
    /\ Kind["resolutions"] = "resolve" /\ Pc["resolutions"] = "write"
  BY DEF Kind, Pc

\* A fragment that nobody touches stops whoever comes later.
LEMMA FragmentsStay ==
    ASSUME LoneFragments, NEW s \in Session, OthersStay(s), raced \subseteq raced',
           UNCHANGED <<torn, spoiled>>,
           \A file \in torn : Past(s, file)' => Past(s, file)
    PROVE  LoneFragments'
  <1>1. ASSUME NEW file \in torn, NEW t \in Session, Past(t, file)'
        PROVE  Past(t, file)
    <2>1. CASE t = s
      BY <1>1, <2>1
    <2>2. CASE t # s
      BY <1>1, <2>2 DEF OthersStay, Past, At
    <2> QED
      BY <2>1, <2>2
  <1> QED
    BY <1>1 DEF LoneFragments

\* A whole line ends the fragment it is appended to, and spoils the file only
\* where its writer has raced.
LEMMA FragmentsEnd ==
    ASSUME LoneFragments, NEW s \in Session, OthersStay(s), raced' = raced,
           NEW file, LineEnds(file), Past(s, file),
           \A other \in torn \ {file} : ~Past(s, other)'
    PROVE  LoneFragments'
  <1>1. file \in torn => Kind[file] \in raced
    BY DEF LoneFragments
  <1>2. torn' = torn \ {file} /\ spoiled' = IF file \in torn THEN spoiled \cup {file} ELSE spoiled
    BY DEF LineEnds
  <1>3. \A other \in spoiled' : Kind[other] \in raced'
    BY <1>1, <1>2 DEF LoneFragments
  <1>4. ASSUME NEW other \in torn', NEW t \in Session, Past(t, other)'
        PROVE  Kind[other] \in raced'
    <2>1. t # s
      BY <1>2, <1>4
    <2>2. Past(t, other)
      BY <1>4, <2>1 DEF OthersStay, Past, At
    <2> QED
      BY <1>2, <2>2 DEF LoneFragments
  <1> QED
    BY <1>3, <1>4 DEF LoneFragments

\* A writer that dies leaves a fragment; whoever is as far as it was races it.
LEMMA FragmentsTear ==
    ASSUME LoneFragments, RacesAreKnown, NEW s \in Session, OthersStay(s), raced' = raced,
           torn \subseteq Files, NEW file \in Files,
           torn' = torn \cup {file}, spoiled' = spoiled,
           Past(s, file), job'[s] = Idle
    PROVE  LoneFragments'
  <1>1. Kind[file] # "idle" /\ Pc[file] # "done"
    BY KindsAndStages DEF Files
  <1>2. ASSUME NEW other \in torn', NEW t \in Session, Past(t, other)'
        PROVE  Kind[other] \in raced'
    <2>1. t # s
      <3>1. Kind[other] # "idle"
        BY KindsAndStages DEF Files
      <3>2. Idle.kind = "idle"
        BY DEF Idle
      <3> QED
        BY <1>2, <3>1, <3>2 DEF Past, At
    <2>2. Past(t, other)
      BY <1>2, <2>1 DEF OthersStay, Past, At
    <2>3. CASE other \in torn
      BY <2>2, <2>3 DEF LoneFragments
    <2>4. CASE other = file
      <3>1. /\ InProgress(job[t]) /\ InProgress(job[s])
            /\ job[t].kind = Kind[file] /\ job[s].kind = Kind[file]
        BY <1>1, <2>2, <2>4 DEF Past, At, InProgress
      <3> QED
        BY <2>1, <2>4, <3>1 DEF RacesAreKnown
    <2> QED
      BY <2>3, <2>4
  <1> QED
    BY <1>2 DEF LoneFragments

\* Where nothing is done to a store, nothing is lost of it.
LEMMA ImportsElsewhere ==
    ASSUME SerialImports, NEW s \in Session, OthersStay(s), raced \subseteq raced',
           fills' = fills, ~(job'[s].kind = "import" /\ job'[s].pc = "append")
    PROVE  SerialImports'
  BY DEF SerialImports, OthersStay, At

\* What holds of lone collections is not touched by other work.
LEMMA CollectsElsewhere ==
    ASSUME SerialCollects, NEW s \in Session, OthersStay(s), raced \subseteq raced',
           UNCHANGED <<observations, events>>,
           job'[s].kind # "collect" \/ job'[s].pc \notin {"check", "write", "log"}
    PROVE  SerialCollects'
  <1>1. "collect" \notin raced' => RevisionsNameTheNewest' /\ "collect" \notin raced
    BY DEF SerialCollects, RevisionsNameTheNewest
  <1> QED
    BY <1>1 DEF SerialCollects, OthersStay, At

\* What holds of lone resolutions is not touched by other work.
LEMMA ResolvesElsewhere ==
    ASSUME SerialResolves, NEW s \in Session, OthersStay(s), raced \subseteq raced',
           resolutions' = resolutions, ~(job'[s].kind = "resolve" /\ job'[s].pc = "write")
    PROVE  SerialResolves'
  BY DEF SerialResolves, OthersStay, At

\* The jobs that begin.
LEMMA SerialStart ==
    ASSUME AckedInv, SerialInv, NEW s \in Session,
           \/ \E v \in Values : Collect(s, v)
           \/ \E a \in answers : Resubmit(s, a)
           \/ \E page \in Pages : Import(s, page)
           \/ \E r \in Resolutions : Resolve(s, r)
    PROVE  SerialInv'
  <1> USE DEF SerialInv, AckedInv
  <1>4. torn \subseteq Files
    BY DEF Typed
  <1>1. ASSUME NEW a, Persist(s, a)
        PROVE  SerialInv'
    <2> DEFINE j == [kind |-> "collect", pc |-> "mark", value |-> a.value,
                     at |-> a.at, supersedes |-> None]
    <2>1. /\ Start(s, "collect", j) /\ j.kind = "collect" /\ j.pc = "mark"
          /\ UNCHANGED <<observations, events, fills, resolutions, torn, spoiled>>
      BY <1>1 DEF Persist, tails
    <2> HIDE DEF j
    <2>2. job'[s] = j /\ OthersStay(s) /\ raced \subseteq raced'
      BY <2>1, StartMoves
    <2>3. RacesAreKnown'
      BY <2>1, RacesStart
    <2>4. LoneFragments'
      <3>1. \A file \in torn : ~Past(s, file)'
        BY <1>4, <2>1, <2>2, KindsAndStages DEF Past, At, Files
      <3> QED
        BY <2>1, <2>2, <3>1, FragmentsStay
    <2> QED
      BY <2>1, <2>2, <2>3, <2>4, ImportsElsewhere, CollectsElsewhere, ResolvesElsewhere
  <1>2. ASSUME NEW page \in Pages, Import(s, page)
        PROVE  SerialInv'
    <2> DEFINE j == [kind |-> "import", pc |-> "append", page |-> page,
                     todo |-> page, existing |-> Elements(fills)]
    <2>1. /\ Start(s, "import", j) /\ j.kind = "import" /\ j.existing = Elements(fills)
          /\ UNCHANGED <<observations, events, fills, resolutions, answers, torn, spoiled>>
      BY <1>2 DEF Import, tails
    <2> HIDE DEF j
    <2>2. job'[s] = j /\ OthersStay(s) /\ raced \subseteq raced'
      BY <2>1, StartMoves
    <2>3. RacesAreKnown'
      BY <2>1, RacesStart
    <2>4. SerialImports'
      BY <2>1, <2>2 DEF SerialImports, OthersStay, At
    <2>5. LoneFragments'
      <3>1. "fills" \notin torn
        BY <1>2 DEF Import, Readable
      <3>2. \A file \in torn : ~Past(s, file)'
        BY <1>4, <2>1, <2>2, <3>1, KindsAndStages DEF Past, At, Files
      <3> QED
        BY <2>1, <2>2, <3>2, FragmentsStay
    <2> QED
      BY <2>1, <2>2, <2>3, <2>4, <2>5, CollectsElsewhere, ResolvesElsewhere
  <1>3. ASSUME NEW r \in Resolutions, Resolve(s, r)
        PROVE  SerialInv'
    <2> DEFINE j == [kind |-> "resolve", pc |-> "check", record |-> r]
    <2>1. /\ Start(s, "resolve", j) /\ j.kind = "resolve" /\ j.pc = "check"
          /\ UNCHANGED <<observations, events, fills, resolutions, answers, torn, spoiled>>
      BY <1>3 DEF Resolve, tails
    <2> HIDE DEF j
    <2>2. job'[s] = j /\ OthersStay(s) /\ raced \subseteq raced'
      BY <2>1, StartMoves
    <2>3. RacesAreKnown'
      BY <2>1, RacesStart
    <2>4. LoneFragments'
      <3>1. \A file \in torn : ~Past(s, file)'
        BY <1>4, <2>1, <2>2, KindsAndStages DEF Past, At, Files
      <3> QED
        BY <2>1, <2>2, <3>1, FragmentsStay
    <2> QED
      BY <2>1, <2>2, <2>3, <2>4, ImportsElsewhere, CollectsElsewhere, ResolvesElsewhere
  <1> QED
    BY <1>1, <1>2, <1>3 DEF Collect, Resubmit

\* Lines that are all different stay so when one is added that is not among
\* them; first the values of a file, then its lines themselves.
LEMMA FreshValue ==
    ASSUME NEW S, NEW file \in Seq(S), NEW x \in S, x.value \notin StoredValues(file),
           \A m, n \in DOMAIN file : file[m].value = file[n].value => m = n
    PROVE  \A m, n \in DOMAIN Append(file, x) :
                Append(file, x)[m].value = Append(file, x)[n].value => m = n
  <1>1. \A m \in DOMAIN file : file[m].value # x.value
    BY DEF StoredValues, Elements
  <1> QED
    BY <1>1, AppendFacts

\* A line that was not there makes no copy.
LEMMA FreshLine ==
    ASSUME NEW S, NEW file \in Seq(S), NEW x \in S, x \notin Elements(file),
           \A m, n \in DOMAIN file : file[m] = file[n] => m = n
    PROVE  \A m, n \in DOMAIN Append(file, x) :
                Append(file, x)[m] = Append(file, x)[n] => m = n
  <1>1. \A m \in DOMAIN file : file[m] # x
    BY DEF Elements
  <1> QED
    BY <1>1, AppendFacts

\* A resolution of a snapshot that had none makes no second one.
LEMMA FreshSnapshot ==
    ASSUME NEW S, NEW file \in Seq(S), NEW x \in S, ~Taken(file, x),
           \A m, n \in DOMAIN file : file[m].snapshot = file[n].snapshot => m = n
    PROVE  \A m, n \in DOMAIN Append(file, x) :
                Append(file, x)[m].snapshot = Append(file, x)[n].snapshot => m = n
  <1>1. \A m \in DOMAIN file : file[m].snapshot # x.snapshot
    BY DEF Taken, Elements
  <1> QED
    BY <1>1, AppendFacts

\* The lines before a line are the same after an append.
LEMMA BeforeStays ==
    ASSUME NEW S, NEW file \in Seq(S), NEW x \in S
    PROVE  /\ \A i \in DOMAIN file :
                SubSeq(Append(file, x), 1, i - 1) = SubSeq(file, 1, i - 1)
           /\ SubSeq(Append(file, x), 1, Len(file)) = file
  <1> DEFINE longer == Append(file, x)
  <1>1. /\ longer \in Seq(S) /\ Len(file) \in Nat /\ DOMAIN file = 1 .. Len(file)
        /\ Len(longer) = Len(file) + 1
        /\ \A i \in 1 .. Len(file) : longer[i] = file[i]
        /\ \A i \in 1 .. Len(file) : file[i] \in S
    OBVIOUS
  <1> HIDE DEF longer
  <1>2. ASSUME NEW n \in 0 .. Len(file)
        PROVE  SubSeq(longer, 1, n) = SubSeq(file, 1, n)
    <2>1. n \in Int /\ 1 \in Int /\ n - 1 + 1 = n /\ \A i \in 1 .. n : i \in 1 .. Len(file)
      BY <1>1
    <2>2. /\ \A i \in 1 .. n : longer[i] \in S
          /\ \A i \in 1 .. n : file[i] \in S
      BY <1>1, <2>1
    <2>3. /\ SubSeq(longer, 1, n) \in Seq(S)
          /\ Len(SubSeq(longer, 1, n)) = n
          /\ \A i \in 1 .. n : SubSeq(longer, 1, n)[i] = longer[i]
      BY <2>1, <2>2, SubSeqProperties
    <2>4. /\ SubSeq(file, 1, n) \in Seq(S)
          /\ Len(SubSeq(file, 1, n)) = n
          /\ \A i \in 1 .. n : SubSeq(file, 1, n)[i] = file[i]
      BY <2>1, <2>2, SubSeqProperties
    <2> QED
      BY <1>1, <2>1, <2>3, <2>4, SeqEqual
  <1>3. \A i \in DOMAIN file : i - 1 \in 0 .. Len(file)
    BY <1>1
  <1>4. Len(file) \in 0 .. Len(file) /\ SubSeq(file, 1, Len(file)) = file
    BY <1>1, SubSeqFull
  <1> QED
    BY <1>2, <1>3, <1>4 DEF longer

\* A lone collector writes what it has judged, on the file it has judged.
LEMMA SerialCollect ==
    ASSUME AckedInv, SerialInv, NEW s \in Session,
           \/ Mark(s) \/ CheckObservation(s) \/ WriteObservation(s)
           \/ CheckEvent(s) \/ WriteEvent(s)
    PROVE  SerialInv'
  <1> USE DEF SerialInv, AckedInv
  <1>1. /\ job[s] \in CollectJobs /\ InProgress(job[s])
        /\ OthersStay(s) /\ raced' = raced /\ UNCHANGED <<fills, resolutions, answers>>
        /\ \/ job'[s] = Idle
           \/ /\ job'[s].kind = "collect"
              /\ job'[s].value = job[s].value /\ job'[s].at = job[s].at
    BY CollectMoves
  <1>2. RacesAreKnown'
    BY <1>1, RacesGo DEF CollectJobs
  <1>3. Idle.kind = "idle" /\ job[s].kind = "collect"
    BY <1>1 DEF Idle, CollectJobs
  <1>4. SerialImports' /\ SerialResolves'
    BY <1>1, <1>3, ImportsElsewhere, ResolvesElsewhere
  <1>7. LoneFragments'
    <2>1. torn \subseteq Files /\ job \in [Session -> Jobs]
      BY DEF Typed
    <2>2. \A file \in Files : Past(s, file)' =>
              /\ job'[s].kind = "collect"
              /\ \/ file = "observations" /\ job'[s].pc = "write"
                 \/ file = "events" /\ job'[s].pc = "log"
      BY <1>1, <1>3, KindsAndStages DEF Past, At, Files
    <2>3. \A pc : Goto(s, pc) => job'[s].pc = pc
      BY <1>1, <2>1 DEF Goto, CollectJobs
    <2>4. Abort(s) => job'[s].kind = "idle"
      BY <1>3, <2>1 DEF Abort
    <2>5. CASE Mark(s)
      <3>1. Abort(s) \/ job'[s].pc = "check"
        BY <1>1, <2>1, <2>5 DEF Mark, CollectJobs
      <3>2. UNCHANGED <<torn, spoiled>>
        BY <2>5 DEF Mark, tails
      <3>3. \A file \in torn : ~Past(s, file)'
        BY <2>1, <2>2, <2>4, <3>1
      <3> QED
        BY <1>1, <3>2, <3>3, FragmentsStay
    <2>6. CASE CheckObservation(s)
      <3>1. Abort(s) \/ Goto(s, "event") \/ (Goto(s, "write") /\ "observations" \notin torn)
        BY <2>6 DEF CheckObservation, Readable
      <3>2. UNCHANGED <<torn, spoiled>>
        BY <2>6 DEF CheckObservation, tails
      <3>3. \A file \in torn : ~Past(s, file)'
        BY <2>1, <2>2, <2>3, <2>4, <3>1
      <3> QED
        BY <1>1, <3>2, <3>3, FragmentsStay
    <2>7. CASE CheckEvent(s)
      <3>1. Abort(s) \/ Goto(s, "done") \/ (Goto(s, "log") /\ "events" \notin torn)
        BY <2>7 DEF CheckEvent, Readable
      <3>2. UNCHANGED <<torn, spoiled>>
        BY <2>7 DEF CheckEvent, tails
      <3>3. \A file \in torn : ~Past(s, file)'
        BY <2>1, <2>2, <2>3, <2>4, <3>1
      <3> QED
        BY <1>1, <3>2, <3>3, FragmentsStay
    <2>8. CASE WriteObservation(s)
      <3>1. Past(s, "observations") /\ LineEnds("observations") /\ Goto(s, "event")
        BY <2>8, KindsAndStages DEF WriteObservation, Past
      <3>2. \A file \in torn : ~Past(s, file)'
        BY <2>1, <2>2, <2>3, <3>1
      <3> QED
        BY <1>1, <3>1, <3>2, FragmentsEnd
    <2>9. CASE WriteEvent(s)
      <3>1. Past(s, "events") /\ LineEnds("events") /\ Goto(s, "done")
        BY <2>9, KindsAndStages DEF WriteEvent, Past
      <3>2. \A file \in torn : ~Past(s, file)'
        BY <2>1, <2>2, <2>3, <3>1
      <3> QED
        BY <1>1, <3>1, <3>2, FragmentsEnd
    <2> QED
      BY <2>5, <2>6, <2>7, <2>8, <2>9
  <1>5. SerialCollects'
    <2> SUFFICES ASSUME "collect" \notin raced PROVE SerialCollects'
      BY <1>1 DEF SerialCollects
    <2>1. /\ \A m, n \in DOMAIN observations :
                observations[m].value = observations[n].value => m = n
          /\ \A m, n \in DOMAIN events : events[m] = events[n] => m = n
          /\ RevisionsNameTheNewest
          /\ At(s, "collect", "check") =>
                    job[s].supersedes = Supersedes(observations, job[s].value)
          /\ At(s, "collect", "write") =>
                /\ job[s].value \notin StoredValues(observations)
                /\ job[s].supersedes = IF observations = <<>> THEN None
                                        ELSE LatestSamePoint(observations).value
          /\ At(s, "collect", "log") =>
                    [value |-> job[s].value, at |-> job[s].at] \notin Elements(events)
      BY DEF SerialCollects
    <2>2. \A t \in Session : t # s => ~(InProgress(job'[t]) /\ job'[t].kind = "collect")
      BY <1>1, <1>3 DEF RacesAreKnown, OthersStay
    <2>3. \A t \in Session, pc \in {"check", "write", "log"} :
                (job'[t].kind = "collect" /\ job'[t].pc = pc) => t = s
      BY <2>2 DEF InProgress
    <2> DEFINE Judged == /\ At(s, "collect", "check") =>
                              job[s].supersedes = Supersedes(observations, job[s].value)
                         /\ At(s, "collect", "write") =>
                              /\ job[s].value \notin StoredValues(observations)
                              /\ job[s].supersedes = IF observations = <<>> THEN None
                                                      ELSE LatestSamePoint(observations).value
                         /\ At(s, "collect", "log") =>
                              [value |-> job[s].value, at |-> job[s].at] \notin Elements(events)
               Apart == /\ \A m, n \in DOMAIN observations :
                              observations[m].value = observations[n].value => m = n
                        /\ \A m, n \in DOMAIN events : events[m] = events[n] => m = n
                        /\ RevisionsNameTheNewest
    <2>4. SUFFICES Apart' /\ Judged'
      BY <2>3 DEF SerialCollects, At
    <2>5. /\ observations \in Seq(Observations) /\ events \in Seq(Answers)
          /\ job \in [Session -> Jobs]
      BY DEF Typed
    <2>6. CASE UNCHANGED <<observations, events>>
      <3>1. Apart'
        BY <2>1, <2>6 DEF RevisionsNameTheNewest
      <3>6. CASE job'[s] = Idle
        BY <1>3, <3>1, <3>6 DEF At
      <3>2. CASE Mark(s)
        <4>3. Abort(s) => job'[s] = Idle
          BY <2>5 DEF Abort
        <4> SUFFICES ASSUME ~Abort(s) PROVE Apart' /\ Judged'
          BY <3>6, <4>3
        <4>1. /\ job'[s].pc = "check"
              /\ job'[s].supersedes = Supersedes(observations, job[s].value)
          BY <1>1, <2>5, <3>2 DEF Mark, CollectJobs
        <4>2. job'[s].value = job[s].value
          BY <1>1, <2>5, <3>2 DEF Mark, CollectJobs
        <4> QED
          BY <2>6, <3>1, <4>1, <4>2 DEF At
      <3>3. CASE CheckObservation(s)
        <4>1. CASE job'[s] = Idle
          BY <1>3, <3>1, <4>1 DEF At
        <4>2. CASE Goto(s, "event")
          <5>1. job'[s].pc = "event"
            BY <1>1, <2>5, <4>2 DEF Goto, CollectJobs
          <5> QED
            BY <3>1, <5>1 DEF At
        <4>3. CASE Goto(s, "write") /\ Verdict(observations, job[s].value, job[s].supersedes) = "new"
          <5>1. /\ job'[s].pc = "write" /\ job'[s].value = job[s].value
                /\ job'[s].supersedes = job[s].supersedes
            BY <1>1, <2>5, <4>3 DEF Goto, CollectJobs
          <5>2. /\ job[s].value \notin StoredValues(observations)
                /\ StoredValues(observations) = {} \/ job[s].supersedes \in StoredValues(observations)
            BY <4>3 DEF Verdict, StoredValues
          <5>3. job[s].supersedes = Supersedes(observations, job[s].value)
            BY <2>1, <3>3 DEF CheckObservation
          <5>4. None \notin StoredValues(observations)
            <6>1. \A i \in DOMAIN observations : observations[i].value \in Values
              <7>1. \A i \in DOMAIN observations : observations[i] \in Observations
                BY <2>5
              <7> QED
                BY <7>1 DEF Observations
            <6> QED
              BY <6>1, StoresAssumption DEF StoredValues, Elements
          <5>5. job[s].supersedes = IF observations = <<>> THEN None
                                    ELSE LatestSamePoint(observations).value
            <6>1. CASE observations = <<>>
              BY <5>3, <6>1 DEF Supersedes
            <6>2. CASE observations # <<>>
              <7>1. observations[1] \in Elements(observations)
                <8>1. 1 \in DOMAIN observations
                  BY <2>5, <6>2
                <8> QED
                  BY <8>1 DEF Elements
              <7>2. job[s].supersedes # None
                BY <5>2, <5>4, <7>1 DEF StoredValues
              <7> QED
                BY <5>3, <6>2, <7>2 DEF Supersedes
            <6> QED
              BY <6>1, <6>2
          <5> QED
            BY <2>6, <3>1, <5>1, <5>2, <5>5 DEF At
        <4>4. Abort(s) => job'[s] = Idle
          BY <2>5 DEF Abort
        <4> QED
          BY <3>3, <4>1, <4>2, <4>3, <4>4 DEF CheckObservation
      <3>4. CASE CheckEvent(s)
        <4>1. CASE Goto(s, "done")
          <5>1. job'[s].pc = "done"
            BY <1>1, <2>5, <4>1 DEF Goto, CollectJobs
          <5> QED
            BY <3>1, <5>1 DEF At
        <4>2. CASE Goto(s, "log") /\ [value |-> job[s].value, at |-> job[s].at] \notin Elements(events)
          <5>1. /\ job'[s].pc = "log" /\ job'[s].value = job[s].value /\ job'[s].at = job[s].at
            BY <1>1, <2>5, <4>2 DEF Goto, CollectJobs
          <5> QED
            BY <2>6, <3>1, <4>2, <5>1 DEF At
        <4>3. Abort(s) => job'[s] = Idle
          BY <2>5 DEF Abort
        <4> QED
          BY <3>4, <3>6, <4>1, <4>2, <4>3 DEF CheckEvent
      <3>5. CASE WriteObservation(s) \/ WriteEvent(s)
        <4>1. Goto(s, "event") \/ Goto(s, "done")
          BY <3>5 DEF WriteObservation, WriteEvent
        <4>2. job'[s].pc \in {"event", "done"}
          BY <1>1, <2>5, <4>1 DEF Goto, CollectJobs
        <4> QED
          BY <3>1, <4>2 DEF At
      <3> QED
        BY <3>2, <3>3, <3>4, <3>5
    <2>7. CASE WriteObservation(s)
      <3> DEFINE line == [value |-> job[s].value, at |-> job[s].at,
                          supersedes |-> job[s].supersedes]
      <3>1. line \in Observations /\ line.value = job[s].value /\ line.supersedes = job[s].supersedes
        BY <1>1 DEF CollectJobs, Observations
      <3>2. observations' = Append(observations, line) /\ events' = events
        <4>1. Past(s, "observations")
          BY <2>7, KindsAndStages DEF WriteObservation, Past
        <4>2. "observations" \notin torn
          BY <4>1, KindsAndStages DEF LoneFragments
        <4> QED
          BY <2>7, <4>2 DEF WriteObservation, Appended
      <3>3. job'[s].pc = "event"
        BY <1>1, <2>5, <2>7 DEF WriteObservation, Goto, CollectJobs
      <3>4. /\ job[s].value \notin StoredValues(observations)
            /\ job[s].supersedes = IF observations = <<>> THEN None
                                    ELSE LatestSamePoint(observations).value
        BY <2>1, <2>7 DEF WriteObservation
      <3> HIDE DEF line
      <3>5. \A m, n \in DOMAIN observations' :
                observations'[m].value = observations'[n].value => m = n
        BY <2>1, <2>5, <3>1, <3>2, <3>4, FreshValue
      <3>6. RevisionsNameTheNewest'
        <4> SUFFICES ASSUME NEW i \in DOMAIN observations'
                     PROVE  IF i = 1 THEN observations'[i].supersedes = None
                            ELSE observations'[i].supersedes =
                                    LatestSamePoint(SubSeq(observations', 1, i - 1)).value
          BY DEF RevisionsNameTheNewest
        <4>1. CASE i \in DOMAIN observations
          <5>1. IF i = 1 THEN observations[i].supersedes = None
                ELSE observations[i].supersedes =
                        LatestSamePoint(SubSeq(observations, 1, i - 1)).value
            BY <2>1, <4>1 DEF RevisionsNameTheNewest
          <5>2. /\ observations'[i] = observations[i]
                /\ SubSeq(observations', 1, i - 1) = SubSeq(observations, 1, i - 1)
            BY <2>5, <3>1, <3>2, <4>1, AppendFacts, BeforeStays
          <5> QED
            BY <5>1, <5>2
        <4>2. CASE i \notin DOMAIN observations
          <5>1. /\ i = Len(observations) + 1 /\ observations'[i] = line
                /\ Len(observations) \in Nat
            BY <2>5, <3>1, <3>2, <4>2, AppendFacts
          <5>2. SubSeq(observations', 1, Len(observations)) = observations
            BY <2>5, <3>1, <3>2, BeforeStays
          <5>3. observations = <<>> <=> i = 1
            BY <2>5, <5>1
          <5>4. i - 1 = Len(observations)
            BY <5>1
          <5> QED
            BY <3>1, <3>4, <5>1, <5>2, <5>3, <5>4
        <4> QED
          BY <4>1, <4>2
      <3> QED
        BY <2>1, <3>2, <3>3, <3>5, <3>6 DEF At
    <2>8. CASE WriteEvent(s)
      <3> DEFINE event == [value |-> job[s].value, at |-> job[s].at]
      <3>1. event \in Answers
        BY <1>1 DEF CollectJobs, Answers
      <3>2. events' = Append(events, event) /\ observations' = observations
        <4>1. Past(s, "events")
          BY <2>8, KindsAndStages DEF WriteEvent, Past
        <4>2. "events" \notin torn
          BY <4>1, KindsAndStages DEF LoneFragments
        <4> QED
          BY <2>8, <4>2 DEF WriteEvent, Appended
      <3>3. job'[s].pc = "done"
        BY <1>1, <2>5, <2>8 DEF WriteEvent, Goto, CollectJobs
      <3>4. event \notin Elements(events)
        BY <2>1, <2>8 DEF WriteEvent
      <3> HIDE DEF event
      <3>5. \A m, n \in DOMAIN events' : events'[m] = events'[n] => m = n
        BY <2>1, <2>5, <3>1, <3>2, <3>4, FreshLine
      <3>6. RevisionsNameTheNewest'
        BY <2>1, <3>2 DEF RevisionsNameTheNewest
      <3> QED
        BY <2>1, <3>2, <3>3, <3>5, <3>6 DEF At
    <2> QED
      BY <2>6, <2>7, <2>8 DEF Mark, CheckObservation, CheckEvent
  <1> QED
    BY <1>2, <1>4, <1>5, <1>7

\* A lone import appends what it knows to be missing.
LEMMA SerialImport ==
    ASSUME AckedInv, SerialInv, NEW s \in Session, AppendFill(s) \/ EndImport(s)
    PROVE  SerialInv'
  <1> USE DEF SerialInv, AckedInv
  <1>1. /\ job[s] \in ImportJobs /\ InProgress(job[s])
        /\ OthersStay(s) /\ raced' = raced
        /\ UNCHANGED <<observations, events, resolutions, answers>>
        /\ job'[s].kind = "import"
    BY ImportMoves
  <1>2. job[s].kind = "import" /\ job[s].pc = "append"
    BY <1>1 DEF ImportJobs, AppendFill, EndImport, At
  <1>3. RacesAreKnown'
    BY <1>1, <1>2, RacesGo
  <1>4. SerialCollects' /\ SerialResolves'
    BY <1>1, CollectsElsewhere, ResolvesElsewhere
  <1>7. Past(s, "fills") /\ torn \subseteq Files
    BY <1>2, KindsAndStages DEF Past, At, Typed
  <1>8. \A file \in torn \ {"fills"} : ~Past(s, file)'
    BY <1>1, <1>7, KindsAndStages DEF Past, At, Files
  <1>5. CASE EndImport(s)
    <2>1. fills' = fills /\ job'[s].pc = "done" /\ UNCHANGED <<torn, spoiled>>
      BY <1>1, <1>5 DEF EndImport, Goto, ImportJobs, Typed, tails
    <2>2. LoneFragments'
      BY <1>1, <1>7, <1>8, <2>1, FragmentsStay
    <2> QED
      BY <1>1, <1>3, <1>4, <2>1, <2>2, ImportsElsewhere
  <1>6. CASE AppendFill(s)
    <2>8. UNCHANGED <<torn, spoiled>> \/ LineEnds("fills")
      BY <1>6 DEF AppendFill, tails
    <2>9. LoneFragments'
      BY <1>1, <1>7, <1>8, <2>8, FragmentsStay, FragmentsEnd
    <2> SUFFICES ASSUME "import" \notin raced
                 PROVE  /\ \A m, n \in DOMAIN fills' : fills'[m] = fills'[n] => m = n
                        /\ \A t \in Session :
                            At(t, "import", "append")' => Elements(fills') \subseteq job'[t].existing
      BY <1>1, <1>3, <1>4, <2>9 DEF SerialImports
    <2> DEFINE key == Head(job[s].todo)
    <2>1. /\ job[s].todo # <<>>
          /\ fills' = IF key \in job[s].existing THEN fills ELSE Append(fills, key)
          /\ job'[s].existing = job[s].existing \cup {key}
      <3>1. "fills" \notin torn
        BY <1>7, KindsAndStages DEF LoneFragments
      <3> QED
        BY <1>1, <1>6, <3>1 DEF AppendFill, Known, Appended, ImportJobs, Typed
    <2>2. key \in Keys /\ fills \in Seq(Keys)
      BY <1>1, <2>1, HeadAndTail DEF ImportJobs, Typed
    <2> HIDE DEF key
    <2>3. /\ \A m, n \in DOMAIN fills : fills[m] = fills[n] => m = n
          /\ Elements(fills) \subseteq job[s].existing
      BY <1>2 DEF SerialImports, At
    <2>5. \A m, n \in DOMAIN fills' : fills'[m] = fills'[n] => m = n
      BY <2>1, <2>2, <2>3, FreshLine
    <2>6. Elements(fills') \subseteq Elements(fills) \cup {key}
      BY <2>1, <2>2, ElementsAfter
    <2>7. ASSUME NEW t \in Session, At(t, "import", "append")'
          PROVE  t = s
      BY <1>1, <1>2, <2>7 DEF RacesAreKnown, OthersStay, At, InProgress
    <2> QED
      BY <2>1, <2>3, <2>5, <2>6, <2>7
  <1> QED
    BY <1>5, <1>6

\* A lone confirmation writes on the file it has checked.
LEMMA SerialResolve ==
    ASSUME AckedInv, SerialInv, NEW s \in Session, CheckResolution(s) \/ WriteResolution(s)
    PROVE  SerialInv'
  <1> USE DEF SerialInv, AckedInv
  <1>1. /\ job[s] \in ResolveJobs /\ InProgress(job[s])
        /\ OthersStay(s) /\ raced' = raced /\ UNCHANGED <<observations, events, fills, answers>>
        /\ \/ job'[s] = Idle
           \/ job'[s].kind = "resolve" /\ job'[s].record = job[s].record
    BY ResolveMoves
  <1>2. Idle.kind = "idle" /\ job[s].kind = "resolve" /\ job \in [Session -> Jobs]
    BY <1>1 DEF Idle, ResolveJobs, Typed
  <1>3. RacesAreKnown'
    BY <1>1, <1>2, RacesGo
  <1>4. SerialImports' /\ SerialCollects'
    BY <1>1, <1>2, ImportsElsewhere, CollectsElsewhere
  <1>7. \A file \in Files : Past(s, file)' =>
            file = "resolutions" /\ job'[s].kind = "resolve" /\ job'[s].pc = "write"
    BY <1>1, <1>2, KindsAndStages DEF Past, At, Files
  <1>8. torn \subseteq Files
    BY DEF Typed
  <1>9. (\A pc : Goto(s, pc) => job'[s].pc = pc) /\ (Abort(s) => job'[s].kind = "idle")
    BY <1>1, <1>2 DEF Goto, Abort, ResolveJobs
  <1>5. CASE CheckResolution(s)
    <2>5. LoneFragments'
      <3>1. Abort(s) \/ Goto(s, "done") \/ (Goto(s, "write") /\ "resolutions" \notin torn)
        BY <1>5 DEF CheckResolution, Readable
      <3>2. UNCHANGED <<torn, spoiled>>
        BY <1>5 DEF CheckResolution, tails
      <3>3. \A file \in torn : ~Past(s, file)'
        BY <1>7, <1>8, <1>9, <3>1
      <3> QED
        BY <1>1, <3>2, <3>3, FragmentsStay
    <2>1. resolutions' = resolutions
      BY <1>5 DEF CheckResolution
    <2>2. CASE Goto(s, "done")
      <3>1. job'[s].pc = "done"
        BY <1>1, <1>2, <2>2 DEF Goto, ResolveJobs
      <3> QED
        BY <1>1, <1>3, <1>4, <2>1, <2>5, <3>1, ResolvesElsewhere
    <2>3. CASE Abort(s)
      <3>1. job'[s] = Idle
        BY <1>2, <2>3 DEF Abort
      <3> QED
        BY <1>1, <1>2, <1>3, <1>4, <2>1, <2>5, <3>1, ResolvesElsewhere
    <2>4. CASE ~Taken(resolutions, job[s].record) /\ Goto(s, "write")
      <3>1. job'[s].record = job[s].record
        BY <1>1, <1>2, <2>4 DEF Goto, ResolveJobs
      <3>2. SerialResolves'
        BY <1>1, <2>1, <2>4, <3>1 DEF SerialResolves, OthersStay, At
      <3> QED
        BY <1>3, <1>4, <2>5, <3>2
    <2> QED
      BY <1>5, <2>2, <2>3, <2>4 DEF CheckResolution
  <1>6. CASE WriteResolution(s)
    <2>5. /\ Past(s, "resolutions") /\ LineEnds("resolutions") /\ Goto(s, "done")
          /\ job[s].pc = "write"
      BY <1>6, KindsAndStages DEF WriteResolution, Past, At
    <2>6. LoneFragments'
      <3>1. \A file \in torn : ~Past(s, file)'
        BY <1>7, <1>8, <1>9, <2>5
      <3> QED
        BY <1>1, <2>5, <3>1, FragmentsEnd
    <2>1. "resolve" \notin raced => resolutions' = Append(resolutions, job[s].record)
      <3>1. "resolve" \notin raced => "resolutions" \notin torn
        BY <2>5, KindsAndStages DEF LoneFragments
      <3> QED
        BY <1>6, <3>1 DEF WriteResolution, Appended
    <2>2. job'[s].pc = "done"
      BY <1>1, <1>2, <1>6 DEF WriteResolution, Goto, ResolveJobs
    <2>3. ASSUME "resolve" \notin raced
          PROVE  /\ \A m, n \in DOMAIN resolutions' :
                        resolutions'[m].snapshot = resolutions'[n].snapshot => m = n
                 /\ \A t \in Session : ~At(t, "resolve", "write")'
      <3>1. /\ \A m, n \in DOMAIN resolutions :
                    resolutions[m].snapshot = resolutions[n].snapshot => m = n
            /\ ~Taken(resolutions, job[s].record)
        BY <1>2, <2>3, <2>5 DEF SerialResolves, At
      <3>2. resolutions \in Seq(Resolutions) /\ job[s].record \in Resolutions
        BY <1>1 DEF Typed, ResolveJobs
      <3>3. \A m, n \in DOMAIN resolutions' :
                resolutions'[m].snapshot = resolutions'[n].snapshot => m = n
        BY <2>1, <2>3, <3>1, <3>2, FreshSnapshot
      <3>4. ASSUME NEW t \in Session, At(t, "resolve", "write")'
            PROVE  t = s
        BY <1>1, <1>2, <2>3, <3>4 DEF RacesAreKnown, OthersStay, At, InProgress
      <3> QED
        BY <2>2, <3>3, <3>4 DEF At
    <2>4. SerialResolves'
      BY <1>1, <2>3 DEF SerialResolves
    <2> QED
      BY <1>3, <1>4, <2>4, <2>6
  <1> QED
    BY <1>5, <1>6

\* A crash keeps what holds of lone jobs.
LEMMA SerialCrash ==
    ASSUME AckedInv, SerialInv, NEW s \in Session, Crash(s) \/ TornWrite(s)
    PROVE  SerialInv'
  <1> USE DEF SerialInv, AckedInv
  <1>1. /\ job'[s] = Idle /\ OthersStay(s) /\ raced' = raced
        /\ UNCHANGED <<observations, events, fills, resolutions, answers>>
    BY CrashMoves
  <1>2. Idle.kind = "idle"
    BY DEF Idle
  <1>3. torn \subseteq Files
    BY DEF Typed
  <1>4. \A file \in torn : ~Past(s, file)'
    BY <1>1, <1>2, <1>3, KindsAndStages DEF Past, At, Files
  <1>5. CASE Crash(s)
    <2>1. UNCHANGED <<torn, spoiled>>
      BY <1>5 DEF Crash, tails
    <2> QED
      BY <1>1, <1>2, <1>4, <2>1, RacesGo, FragmentsStay, ImportsElsewhere, CollectsElsewhere,
         ResolvesElsewhere
  <1>6. CASE TornWrite(s)
    <2>1. PICK file \in Files : Writing(s, file) /\ torn' = torn \cup {file}
      BY <1>6 DEF TornWrite
    <2>2. Past(s, file) /\ spoiled' = spoiled
      BY <1>6, <2>1, KindsAndStages DEF TornWrite, Writing, Past
    <2>3. LoneFragments'
      BY <1>1, <1>3, <2>1, <2>2, FragmentsTear
    <2> QED
      BY <1>1, <1>2, <2>3, RacesGo, ImportsElsewhere, CollectsElsewhere, ResolvesElsewhere
  <1> QED
    BY <1>5, <1>6

\* Nothing races at first.
LEMMA SerialInit == Init => SerialInv
  BY DEF Init, SerialInv, RacesAreKnown, LoneFragments, SerialImports, SerialCollects, SerialResolves,
         RevisionsNameTheNewest, InProgress, At, Idle

\* Every step keeps what holds of lone jobs.
LEMMA SerialStep == AckedInv /\ SerialInv /\ [Next]_vars => SerialInv'
  <1> SUFFICES ASSUME AckedInv, SerialInv, [Next]_vars PROVE SerialInv'
    OBVIOUS
  <1>1. CASE UNCHANGED vars
    BY <1>1 DEF vars, SerialInv, RacesAreKnown, LoneFragments, Past, SerialImports,
                SerialCollects, SerialResolves, RevisionsNameTheNewest, At
  <1>2. CASE Next
    <2>1. PICK s \in Session :
            \/ \E v \in Values : Collect(s, v)
            \/ \E a \in answers : Resubmit(s, a)
            \/ \E page \in Pages : Import(s, page)
            \/ \E r \in Resolutions : Resolve(s, r)
            \/ Mark(s) \/ CheckObservation(s) \/ WriteObservation(s)
            \/ CheckEvent(s) \/ WriteEvent(s)
            \/ AppendFill(s) \/ EndImport(s)
            \/ CheckResolution(s) \/ WriteResolution(s)
            \/ Crash(s) \/ TornWrite(s)
      BY <1>2 DEF Next
    <2> QED
      BY <2>1, SerialStart, SerialCollect, SerialImport, SerialResolve, SerialCrash
  <1> QED
    BY <1>1, <1>2

\* Copies are written by racing sessions only.
LEMMA SerialHolds == Spec => []SerialInv
  BY AckedHolds, SerialInit, SerialStep, PTL DEF Spec

\* A file that can be read misses nothing that was acknowledged, and no event
\* lacks its observation, under kills, torn writes, refusals, repeated results
\* and races; only a race can make a fragment swallow an acknowledged record.
THEOREM StoresHold == Spec => []StoresInvariant
  <1>1. AckedInv /\ SerialInv => StoresInvariant
    <2> SUFFICES ASSUME AckedInv, SerialInv PROVE StoresInvariant
      OBVIOUS
    <2>1. ASSUME NEW s \in Session
          PROVE  /\ job[s] \in Jobs
                 /\ ProgressOf(job[s], observations, events, fills, resolutions, spoiled)
      BY DEF AckedInv, Typed, Progress
    <2>2. TypeOK
      <3>1. ASSUME NEW s \in Session
            PROVE  /\ job[s].kind \in {"idle", "collect", "import", "resolve"}
                   /\ job[s].kind = "collect" => job[s].supersedes \in Values \cup {None}
        BY <2>1, JobKinds DEF CollectJobs
      <3> QED
        BY <3>1 DEF AckedInv, Typed, TypeOK
    <2>3. AckedIsStored
      <3> SUFFICES ASSUME NEW s \in Session
                   PROVE  /\ At(s, "collect", "done") =>
                            /\ \/ "observations" \in spoiled
                               \/ \E o \in Elements(observations) : o.value = job[s].value
                            /\ \/ "events" \in spoiled
                               \/ [value |-> job[s].value, at |-> job[s].at] \in Elements(events)
                          /\ At(s, "import", "done") =>
                                \/ "fills" \in spoiled
                                \/ Elements(job[s].page) \subseteq Elements(fills)
                          /\ At(s, "resolve", "done") =>
                                \/ "resolutions" \in spoiled
                                \/ job[s].record \in Elements(resolutions)
        BY DEF AckedIsStored
      <3>1. Elements(<<>>) = {}
        BY DEF Elements
      <3>2. At(s, "collect", "done") /\ "observations" \notin spoiled =>
                job[s].value \in StoredValues(observations)
        BY <2>1, JobKinds DEF At, ProgressOf
      <3>3. At(s, "import", "done") /\ "fills" \notin spoiled =>
                Elements(job[s].page) \subseteq Elements(fills)
        BY <2>1, <3>1, JobKinds DEF At, ProgressOf
      <3> QED
        BY <2>1, <3>2, <3>3, JobKinds DEF At, ProgressOf, StoredValues
    <2>4. LossNeedsRaces
      BY KindsAndStages DEF SerialInv, LoneFragments, LossNeedsRaces
    <2> QED
      BY <2>2, <2>3, <2>4 DEF StoresInvariant, AckedInv
  <1> QED
    BY <1>1, AckedHolds, SerialHolds, PTL

\* Without a race each line of a metric point supersedes the newest fetch before
\* it, whatever was killed or repeated, and two lines supersede the same one only
\* after a result handed in late.
THEOREM RevisionsForkOnlyLate == Spec => []RevisionsInvariant
  <1>1. SerialInv => RevisionsNameTheNewest
    BY DEF SerialInv, SerialCollects, RevisionsNameTheNewest
  <1>2. AckedInv /\ SerialInv => ForksNeedLateResults
    <2> SUFFICES ASSUME AckedInv, SerialInv, "collect" \notin raced,
                        NEW i \in DOMAIN observations, NEW j \in DOMAIN observations,
                        i # 1, i < j, observations[i].supersedes = observations[j].supersedes
                 PROVE  \E m \in 1 .. i - 1 :
                            /\ observations[m].value = observations[i].supersedes
                            /\ observations[i].at <= observations[m].at
      BY DEF ForksNeedLateResults
    <2>1. /\ observations \in Seq(Observations)
          /\ DOMAIN observations = 1 .. Len(observations) /\ Len(observations) \in Nat
          /\ \A m, n \in DOMAIN observations : observations[m].value = observations[n].value => m = n
          /\ \A n \in DOMAIN observations : n # 1 =>
                observations[n].supersedes = LatestSamePoint(SubSeq(observations, 1, n - 1)).value
      BY DEF AckedInv, Typed, SerialInv, SerialCollects, RevisionsNameTheNewest
    <2>2. ASSUME NEW n \in DOMAIN observations, n # 1
          PROVE  \E m \in 1 .. n - 1 :
                    /\ observations[m].value = observations[n].supersedes
                    /\ \A k \in 1 .. n - 1 : observations[k].at <= observations[m].at
      <3> DEFINE before == SubSeq(observations, 1, n - 1)
      <3>1. /\ before \in Seq(Observations) /\ Len(before) = n - 1
            /\ \A k \in 1 .. n - 1 : before[k] = observations[k]
        <4>1. n - 1 \in Int /\ 1 \in Int /\ n - 1 \in Nat
              /\ \A k \in 1 .. n - 1 : observations[k] \in Observations
          BY <2>1
        <4> QED
          BY <4>1, SubSeqProperties
      <3>2. before # <<>> /\ DOMAIN before = 1 .. n - 1
        BY <2>1, <2>2, <3>1
      <3>3. observations[n].supersedes = LatestSamePoint(before).value
        BY <2>1, <2>2
      <3> HIDE DEF before
      <3>4. PICK m \in DOMAIN before :
                /\ LatestSamePoint(before) = before[m]
                /\ \A k \in DOMAIN before : before[k].at <= before[m].at
        BY <3>1, <3>2, LatestIsALine
      <3> QED
        BY <3>1, <3>2, <3>3, <3>4
    <2>3. j # 1 /\ i \in 1 .. j - 1
      BY <2>1
    <2>4. PICK m \in 1 .. j - 1 :
                /\ observations[m].value = observations[j].supersedes
                /\ \A k \in 1 .. j - 1 : observations[k].at <= observations[m].at
      BY <2>2, <2>3
    <2>5. PICK p \in 1 .. i - 1 : observations[p].value = observations[i].supersedes
      BY <2>2
    <2>6. m \in DOMAIN observations /\ p \in DOMAIN observations
      BY <2>1, <2>4, <2>5
    <2>7. p = m
      BY <2>1, <2>4, <2>5, <2>6
    <2> QED
      BY <2>3, <2>4, <2>5, <2>7
  <1> QED
    BY <1>1, <1>2, AckedHolds, SerialHolds, PTL DEF RevisionsInvariant

-----------------------------------------------------------------------------
(* Stores that sessions raced for.                                         *)

\* The lines of a key, and the sessions that may still write one: those that
\* read the file before the key was in it.
FillLines(k) == {i \in DOMAIN fills : fills[i] = k}
FillWriters(k) == {s \in Session : At(s, "import", "append") /\ k \notin job[s].existing}

ValueLines(v) == {i \in DOMAIN observations : observations[i].value = v}
ValueWriters(v) == {s \in Session : At(s, "collect", "write") /\ job[s].value = v}

SnapshotLines(p) == {i \in DOMAIN resolutions : resolutions[i].snapshot = p}
SnapshotWriters(p) == {s \in Session : At(s, "resolve", "write") /\ job[s].record.snapshot = p}

\* Lines written and lines that may come are no more than the sessions.
Within(lines, writers) ==
    /\ IsFiniteSet(lines)
    /\ Cardinality(lines) + Cardinality(writers) <= Cardinality(Session)

FillsBounded == \A k \in Keys : Within(FillLines(k), FillWriters(k))
ValuesBounded == \A v \in Values : Within(ValueLines(v), ValueWriters(v))
SnapshotsBounded ==
    \A r \in Resolutions : Within(SnapshotLines(r.snapshot), SnapshotWriters(r.snapshot))

BoundedInv == FillsBounded /\ ValuesBounded /\ SnapshotsBounded

\* Nothing written yet: anybody may write.
LEMMA WithinNone ==
    ASSUME NEW writers \in SUBSET Session
    PROVE  Within({}, writers)
  <1>1. IsFiniteSet(Session)
    BY StoresAssumption
  <1>2. Cardinality(writers) <= Cardinality(Session) /\ IsFiniteSet(writers)
    BY <1>1, FS_Subset
  <1>3. Cardinality(writers) \in Nat /\ Cardinality(Session) \in Nat
    BY <1>1, <1>2, FS_CardinalityType
  <1>4. Cardinality({}) = 0 /\ IsFiniteSet({})
    BY FS_EmptySet
  <1> QED
    BY <1>2, <1>3, <1>4 DEF Within

\* Writers that give up leave room.
LEMMA WithinFewer ==
    ASSUME NEW lines, NEW writers \in SUBSET Session, NEW fewer \in SUBSET writers,
           Within(lines, writers)
    PROVE  Within(lines, fewer)
  <1>1. IsFiniteSet(Session) /\ IsFiniteSet(lines)
    BY StoresAssumption DEF Within
  <1>2. IsFiniteSet(writers)
    BY <1>1, FS_Subset
  <1>3. Cardinality(fewer) <= Cardinality(writers) /\ IsFiniteSet(fewer)
    BY <1>2, FS_Subset
  <1>4. /\ Cardinality(writers) \in Nat /\ Cardinality(fewer) \in Nat
        /\ Cardinality(Session) \in Nat /\ Cardinality(lines) \in Nat
    BY <1>1, <1>2, <1>3, FS_CardinalityType
  <1> QED
    BY <1>3, <1>4 DEF Within

\* A writer that writes is one no more.
LEMMA WithinWrite ==
    ASSUME NEW lines, NEW writers \in SUBSET Session, NEW s \in writers, NEW n,
           NEW fewer \in SUBSET (writers \ {s}), Within(lines, writers)
    PROVE  Within(lines \cup {n}, fewer)
  <1>1. IsFiniteSet(Session) /\ IsFiniteSet(lines)
    BY StoresAssumption DEF Within
  <1>2. IsFiniteSet(writers)
    BY <1>1, FS_Subset
  <1>3. /\ IsFiniteSet(writers \ {s})
        /\ Cardinality(writers \ {s}) = Cardinality(writers) - 1
    BY <1>2, FS_RemoveElement
  <1>4. Cardinality(fewer) <= Cardinality(writers \ {s}) /\ IsFiniteSet(fewer)
    BY <1>3, FS_Subset
  <1>5. /\ IsFiniteSet(lines \cup {n})
        /\ Cardinality(lines \cup {n}) =
                IF n \in lines THEN Cardinality(lines) ELSE Cardinality(lines) + 1
    BY <1>1, FS_AddElement
  <1>6. /\ Cardinality(writers) \in Nat /\ Cardinality(fewer) \in Nat
        /\ Cardinality(Session) \in Nat /\ Cardinality(lines) \in Nat
    BY <1>1, <1>2, <1>4, FS_CardinalityType
  <1>7. Cardinality(lines) + Cardinality(writers) <= Cardinality(Session)
    BY DEF Within
  <1>8. Cardinality(lines \cup {n}) <= Cardinality(lines) + 1
        /\ Cardinality(lines \cup {n}) \in Nat
    BY <1>5, <1>6
  <1> QED
    BY <1>3, <1>4, <1>5, <1>6, <1>7, <1>8 DEF Within

\* A session that does nothing to a store, or leaves it, writes no line.
LEMMA FillsElsewhere ==
    ASSUME FillsBounded, NEW s \in Session, OthersStay(s), fills' = fills,
           ~(job'[s].kind = "import" /\ job'[s].pc = "append")
    PROVE  FillsBounded'
  <1> SUFFICES ASSUME NEW k \in Keys PROVE Within(FillLines(k)', FillWriters(k)')
    BY DEF FillsBounded, Within
  <1>1. FillLines(k)' = FillLines(k) /\ FillWriters(k)' \subseteq FillWriters(k)
    BY DEF FillLines, FillWriters, OthersStay, At
  <1>2. FillWriters(k) \subseteq Session /\ Within(FillLines(k), FillWriters(k))
    BY DEF FillWriters, FillsBounded
  <1> QED
    BY <1>1, <1>2, WithinFewer

\* The bound on copies of a value is not touched by other work.
LEMMA ValuesElsewhere ==
    ASSUME ValuesBounded, NEW s \in Session, OthersStay(s), observations' = observations,
           ~(job'[s].kind = "collect" /\ job'[s].pc = "write")
    PROVE  ValuesBounded'
  <1> SUFFICES ASSUME NEW v \in Values PROVE Within(ValueLines(v)', ValueWriters(v)')
    BY DEF ValuesBounded, Within
  <1>1. ValueLines(v)' = ValueLines(v) /\ ValueWriters(v)' \subseteq ValueWriters(v)
    BY DEF ValueLines, ValueWriters, OthersStay, At
  <1>2. ValueWriters(v) \subseteq Session /\ Within(ValueLines(v), ValueWriters(v))
    BY DEF ValueWriters, ValuesBounded
  <1> QED
    BY <1>1, <1>2, WithinFewer

\* The bound on copies of a resolution is not touched by other work.
LEMMA SnapshotsElsewhere ==
    ASSUME SnapshotsBounded, NEW s \in Session, OthersStay(s), resolutions' = resolutions,
           ~(job'[s].kind = "resolve" /\ job'[s].pc = "write")
    PROVE  SnapshotsBounded'
  <1> SUFFICES ASSUME NEW r \in Resolutions
               PROVE  Within(SnapshotLines(r.snapshot)', SnapshotWriters(r.snapshot)')
    BY DEF SnapshotsBounded, Within
  <1>1. /\ SnapshotLines(r.snapshot)' = SnapshotLines(r.snapshot)
        /\ SnapshotWriters(r.snapshot)' \subseteq SnapshotWriters(r.snapshot)
    BY DEF SnapshotLines, SnapshotWriters, OthersStay, At
  <1>2. /\ SnapshotWriters(r.snapshot) \subseteq Session
        /\ Within(SnapshotLines(r.snapshot), SnapshotWriters(r.snapshot))
    BY DEF SnapshotWriters, SnapshotsBounded
  <1> QED
    BY <1>1, <1>2, WithinFewer

\* An import that begins misses no key the file has.
LEMMA BoundedStart ==
    ASSUME AckedInv, BoundedInv, NEW s \in Session,
           \/ \E v \in Values : Collect(s, v)
           \/ \E a \in answers : Resubmit(s, a)
           \/ \E page \in Pages : Import(s, page)
           \/ \E r \in Resolutions : Resolve(s, r)
    PROVE  BoundedInv'
  <1> USE DEF BoundedInv, AckedInv
  <1>1. ASSUME NEW a, Persist(s, a)
        PROVE  BoundedInv'
    <2> DEFINE j == [kind |-> "collect", pc |-> "mark", value |-> a.value,
                     at |-> a.at, supersedes |-> None]
    <2>1. /\ Start(s, "collect", j) /\ j.kind = "collect" /\ j.pc = "mark"
          /\ UNCHANGED <<observations, events, fills, resolutions>>
      BY <1>1 DEF Persist
    <2> HIDE DEF j
    <2>2. job'[s] = j /\ OthersStay(s)
      BY <2>1, StartMoves
    <2> QED
      BY <2>1, <2>2, FillsElsewhere, ValuesElsewhere, SnapshotsElsewhere
  <1>2. ASSUME NEW page \in Pages, Import(s, page)
        PROVE  BoundedInv'
    <2> DEFINE j == [kind |-> "import", pc |-> "append", page |-> page,
                     todo |-> page, existing |-> Elements(fills)]
    <2>1. /\ Start(s, "import", j) /\ j.kind = "import" /\ j.existing = Elements(fills)
          /\ UNCHANGED <<observations, events, fills, resolutions, answers>>
      BY <1>2 DEF Import
    <2> HIDE DEF j
    <2>2. job'[s] = j /\ OthersStay(s)
      BY <2>1, StartMoves
    <2>3. ASSUME NEW k \in Keys
          PROVE  Within(FillLines(k)', FillWriters(k)')
      <3>1. FillLines(k)' = FillLines(k) /\ FillWriters(k)' \subseteq Session
        BY <2>1 DEF FillLines, FillWriters
      <3>2. CASE FillLines(k) = {}
        BY <3>1, <3>2, WithinNone
      <3>3. CASE FillLines(k) # {}
        <4>1. k \in j.existing
          BY <2>1, <3>3 DEF FillLines, Elements
        <4>2. FillWriters(k)' \subseteq FillWriters(k) /\ FillWriters(k) \subseteq Session
          BY <2>2, <4>1 DEF FillWriters, OthersStay, At
        <4>3. Within(FillLines(k), FillWriters(k))
          BY DEF FillsBounded
        <4> QED
          BY <3>1, <4>2, <4>3, WithinFewer
      <3> QED
        BY <3>2, <3>3
    <2>4. FillsBounded'
      BY <2>3 DEF FillsBounded, Within
    <2> QED
      BY <2>1, <2>2, <2>4, ValuesElsewhere, SnapshotsElsewhere
  <1>3. ASSUME NEW r \in Resolutions, Resolve(s, r)
        PROVE  BoundedInv'
    <2> DEFINE j == [kind |-> "resolve", pc |-> "check", record |-> r]
    <2>1. /\ Start(s, "resolve", j) /\ j.kind = "resolve" /\ j.pc = "check"
          /\ UNCHANGED <<observations, events, fills, resolutions, answers>>
      BY <1>3 DEF Resolve
    <2> HIDE DEF j
    <2>2. job'[s] = j /\ OthersStay(s)
      BY <2>1, StartMoves
    <2> QED
      BY <2>1, <2>2, FillsElsewhere, ValuesElsewhere, SnapshotsElsewhere
  <1> QED
    BY <1>1, <1>2, <1>3 DEF Collect, Resubmit

\* A collector is about to write a value only if it found none.
LEMMA BoundedCollect ==
    ASSUME AckedInv, BoundedInv, NEW s \in Session,
           \/ Mark(s) \/ CheckObservation(s) \/ WriteObservation(s)
           \/ CheckEvent(s) \/ WriteEvent(s)
    PROVE  BoundedInv'
  <1> USE DEF BoundedInv, AckedInv
  <1>1. /\ job[s] \in CollectJobs
        /\ OthersStay(s) /\ UNCHANGED <<fills, resolutions>>
        /\ \/ job'[s] = Idle
           \/ /\ job'[s].kind = "collect" /\ job'[s].value = job[s].value
    BY CollectMoves
  <1>2. /\ Idle.kind = "idle" /\ job[s].kind = "collect" /\ job[s].value \in Values
        /\ job \in [Session -> Jobs]
    BY <1>1 DEF Idle, CollectJobs, Typed
  <1>3. FillsBounded' /\ SnapshotsBounded'
    BY <1>1, <1>2, FillsElsewhere, SnapshotsElsewhere
  <1>4. CASE CheckObservation(s)
    <2>1. observations' = observations
      BY <1>4 DEF CheckObservation
    <2>2. CASE Goto(s, "event") \/ Abort(s)
      <3>1. job'[s] = Idle \/ job'[s].pc = "event"
        BY <1>1, <1>2, <2>2 DEF Goto, Abort, CollectJobs
      <3> QED
        BY <1>1, <1>2, <1>3, <2>1, <3>1, ValuesElsewhere
    <2>3. CASE Verdict(observations, job[s].value, job[s].supersedes) = "new"
      <3> SUFFICES ASSUME NEW v \in Values PROVE Within(ValueLines(v)', ValueWriters(v)')
        BY <1>3 DEF ValuesBounded, Within
      <3>1. job[s].value \notin StoredValues(observations)
        BY <2>3 DEF Verdict, StoredValues
      <3>2. ValueLines(v)' = ValueLines(v) /\ ValueWriters(v)' \subseteq Session
        BY <2>1 DEF ValueLines, ValueWriters
      <3>3. CASE v = job[s].value
        <4>1. ValueLines(v) = {}
          BY <3>1, <3>3 DEF ValueLines, StoredValues, Elements
        <4> QED
          BY <3>2, <4>1, WithinNone
      <3>4. CASE v # job[s].value
        <4>1. ValueWriters(v)' \subseteq ValueWriters(v) /\ ValueWriters(v) \subseteq Session
          BY <1>1, <1>2, <3>4 DEF ValueWriters, OthersStay, At
        <4>2. Within(ValueLines(v), ValueWriters(v))
          BY DEF ValuesBounded
        <4> QED
          BY <3>2, <4>1, <4>2, WithinFewer
      <3> QED
        BY <3>3, <3>4
    <2> QED
      BY <1>4, <2>2, <2>3 DEF CheckObservation
  <1>5. CASE WriteObservation(s)
    <2> SUFFICES ASSUME NEW v \in Values PROVE Within(ValueLines(v)', ValueWriters(v)')
      BY <1>3 DEF ValuesBounded, Within
    <2> DEFINE line == [value |-> job[s].value, at |-> job[s].at,
                        supersedes |-> job[s].supersedes]
               n == Len(observations) + 1
    <2>1. line \in Observations /\ line.value = job[s].value
      BY <1>1 DEF CollectJobs, Observations
    <2>2. /\ observations' = observations \/ observations' = Append(observations, line)
          /\ job[s].pc = "write"
      BY <1>5 DEF WriteObservation, At, Appended
    <2>3. job'[s].pc = "event"
      BY <1>1, <1>2, <1>5 DEF WriteObservation, Goto, CollectJobs
    <2> HIDE DEF line
    <2>9. CASE observations' = observations
      BY <1>1, <1>3, <2>3, <2>9, ValuesElsewhere DEF ValuesBounded, Within
    <2> SUFFICES ASSUME observations' = Append(observations, line)
                 PROVE  Within(ValueLines(v)', ValueWriters(v)')
      BY <2>2, <2>9
    <2>4. /\ DOMAIN observations' = DOMAIN observations \cup {n}
          /\ \A i \in DOMAIN observations : observations'[i] = observations[i]
          /\ observations'[n] = line /\ n \notin DOMAIN observations
      BY <2>1, <2>2, AppendFacts DEF Typed
    <2> HIDE DEF n
    <2>5. /\ ValueWriters(v)' \subseteq ValueWriters(v) \ {s}
          /\ ValueWriters(v) \subseteq Session
      BY <1>1, <2>3 DEF ValueWriters, OthersStay, At
    <2>6. Within(ValueLines(v), ValueWriters(v))
      BY DEF ValuesBounded
    <2>7. CASE v = job[s].value
      <3>1. ValueLines(v)' = ValueLines(v) \cup {n}
        BY <2>1, <2>4, <2>7 DEF ValueLines
      <3>2. s \in ValueWriters(v)
        BY <1>2, <2>2, <2>7 DEF ValueWriters, At
      <3>3. Within(ValueLines(v) \cup {n}, ValueWriters(v)')
        BY <2>5, <2>6, <3>2, WithinWrite, ZenonT(40)
      <3> QED
        BY <3>1, <3>3
    <2>8. CASE v # job[s].value
      <3>1. ValueLines(v)' = ValueLines(v)
        BY <2>1, <2>4, <2>8 DEF ValueLines
      <3> QED
        BY <2>5, <2>6, <3>1, WithinFewer
    <2> QED
      BY <2>7, <2>8
  <1>6. CASE Mark(s) \/ CheckEvent(s) \/ WriteEvent(s)
    <2>1. observations' = observations
      BY <1>6 DEF Mark, CheckEvent, WriteEvent
    <2>2. job'[s] = Idle \/ job'[s].pc \in {"check", "done", "log"}
      <3>1. Abort(s) => job'[s] = Idle
        BY <1>2 DEF Abort
      <3>2. Mark(s) /\ ~Abort(s) => job'[s].pc = "check"
        BY <1>1, <1>2 DEF Mark, CollectJobs
      <3>3. \A pc : Goto(s, pc) => job'[s].pc = pc
        BY <1>1, <1>2 DEF Goto, CollectJobs
      <3>4. Mark(s) \/ Abort(s) \/ Goto(s, "done") \/ Goto(s, "log")
        BY <1>6 DEF CheckEvent, WriteEvent
      <3> QED
        BY <3>1, <3>2, <3>3, <3>4
    <2> QED
      BY <1>1, <1>2, <1>3, <2>1, <2>2, ValuesElsewhere
  <1> QED
    BY <1>4, <1>5, <1>6

\* An import that has appended a key knows it.
LEMMA BoundedImport ==
    ASSUME AckedInv, BoundedInv, NEW s \in Session, AppendFill(s) \/ EndImport(s)
    PROVE  BoundedInv'
  <1> USE DEF BoundedInv, AckedInv
  <1>1. /\ job[s] \in ImportJobs
        /\ OthersStay(s) /\ UNCHANGED <<observations, resolutions>>
        /\ job'[s].kind = "import"
    BY ImportMoves
  <1>2. job[s].kind = "import" /\ job[s].pc = "append"
    BY <1>1 DEF ImportJobs, AppendFill, EndImport, At
  <1>3. ValuesBounded' /\ SnapshotsBounded'
    BY <1>1, ValuesElsewhere, SnapshotsElsewhere
  <1>4. CASE EndImport(s)
    <2>1. fills' = fills /\ job'[s].pc = "done"
      BY <1>1, <1>4 DEF EndImport, Goto, ImportJobs, Typed
    <2> QED
      BY <1>1, <1>3, <2>1, FillsElsewhere
  <1>5. CASE AppendFill(s)
    <2> SUFFICES ASSUME NEW k \in Keys PROVE Within(FillLines(k)', FillWriters(k)')
      BY <1>3 DEF FillsBounded, Within
    <2> DEFINE key == Head(job[s].todo)
               n == Len(fills) + 1
    <2>1. /\ job[s].todo # <<>>
          /\ \/ fills' = fills
             \/ key \notin job[s].existing /\ fills' = Append(fills, key)
          /\ job'[s].existing = job[s].existing \cup {key}
      BY <1>1, <1>5 DEF AppendFill, Appended, Known, ImportJobs, Typed
    <2>2. key \in Keys /\ fills \in Seq(Keys)
      BY <1>1, <2>1, HeadAndTail DEF ImportJobs, Typed
    <2> HIDE DEF key
    <2>3. Within(FillLines(k), FillWriters(k)) /\ FillWriters(k) \subseteq Session
      BY DEF FillsBounded, FillWriters
    <2>4. FillWriters(k)' \subseteq FillWriters(k)
      BY <1>1, <1>2, <2>1 DEF FillWriters, OthersStay, At
    <2>5. CASE fills' = fills
      <3>1. FillLines(k)' = FillLines(k)
        BY <2>5 DEF FillLines
      <3> QED
        BY <2>3, <2>4, <3>1, WithinFewer
    <2>6. CASE key \notin job[s].existing /\ fills' = Append(fills, key)
      <3>1. /\ DOMAIN fills' = DOMAIN fills \cup {n}
            /\ \A i \in DOMAIN fills : fills'[i] = fills[i]
            /\ fills'[n] = key
        BY <2>2, <2>6, AppendFacts
      <3> HIDE DEF n
      <3>2. CASE k = key
        <4>1. FillLines(k)' = FillLines(k) \cup {n}
          BY <3>1, <3>2 DEF FillLines
        <4>2. s \in FillWriters(k) /\ s \notin FillWriters(k)'
          BY <1>2, <2>1, <2>6, <3>2 DEF FillWriters, At
        <4>3. FillWriters(k)' \subseteq FillWriters(k) \ {s}
          BY <2>4, <4>2
        <4>4. Within(FillLines(k) \cup {n}, FillWriters(k)')
          BY <2>3, <4>2, <4>3, WithinWrite, ZenonT(40)
        <4> QED
          BY <4>1, <4>4
      <3>3. CASE k # key
        <4>1. FillLines(k)' = FillLines(k)
          BY <3>1, <3>3 DEF FillLines
        <4> QED
          BY <2>3, <2>4, <4>1, WithinFewer
      <3> QED
        BY <3>2, <3>3
    <2> QED
      BY <2>1, <2>5, <2>6
  <1> QED
    BY <1>4, <1>5

\* A confirmation is about to be written only if its snapshot had none.
LEMMA BoundedResolve ==
    ASSUME AckedInv, BoundedInv, NEW s \in Session, CheckResolution(s) \/ WriteResolution(s)
    PROVE  BoundedInv'
  <1> USE DEF BoundedInv, AckedInv
  <1>1. /\ job[s] \in ResolveJobs
        /\ OthersStay(s) /\ UNCHANGED <<observations, fills>>
        /\ \/ job'[s] = Idle
           \/ job'[s].kind = "resolve" /\ job'[s].record = job[s].record
    BY ResolveMoves
  <1>2. /\ Idle.kind = "idle" /\ job[s].kind = "resolve" /\ job[s].record \in Resolutions
        /\ job \in [Session -> Jobs]
    BY <1>1 DEF Idle, ResolveJobs, Typed
  <1>3. FillsBounded' /\ ValuesBounded'
    BY <1>1, <1>2, FillsElsewhere, ValuesElsewhere
  <1>4. CASE CheckResolution(s)
    <2>1. resolutions' = resolutions
      BY <1>4 DEF CheckResolution
    <2>2. CASE Goto(s, "done") \/ Abort(s)
      <3>1. job'[s] = Idle \/ job'[s].pc = "done"
        BY <1>1, <1>2, <2>2 DEF Goto, Abort, ResolveJobs
      <3> QED
        BY <1>1, <1>2, <1>3, <2>1, <3>1, SnapshotsElsewhere
    <2>3. CASE ~Taken(resolutions, job[s].record)
      <3> SUFFICES ASSUME NEW r \in Resolutions
                   PROVE  Within(SnapshotLines(r.snapshot)', SnapshotWriters(r.snapshot)')
        BY <1>3 DEF SnapshotsBounded, Within
      <3>1. /\ SnapshotLines(r.snapshot)' = SnapshotLines(r.snapshot)
            /\ SnapshotWriters(r.snapshot)' \subseteq Session
        BY <2>1 DEF SnapshotLines, SnapshotWriters
      <3>2. CASE r.snapshot = job[s].record.snapshot
        <4>1. SnapshotLines(r.snapshot) = {}
          BY <2>3, <3>2 DEF SnapshotLines, Taken, Elements
        <4> QED
          BY <3>1, <4>1, WithinNone
      <3>3. CASE r.snapshot # job[s].record.snapshot
        <4>1. /\ SnapshotWriters(r.snapshot)' \subseteq SnapshotWriters(r.snapshot)
              /\ SnapshotWriters(r.snapshot) \subseteq Session
          BY <1>1, <1>2, <3>3 DEF SnapshotWriters, OthersStay, At
        <4>2. Within(SnapshotLines(r.snapshot), SnapshotWriters(r.snapshot))
          BY DEF SnapshotsBounded
        <4> QED
          BY <3>1, <4>1, <4>2, WithinFewer
      <3> QED
        BY <3>2, <3>3
    <2> QED
      BY <1>4, <2>2, <2>3 DEF CheckResolution
  <1>5. CASE WriteResolution(s)
    <2> SUFFICES ASSUME NEW r \in Resolutions
                 PROVE  Within(SnapshotLines(r.snapshot)', SnapshotWriters(r.snapshot)')
      BY <1>3 DEF SnapshotsBounded, Within
    <2> DEFINE p == r.snapshot
               n == Len(resolutions) + 1
    <2>1. /\ \/ resolutions' = resolutions
             \/ resolutions' = Append(resolutions, job[s].record)
          /\ job[s].pc = "write"
      BY <1>5 DEF WriteResolution, At, Appended
    <2>2. job'[s].pc = "done"
      BY <1>1, <1>2, <1>5 DEF WriteResolution, Goto, ResolveJobs
    <2>7. CASE resolutions' = resolutions
      BY <1>1, <1>3, <2>2, <2>7, SnapshotsElsewhere DEF SnapshotsBounded, Within
    <2> SUFFICES ASSUME resolutions' = Append(resolutions, job[s].record)
                 PROVE  Within(SnapshotLines(r.snapshot)', SnapshotWriters(r.snapshot)')
      BY <2>1, <2>7
    <2>3. /\ DOMAIN resolutions' = DOMAIN resolutions \cup {n}
          /\ \A i \in DOMAIN resolutions : resolutions'[i] = resolutions[i]
          /\ resolutions'[n] = job[s].record
      BY <1>2, <2>1, AppendFacts DEF Typed
    <2>4. Within(SnapshotLines(p), SnapshotWriters(p))
      BY DEF SnapshotsBounded
    <2> HIDE DEF n, p
    <2>5. /\ SnapshotWriters(p)' \subseteq SnapshotWriters(p) \ {s}
          /\ SnapshotWriters(p) \subseteq Session
      BY <1>1, <2>2 DEF SnapshotWriters, OthersStay, At
    <2>6. Within(SnapshotLines(p)', SnapshotWriters(p)')
      <3>1. CASE p = job[s].record.snapshot
        <4>1. SnapshotLines(p)' = SnapshotLines(p) \cup {n}
          BY <2>3, <3>1 DEF SnapshotLines
        <4>2. s \in SnapshotWriters(p)
          BY <1>2, <2>1, <3>1 DEF SnapshotWriters, At
        <4>3. Within(SnapshotLines(p) \cup {n}, SnapshotWriters(p)')
          BY <2>4, <2>5, <4>2, WithinWrite, ZenonT(40)
        <4> QED
          BY <4>1, <4>3
      <3>2. CASE p # job[s].record.snapshot
        <4>1. SnapshotLines(p)' = SnapshotLines(p)
          BY <2>3, <3>2 DEF SnapshotLines
        <4> QED
          BY <2>4, <2>5, <4>1, WithinFewer
      <3> QED
        BY <3>1, <3>2
    <2> QED
      BY <2>6 DEF p
  <1> QED
    BY <1>4, <1>5

\* A crash keeps the bounds.
LEMMA BoundedCrash ==
    ASSUME AckedInv, BoundedInv, NEW s \in Session, Crash(s) \/ TornWrite(s)
    PROVE  BoundedInv'
  <1>1. /\ job'[s] = Idle /\ OthersStay(s)
        /\ UNCHANGED <<observations, events, fills, resolutions, answers>>
    BY CrashMoves DEF AckedInv
  <1>2. Idle.kind = "idle"
    BY DEF Idle
  <1> QED
    BY <1>1, <1>2, FillsElsewhere, ValuesElsewhere, SnapshotsElsewhere DEF BoundedInv

\* Empty files are within the bounds.
LEMMA BoundedInit == Init => BoundedInv
  <1> SUFFICES ASSUME Init PROVE BoundedInv
    OBVIOUS
  <1>1. /\ \A k \in Keys : FillLines(k) = {} /\ FillWriters(k) \subseteq Session
        /\ \A v \in Values : ValueLines(v) = {} /\ ValueWriters(v) \subseteq Session
        /\ \A r \in Resolutions : /\ SnapshotLines(r.snapshot) = {}
                                  /\ SnapshotWriters(r.snapshot) \subseteq Session
    BY DEF Init, FillLines, FillWriters, ValueLines, ValueWriters, SnapshotLines, SnapshotWriters
  <1> QED
    BY <1>1, WithinNone DEF BoundedInv, FillsBounded, ValuesBounded, SnapshotsBounded

\* Every step keeps the bounds.
LEMMA BoundedStep == AckedInv /\ BoundedInv /\ [Next]_vars => BoundedInv'
  <1> SUFFICES ASSUME AckedInv, BoundedInv, [Next]_vars PROVE BoundedInv'
    OBVIOUS
  <1>1. CASE UNCHANGED vars
    BY <1>1 DEF vars, BoundedInv, FillsBounded, ValuesBounded, SnapshotsBounded, Within, At,
                FillLines, FillWriters, ValueLines, ValueWriters, SnapshotLines, SnapshotWriters
  <1>2. CASE Next
    <2>1. PICK s \in Session :
            \/ \E v \in Values : Collect(s, v)
            \/ \E a \in answers : Resubmit(s, a)
            \/ \E page \in Pages : Import(s, page)
            \/ \E r \in Resolutions : Resolve(s, r)
            \/ Mark(s) \/ CheckObservation(s) \/ WriteObservation(s)
            \/ CheckEvent(s) \/ WriteEvent(s)
            \/ AppendFill(s) \/ EndImport(s)
            \/ CheckResolution(s) \/ WriteResolution(s)
            \/ Crash(s) \/ TornWrite(s)
      BY <1>2 DEF Next
    <2> QED
      BY <2>1, BoundedStart, BoundedCollect, BoundedImport, BoundedResolve, BoundedCrash
  <1> QED
    BY <1>1, <1>2

\* There are at most as many copies of a line as sessions.
LEMMA BoundedHolds == Spec => []BoundedInv
  BY AckedHolds, BoundedInit, BoundedStep, PTL DEF Spec

\* A set with one element that no other element differs from counts one.
LEMMA OnlyOne ==
    ASSUME NEW S, NEW x \in S, \A y \in S : y = x
    PROVE  Cardinality(S) = 1
  <1>1. S = {x}
    OBVIOUS
  <1> QED
    BY <1>1, FS_Singleton

\* What is there already is no writer's to come: the lines alone are within
\* the number of sessions.
LEMMA LinesWithin ==
    ASSUME NEW lines, NEW writers \in SUBSET Session, Within(lines, writers)
    PROVE  Cardinality(lines) <= Cardinality(Session)
  <1>1. IsFiniteSet(Session) /\ IsFiniteSet(writers)
    BY StoresAssumption, FS_Subset
  <1>2. /\ Cardinality(Session) \in Nat /\ Cardinality(writers) \in Nat
        /\ Cardinality(lines) \in Nat
    BY <1>1, FS_CardinalityType DEF Within
  <1> QED
    BY <1>2 DEF Within

\* Copies of a fill, a value or a confirmation are the work of sessions that
\* raced for the file, and there are never more of them than sessions.
THEOREM CopiesAlwaysNeedRaces == Spec => []CopiesNeedRaces
  <1>1. AckedInv /\ SerialInv => SerialStoresHaveNoCopies
    <2> SUFFICES ASSUME AckedInv, SerialInv PROVE SerialStoresHaveNoCopies
      OBVIOUS
    <2>1. ASSUME "import" \notin raced, NEW k \in Elements(fills)
          PROVE  Copies(fills, LAMBDA x : x = k) = 1
      <3>1. PICK n \in DOMAIN fills : fills[n] = k
        BY DEF Elements
      <3>2. \A m \in {i \in DOMAIN fills : fills[i] = k} : m = n
        BY <2>1, <3>1 DEF SerialInv, SerialImports
      <3> QED
        BY <3>1, <3>2, OnlyOne DEF Copies
    <2>2. ASSUME "collect" \notin raced, NEW o \in Elements(observations)
          PROVE  Copies(observations, LAMBDA x : x.value = o.value) = 1
      <3>1. PICK n \in DOMAIN observations : observations[n] = o
        BY DEF Elements
      <3>2. \A m \in {i \in DOMAIN observations : observations[i].value = o.value} : m = n
        BY <2>2, <3>1 DEF SerialInv, SerialCollects
      <3> QED
        BY <3>1, <3>2, OnlyOne DEF Copies
    <2>3. ASSUME "collect" \notin raced, NEW e \in Elements(events)
          PROVE  Copies(events, LAMBDA x : x = e) = 1
      <3>1. PICK n \in DOMAIN events : events[n] = e
        BY DEF Elements
      <3>2. \A m \in {i \in DOMAIN events : events[i] = e} : m = n
        BY <2>3, <3>1 DEF SerialInv, SerialCollects
      <3> QED
        BY <3>1, <3>2, OnlyOne DEF Copies
    <2>4. ASSUME "resolve" \notin raced, NEW r \in Elements(resolutions)
          PROVE  Copies(resolutions, LAMBDA x : x.snapshot = r.snapshot) = 1
      <3>1. PICK n \in DOMAIN resolutions : resolutions[n] = r
        BY DEF Elements
      <3>2. \A m \in {i \in DOMAIN resolutions : resolutions[i].snapshot = r.snapshot} : m = n
        BY <2>4, <3>1 DEF SerialInv, SerialResolves
      <3> QED
        BY <3>1, <3>2, OnlyOne DEF Copies
    <2> QED
      BY <2>1, <2>2, <2>3, <2>4 DEF SerialStoresHaveNoCopies
  <1>2. AckedInv /\ BoundedInv => CopiesBoundedBySessions
    <2> SUFFICES ASSUME AckedInv, BoundedInv PROVE CopiesBoundedBySessions
      OBVIOUS
    <2>1. ASSUME NEW k \in Elements(fills)
          PROVE  Copies(fills, LAMBDA x : x = k) <= Cardinality(Session)
      <3>1. k \in Keys
        BY DEF Elements, AckedInv, Typed
      <3>2. Within(FillLines(k), FillWriters(k)) /\ FillWriters(k) \subseteq Session
        BY <3>1 DEF BoundedInv, FillsBounded, FillWriters
      <3>3. Cardinality(FillLines(k)) <= Cardinality(Session)
        BY <3>2, LinesWithin
      <3> QED
        BY <3>3 DEF Copies, FillLines
    <2>2. ASSUME NEW r \in Elements(resolutions)
          PROVE  Copies(resolutions, LAMBDA x : x.snapshot = r.snapshot) <= Cardinality(Session)
      <3>1. r \in Resolutions
        BY DEF Elements, AckedInv, Typed
      <3>2. /\ Within(SnapshotLines(r.snapshot), SnapshotWriters(r.snapshot))
            /\ SnapshotWriters(r.snapshot) \subseteq Session
        BY <3>1 DEF BoundedInv, SnapshotsBounded, SnapshotWriters
      <3>3. Cardinality(SnapshotLines(r.snapshot)) <= Cardinality(Session)
        BY <3>2, LinesWithin
      <3> QED
        BY <3>3 DEF Copies, SnapshotLines
    <2>3. ASSUME NEW o \in Elements(observations)
          PROVE  Copies(observations, LAMBDA x : x.value = o.value) <= Cardinality(Session)
      <3>1. o \in Observations
        BY DEF Elements, AckedInv, Typed
      <3>2. o.value \in Values
        BY <3>1 DEF Observations
      <3>3. /\ Within(ValueLines(o.value), ValueWriters(o.value))
            /\ ValueWriters(o.value) \subseteq Session
        BY <3>2 DEF BoundedInv, ValuesBounded, ValueWriters
      <3>4. Cardinality(ValueLines(o.value)) <= Cardinality(Session)
        BY <3>3, LinesWithin
      <3> QED
        BY <3>4 DEF Copies, ValueLines
    <2> QED
      BY <2>1, <2>2, <2>3 DEF CopiesBoundedBySessions
  <1> QED
    BY <1>1, <1>2, AckedHolds, SerialHolds, BoundedHolds, PTL DEF CopiesNeedRaces

=============================================================================
